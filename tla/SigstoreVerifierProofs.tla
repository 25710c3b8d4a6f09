------------------------ MODULE SigstoreVerifierProofs ------------------------
(***************************************************************************)
(* Proofs about SigstoreVerifier, for any number of threads, roots and      *)
(* bundles.  The inductive invariant says of every thread what it knows     *)
(* after the checks it has made without the lock: a root it has taken is    *)
(* the trust model, a thread that uses the verifier has one, a thread that  *)
(* found a verifier when it began is on the short path to it, and every     *)
(* verdict so far is that of the one verifier there is.                     *)
(***************************************************************************)
EXTENDS SigstoreVerifier, TLAPS

RootsTaken == \A t \in Thread : root[t] # None => root[t] = trustModel

UsersHaveVerifier == \A t \in Thread : pc[t] = "use" => verifier # None

VerdictsOfVerifier ==
    /\ verdicts # {} => verifier # None
    /\ \A v \in verdicts : v[2] = VerdictOn(v[1], verifier)

ReadyOnShortPath ==
    \A t \in ready :
        /\ verifier # None
        /\ pc[t] \in {"parse", "check", "use", "done"}
        /\ outcome[t] # "unavailable"

OutcomesWhenDone == \A t \in Thread : pc[t] # "done" => outcome[t] = "none"

BundlesInHand == \A t \in Thread : pc[t] # "idle" => bundle[t] \in Bundle

IInv ==
    /\ TypeOK
    /\ BundlesInHand
    /\ OnlyHolderInLock
    /\ VerifierOfTrustModel
    /\ RootsTaken
    /\ UsersHaveVerifier
    /\ VerdictsOfVerifier
    /\ ReadyOnShortPath
    /\ OutcomesWhenDone

USE DEF Goto, Finish, Proceed, local, trust, history, Labels, InLock, Outcomes,
        Verdicts

\* The invariant holds when the process starts.
LEMMA InitIInv == Init => IInv
  BY VerifierAssumption
     DEF Init, IInv, TypeOK, OnlyHolderInLock, VerifierOfTrustModel, RootsTaken,
         UsersHaveVerifier, VerdictsOfVerifier, ReadyOnShortPath,
         OutcomesWhenDone, BundlesInHand

\* Every step preserves it.
LEMMA NextIInv == IInv /\ [Next]_vars => IInv'
  <1> SUFFICES ASSUME IInv, [Next]_vars PROVE IInv'
    OBVIOUS
  <1> USE VerifierAssumption
      DEF IInv, TypeOK, OnlyHolderInLock, VerifierOfTrustModel, RootsTaken,
          UsersHaveVerifier, VerdictsOfVerifier, ReadyOnShortPath,
          OutcomesWhenDone, BundlesInHand
  <1>1. ASSUME NEW t \in Thread, NEW b \in Bundle, Begin(t, b) PROVE IInv'
    BY <1>1 DEF Begin
  <1>2. ASSUME NEW t \in Thread, Parse(t) PROVE IInv'
    BY <1>2 DEF Parse
  <1>3. ASSUME NEW t \in Thread, CheckVerifier(t) PROVE IInv'
    BY <1>3 DEF CheckVerifier
  <1>4. ASSUME NEW t \in Thread, CheckModel(t) PROVE IInv'
    BY <1>4 DEF CheckModel
  <1>5. ASSUME NEW t \in Thread, LockForModel(t) PROVE IInv'
    BY <1>5 DEF LockForModel, Acquire
  <1>6. ASSUME NEW t \in Thread, LockForVerifier(t) PROVE IInv'
    BY <1>6 DEF LockForVerifier, Acquire
  <1>7. ASSUME NEW t \in Thread, Load(t) PROVE IInv'
    BY <1>7 DEF Load, NeedsLoad, LockAfterLoad
  <1>8. ASSUME NEW t \in Thread, TakeRoot(t) PROVE IInv'
    BY <1>8 DEF TakeRoot
  <1>9. ASSUME NEW t \in Thread, Construct(t) PROVE IInv'
    BY <1>9 DEF Construct
  <1>10. ASSUME NEW t \in Thread, VerifyDsse(t) PROVE IInv'
    <2> DEFINE verdict == VerdictOn(bundle[t], verifier)
    <2>1. verdict \in Verdicts /\ bundle[t] \in Bundle
      BY <1>10 DEF VerifyDsse, VerdictOn
    <2>2. verdicts' = verdicts \cup {<<bundle[t], verdict>>}
      BY <1>10 DEF VerifyDsse
    <2>3. TypeOK' /\ BundlesInHand'
      BY <1>10, <2>1, <2>2 DEF VerifyDsse, Retained
    <2>4. VerdictsOfVerifier'
      BY <1>10, <2>2 DEF VerifyDsse, Retained, VerdictOn
    <2> QED
      BY <1>10, <2>1, <2>3, <2>4 DEF VerifyDsse, Retained
  <1>11. ASSUME NEW t \in Thread, Return(t) PROVE IInv'
    BY <1>11 DEF Return
  <1>12. ASSUME NEW r \in Root \cup {None}, Serve(r) PROVE IInv'
    BY <1>12 DEF Serve
  <1>13. CASE UNCHANGED vars
    BY <1>13 DEF vars
  <1> QED
    BY <1>1, <1>2, <1>3, <1>4, <1>5, <1>6, <1>7, <1>8, <1>9, <1>10, <1>11,
       <1>12, <1>13 DEF Next, Step

\* The invariant holds at all times.
LEMMA AlwaysIInv == Spec => []IInv
  BY InitIInv, NextIInv, PTL DEF Spec

\* Every state has the form TypeOK says: among other things, whatever a
\* thread does, the lock is held by a thread or by nobody.
THEOREM TypesAreRight == Spec => []TypeOK
  <1>1. IInv => TypeOK
    BY DEF IInv
  <1> QED
    BY <1>1, AlwaysIInv, PTL

\* The non-reentrant _initialization_lock is held exactly by the thread that
\* is inside it, on the paths of SigstoreVerifier.verify that raise too.
THEOREM LockIsExclusive == Spec => []OnlyHolderInLock
  <1>1. IInv => OnlyHolderInLock
    BY DEF IInv
  <1> QED
    BY <1>1, AlwaysIInv, PTL

\* However many threads race through the two double-checked attributes, the
\* verifier they end up with was built from the trust model that is kept.
THEOREM OneTrust == Spec => []VerifierOfTrustModel
  <1>1. IInv => VerifierOfTrustModel
    BY DEF IInv
  <1> QED
    BY <1>1, AlwaysIInv, PTL

\* No bundle is accepted by one callback of a process and rejected by
\* another, though the trusted root on offer changes between them.
THEOREM OneVerdictPerBundle == Spec => []VerdictsAgree
  <1>1. IInv => VerdictsAgree
    <2> SUFFICES ASSUME IInv, NEW b \in Bundle,
                        <<b, "verified">> \in verdicts,
                        <<b, "invalid-bundle">> \in verdicts
                 PROVE  FALSE
      BY DEF VerdictsAgree
    <2> QED
      BY DEF IInv, VerdictsOfVerifier
  <1> QED
    BY <1>1, AlwaysIInv, PTL

\* Once SigstoreVerifier has a verifier, a call is never told that trust
\* material is unavailable.
THEOREM ReadyStaysReady == Spec => []ReadyNeverUnavailable
  <1>1. IInv => ReadyNeverUnavailable
    BY DEF IInv, ReadyOnShortPath, ReadyNeverUnavailable
  <1> QED
    BY <1>1, AlwaysIInv, PTL

\* The trust model and the verifier of a process are never replaced or
\* dropped, whatever happens to the trust material or to any call.
THEOREM TrustNeverChanges == Spec => TrustIsFixed
  <1>1. IInv /\ [Next]_vars => [TrustIsKept]_vars
    <2> SUFFICES ASSUME IInv, Next PROVE TrustIsKept
      OBVIOUS
    <2> USE DEF TrustIsKept
    <2>1. ASSUME NEW t \in Thread, Step(t) PROVE TrustIsKept
      BY <2>1 DEF Step, Parse, CheckVerifier, CheckModel, LockForModel,
                  LockForVerifier, Acquire, Load, NeedsLoad, TakeRoot,
                  Construct, VerifyDsse, Retained, Return
    <2>2. ASSUME NEW t \in Thread, NEW b \in Bundle, Begin(t, b)
          PROVE  TrustIsKept
      BY <2>2 DEF Begin
    <2>3. ASSUME NEW r \in Root \cup {None}, Serve(r) PROVE TrustIsKept
      BY <2>3 DEF Serve
    <2> QED
      BY <2>1, <2>2, <2>3 DEF Next
  <1> QED
    BY <1>1, AlwaysIInv, PTL DEF Spec, TrustIsFixed
=============================================================================
