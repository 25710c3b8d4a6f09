---------------------------- MODULE EvidenceCache ----------------------------
(***************************************************************************)
(* What the sidecar cache of conda-sigstore promises to its callers while   *)
(* nobody else touches its directory.  A body, once kept, stays available   *)
(* under its own digest.  A key (an artifact digest with a publication      *)
(* scope) is bound to one body at a time, never to a body that is not kept. *)
(* A load is decided at one instant, by what the cache holds then.          *)
(*                                                                         *)
(* DigestCache implements this with two separate file replacements per      *)
(* bound body, and with readers that take no lock.                          *)
(***************************************************************************)
EXTENDS Naturals

CONSTANTS
    Thread,     \* callers of the cache
    Key,        \* artifact digest and publication scope, as one name
    Body,       \* sidecar bodies
    Digest,     \* SHA-256 digests
    Sha256,     \* the digest of a body
    Size,       \* the length of a body
    Limits,     \* the max_bytes a caller may pass
    None        \* an argument that is not given

VARIABLES
    stored,     \* bodies available under their own digest
    binding,    \* the body each key is bound to, or None
    call,       \* the call each thread is making
    answer      \* the answer to that call, once it is decided

cacheVars == <<stored, binding, call, answer>>

-----------------------------------------------------------------------------
(* Calls and answers *)

\* The four calls.  A store may name the digest it expects the body to have.
Call(o, k, b, d, m) ==
    [op |-> o, key |-> k, body |-> b, digest |-> d, limit |-> m]

NoCall == Call("none", None, None, None, 0)

Calls ==
    {Call("store", None, b, d, 0) : b \in Body, d \in Digest \cup {None}}
    \cup {Call("bind", k, b, None, 0) : k \in Key, b \in Body}
    \cup {Call("load", None, None, d, m) : d \in Digest, m \in Limits}
    \cup {Call("find", k, None, None, m) : k \in Key, m \in Limits}

Answer(kind, b) == [kind |-> kind, body |-> b]

NoAnswer == Answer("none", None)
Ok       == Answer("ok", None)       \* a store returned the digest
Refused  == Answer("refused", None)  \* a store raised ValueError
Miss     == Answer("miss", None)     \* a load returned None
IOError  == Answer("error", None)    \* OSError reached the caller
Hit(b)   == Answer("hit", b)         \* a load returned these bytes

IsLoad(c)  == c.op \in {"load", "find"}
IsStore(c) == c.op \in {"store", "bind"}

Mismatched(c) == c.op = "store" /\ c.digest \notin {None, Sha256[c.body]}

HitWithin(b, limit) == IF Size[b] <= limit THEN Hit(b) ELSE Miss

-----------------------------------------------------------------------------
Init ==
    /\ stored = {}
    /\ binding = [k \in Key |-> None]
    /\ call = [t \in Thread |-> NoCall]
    /\ answer = [t \in Thread |-> NoAnswer]

Submit(t, c) ==
    /\ call[t] = NoCall
    /\ call' = [call EXCEPT ![t] = c]
    /\ UNCHANGED <<stored, binding, answer>>

Decide(t, a) == answer' = [answer EXCEPT ![t] = a]

\* A store whose body does not have the expected digest changes nothing.
Refuse(t) ==
    /\ Mismatched(call[t])
    /\ Decide(t, Refused)
    /\ UNCHANGED <<stored, binding, call>>

\* The body of a store becomes available, which completes store_sidecar.
Keep(t) ==
    /\ IsStore(call[t]) /\ ~Mismatched(call[t])
    /\ answer[t] = NoAnswer
    /\ stored' = stored \cup {call[t].body}
    /\ IF call[t].op = "store" THEN Decide(t, Ok) ELSE UNCHANGED answer
    /\ UNCHANGED <<binding, call>>

\* The key is bound to a body that is available, which completes
\* store_artifact_sidecar.
Bind(t) ==
    /\ call[t].op = "bind" /\ answer[t] = NoAnswer
    /\ call[t].body \in stored
    /\ binding' = [binding EXCEPT ![call[t].key] = call[t].body]
    /\ Decide(t, Ok)
    /\ UNCHANGED <<stored, call>>

\* A load is decided by what the cache holds at this instant.
AnswerLoad(t) ==
    /\ answer[t] = NoAnswer
    /\ \/ /\ call[t].op = "find"
          /\ LET b == binding[call[t].key] IN
             Decide(t, IF b = None THEN Miss ELSE HitWithin(b, call[t].limit))
       \/ /\ call[t].op = "load"
          /\ \/ \E b \in stored : /\ Sha256[b] = call[t].digest
                                  /\ Decide(t, HitWithin(b, call[t].limit))
             \/ /\ \A b \in stored : Sha256[b] # call[t].digest
                /\ Decide(t, Miss)
    /\ UNCHANGED <<stored, binding, call>>

\* An operating-system error ends a call.  A store that has taken effect has
\* succeeded; a store that failed may have taken effect in part.
Fail(t) ==
    /\ call[t] # NoCall
    /\ IsLoad(call[t]) \/ answer[t] = NoAnswer
    /\ Decide(t, IOError)
    /\ UNCHANGED <<stored, binding, call>>

Return(t) ==
    /\ answer[t] # NoAnswer
    /\ call' = [call EXCEPT ![t] = NoCall]
    /\ Decide(t, NoAnswer)
    /\ UNCHANGED <<stored, binding>>

\* A process dies: its threads' calls are gone, what they had done remains.
Crash(T) ==
    /\ call' = [t \in Thread |-> IF t \in T THEN NoCall ELSE call[t]]
    /\ answer' = [t \in Thread |-> IF t \in T THEN NoAnswer ELSE answer[t]]
    /\ UNCHANGED <<stored, binding>>

Next ==
    \/ \E t \in Thread :
          \/ \E c \in Calls : Submit(t, c)
          \/ Refuse(t) \/ Keep(t) \/ Bind(t)
          \/ AnswerLoad(t) \/ Fail(t) \/ Return(t)
    \/ \E T \in SUBSET Thread : Crash(T)

Spec == Init /\ [][Next]_cacheVars

=============================================================================
