--------------------------- MODULE TokenVerifier ---------------------------
(***************************************************************************)
(* TokenVerifier of backend/app/auth.py, the one both the REST API and the *)
(* MCP server verify with, over a signing-key endpoint that rotates its    *)
(* keys and goes down.  PyJWKClient keeps the key set it fetched for       *)
(* `lifespan` seconds and the keys it found for ever; both are external.   *)
(*                                                                         *)
(* verify() awaits nothing and its fetch blocks the event loop, so a       *)
(* verification is one step, and a fetch may let time pass inside it.      *)
(***************************************************************************)
EXTENDS Integers

CONSTANTS
    Keys,          \* signing keys of the project, named by their `kid`
    Configured,    \* which of SUPABASE_URL, SUPABASE_JWT_SECRET are set
    BackOff,       \* the 15 seconds after a lookup that failed
    SetLifetime,   \* the 600 seconds a fetched key set is used
    SlowFetch,     \* the longest a fetch takes
    MaxTime,       \* bounds the clock
    None

ASSUME BackOffAssumption == BackOff \in Nat \ {0}
ASSUME TimesAssumption ==
    SetLifetime \in Nat /\ SlowFetch \in Nat /\ MaxTime \in Nat
ASSUME NoneAssumption == None \notin Nat

VARIABLES
    now,          \* time.monotonic(), and the wall clock tokens expire by
    endpoint,     \* the key set the endpoint serves; None when it is down
    jwkSet,       \* the key set PyJWKClient fetched last, and when
    keyCache,     \* keys PyJWKClient has found (lru_cache, never expires)
    until,        \* _jwks_unavailable_until
    lastFailure   \* history: when the last failed lookup ended

verifier == <<jwkSet, keyCache, until>>
tokenVars == <<now, endpoint, verifier, lastFailure>>

Algorithms == {"asymmetric", "HS256", "unsupported", "missing"}
\* `genuine` - signed with the named key, for this issuer; `subject` - the
\* `sub` claim is a user id.
Tokens == [alg : Algorithms, kid : Keys, exp : Nat,
           genuine : BOOLEAN, subject : BOOLEAN]

KeySets == [keys : SUBSET Keys, at : Nat]

InitVerifier ==
    /\ now = 0
    /\ endpoint \in (SUBSET Keys) \ {{}}
    /\ jwkSet = None
    /\ keyCache = {}
    /\ until = 0
    /\ lastFailure = None

-----------------------------------------------------------------------------
(* The world outside. *)

Tick ==
    /\ now < MaxTime
    /\ now' = now + 1
    /\ UNCHANGED <<endpoint, verifier, lastFailure>>

\* Keys are added and withdrawn, and the endpoint goes down and comes back.
ChangeEndpoint ==
    /\ endpoint' \in ((SUBSET Keys) \ {{}, endpoint}) \cup {None}
    /\ endpoint' # endpoint
    /\ UNCHANGED <<now, verifier, lastFailure>>

-----------------------------------------------------------------------------
(* client.get_signing_key_from_jwt: a cached key, else the cached set, and *)
(* a fetch when the set is stale or lacks the key; a fetch that fails      *)
(* leaves no set behind.                                                   *)

UsableSet == IF jwkSet # None /\ now <= jwkSet.at + SetLifetime
               THEN jwkSet.keys
               ELSE {}

InHand(kid) == kid \in keyCache \/ kid \in UsableSet

FindInHand(kid) ==
    /\ InHand(kid)
    /\ keyCache' = keyCache \cup {kid}
    /\ UNCHANGED <<now, jwkSet, until, lastFailure>>

Serves(kid) == endpoint # None /\ kid \in endpoint

Fetch ==
    /\ now' \in now..(now + SlowFetch) /\ now' <= MaxTime
    /\ jwkSet' = IF endpoint = None THEN None
                                   ELSE [keys |-> endpoint, at |-> now']

FindByFetch(kid) ==
    /\ ~InHand(kid)
    /\ Serves(kid)
    /\ Fetch
    /\ keyCache' = keyCache \cup {kid}
    /\ UNCHANGED <<until, lastFailure>>

\* Slip: a failed lookup starts no back-off.
FailLookupHammers(kid) ==
    /\ ~InHand(kid)
    /\ ~Serves(kid)
    /\ Fetch
    /\ lastFailure' = now'
    /\ UNCHANGED <<until, keyCache>>

\* Slip: the answer of a failed lookup is kept as a key.
FailLookupKept(kid) ==
    /\ ~InHand(kid)
    /\ ~Serves(kid)
    /\ Fetch
    /\ until' = now' + BackOff
    /\ lastFailure' = now'
    /\ keyCache' = keyCache \cup {None}

FailLookup(kid) ==
    /\ ~InHand(kid)
    /\ ~Serves(kid)
    /\ Fetch
    /\ until' = now' + BackOff
    /\ lastFailure' = now'
    /\ UNCHANGED keyCache

-----------------------------------------------------------------------------
(* _decode and verify: Accepts(t) or Refuses(t), with what they leave in   *)
(* the verifier.                                                           *)

Unchanged == UNCHANGED <<now, verifier, lastFailure>>

\* jwt.decode and the subject check, with the key in hand.
Sound(t) == t.genuine /\ now' < t.exp /\ t.subject

\* Slip: the back-off is compared the wrong way round.
BackingOffSwapped == until < now
BackingOff == now < until

LooksUp(t) ==
    /\ t.alg = "asymmetric"
    /\ "SUPABASE_URL" \in Configured
    /\ ~BackingOff

HasSecret(t) == t.alg = "HS256" /\ "SUPABASE_JWT_SECRET" \in Configured

Accepts(t) ==
    \/ /\ LooksUp(t)
       /\ FindInHand(t.kid) \/ FindByFetch(t.kid)
       /\ Sound(t)
    \/ /\ HasSecret(t)
       /\ Unchanged
       /\ Sound(t)

Refuses(t) ==
    \/ /\ LooksUp(t)
       /\ FailLookup(t.kid)
    \/ /\ LooksUp(t)
       /\ FindInHand(t.kid) \/ FindByFetch(t.kid)
       /\ ~Sound(t)
    \/ /\ HasSecret(t)
       /\ Unchanged
       /\ ~Sound(t)
    \/ /\ ~LooksUp(t) /\ ~HasSecret(t)
       /\ Unchanged

VerifierTypeOK ==
    /\ now \in 0..MaxTime
    /\ endpoint \in (SUBSET Keys) \cup {None}
    /\ jwkSet \in KeySets \cup {None}
    /\ keyCache \subseteq Keys
    /\ until \in Nat
    /\ lastFailure \in Nat \cup {None}
=============================================================================
