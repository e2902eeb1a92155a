----------------------------- MODULE FrontDoor -----------------------------
(***************************************************************************)
(* How a request gets in: the web app's through require_admitted_user      *)
(* (api/deps.py), a connector's through _LifespanOnFirstRequest            *)
(* (mcp_server/server.py), which starts the mounted MCP application on     *)
(* its first request under an asyncio lock, and then                       *)
(* SupabaseTokenVerifier (mcp_server/auth.py). One step is the Python      *)
(* between two awaits.                                                     *)
(***************************************************************************)
EXTENDS TokenVerifier, SequencesExt

CONSTANTS
    Requests,     \* each is made once
    McpRequests,  \* those to the MCP server; the others go to the REST API
    SentTokens,   \* bearer tokens they may carry
    MaxFaults     \* start-ups that fail, or are cancelled, in a behaviour

ASSUME McpAssumption == McpRequests \subseteq Requests
ASSUME RequestsAssumption == None \notin Requests
ASSUME SentTokensAssumption == SentTokens \subseteq Tokens
ASSUME FaultsAssumption == MaxFaults \in Nat

VARIABLES
    pc,         \* where each request is
    token,      \* the bearer token it carries
    answer,     \* what it was answered
    started,    \* _started
    context,    \* _context, named by the request that created it
    lock,       \* _lock: its holder, then its waiters in order
    faults,     \* start-ups that have failed or were cancelled
    starts,     \* history: lifespans that were entered
    entered,    \* history: the request whose context was entered last
    reached     \* history: requests forwarded to the MCP application

startup == <<started, context, lock, faults, starts, entered>>
vars == <<tokenVars, pc, token, answer, startup, reached>>

Labels == {"idle", "queued", "entering", "verify", "admit", "done"}
Answers == {"none", "served", "401", "403", "500", "cancelled"}

Init ==
    /\ InitVerifier
    /\ pc = [r \in Requests |-> "idle"]
    /\ token = [r \in Requests |-> None]
    /\ answer = [r \in Requests |-> "none"]
    /\ started = FALSE
    /\ context = None
    /\ lock = <<>>
    /\ faults = 0
    /\ starts = 0
    /\ entered = None
    /\ reached = {}

Goto(r, from, to) == pc[r] = from /\ pc' = [pc EXCEPT ![r] = to]

Finish(r, from, a) ==
    /\ Goto(r, from, "done")
    /\ answer' = [answer EXCEPT ![r] = a]

Holds(r) == lock # <<>> /\ Head(lock) = r
Release == lock' = Tail(lock)
Forward(r) == reached' = reached \cup {r}

-----------------------------------------------------------------------------
(* _LifespanOnFirstRequest.__call__ and _ensure_started.                   *)

\* Routed to the API (`require_admitted_user`) or to the MCP mount, whose fast path
\* is `if self._started: return`.
Arrive(r, t) ==
    /\ token' = [token EXCEPT ![r] = t]
    /\ \/ /\ r \notin McpRequests
          /\ Goto(r, "idle", "verify")
          /\ UNCHANGED <<lock, reached>>
       \/ /\ r \in McpRequests /\ started
          /\ Goto(r, "idle", "verify")
          /\ Forward(r)
          /\ UNCHANGED lock
       \/ /\ r \in McpRequests /\ ~started
          /\ Goto(r, "idle", "queued")
          /\ lock' = Append(lock, r)
          /\ UNCHANGED reached
    /\ UNCHANGED <<tokenVars, answer, started, context, faults, starts, entered>>

\* The check is made again under the lock.
FindStarted(r) ==
    /\ Holds(r) /\ started
    /\ Goto(r, "queued", "verify")
    /\ Release
    /\ Forward(r)
    /\ UNCHANGED <<tokenVars, token, answer, started, context, faults,
                   starts, entered>>

\* Slip: no second look at _started once the lock is held.
EnterUnchecked(r) ==
    /\ Holds(r)
    /\ Goto(r, "queued", "entering")
    /\ context' = r
    /\ UNCHANGED <<tokenVars, token, answer, started, lock, faults,
                   starts, entered, reached>>

\* Slip: the lock is not taken.
EnterUnlocked(r) ==
    /\ ~started
    /\ Goto(r, "queued", "entering")
    /\ context' = r
    /\ UNCHANGED <<tokenVars, token, answer, started, lock, faults,
                   starts, entered, reached>>

\* self._context = lifespan(app), and its __aenter__ is awaited.
Enter(r) ==
    /\ Holds(r) /\ ~started
    /\ Goto(r, "queued", "entering")
    /\ context' = r
    /\ UNCHANGED <<tokenVars, token, answer, started, lock, faults,
                   starts, entered, reached>>

Started(r) ==
    /\ Goto(r, "entering", "verify")
    /\ started' = TRUE
    /\ starts' = starts + 1
    /\ entered' = r
    /\ Release
    /\ Forward(r)
    /\ UNCHANGED <<tokenVars, token, answer, context, faults>>

\* Slip: a start-up that fails leaves the lock held.
FailStartHolding(r) ==
    /\ faults < MaxFaults
    /\ faults' = faults + 1
    /\ Finish(r, "entering", "500")
    /\ UNCHANGED <<tokenVars, token, started, context, lock, starts,
                   entered, reached>>

\* __aenter__ raises; `async with` releases the lock, _context stays set.
FailStart(r) ==
    /\ faults < MaxFaults
    /\ faults' = faults + 1
    /\ Finish(r, "entering", "500")
    /\ Release
    /\ UNCHANGED <<tokenVars, token, started, context, starts, entered, reached>>

\* The request's task is cancelled while it waits for the lock or starts.
Cancel(r) ==
    /\ faults < MaxFaults
    /\ faults' = faults + 1
    /\ \E from \in {"queued", "entering"} : Finish(r, from, "cancelled")
    /\ \E i \in DOMAIN lock : lock[i] = r /\ lock' = RemoveAt(lock, i)
    /\ UNCHANGED <<tokenVars, token, started, context, starts, entered, reached>>

-----------------------------------------------------------------------------
(* require_admitted_user (api/deps.py) and SupabaseTokenVerifier's         *)
(* verify_token: the token first, then the sign-up cap.                    *)

Authenticate(r) ==
    /\ pc[r] = "verify"
    /\ \/ /\ Accepts(token[r])
          /\ Goto(r, "verify", "admit")
          /\ UNCHANGED answer
       \/ /\ Refuses(token[r])
          /\ Finish(r, "verify", "401")
    /\ token' = [token EXCEPT ![r] = None]
    /\ UNCHANGED <<endpoint, startup, reached>>

\* ensure_capacity admits the user or raises AtCapacityError (see Admission),
\* which verify_token answers as it does a bad token.
Admit(r) ==
    /\ \E a \in {"served", IF r \in McpRequests THEN "401" ELSE "403"} :
          Finish(r, "admit", a)
    /\ UNCHANGED <<tokenVars, token, startup, reached>>

-----------------------------------------------------------------------------

Outside ==
    /\ Tick \/ ChangeEndpoint
    /\ UNCHANGED <<pc, token, answer, startup, reached>>

Handle(r) == FindStarted(r) \/ Enter(r) \/ Started(r) \/ Authenticate(r) \/ Admit(r)

Next ==
    \/ \E r \in Requests :
        \/ \E t \in SentTokens : Arrive(r, t)
        \/ Handle(r)
        \/ FailStart(r)
        \/ Cancel(r)
    \/ Outside

Spec == Init /\ [][Next]_vars

\* The event loop runs a request that can go on, and a start-up returns.
FairSpec == Spec /\ \A r \in Requests : WF_vars(Handle(r))
-----------------------------------------------------------------------------
(* Properties. *)

RequestsTypeOK ==
    /\ pc \in [Requests -> Labels]
    /\ token \in [Requests -> SentTokens \cup {None}]
    /\ answer \in [Requests -> Answers]
    /\ reached \subseteq Requests

StartupTypeOK ==
    /\ started \in BOOLEAN
    /\ context \in Requests \cup {None}
    /\ lock \in Seq(Requests)
    /\ faults \in 0..MaxFaults
    /\ starts \in Nat
    /\ entered \in Requests \cup {None}

\* Types, and the bounds of the fault count and the clock.
TypeOK == VerifierTypeOK /\ RequestsTypeOK /\ StartupTypeOK

\* The context held in _context for the life of the process is the one that
\* was entered: nothing else refers to it, and a context that is collected
\* takes the session manager's task group with it.
EnteredContextKept == started => context = entered /\ entered # None

\* "The lock makes the startup happen exactly once even if several requests
\* arrive together" (server.py), start-ups that fail or are cancelled
\* included: the requests and the flag implement a lazily started
\* application.
Lazy == INSTANCE LazyStart WITH
            Requests <- Requests, starts <- starts, reached <- reached
StartsOnce == Lazy!Spec

\* A token signed by a key the endpoint serves, which has a subject and has
\* not expired, is refused for the sake of its key only within BackOff of a
\* lookup that failed: no cached set, rotation or outage before that makes
\* `_decode` turn it away.
Good(t) ==
    /\ t.alg = "asymmetric" /\ "SUPABASE_URL" \in Configured
    /\ t.genuine /\ t.subject
    /\ Serves(t.kid)

RefusesGood(r) ==
    /\ pc[r] = "verify" /\ answer'[r] = "401"
    /\ Good(token[r]) /\ now' < token[r].exp

InBackOff == lastFailure # None /\ now < lastFailure + BackOff

GoodTokenAccepted == [][\A r \in Requests : RefusesGood(r) => InBackOff]_vars

\* "Back off briefly so a JWKS outage does not turn into a request-rate
\* hammer" (auth.py): between two lookups that fail there are BackOff
\* seconds, whatever came in and was refused meanwhile.
FailedLookupsSpaced ==
    [][lastFailure' # lastFailure /\ lastFailure # None
        => now >= lastFailure + BackOff]_vars

\* Every request is answered: neither a failed nor a cancelled start-up
\* leaves the requests behind it waiting for the lock.
EveryRequestAnswered ==
    \A r \in Requests : pc[r] # "idle" ~> pc[r] = "done"
=============================================================================
