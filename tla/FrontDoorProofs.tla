-------------------------- MODULE FrontDoorProofs --------------------------
(* FrontDoor starts the MCP application as LazyStart says, keeps the context *)
(* it entered, and verifies tokens as its properties say, for every set of   *)
(* requests, keys and tokens and every length of the back-off.               *)
EXTENDS FrontDoor, TLAPS

(* The request that is entering the lifespan holds the lock, and nothing else *)
(* has started the application since it looked.                               *)
LifespanInv ==
    /\ \A r \in Requests : pc[r] = "entering" =>
          /\ Holds(r)
          /\ ~started
          /\ context = r
    /\ started => starts = 1
    /\ ~started => starts = 0
    /\ EnteredContextKept

(* A request is forwarded once, after the start, and answered once. *)
RequestsInv ==
    /\ reached # {} => started
    /\ \A r \in reached : pc[r] \in {"verify", "admit", "done"}
    /\ \A r \in Requests : pc[r] \in {"queued", "entering", "verify"} =>
          token[r] \in SentTokens
    /\ \A r \in Requests : pc[r] # "done" => answer[r] = "none"

(* The back-off is what the last failed lookup left behind. *)
BackOffInv == until = IF lastFailure = None THEN 0 ELSE lastFailure + BackOff

FrontDoorInv == TypeOK /\ LifespanInv /\ RequestsInv /\ BackOffInv

-----------------------------------------------------------------------------

(* Taking a request out of the lock's queue leaves a queue, and its head where *)
(* it was unless it was the head that was taken out.                           *)
LEMMA RemoveAtFacts ==
    ASSUME NEW S, NEW s \in Seq(S), NEW i \in DOMAIN s
    PROVE  /\ RemoveAt(s, i) \in Seq(S)
           /\ i # 1 => RemoveAt(s, i) # <<>> /\ Head(RemoveAt(s, i)) = Head(s)
<1>1. i \in 1..Len(s)
  OBVIOUS
<1>2. /\ SubSeq(s, 1, i-1) \in Seq(S) /\ SubSeq(s, i+1, Len(s)) \in Seq(S)
  BY <1>1
<1>3. RemoveAt(s, i) \in Seq(S)
  BY <1>2 DEF RemoveAt
<1>4. ASSUME i # 1
      PROVE  RemoveAt(s, i) # <<>> /\ Head(RemoveAt(s, i)) = Head(s)
  <2>1. Len(SubSeq(s, 1, i-1)) = i-1 /\ SubSeq(s, 1, i-1)[1] = s[1]
    BY <1>1, <1>4
  <2>2. Len(RemoveAt(s, i)) >= 1 /\ RemoveAt(s, i)[1] = s[1]
    BY <1>1, <1>2, <1>4, <2>1 DEF RemoveAt
  <2> QED
    BY <1>1, <1>3, <2>2
<1> QED
  BY <1>3, <1>4

LEMMA InitInv == Init => FrontDoorInv
<1> SUFFICES ASSUME Init PROVE FrontDoorInv
  OBVIOUS
<1>1. VerifierTypeOK /\ BackOffInv
  BY TimesAssumption DEF Init, InitVerifier, VerifierTypeOK, BackOffInv
<1>2. RequestsTypeOK
  BY DEF Init, RequestsTypeOK, Labels, Answers
<1>3. StartupTypeOK
  <2>1. faults \in 0..MaxFaults /\ starts \in Nat
    BY FaultsAssumption DEF Init
  <2>2. started \in BOOLEAN /\ context \in Requests \cup {None}
    BY DEF Init
  <2>3. lock \in Seq(Requests) /\ entered \in Requests \cup {None}
    BY DEF Init
  <2> QED
    BY <2>1, <2>2, <2>3 DEF StartupTypeOK
<1>4. LifespanInv /\ RequestsInv
  BY DEF Init, LifespanInv, RequestsInv, EnteredContextKept
<1> QED
  BY <1>1, <1>2, <1>3, <1>4 DEF FrontDoorInv, TypeOK

(* A verification keeps the verifier's types and its back-off. *)
LEMMA VerificationInv ==
    ASSUME VerifierTypeOK, BackOffInv, NEW t \in SentTokens,
           Accepts(t) \/ Refuses(t), UNCHANGED endpoint
    PROVE  VerifierTypeOK' /\ BackOffInv'
<1>1. t \in Tokens /\ t.kid \in Keys
  BY SentTokensAssumption DEF Tokens
<1>2. CASE Unchanged
  BY <1>2 DEF Unchanged, verifier, VerifierTypeOK, BackOffInv
<1>3. CASE FindInHand(t.kid)
  BY <1>1, <1>3 DEF FindInHand, VerifierTypeOK, BackOffInv
<1>4. ASSUME Fetch
      PROVE  now' \in 0..MaxTime /\ jwkSet' \in KeySets \cup {None}
  BY <1>4, TimesAssumption DEF Fetch, VerifierTypeOK, KeySets
<1>5. CASE FindByFetch(t.kid)
  BY <1>1, <1>4, <1>5 DEF FindByFetch, VerifierTypeOK, BackOffInv
<1>6. CASE FailLookup(t.kid)
  BY <1>1, <1>4, <1>6, BackOffAssumption, NoneAssumption DEF FailLookup, VerifierTypeOK, BackOffInv
<1> QED
  BY <1>2, <1>3, <1>5, <1>6 DEF Accepts, Refuses

LEMMA OutsideInv ==
    ASSUME VerifierTypeOK, BackOffInv, Tick \/ ChangeEndpoint
    PROVE  VerifierTypeOK' /\ BackOffInv'
BY TimesAssumption DEF VerifierTypeOK, BackOffInv, Tick, ChangeEndpoint, verifier

LEMMA NextRequestsTypeOK ==
    ASSUME FrontDoorInv, [Next]_vars
    PROVE  RequestsTypeOK'
<1> USE DEF FrontDoorInv, TypeOK, RequestsTypeOK, Labels, Answers
<1>1. CASE UNCHANGED vars
  BY <1>1 DEF vars
<1>2. ASSUME NEW r \in Requests, NEW t \in SentTokens, Arrive(r, t)
      PROVE  RequestsTypeOK'
  BY <1>2 DEF Arrive, Goto, Forward
<1>3. ASSUME NEW r \in Requests, Handle(r) \/ FailStart(r) \/ Cancel(r)
      PROVE  RequestsTypeOK'
  BY <1>3 DEF Handle, FindStarted, Enter, Started, FailStart, Cancel,
              Authenticate, Admit, Finish, Goto, Forward
<1>4. CASE Outside
  BY <1>4 DEF Outside
<1> QED
  BY <1>1, <1>2, <1>3, <1>4 DEF Next

LEMMA NextStartupTypeOK ==
    ASSUME FrontDoorInv, [Next]_vars
    PROVE  StartupTypeOK'
<1> USE FaultsAssumption DEF FrontDoorInv, TypeOK, StartupTypeOK
<1>1. CASE UNCHANGED startup
  BY <1>1 DEF startup
<1>2. ASSUME NEW r \in Requests, NEW t \in SentTokens, Arrive(r, t)
      PROVE  StartupTypeOK'
  BY <1>2 DEF Arrive
<1>3. ASSUME NEW r \in Requests, Holds(r), Release
      PROVE  lock' \in Seq(Requests)
  BY <1>3 DEF Holds, Release
<1>4. ASSUME NEW r \in Requests, FindStarted(r) \/ Enter(r)
      PROVE  StartupTypeOK'
  BY <1>3, <1>4 DEF FindStarted, Enter
<1>5. ASSUME NEW r \in Requests, Started(r) \/ FailStart(r)
      PROVE  StartupTypeOK'
  <2>1. Holds(r)
    BY <1>5 DEF Started, FailStart, Finish, Goto, LifespanInv
  <2>2. faults' \in 0..MaxFaults /\ starts' \in Nat
    BY <1>5 DEF Started, FailStart
  <2>3. started' \in BOOLEAN
    BY <1>5 DEF Started, FailStart
  <2>4. lock' \in Seq(Requests)
    BY <1>3, <1>5, <2>1 DEF Started, FailStart
  <2>5. context' \in Requests \cup {None} /\ entered' \in Requests \cup {None}
    BY <1>5 DEF Started, FailStart
  <2> QED
    BY <2>2, <2>3, <2>4, <2>5
<1>6. ASSUME NEW r \in Requests, Cancel(r)
      PROVE  StartupTypeOK'
  <2>1. lock' \in Seq(Requests)
    BY <1>6, RemoveAtFacts DEF Cancel
  <2> QED
    BY <1>6, <2>1 DEF Cancel
<1> QED
  BY <1>1, <1>2, <1>4, <1>5, <1>6
     DEF Next, Handle, Authenticate, Admit, Outside, vars

LEMMA NextVerifierInv ==
    ASSUME FrontDoorInv, [Next]_vars
    PROVE  VerifierTypeOK' /\ BackOffInv'
<1> USE DEF FrontDoorInv, TypeOK
<1>1. CASE UNCHANGED tokenVars
  BY <1>1 DEF tokenVars, verifier, VerifierTypeOK, BackOffInv
<1>2. ASSUME NEW r \in Requests, Authenticate(r)
      PROVE  VerifierTypeOK' /\ BackOffInv'
  <2>1. token[r] \in SentTokens
    BY <1>2 DEF Authenticate, RequestsInv
  <2> QED
    BY <1>2, <2>1, VerificationInv DEF Authenticate
<1>3. CASE Outside
  BY <1>3, OutsideInv DEF Outside
<1> QED
  BY <1>1, <1>2, <1>3
     DEF Next, Handle, Arrive, FindStarted, Enter, Started, FailStart, Cancel,
         Admit, vars

-----------------------------------------------------------------------------

(* Only the request that holds the lock enters, and it finds _started false,  *)
(* so that a context is overwritten only while nothing has been entered.      *)
LEMMA NextLifespanInv ==
    ASSUME RequestsTypeOK, StartupTypeOK, LifespanInv, [Next]_vars
    PROVE  LifespanInv'
<1> USE DEF RequestsTypeOK, LifespanInv, EnteredContextKept, Holds
<1>1. CASE UNCHANGED <<pc, startup>>
  BY <1>1 DEF startup
<1>2. ASSUME NEW r \in Requests, NEW t \in SentTokens, Arrive(r, t)
      PROVE  LifespanInv'
  <2>1. lock # <<>> => lock' # <<>> /\ Head(lock') = Head(lock)
    <3>1. lock' = lock \/ lock' = Append(lock, r)
      BY <1>2 DEF Arrive
    <3>2. lock \in Seq(Requests)
      BY DEF StartupTypeOK
    <3> QED
      BY <3>1, <3>2
  <2> QED
    BY <1>2, <2>1 DEF Arrive, Goto
<1>3. ASSUME NEW r \in Requests, FindStarted(r)
      PROVE  LifespanInv'
  BY <1>3 DEF FindStarted, Goto
<1>4. ASSUME NEW r \in Requests, Enter(r)
      PROVE  LifespanInv'
  BY <1>4 DEF Enter, Goto
<1>5. ASSUME NEW r \in Requests, Started(r)
      PROVE  LifespanInv'
  <2>1. \A q \in Requests : pc'[q] # "entering"
    BY <1>5 DEF Started, Goto
  <2>2. starts' = 1
    BY <1>5 DEF Started, Goto
  <2> QED
    BY <1>5, <2>1, <2>2, RequestsAssumption DEF Started, Goto
<1>6. ASSUME NEW r \in Requests, FailStart(r)
      PROVE  LifespanInv'
  BY <1>6 DEF FailStart, Finish, Goto
<1>7. ASSUME NEW r \in Requests, Cancel(r)
      PROVE  LifespanInv'
  <2>1. PICK i \in DOMAIN lock : lock[i] = r /\ lock' = RemoveAt(lock, i)
    BY <1>7 DEF Cancel
  <2>2. ASSUME NEW q \in Requests, pc'[q] = "entering"
        PROVE  lock' # <<>> /\ Head(lock') = q
    <3>1. q # r /\ pc[q] = "entering"
      BY <1>7, <2>2 DEF Cancel, Finish, Goto
    <3>2. i # 1
      BY <2>1, <3>1 DEF StartupTypeOK
    <3> QED
      BY <2>1, <3>1, <3>2, RemoveAtFacts DEF StartupTypeOK
  <2> QED
    BY <1>7, <2>2 DEF Cancel, Finish, Goto
<1>8. ASSUME NEW r \in Requests, Authenticate(r) \/ Admit(r)
      PROVE  LifespanInv'
  BY <1>8 DEF Authenticate, Admit, Finish, Goto, startup
<1> QED
  BY <1>1, <1>2, <1>3, <1>4, <1>5, <1>6, <1>7, <1>8 DEF Next, Handle, Outside, vars

LEMMA NextRequestsInv ==
    ASSUME RequestsTypeOK, RequestsInv, [Next]_vars
    PROVE  RequestsInv'
<1> USE DEF RequestsTypeOK, RequestsInv
<1>1. CASE UNCHANGED <<pc, token, answer, started, reached>>
  BY <1>1
<1>2. ASSUME NEW r \in Requests, NEW t \in SentTokens, Arrive(r, t)
      PROVE  RequestsInv'
  BY <1>2 DEF Arrive, Goto, Forward
<1>3. ASSUME NEW r \in Requests, pc[r] \in {"queued", "entering"}, started',
             pc' = [pc EXCEPT ![r] = "verify"], Forward(r),
             UNCHANGED <<token, answer>>, token[r] \in SentTokens
      PROVE  RequestsInv'
  <2>1. reached' # {} => started'
    BY <1>3
  <2>2. \A q \in reached' : pc'[q] \in {"verify", "admit", "done"}
    BY <1>3 DEF Forward
  <2> QED
    BY <1>3, <2>1, <2>2
<1>4. ASSUME NEW r \in Requests, Enter(r)
      PROVE  RequestsInv'
  BY <1>4 DEF Enter, Goto
<1>9. ASSUME NEW r \in Requests, FindStarted(r)
      PROVE  RequestsInv'
  BY <1>3, <1>9 DEF FindStarted, Goto
<1>5. ASSUME NEW r \in Requests, Started(r)
      PROVE  RequestsInv'
  BY <1>3, <1>5 DEF Started, Goto
<1>6. ASSUME NEW r \in Requests, FailStart(r) \/ Cancel(r)
      PROVE  RequestsInv'
  BY <1>6 DEF FailStart, Cancel, Finish, Goto
<1>7. ASSUME NEW r \in Requests, Authenticate(r)
      PROVE  RequestsInv'
  BY <1>7 DEF Authenticate, Finish, Goto, startup
<1>8. ASSUME NEW r \in Requests, Admit(r)
      PROVE  RequestsInv'
  BY <1>8 DEF Admit, Finish, Goto, startup
<1> QED
  BY <1>1, <1>2, <1>3, <1>4, <1>5, <1>6, <1>7, <1>8, <1>9
     DEF Next, Handle, Outside, vars, startup

THEOREM FrontDoorInvariant == Spec => []FrontDoorInv
<1>1. FrontDoorInv /\ [Next]_vars => FrontDoorInv'
  BY NextRequestsTypeOK, NextStartupTypeOK, NextVerifierInv, NextLifespanInv,
     NextRequestsInv
     DEF FrontDoorInv, TypeOK
<1> QED
  BY <1>1, InitInv, PTL DEF Spec

(* The state of every request, of the lazy start and of the verifier is one   *)
(* the types of server.py and auth.py allow.                                  *)
THEOREM FrontDoorTypeOK == Spec => []TypeOK
BY FrontDoorInvariant, PTL DEF FrontDoorInv

(* The context that _context refers to is the one that was entered, whatever  *)
(* start-ups failed or were cancelled before.                                 *)
THEOREM ContextIsKept == Spec => []EnteredContextKept
BY FrontDoorInvariant, PTL DEF FrontDoorInv, LifespanInv

-----------------------------------------------------------------------------

(* FrontDoor implements LazyStart: the MCP application is started at most     *)
(* once, and no request reaches it before.                                    *)
THEOREM ImplementsLazyStart == Spec => StartsOnce
<1>1. Init => Lazy!Init
  BY DEF Init, Lazy!Init
<1>2. ASSUME RequestsTypeOK, LifespanInv, RequestsInv, [Next]_vars
      PROVE  [Lazy!Next]_<<starts, reached>>
  <2>1. CASE UNCHANGED <<starts, reached>>
    BY <2>1
  <2>2. ASSUME NEW r \in Requests, r \notin reached, starts = 1, Forward(r),
               UNCHANGED starts
        PROVE  Lazy!Next
    BY <2>2 DEF Forward, Lazy!Next, Lazy!Reach
  <2>3. ASSUME NEW r \in Requests, NEW t \in SentTokens, Arrive(r, t),
               ~UNCHANGED <<starts, reached>>
        PROVE  Lazy!Next
    <3>1. Forward(r) /\ UNCHANGED starts /\ starts = 1
      BY <1>2, <2>3 DEF Arrive, LifespanInv
    <3>2. r \notin reached
      BY <1>2, <2>3 DEF Arrive, Goto, RequestsInv
    <3> QED
      BY <2>2, <3>1, <3>2
  <2>4. ASSUME NEW r \in Requests, FindStarted(r)
        PROVE  Lazy!Next
    <3>1. Forward(r) /\ UNCHANGED starts /\ starts = 1
      BY <1>2, <2>4 DEF FindStarted, LifespanInv
    <3>2. r \notin reached
      BY <1>2, <2>4 DEF FindStarted, Goto, RequestsInv
    <3> QED
      BY <2>2, <3>1, <3>2
  <2>5. ASSUME NEW r \in Requests, Started(r)
        PROVE  Lazy!Next
    <3>1. ~started /\ starts = 0 /\ reached = {}
      BY <1>2, <2>5 DEF Started, Goto, LifespanInv, RequestsInv
    <3>2. starts' = 1 /\ reached' = {r}
      BY <2>5, <3>1 DEF Started, Forward
    <3> QED
      BY <3>1, <3>2 DEF Lazy!Next, Lazy!StartAndReach
  <2> QED
    BY <1>2, <2>1, <2>3, <2>4, <2>5
       DEF Next, Handle, Enter, FailStart, Cancel, Authenticate, Admit, Outside,
           vars, startup
<1>3. FrontDoorInv => RequestsTypeOK /\ LifespanInv /\ RequestsInv
  BY DEF FrontDoorInv, TypeOK
<1> QED
  BY <1>1, <1>2, <1>3, FrontDoorInvariant, PTL DEF Spec, StartsOnce, Lazy!Spec

(* Two lookups that fail are at least BackOff apart. *)
THEOREM FailuresAreSpaced == Spec => FailedLookupsSpaced
<1>1. ASSUME FrontDoorInv, [Next]_vars, lastFailure' # lastFailure, lastFailure # None
      PROVE  now >= lastFailure + BackOff
  <2>1. PICK r \in Requests : Authenticate(r)
    BY <1>1 DEF Next, Handle, Arrive, FindStarted, Enter, Started, FailStart,
                Cancel, Admit, Outside, Tick, ChangeEndpoint, vars, tokenVars
  <2>2. FailLookup(token[r].kid) /\ LooksUp(token[r])
    BY <1>1, <2>1 DEF Authenticate, Accepts, Refuses, Unchanged, FindInHand, FindByFetch
  <2> QED
    BY <1>1, <2>2, BackOffAssumption
       DEF LooksUp, BackingOff, FrontDoorInv, BackOffInv, TypeOK, VerifierTypeOK
<1> QED
  BY <1>1, FrontDoorInvariant, PTL DEF Spec, FailedLookupsSpaced

(* A good token is refused for its key only in the wake of a failed lookup.   *)
THEOREM GoodTokensAreAccepted == Spec => GoodTokenAccepted
<1>1. ASSUME FrontDoorInv, [Next]_vars, NEW r \in Requests, RefusesGood(r)
      PROVE  InBackOff
  <2>1. answer[r] = "none"
    BY <1>1 DEF RefusesGood, FrontDoorInv, RequestsInv
  <2>2. Authenticate(r) /\ Refuses(token[r])
    <3>1. \E q \in Requests :
            FailStart(q) \/ Cancel(q) \/ Authenticate(q) \/ Admit(q)
      BY <1>1, <2>1 DEF RefusesGood, Next, Handle, Arrive, FindStarted, Enter,
                        Started, Outside, vars
    <3> QED
      BY <1>1, <2>1, <3>1
         DEF RefusesGood, FrontDoorInv, TypeOK, RequestsTypeOK, FailStart, Cancel,
             Authenticate, Admit, Finish, Goto
  <2>3. ~LooksUp(token[r])
    BY <1>1, <2>2 DEF RefusesGood, Refuses, Good, Sound, FailLookup, HasSecret
  <2> QED
    BY <1>1, <2>3, BackOffAssumption
       DEF RefusesGood, Good, LooksUp, BackingOff, InBackOff, FrontDoorInv,
           BackOffInv, TypeOK, VerifierTypeOK
<1>2. FrontDoorInv /\ [Next]_vars => \A r \in Requests : RefusesGood(r) => InBackOff
  BY <1>1
<1> QED
  BY <1>2, FrontDoorInvariant, PTL DEF Spec, GoodTokenAccepted
=============================================================================
