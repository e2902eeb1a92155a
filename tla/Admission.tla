------------------------------ MODULE Admission ------------------------------
(***************************************************************************)
(* The sign-up cap: ensure_capacity of backend/app/services/admission.py,  *)
(* run on every authenticated request while users sign up, delete their    *)
(* accounts, and the process restarts and forgets whom it admitted.        *)
(***************************************************************************)
EXTENDS Integers, FiniteSets

CONSTANTS
    Users,
    Workers,     \* requests in flight at the same time
    MaxUsers,    \* settings.max_users
    LastTick,    \* bound: created_at is in 0..LastTick
    None         \* no user

ASSUME CapacityAssumption == MaxUsers \in Nat /\ LastTick \in Nat
ASSUME UsersAssumption == IsFiniteSet(Users) /\ None \notin Users

VARIABLES
    clock,       \* now()
    status,      \* what became of each user's sign-up
    created,     \* auth.users.created_at, taken when the sign-up begins
    admitted,    \* _admitted, the cache of the process
    pc,          \* where each request is
    user,        \* who sent it
    rank,        \* the user's rank as the query returned it
    answer,      \* what the last request of the handler was told
    position,    \* history: how many users had signed up when this one had
    everIn,      \* history: users admitted once
    promised,    \* history: the request came from a user in everIn
    disordered   \* history: a sign-up became visible after a later one

world   == <<clock, status, created>>
request == <<pc, user, rank, answer, promised>>
vars    == <<world, admitted, request, position, everIn, disordered>>

Statuses == {"new", "pending", "account", "gone"}
Accounts == {u \in Users : status[u] = "account"}

Init ==
    /\ clock = 0
    /\ status = [u \in Users |-> "new"]
    /\ created = [u \in Users |-> 0]
    /\ admitted = {}
    /\ pc = [w \in Workers |-> "idle"]
    /\ user = [w \in Workers |-> None]
    /\ rank = [w \in Workers |-> 0]
    /\ answer = [w \in Workers |-> "none"]
    /\ position = [u \in Users |-> 0]
    /\ everIn = {}
    /\ promised = [w \in Workers |-> FALSE]
    /\ disordered = FALSE

-----------------------------------------------------------------------------
(* Supabase Auth: a row gets its created_at when its transaction begins and  *)
(* is counted by others when it has committed.                               *)

Tick ==
    /\ clock < LastTick
    /\ clock' = clock + 1
    /\ UNCHANGED <<status, created, admitted, request, position, everIn, disordered>>

BeginSignUp(u) ==
    /\ status[u] = "new"
    /\ status' = [status EXCEPT ![u] = "pending"]
    /\ created' = [created EXCEPT ![u] = clock]
    /\ UNCHANGED <<clock, admitted, request, position, everIn, disordered>>

CommitSignUp(u) ==
    /\ status[u] = "pending"
    /\ status' = [status EXCEPT ![u] = "account"]
    /\ position' = [position EXCEPT
            ![u] = Cardinality({v \in Users : status[v] \in {"account", "gone"}}) + 1]
    /\ disordered' = (disordered \/ \E v \in Accounts : created[v] >= created[u])
    /\ UNCHANGED <<clock, created, admitted, request, everIn>>

DeleteUser(u) ==
    /\ status[u] = "account"
    /\ status' = [status EXCEPT ![u] = "gone"]
    /\ UNCHANGED <<clock, created, admitted, request, position, everIn, disordered>>

-----------------------------------------------------------------------------
(* ensure_capacity.  A token stays valid for a while after its account. *)

BeginRequest(w, u) ==
    /\ pc[w] = "idle"
    /\ status[u] \in {"account", "gone"}
    /\ \/ /\ u \in admitted
          /\ answer' = [answer EXCEPT ![w] = "in"]
          /\ UNCHANGED <<pc, user, promised>>
       \/ /\ u \notin admitted
          /\ answer' = [answer EXCEPT ![w] = "none"]
          /\ pc' = [pc EXCEPT ![w] = "rank"]
          /\ user' = [user EXCEPT ![w] = u]
          /\ promised' = [promised EXCEPT ![w] = u \in everIn]
    /\ UNCHANGED <<world, admitted, rank, position, everIn, disordered>>

(* Slips: every account is counted; the newest sign-up ranks first. *)
RankAmongAll(u)   == Cardinality(Accounts)
RankNewestFirst(u) == Cardinality({v \in Accounts : u \in Accounts /\ created[v] >= created[u]})

(* select count( * ) from auth.users where created_at <= the user's own.  The *)
(* count of a user who has no row is 0, and lets them in.                     *)
Rank(u) == Cardinality({v \in Accounts : u \in Accounts /\ created[v] <= created[u]})

ReadRank(w) ==
    /\ pc[w] = "rank"
    /\ rank' = [rank EXCEPT ![w] = Rank(user[w])]
    /\ pc' = [pc EXCEPT ![w] = "decide"]
    /\ UNCHANGED <<world, admitted, user, answer, promised, position, everIn, disordered>>

(* Slip: `<=` against a rank that starts at 0. *)
WithinCapLoose(r) == r <= MaxUsers + 1

WithinCap(r) == r <= MaxUsers

(* ensure_capacity returns or raises, and its locals are gone. *)
Answered(w, a) ==
    /\ pc' = [pc EXCEPT ![w] = "idle"]
    /\ user' = [user EXCEPT ![w] = None]
    /\ rank' = [rank EXCEPT ![w] = 0]
    /\ promised' = [promised EXCEPT ![w] = FALSE]
    /\ answer' = [answer EXCEPT ![w] = a]

(* The user is remembered in _admitted and served. *)
LetIn(w) ==
    /\ admitted' = admitted \cup {user[w]}
    /\ everIn' = everIn \cup {user[w]}
    /\ Answered(w, "in")

(* Slip: the id is remembered before the rank is looked at. *)
DecideRemembersFirst(w) ==
    /\ pc[w] = "decide"
    /\ \/ WithinCap(rank[w]) /\ LetIn(w)
       \/ /\ ~WithinCap(rank[w])
          /\ admitted' = admitted \cup {user[w]}
          /\ Answered(w, "at_capacity")
          /\ UNCHANGED everIn
    /\ UNCHANGED <<world, position, disordered>>

Decide(w) ==
    /\ pc[w] = "decide"
    /\ \/ WithinCap(rank[w]) /\ LetIn(w)
       \/ /\ ~WithinCap(rank[w])
          /\ Answered(w, "at_capacity")
          /\ UNCHANGED <<admitted, everIn>>
    /\ UNCHANGED <<world, position, disordered>>

(* The request is cancelled while it waits, or the query fails. *)
Cancel(w) ==
    /\ pc[w] = "rank"
    /\ Answered(w, "none")
    /\ UNCHANGED <<world, admitted, position, everIn, disordered>>

(* "Safe to lose on restart — it just re-warms." *)
Restart ==
    /\ admitted' = {}
    /\ pc' = [w \in Workers |-> "idle"]
    /\ user' = [w \in Workers |-> None]
    /\ rank' = [w \in Workers |-> 0]
    /\ promised' = [w \in Workers |-> FALSE]
    /\ answer' = [w \in Workers |-> "none"]
    /\ UNCHANGED <<world, position, everIn, disordered>>

Next ==
    \/ Tick \/ Restart
    \/ \E u \in Users : BeginSignUp(u) \/ CommitSignUp(u) \/ DeleteUser(u)
    \/ \E w \in Workers : ReadRank(w) \/ Decide(w) \/ Cancel(w) \/ \E u \in Users : BeginRequest(w, u)

Spec == Init /\ [][Next]_vars

-----------------------------------------------------------------------------
TypeOK ==
    /\ clock \in 0..LastTick
    /\ status \in [Users -> Statuses]
    /\ created \in [Users -> 0..LastTick]
    /\ admitted \subseteq everIn /\ everIn \subseteq Users
    /\ pc \in [Workers -> {"idle", "rank", "decide"}]
    /\ user \in [Workers -> Users \cup {None}]
    /\ rank \in [Workers -> Nat]
    /\ answer \in [Workers -> {"none", "in", "at_capacity"}]
    /\ position \in [Users -> Nat]
    /\ promised \in [Workers -> BOOLEAN]
    /\ disordered \in BOOLEAN
    /\ \A w \in Workers : (pc[w] = "idle") = (user[w] = None)

TurnedAway(w) == pc[w] = "decide" /\ answer'[w] = "at_capacity"

(* "A user admitted once stays admitted", across restarts and whatever other *)
(* users do: nobody who was in when they sent their request is turned away.  *)
(* It needs sign-ups to become visible in the order of their created_at.     *)
AdmittedStaysInOrder ==
    [][\A w \in Workers : TurnedAway(w) /\ promised[w] => disordered]_vars

(* "The first max_users users are always admitted no matter what the current *)
(* total is."                                                                *)
FirstUsersAdmitted ==
    [][\A w \in Workers :
          TurnedAway(w) /\ position[user[w]] <= MaxUsers => disordered]_vars

(* No more than max_users of the existing accounts are ever let in, counting *)
(* those that earlier processes admitted.                                    *)
CapacityHolds == Cardinality(everIn \cap Accounts) <= MaxUsers \/ disordered

-----------------------------------------------------------------------------
(* What admission.py says without the condition. *)
AdmittedStays == [][\A w \in Workers : ~(TurnedAway(w) /\ promised[w])]_vars
=============================================================================
