-------------------------------- MODULE Usage --------------------------------
(***************************************************************************)
(* The daily cap on assistant calls: check_and_increment of                *)
(* backend/app/services/usage.py under the closet_tool wrapper of          *)
(* mcp_server/tools.py, run by concurrent tool calls while the day changes *)
(* and while delete_account (services/profile.py) removes the counters.    *)
(*                                                                         *)
(* One step is one SQL statement or the Python between two awaits.  The    *)
(* upsert is one statement in its own transaction; it waits when another   *)
(* transaction has deleted the row it conflicts with and not committed.    *)
(***************************************************************************)
EXTENDS Integers, FiniteSets

CONSTANTS
    Users,        \* ids a verified token can carry
    Workers,      \* handlers in flight at the same time
    Limit,        \* settings.daily_mcp_call_limit
    LastDay,      \* bound: days are 0..LastDay
    MaxBudgets,   \* bound: purges of one user's counter of a day, plus one
    None          \* no user, no call

ASSUME LimitAssumption == Limit \in Nat
ASSUME BoundsAssumption == LastDay \in Nat /\ MaxBudgets \in Nat \ {0}
ASSUME NoneAssumption == None \notin Users /\ None \notin [user : Users, day : Nat, budget : Nat, number : Nat]

Days    == 0..LastDay
Budgets == 1..MaxBudgets

(* The insert of a day's first call does not look at the limit. *)
Cap == IF Limit = 0 THEN 1 ELSE Limit

Call == [user : Users, day : Days, budget : Budgets, number : 1..Cap]

VARIABLES
    authUsers,    \* auth.users
    today,        \* (now() at time zone 'utc')::date
    callCount,    \* usage_counters.call_count by user and day; 0 where there is no row
    pc,           \* where each handler is
    user,         \* whose request it serves
    call,         \* the call check_and_increment reserved for it
    doomed,       \* days whose row its open transaction has deleted
    answer,       \* what its last finished request returned
    budget,       \* history: how many budgets each user has been given for a day
    issued,       \* history: the calls reserved
    served        \* history: the calls whose tool body has run

tables  == <<authUsers, today, callCount>>
history == <<budget, issued, served>>
vars    == <<tables, pc, user, call, doomed, answer, history>>

Labels  == {"idle", "reserve", "body", "purge", "commit", "auth_user"}
Answers == {"none", "lost", "error", "limit_reached", "served", "account_deleted"}

Init ==
    /\ authUsers = Users
    /\ today = 0
    /\ callCount = [u \in Users |-> [d \in Days |-> 0]]
    /\ pc = [w \in Workers |-> "idle"]
    /\ user = [w \in Workers |-> None]
    /\ call = [w \in Workers |-> None]
    /\ doomed = [w \in Workers |-> {}]
    /\ answer = [w \in Workers |-> "none"]
    /\ budget = [u \in Users |-> [d \in Days |-> 1]]
    /\ issued = {} /\ served = {}

(* The transaction of another handler has deleted the row and holds its lock. *)
RowLocked(w, u, d) == \E v \in Workers \ {w} : user[v] = u /\ d \in doomed[v]

Begin(w, u, label) ==
    /\ pc[w] = "idle"
    /\ pc' = [pc EXCEPT ![w] = label]
    /\ user' = [user EXCEPT ![w] = u]
    /\ answer' = [answer EXCEPT ![w] = "none"]
    /\ UNCHANGED <<tables, call, doomed, history>>

(* Slip: the connection goes back to the pool with its transaction open. *)
FinishUnclosed(w, a) ==
    /\ pc' = [pc EXCEPT ![w] = "idle"]
    /\ user' = [user EXCEPT ![w] = None]
    /\ call' = [call EXCEPT ![w] = None]
    /\ answer' = [answer EXCEPT ![w] = a]
    /\ UNCHANGED doomed

Finish(w, a) ==
    /\ pc' = [pc EXCEPT ![w] = "idle"]
    /\ user' = [user EXCEPT ![w] = None]
    /\ call' = [call EXCEPT ![w] = None]
    /\ answer' = [answer EXCEPT ![w] = a]
    /\ doomed' = [doomed EXCEPT ![w] = {}]

(* The handler is cancelled or a statement raises; an open transaction is    *)
(* rolled back, a reserved call stays spent.                                 *)
Abort(w) == pc[w] # "idle" /\ Finish(w, "lost") /\ UNCHANGED <<tables, history>>

NewDay ==
    /\ today < LastDay
    /\ today' = today + 1
    /\ UNCHANGED <<authUsers, callCount, pc, user, call, doomed, answer, history>>

-----------------------------------------------------------------------------
(* A tool call. *)

BeginCall(w, u) == Begin(w, u, "reserve")

(* The upsert of check_and_increment found a row with `left` calls left in it *)
(* (or none) and counted this call as the n-th.                               *)
Reserve(w, n, allowed) ==
    LET u == user[w]
        c == [user |-> u, day |-> today, budget |-> budget[u][today], number |-> n]
    IN  /\ pc[w] = "reserve"
        /\ u \in authUsers
        /\ ~RowLocked(w, u, today)
        /\ allowed
        /\ callCount' = [callCount EXCEPT ![u][today] = n]
        /\ pc' = [pc EXCEPT ![w] = "body"]
        /\ call' = [call EXCEPT ![w] = c]
        /\ issued' = issued \cup {c}
        /\ UNCHANGED <<authUsers, today, user, doomed, answer, budget, served>>

Count(w) == callCount[user[w]][today]

(* No row yet, or one the `where call_count < limit` lets through. *)
Left(w) == Count(w) = 0 \/ Count(w) < Limit

Refused(w, spent) ==
    /\ pc[w] = "reserve"
    /\ user[w] \in authUsers
    /\ ~RowLocked(w, user[w], today)
    /\ spent
    /\ Finish(w, "limit_reached")
    /\ UNCHANGED <<tables, history>>

(* Slip: `<=` for `<` in the upsert. *)
CheckAndIncrementLoose(w) == Reserve(w, Count(w) + 1, Count(w) <= Limit)

CheckAndIncrement(w) == Reserve(w, Count(w) + 1, Left(w))

(* Slip: the row is compared with limit - 1. *)
RefuseEarly(w) == Refused(w, Count(w) > 0 /\ Count(w) >= Limit - 1)

(* UsageLimitExceededError: the upsert returned no row. *)
Refuse(w) == Refused(w, ~Left(w))

(* No auth.users row: the foreign key refuses the insert and the call fails. *)
ReserveFails(w) ==
    /\ pc[w] = "reserve"
    /\ user[w] \notin authUsers
    /\ Finish(w, "error")
    /\ UNCHANGED <<tables, history>>

(* The body runs and the reply goes out, with the result or with an error of *)
(* the tool: a call that failed was served all the same.                     *)
RunTool(w) ==
    /\ pc[w] = "body"
    /\ served' = served \cup {call[w]}
    /\ Finish(w, "served")
    /\ UNCHANGED <<tables, budget, issued>>

-----------------------------------------------------------------------------
(* delete_account, as far as it touches the counters. *)

BeginDeleteAccount(w, u) == Begin(w, u, "purge")

PurgeCounters(w) ==
    LET rows == {d \in Days : callCount[user[w]][d] > 0}
    IN  /\ pc[w] = "purge"
        /\ \A d \in rows : ~RowLocked(w, user[w], d)
        /\ pc' = [pc EXCEPT ![w] = "commit"]
        /\ doomed' = [doomed EXCEPT ![w] = rows]
        /\ UNCHANGED <<tables, user, call, answer, history>>

CommitPurge(w) ==
    LET u == user[w]
    IN  /\ pc[w] = "commit"
        /\ \A d \in doomed[w] : budget[u][d] < MaxBudgets
        /\ callCount' = [callCount EXCEPT
                ![u] = [d \in Days |-> IF d \in doomed[w] THEN 0 ELSE @[d]]]
        /\ budget' = [budget EXCEPT
                ![u] = [d \in Days |-> IF d \in doomed[w] THEN @[d] + 1 ELSE @[d]]]
        /\ pc' = [pc EXCEPT ![w] = "auth_user"]
        /\ doomed' = [doomed EXCEPT ![w] = {}]
        /\ UNCHANGED <<authUsers, today, user, call, answer, issued, served>>

(* The Admin API or the fallback removes the auth.users row, and the counters *)
(* of every day cascade with it.                                              *)
DeleteAuthUser(w) ==
    LET u == user[w]
    IN  /\ pc[w] = "auth_user"
        /\ \A d \in Days : ~RowLocked(w, u, d)
        /\ authUsers' = authUsers \ {u}
        /\ callCount' = [callCount EXCEPT ![u] = [d \in Days |-> 0]]
        /\ Finish(w, "account_deleted")
        /\ UNCHANGED <<today, history>>

-----------------------------------------------------------------------------
Next ==
    \/ NewDay
    \/ \E w \in Workers, u \in Users : BeginCall(w, u) \/ BeginDeleteAccount(w, u)
    \/ \E w \in Workers :
          \/ CheckAndIncrement(w) \/ Refuse(w) \/ ReserveFails(w) \/ RunTool(w)
          \/ PurgeCounters(w) \/ CommitPurge(w) \/ DeleteAuthUser(w)
          \/ Abort(w)

Spec == Init /\ [][Next]_vars

-----------------------------------------------------------------------------
TypeOK ==
    /\ authUsers \subseteq Users
    /\ today \in Days
    /\ callCount \in [Users -> [Days -> 0..Cap]]
    /\ pc \in [Workers -> Labels]
    /\ user \in [Workers -> Users \cup {None}]
    /\ call \in [Workers -> Call \cup {None}]
    /\ doomed \in [Workers -> SUBSET Days]
    /\ answer \in [Workers -> Answers]
    /\ budget \in [Users -> [Days -> Budgets]]
    /\ issued \subseteq Call /\ served \subseteq issued
    /\ \A w \in Workers : /\ (pc[w] = "idle") = (user[w] = None)
                          /\ (pc[w] = "body") = (call[w] # None)
                          /\ doomed[w] # {} => pc[w] = "commit"
                          /\ pc[w] # "idle" => answer[w] = "none"

(* "A single atomic upsert, so concurrent tool calls cannot both slip past    *)
(* the cap": whatever calls, purges and midnights interleave, the tool bodies *)
(* that run are those of distinct numbered calls within the cap.              *)
CB == INSTANCE CallBudget WITH Users <- Users, Days <- Days, Budgets <- Budgets, Cap <- Cap,
                             issued <- issued, served <- served

KeepsBudget == CB!Spec

(* A call is refused only when every call of the current budget was reserved. *)
RefusedWhenSpent ==
    [][\A w \in Workers :
          (pc[w] = "reserve" /\ answer'[w] = "limit_reached") =>
              \A n \in 1..Cap :
                  [user |-> user[w], day |-> today, budget |-> budget[user[w]][today],
                   number |-> n] \in issued]_vars

=============================================================================
