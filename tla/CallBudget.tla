----------------------------- MODULE CallBudget -----------------------------
(***************************************************************************)
(* What the daily cap promises, without a counter or a database: every day *)
(* a user has a budget of numbered calls, a call is served only on a       *)
(* number of its own, and a number is issued once and served at most once. *)
(* A user who has their data deleted starts on a new budget.               *)
(***************************************************************************)
EXTENDS Integers

CONSTANTS
    Users,
    Days,
    Budgets,   \* numbers of the budgets a user may have in one day
    Cap        \* calls in a budget

Call == [user : Users, day : Days, budget : Budgets, number : 1..Cap]

VARIABLES
    issued,    \* calls reserved
    served     \* calls whose tool body has run

Init == issued = {} /\ served = {}

Issue(c) ==
    /\ c \notin issued
    /\ issued' = issued \cup {c}
    /\ UNCHANGED served

Serve(c) ==
    /\ c \in issued \ served
    /\ served' = served \cup {c}
    /\ UNCHANGED issued

Next == \E c \in Call : Issue(c) \/ Serve(c)

Spec == Init /\ [][Next]_<<issued, served>>
=============================================================================
