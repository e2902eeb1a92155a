----------------------------- MODULE UsageProofs -----------------------------
(* Usage keeps the promise of CallBudget, for every limit, every set of users *)
(* and handlers, and any number of days and purges.                           *)
EXTENDS Usage, TLAPS

(* The number n of user u's current budget for day d. *)
Numbered(u, d, n) == [user |-> u, day |-> d, budget |-> budget[u][d], number |-> n]

(* While the account exists its counter says which calls of the current       *)
(* budget were issued: the first callCount of them, and no other.             *)
CounterIsExact ==
    /\ \A u \in authUsers, d \in Days, n \in 1..Cap :
          Numbered(u, d, n) \in issued <=> n <= callCount[u][d]
    /\ \A c \in issued : c.budget <= budget[c.user][c.day]

(* A tool body is about to run on a call of its own that nobody ran before. *)
PendingIsUnserved ==
    \A w \in Workers : pc[w] = "body" =>
        /\ call[w] \in issued \ served
        /\ \A v \in Workers \ {w} : pc[v] = "body" => call[v] # call[w]

UsageInv == TypeOK /\ CounterIsExact /\ PendingIsUnserved

LEMMA CapFacts == Cap \in Nat \ {0} /\ (Limit > 0 => Cap = Limit)
BY LimitAssumption DEF Cap

LEMMA NoCallIsNone == ASSUME NEW c \in Call PROVE c # None
BY NoneAssumption, CapFacts, BoundsAssumption DEF Call, Days, Budgets

(* Ending a request disturbs neither the types nor the other handlers. *)
LEMMA FinishTypeOK ==
    ASSUME TypeOK, NEW w \in Workers, NEW a \in Answers, Finish(w, a),
           authUsers' \subseteq Users, today' \in Days,
           callCount' \in [Users -> [Days -> 0..Cap]],
           UNCHANGED <<budget, issued>>, served' \subseteq issued
    PROVE  TypeOK'
BY DEF TypeOK, Finish, Labels, Answers

(* ... and the counter stays exact if nothing but account and calls go.       *)
LEMMA FinishPending ==
    ASSUME UsageInv, NEW w \in Workers, NEW a \in Answers, Finish(w, a),
           UNCHANGED <<issued, served>>
    PROVE  PendingIsUnserved'
BY DEF UsageInv, TypeOK, PendingIsUnserved, Finish

LEMMA InitUsageInv == Init => UsageInv
<1> SUFFICES ASSUME Init PROVE UsageInv
  OBVIOUS
<1>1. TypeOK
  BY CapFacts, BoundsAssumption, NoneAssumption DEF Init, TypeOK, Days, Budgets, Answers, Labels
<1> QED
  BY <1>1, CapFacts DEF Init, UsageInv, CounterIsExact, PendingIsUnserved

(* What the upsert does when it grants a call. *)
LEMMA ReserveFacts ==
    ASSUME UsageInv, NEW w \in Workers, CheckAndIncrement(w)
    PROVE  LET u == user[w]
               n == Count(w) + 1
               c == Numbered(u, today, n)
           IN  /\ u \in authUsers /\ u \in Users /\ today \in Days
               /\ n \in 1..Cap /\ c \in Call /\ c \notin issued
               /\ callCount' = [callCount EXCEPT ![u] = [callCount[u] EXCEPT ![today] = n]]
               /\ pc' = [pc EXCEPT ![w] = "body"]
               /\ call' = [call EXCEPT ![w] = c]
               /\ issued' = issued \cup {c}
               /\ pc[w] = "reserve"
               /\ UNCHANGED <<authUsers, today, user, doomed, answer, budget, served>>
<1> DEFINE u == user[w]
           n == Count(w) + 1
           c == Numbered(u, today, n)
<1>1. /\ u \in authUsers /\ u \in Users /\ today \in Days /\ pc[w] = "reserve"
      /\ callCount[u][today] \in 0..Cap /\ callCount[u] \in [Days -> 0..Cap]
      /\ budget[u][today] \in Budgets
  BY DEF UsageInv, TypeOK, CheckAndIncrement, Reserve
<1>2. n \in 1..Cap
  BY <1>1, CapFacts, LimitAssumption DEF CheckAndIncrement, Reserve, Left, Count
<1>3. c \in Call
  BY <1>1, <1>2 DEF Numbered, Call
<1>4. c \notin issued
  BY <1>1, <1>2, CapFacts DEF UsageInv, CounterIsExact, Count
<1>5. /\ callCount' = [callCount EXCEPT ![u] = [callCount[u] EXCEPT ![today] = n]]
      /\ pc' = [pc EXCEPT ![w] = "body"]
      /\ call' = [call EXCEPT ![w] = c]
      /\ issued' = issued \cup {c}
      /\ UNCHANGED <<authUsers, today, user, doomed, answer, budget, served>>
  BY DEF CheckAndIncrement, Reserve, Numbered
<1> QED
  BY <1>1, <1>2, <1>3, <1>4, <1>5

LEMMA ReserveInv ==
    ASSUME UsageInv, NEW w \in Workers, CheckAndIncrement(w) PROVE UsageInv'
<1> DEFINE u == user[w]
           n == Count(w) + 1
           c == Numbered(u, today, n)
<1>1. /\ u \in authUsers /\ u \in Users /\ today \in Days
      /\ n \in 1..Cap /\ c \in Call /\ c \notin issued
      /\ callCount' = [callCount EXCEPT ![u] = [callCount[u] EXCEPT ![today] = n]]
      /\ pc' = [pc EXCEPT ![w] = "body"]
      /\ call' = [call EXCEPT ![w] = c]
      /\ issued' = issued \cup {c}
      /\ pc[w] = "reserve"
      /\ UNCHANGED <<authUsers, today, user, doomed, answer, budget, served>>
  BY ReserveFacts
<1>2. TypeOK /\ n = callCount[u][today] + 1 /\ callCount[u] \in [Days -> 0..Cap]
      /\ c.user = u /\ c.day = today /\ c.budget = budget[u][today] /\ c.number = n
  BY <1>1 DEF UsageInv, TypeOK, Count, Numbered
<1> HIDE DEF n, c
<1>3. TypeOK'
  <2>1. callCount' \in [Users -> [Days -> 0..Cap]]
    BY <1>1, <1>2, CapFacts DEF TypeOK
  <2>2. issued' \subseteq Call /\ served' \subseteq issued'
    BY <1>1, <1>2 DEF TypeOK
  <2> QED
    BY <1>1, <1>2, <2>1, <2>2, NoCallIsNone DEF TypeOK, Labels
<1>4. CounterIsExact'
  <2>1. ASSUME NEW x \in authUsers', NEW d \in Days, NEW k \in 1..Cap
        PROVE  Numbered(x, d, k)' \in issued' <=> k <= callCount'[x][d]
    <3>1. Numbered(x, d, k)' = Numbered(x, d, k) /\ x \in authUsers /\ x \in Users
      BY <1>1, <1>2 DEF Numbered, TypeOK
    <3>2. Numbered(x, d, k) \in issued <=> k <= callCount[x][d]
      BY <3>1 DEF UsageInv, CounterIsExact
    <3>3. Numbered(x, d, k) = c <=> x = u /\ d = today /\ k = n
      BY <1>1, <1>2, <3>1 DEF Numbered, c
    <3>4. CASE x = u /\ d = today
      <4>1. callCount'[x][d] = n
        BY <1>1, <1>2, <3>1, <3>4 DEF TypeOK
      <4>2. callCount[x][d] \in Nat /\ n = callCount[x][d] + 1
        BY <1>2, <3>4, CapFacts
      <4> QED
        BY <1>1, <3>1, <3>2, <3>3, <3>4, <4>1, <4>2, CapFacts
    <3>5. CASE ~(x = u /\ d = today)
      <4>1. callCount'[x][d] = callCount[x][d]
        BY <1>1, <1>2, <3>1, <3>5 DEF TypeOK
      <4> QED
        BY <1>1, <3>1, <3>2, <3>3, <3>5, <4>1
    <3> QED
      BY <3>4, <3>5
  <2>2. ASSUME NEW x \in issued' PROVE x.budget <= budget'[x.user][x.day]
    <3>1. CASE x = c
      <4>1. budget[u][today] \in Nat
        BY <1>1, <1>2, BoundsAssumption DEF TypeOK, Budgets
      <4> QED
        BY <1>1, <1>2, <3>1, <4>1
    <3>2. CASE x \in issued
      BY <1>1, <3>2 DEF UsageInv, CounterIsExact
    <3> QED
      BY <1>1, <3>1, <3>2
  <2> QED
    BY <2>1, <2>2 DEF CounterIsExact
<1>5. PendingIsUnserved'
  <2>1. call'[w] = c /\ pc'[w] = "body" /\ \A v \in Workers \ {w} : call'[v] = call[v] /\ pc'[v] = pc[v]
    BY <1>1, <1>2 DEF TypeOK
  <2>2. served \subseteq issued
    BY <1>2 DEF TypeOK
  <2> QED
    BY <1>1, <2>1, <2>2 DEF UsageInv, PendingIsUnserved
<1> QED
  BY <1>3, <1>4, <1>5 DEF UsageInv

LEMMA PurgeInv ==
    ASSUME UsageInv, NEW w \in Workers, CommitPurge(w) PROVE UsageInv'
<1> DEFINE u == user[w]
           counts == [d \in Days |-> IF d \in doomed[w] THEN 0 ELSE callCount[u][d]]
           budgets == [d \in Days |-> IF d \in doomed[w] THEN budget[u][d] + 1 ELSE budget[u][d]]
<1>1. /\ pc[w] = "commit" /\ u \in Users /\ doomed[w] \subseteq Days
      /\ callCount[u] \in [Days -> 0..Cap] /\ budget[u] \in [Days -> Budgets] /\ TypeOK
      /\ \A d \in doomed[w] : budget[u][d] < MaxBudgets
  BY DEF UsageInv, TypeOK, CommitPurge
<1>2. /\ callCount' = [callCount EXCEPT ![u] = counts]
      /\ budget' = [budget EXCEPT ![u] = budgets]
      /\ pc' = [pc EXCEPT ![w] = "auth_user"]
      /\ doomed' = [doomed EXCEPT ![w] = {}]
      /\ UNCHANGED <<authUsers, today, user, call, answer, issued, served>>
  BY <1>1 DEF CommitPurge, TypeOK
<1>3. counts \in [Days -> 0..Cap]
  BY <1>1, CapFacts
<1>4. budgets \in [Days -> Budgets] /\ \A d \in Days : budgets[d] >= budget[u][d]
  BY <1>1, BoundsAssumption DEF Budgets
<1>5. /\ \A x \in Users \ {u} : callCount'[x] = callCount[x] /\ budget'[x] = budget[x]
      /\ callCount'[u] = counts /\ budget'[u] = budgets
  BY <1>1, <1>2 DEF TypeOK
<1>6. /\ \A d \in doomed[w] : counts[d] = 0 /\ budgets[d] = budget[u][d] + 1
      /\ \A d \in Days \ doomed[w] : counts[d] = callCount[u][d] /\ budgets[d] = budget[u][d]
  BY <1>1
<1> HIDE DEF counts, budgets
<1>7. TypeOK'
  BY <1>1, <1>2, <1>3, <1>4 DEF TypeOK, Labels
<1>8. CounterIsExact'
  <2>1. ASSUME NEW x \in authUsers', NEW d \in Days, NEW k \in 1..Cap
        PROVE  Numbered(x, d, k)' \in issued' <=> k <= callCount'[x][d]
    <3>1. x \in authUsers /\ x \in Users /\ issued' = issued
      BY <1>1, <1>2 DEF TypeOK
    <3>2. CASE x = u /\ d \in doomed[w]
      <4>1. Numbered(x, d, k)' \notin issued
        <5>1. Numbered(x, d, k)'.budget = budget[u][d] + 1 /\ Numbered(x, d, k)'.user = u
              /\ Numbered(x, d, k)'.day = d
          BY <1>5, <1>6, <3>2 DEF Numbered
        <5>2. budget[u][d] \in Nat
          BY <1>1, BoundsAssumption DEF Budgets
        <5> QED
          BY <5>1, <5>2 DEF UsageInv, CounterIsExact
      <4>2. callCount'[x][d] = 0
        BY <1>5, <1>6, <3>2
      <4> QED
        BY <3>1, <4>1, <4>2, CapFacts
    <3>3. CASE ~(x = u /\ d \in doomed[w])
      <4>1. callCount'[x][d] = callCount[x][d] /\ budget'[x][d] = budget[x][d]
        BY <1>5, <1>6, <3>1, <3>3
      <4> QED
        BY <3>1, <4>1 DEF UsageInv, CounterIsExact, Numbered
    <3> QED
      BY <3>2, <3>3
  <2>2. ASSUME NEW c \in issued' PROVE c.budget <= budget'[c.user][c.day]
    <3>1. /\ c \in issued /\ c.user \in Users /\ c.day \in Days /\ c.budget \in Nat
          /\ c.budget <= budget[c.user][c.day]
      BY <1>1, <1>2, BoundsAssumption DEF TypeOK, Call, Budgets, UsageInv, CounterIsExact
    <3>2. budget[c.user][c.day] \in Nat /\ budget'[c.user][c.day] \in Nat
      BY <1>1, <1>7, <3>1, BoundsAssumption DEF TypeOK, Budgets
    <3> QED
      BY <1>4, <1>5, <3>1, <3>2
  <2> QED
    BY <2>1, <2>2 DEF CounterIsExact
<1>9. PendingIsUnserved'
  BY <1>1, <1>2 DEF UsageInv, PendingIsUnserved, TypeOK
<1> QED
  BY <1>7, <1>8, <1>9 DEF UsageInv

LEMMA RunToolInv ==
    ASSUME UsageInv, NEW w \in Workers, RunTool(w) PROVE UsageInv'
<1>1. /\ pc[w] = "body" /\ call[w] \in issued \ served /\ Finish(w, "served")
      /\ served' = served \cup {call[w]} /\ UNCHANGED <<tables, budget, issued>>
  BY DEF RunTool, UsageInv, PendingIsUnserved
<1>2. TypeOK'
  BY <1>1, FinishTypeOK DEF UsageInv, TypeOK, tables, Answers
<1>3. CounterIsExact'
  BY <1>1 DEF UsageInv, CounterIsExact, Numbered, tables
<1>4. PendingIsUnserved'
  BY <1>1 DEF UsageInv, TypeOK, PendingIsUnserved, Finish
<1> QED
  BY <1>2, <1>3, <1>4 DEF UsageInv

LEMMA DeleteAuthUserInv ==
    ASSUME UsageInv, NEW w \in Workers, DeleteAuthUser(w) PROVE UsageInv'
<1>1. /\ user[w] \in Users /\ Finish(w, "account_deleted")
      /\ authUsers' = authUsers \ {user[w]}
      /\ callCount' = [callCount EXCEPT ![user[w]] = [d \in Days |-> 0]]
      /\ UNCHANGED <<today, budget, issued, served>> /\ TypeOK
  BY DEF DeleteAuthUser, UsageInv, TypeOK, history
<1>2. callCount' \in [Users -> [Days -> 0..Cap]]
  BY <1>1, CapFacts DEF TypeOK
<1>3. TypeOK'
  BY <1>1, <1>2, FinishTypeOK DEF TypeOK, Answers
<1>4. CounterIsExact'
  BY <1>1 DEF UsageInv, TypeOK, CounterIsExact, Numbered
<1>5. PendingIsUnserved'
  BY <1>1, FinishPending DEF Answers
<1> QED
  BY <1>3, <1>4, <1>5 DEF UsageInv

LEMMA NextUsageInv == UsageInv /\ [Next]_vars => UsageInv'
<1> SUFFICES ASSUME UsageInv, [Next]_vars PROVE UsageInv'
  OBVIOUS
<1>1. ASSUME NEW w \in Workers, CheckAndIncrement(w) PROVE UsageInv'
  BY <1>1, ReserveInv
<1>2. ASSUME NEW w \in Workers, CommitPurge(w) PROVE UsageInv'
  BY <1>2, PurgeInv
<1>3. ASSUME NEW w \in Workers, RunTool(w) PROVE UsageInv'
  BY <1>3, RunToolInv
<1>4. ASSUME NEW w \in Workers, DeleteAuthUser(w) PROVE UsageInv'
  BY <1>4, DeleteAuthUserInv
<1>5. ASSUME NEW w \in Workers, Refuse(w) \/ ReserveFails(w) \/ Abort(w) PROVE UsageInv'
  <2>1. PICK a \in Answers : Finish(w, a) /\ UNCHANGED <<tables, history>>
    BY <1>5 DEF Refuse, Refused, ReserveFails, Abort, Answers
  <2>2. TypeOK'
    BY <2>1, FinishTypeOK DEF UsageInv, TypeOK, tables, history
  <2>3. CounterIsExact'
    BY <2>1 DEF UsageInv, CounterIsExact, Numbered, tables, history
  <2>4. PendingIsUnserved'
    BY <2>1, FinishPending DEF history
  <2> QED
    BY <2>2, <2>3, <2>4 DEF UsageInv
<1>6. ASSUME NEW w \in Workers, NEW u \in Users, BeginCall(w, u) \/ BeginDeleteAccount(w, u)
      PROVE UsageInv'
  <2> DEFINE l == pc'[w]
  <2>0. /\ TypeOK /\ pc[w] = "idle" /\ l \in {"reserve", "purge"} /\ u # None
        /\ pc' = [pc EXCEPT ![w] = l] /\ user' = [user EXCEPT ![w] = u]
        /\ answer' = [answer EXCEPT ![w] = "none"]
        /\ UNCHANGED <<tables, call, doomed, history>>
    BY <1>6, NoneAssumption DEF BeginCall, BeginDeleteAccount, Begin, UsageInv, TypeOK
  <2> HIDE DEF l
  <2>1. TypeOK'
    BY <2>0 DEF TypeOK, tables, history, Answers, Labels
  <2>2. CounterIsExact' /\ PendingIsUnserved'
    BY <1>6 DEF BeginCall, BeginDeleteAccount, Begin, UsageInv, TypeOK, CounterIsExact, Numbered,
                PendingIsUnserved, tables, history
  <2> QED
    BY <2>1, <2>2 DEF UsageInv
<1>7. ASSUME NEW w \in Workers, PurgeCounters(w) PROVE UsageInv'
  <2>1. TypeOK'
    BY <1>7 DEF PurgeCounters, UsageInv, TypeOK, tables, history, Labels
  <2>2. CounterIsExact' /\ PendingIsUnserved'
    BY <1>7 DEF PurgeCounters, UsageInv, TypeOK, CounterIsExact, Numbered, PendingIsUnserved,
                tables, history
  <2> QED
    BY <2>1, <2>2 DEF UsageInv
<1>8. CASE NewDay \/ UNCHANGED vars
  <2>1. TypeOK'
    BY <1>8, BoundsAssumption DEF NewDay, vars, UsageInv, TypeOK, tables, history, Days
  <2>2. CounterIsExact' /\ PendingIsUnserved'
    BY <1>8 DEF NewDay, vars, UsageInv, CounterIsExact, Numbered, PendingIsUnserved, tables, history
  <2> QED
    BY <2>1, <2>2 DEF UsageInv
<1> QED
  BY <1>1, <1>2, <1>3, <1>4, <1>5, <1>6, <1>7, <1>8 DEF Next

(* The counter, the calls in flight and the history of calls agree in every  *)
(* reachable state.                                                          *)
THEOREM UsageInvariant == Spec => []UsageInv
<1> QED
  BY InitUsageInv, NextUsageInv, PTL DEF Spec

THEOREM UsageTypeCorrect == Spec => []TypeOK
<1>1. UsageInv => TypeOK
  BY DEF UsageInv
<1> QED
  BY <1>1, UsageInvariant, PTL

(* A step that touches the histories issues or serves one call. *)
LEMMA HistorySteps ==
    ASSUME UsageInv, [Next]_vars
    PROVE  \/ CB!Next
           \/ UNCHANGED <<issued, served>>
<1>1. ASSUME NEW w \in Workers, CheckAndIncrement(w) PROVE CB!Next
  <2> DEFINE c == Numbered(user[w], today, Count(w) + 1)
  <2>1. c \in Call /\ c \notin issued /\ issued' = issued \cup {c} /\ UNCHANGED served
    BY <1>1, ReserveFacts
  <2>2. CB!Issue(c) /\ c \in CB!Call
    BY <2>1 DEF CB!Issue, CB!Call, Call
  <2> QED
    BY <2>2 DEF CB!Next
<1>2. ASSUME NEW w \in Workers, RunTool(w) PROVE CB!Next
  <2>1. call[w] \in issued \ served /\ served' = served \cup {call[w]} /\ UNCHANGED issued
    BY <1>2 DEF RunTool, UsageInv, PendingIsUnserved
  <2>2. CB!Serve(call[w]) /\ call[w] \in CB!Call
    BY <2>1 DEF CB!Serve, CB!Call, Call, UsageInv, TypeOK
  <2> QED
    BY <2>2 DEF CB!Next
<1>3. ASSUME NEW w \in Workers,
             \/ Refuse(w) \/ ReserveFails(w) \/ Abort(w) \/ PurgeCounters(w)
             \/ CommitPurge(w) \/ DeleteAuthUser(w)
             \/ \E u \in Users : BeginCall(w, u) \/ BeginDeleteAccount(w, u)
      PROVE UNCHANGED <<issued, served>>
  BY <1>3 DEF Refuse, Refused, ReserveFails, Abort, PurgeCounters, CommitPurge, DeleteAuthUser,
              BeginCall, BeginDeleteAccount, Begin, history
<1>4. CASE NewDay \/ UNCHANGED vars
  BY <1>4 DEF NewDay, vars, history
<1> QED
  BY <1>1, <1>2, <1>3, <1>4 DEF Next

(* Usage implements CallBudget: whatever calls, cancellations, purges and    *)
(* midnights interleave, each call that is served has a number of its own    *)
(* within the cap, issued once and served at most once.                      *)
THEOREM UsageKeepsBudget == Spec => KeepsBudget
<1>1. Init => CB!Init
  BY DEF Init, CB!Init
<1>2. UsageInv /\ [Next]_vars => [CB!Next]_<<issued, served>>
  BY HistorySteps
<1> QED
  BY <1>1, <1>2, UsageInvariant, PTL DEF Spec, KeepsBudget, CB!Spec

(* Nobody is refused a call while one of today's budget is left. *)
THEOREM UsageRefusesWhenSpent == Spec => RefusedWhenSpent
<1>1. ASSUME UsageInv, [Next]_vars, NEW w \in Workers,
             pc[w] = "reserve", answer'[w] = "limit_reached", NEW n \in 1..Cap
      PROVE  [user |-> user[w], day |-> today, budget |-> budget[user[w]][today],
              number |-> n] \in issued
  <2>0. pc[w] = "reserve" /\ answer[w] \in Answers /\ TypeOK
    BY <1>1 DEF UsageInv, TypeOK
  <2>1. CASE Refuse(w)
    <3>1. user[w] \in authUsers /\ user[w] \in Users /\ today \in Days /\ ~Left(w)
      BY <2>0, <2>1 DEF Refuse, Refused, TypeOK
    <3>2. callCount[user[w]][today] \in 0..Cap
      BY <2>0, <3>1 DEF TypeOK
    <3>3. n <= callCount[user[w]][today]
      BY <3>1, <3>2, CapFacts, LimitAssumption DEF Left, Count, Cap
    <3> QED
      BY <1>1, <3>1, <3>3 DEF UsageInv, CounterIsExact, Numbered
  <2>2. CASE ~Refuse(w)
    <3>1. /\ pc \in [Workers -> Labels] /\ answer \in [Workers -> Answers]
          /\ pc[w] = "reserve" /\ answer[w] = "none" /\ answer'[w] = "limit_reached"
      BY <1>1, <2>0 DEF TypeOK
    <3>2. ASSUME NEW v \in Workers,
                 \/ CheckAndIncrement(v) \/ PurgeCounters(v) \/ CommitPurge(v)
                 \/ \E u \in Users : BeginCall(v, u) \/ BeginDeleteAccount(v, u)
          PROVE  FALSE
      BY <3>1, <3>2 DEF CheckAndIncrement, Reserve, PurgeCounters, CommitPurge, BeginCall,
                        BeginDeleteAccount, Begin
    <3>3. ASSUME NEW v \in Workers,
                 ReserveFails(v) \/ RunTool(v) \/ DeleteAuthUser(v) \/ Abort(v)
          PROVE  FALSE
      BY <3>1, <3>3 DEF ReserveFails, RunTool, DeleteAuthUser, Abort, Finish
    <3>4. ASSUME NEW v \in Workers, v # w, Refuse(v) PROVE FALSE
      BY <3>1, <3>4 DEF Refuse, Refused, Finish
    <3>5. ASSUME NewDay \/ UNCHANGED vars PROVE FALSE
      BY <3>1, <3>5 DEF NewDay, vars
    <3> QED
      BY <1>1, <2>2, <3>2, <3>3, <3>4, <3>5 DEF Next
  <2> QED
    BY <2>1, <2>2
<1>2. UsageInv /\ [Next]_vars =>
        [\A w \in Workers :
          (pc[w] = "reserve" /\ answer'[w] = "limit_reached") =>
              \A n \in 1..Cap :
                  [user |-> user[w], day |-> today, budget |-> budget[user[w]][today],
                   number |-> n] \in issued]_vars
  BY <1>1
<1> QED
  BY <1>2, UsageInvariant, PTL DEF Spec, RefusedWhenSpent
=============================================================================
