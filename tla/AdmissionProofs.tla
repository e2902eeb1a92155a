-------------------------- MODULE AdmissionProofs --------------------------
(* The sign-up cap holds, and the first users stay in, for every number of   *)
(* users, requests and places and every clock, as long as sign-ups become    *)
(* visible in the order of their created_at.                                 *)
EXTENDS Admission, FiniteSetTheorems, WellFoundedInduction, TLAPS

Visible == {"account", "gone"}

(* No two accounts share a created_at, and none ranks behind the place it    *)
(* signed up at.                                                             *)
OrderInv ==
    /\ \A u, v \in Accounts : created[u] = created[v] => u = v
    /\ \A u \in Accounts : Rank(u) <= position[u]

(* Whoever was let in ranks within the cap for as long as the account lives: *)
(* later sign-ups rank behind it.                                            *)
AdmittedInv ==
    /\ \A u \in everIn : status[u] \in Visible
    /\ \A u \in everIn \cap Accounts : Rank(u) <= MaxUsers

(* A rank that was read is the user's place at most, no lower than what the  *)
(* user's rank has become, and within the cap for one admitted before.       *)
ReadInv ==
    \A w \in Workers :
        /\ pc[w] # "idle" => status[user[w]] \in Visible
        /\ promised[w] => user[w] \in everIn
        /\ pc[w] = "decide" =>
            /\ rank[w] <= position[user[w]]
            /\ user[w] \in Accounts => Rank(user[w]) <= rank[w]
            /\ promised[w] => rank[w] <= MaxUsers

InOrderInv == OrderInv /\ AdmittedInv /\ ReadInv

(* A request under way has no answer yet. *)
AnswerInv == \A w \in Workers : pc[w] # "idle" => answer[w] = "none"

AdmissionInv == TypeOK /\ AnswerInv /\ (disordered \/ InOrderInv)

-----------------------------------------------------------------------------
(* Types.                                                                    *)

(* A set of users has a natural cardinality, no greater than a larger one's. *)
LEMMA Counting ==
    ASSUME NEW T \in SUBSET Users
    PROVE  /\ IsFiniteSet(T) /\ Cardinality(T) \in Nat
           /\ \A S \in SUBSET T : Cardinality(S) \in Nat /\ Cardinality(S) <= Cardinality(T)
<1>1. IsFiniteSet(T)
  BY UsersAssumption, FS_Subset
<1>2. \A S \in SUBSET T : IsFiniteSet(S) /\ Cardinality(S) <= Cardinality(T)
  BY <1>1, FS_Subset
<1> QED
  BY <1>1, <1>2, FS_CardinalityType

LEMMA RankIsNat == \A u \in Users : Rank(u) \in Nat
<1> SUFFICES ASSUME NEW u \in Users PROVE Rank(u) \in Nat
  OBVIOUS
<1>1. {v \in Accounts : u \in Accounts /\ created[v] <= created[u]} \in SUBSET Users
  BY DEF Accounts
<1> QED
  BY <1>1, Counting DEF Rank

LEMMA InitInv == Init => AdmissionInv
<1> SUFFICES ASSUME Init PROVE AdmissionInv
  OBVIOUS
<1>1. TypeOK
  <2>1. /\ clock \in 0..LastTick /\ status \in [Users -> Statuses]
        /\ created \in [Users -> 0..LastTick]
        /\ rank \in [Workers -> Nat] /\ position \in [Users -> Nat]
    BY CapacityAssumption DEF Init, Statuses
  <2>2. /\ admitted \subseteq everIn /\ everIn \subseteq Users
        /\ pc \in [Workers -> {"idle", "rank", "decide"}]
        /\ user \in [Workers -> Users \cup {None}]
        /\ answer \in [Workers -> {"none", "in", "at_capacity"}]
        /\ promised \in [Workers -> BOOLEAN] /\ disordered \in BOOLEAN
    BY DEF Init
  <2>3. \A w \in Workers : pc[w] = "idle" /\ user[w] = None
    BY DEF Init
  <2> QED
    BY <2>1, <2>2, <2>3 DEF TypeOK
<1>2. Accounts = {} /\ everIn = {}
  BY DEF Init, Accounts
<1>3. InOrderInv /\ AnswerInv
  BY <1>2 DEF Init, InOrderInv, OrderInv, AdmittedInv, ReadInv, AnswerInv
<1> QED
  BY <1>1, <1>3 DEF AdmissionInv

LEMMA TypeStep == TypeOK /\ [Next]_vars => TypeOK'
<1> SUFFICES ASSUME TypeOK, [Next]_vars PROVE TypeOK'
  OBVIOUS
<1> USE DEF TypeOK
<1>1. CASE Tick
  BY <1>1, CapacityAssumption DEF Tick, request
<1>2. CASE Restart
  BY <1>2 DEF Restart, world
<1>3. ASSUME NEW u \in Users, BeginSignUp(u)
      PROVE  TypeOK'
  BY <1>3 DEF BeginSignUp, request, Statuses
<1>4. ASSUME NEW u \in Users, CommitSignUp(u)
      PROVE  TypeOK'
  <2>1. Cardinality({v \in Users : status[v] \in {"account", "gone"}}) + 1 \in Nat
    <3>1. {v \in Users : status[v] \in {"account", "gone"}} \in SUBSET Users
      OBVIOUS
    <3>2. Cardinality({v \in Users : status[v] \in {"account", "gone"}}) \in Nat
      BY <3>1, Counting
    <3> QED
      BY <3>2
  <2> QED
    BY <1>4, <2>1 DEF CommitSignUp, request, Statuses
<1>5. ASSUME NEW u \in Users, DeleteUser(u)
      PROVE  TypeOK'
  BY <1>5 DEF DeleteUser, request, Statuses
<1>6. ASSUME NEW w \in Workers, ReadRank(w)
      PROVE  TypeOK'
  <2>1. user[w] \in Users
    BY <1>6 DEF ReadRank
  <2> QED
    BY <1>6, <2>1, RankIsNat DEF ReadRank, world
<1>7. ASSUME NEW w \in Workers, Decide(w)
      PROVE  TypeOK'
  <2>1. user[w] \in Users
    BY <1>7 DEF Decide
  <2>2. CASE LetIn(w)
    BY <1>7, <2>1, <2>2 DEF Decide, LetIn, Answered, world
  <2>3. CASE Answered(w, "at_capacity") /\ UNCHANGED <<admitted, everIn>>
    BY <1>7, <2>3 DEF Decide, Answered, world
  <2> QED
    BY <1>7, <2>2, <2>3 DEF Decide
<1>8. ASSUME NEW w \in Workers, Cancel(w)
      PROVE  TypeOK'
  BY <1>8 DEF Cancel, Answered, world
<1>9. ASSUME NEW w \in Workers, NEW u \in Users, BeginRequest(w, u)
      PROVE  TypeOK'
  <2>1. u # None
    BY UsersAssumption
  <2>3. CASE u \in admitted
    BY <1>9, <2>3 DEF BeginRequest, world
  <2>4. CASE u \notin admitted
    <3>1. /\ pc[w] = "idle"
          /\ pc' = [pc EXCEPT ![w] = "rank"] /\ user' = [user EXCEPT ![w] = u]
          /\ promised' = [promised EXCEPT ![w] = (u \in everIn)]
          /\ answer' = [answer EXCEPT ![w] = "none"]
      BY <1>9, <2>4 DEF BeginRequest
    <3>2. pc' \in [Workers -> {"idle", "rank", "decide"}]
          /\ user' \in [Workers -> Users \cup {None}]
          /\ answer' \in [Workers -> {"none", "in", "at_capacity"}]
      BY <3>1
    <3>3. promised' \in [Workers -> BOOLEAN]
      BY <3>1
    <3>4. \A x \in Workers : (pc'[x] = "idle") = (user'[x] = None)
      BY <2>1, <3>1
    <3> QED
      BY <1>9, <3>2, <3>3, <3>4 DEF BeginRequest, world
  <2> QED
    BY <2>3, <2>4
<1>10. CASE UNCHANGED vars
  BY <1>10 DEF vars, world, request
<1> QED
  BY <1>1, <1>2, <1>3, <1>4, <1>5, <1>6, <1>7, <1>8, <1>9, <1>10 DEF Next

(* The types of Admission. *)
THEOREM AdmissionTypeOK == Spec => []TypeOK
<1>1. Init => TypeOK
  BY InitInv DEF AdmissionInv
<1> QED
  BY <1>1, TypeStep, PTL DEF Spec

-----------------------------------------------------------------------------
(* The order of sign-ups.                                                    *)

(* Steps outside of Supabase Auth leave the accounts and their ranks alone.  *)
LEMMA WorldUnchanged ==
    ASSUME UNCHANGED <<status, created>>
    PROVE  Accounts' = Accounts /\ \A u : Rank(u)' = Rank(u)
BY DEF Accounts, Rank

LEMMA BeginSignUpInv ==
    ASSUME TypeOK, InOrderInv, NEW n \in Users, BeginSignUp(n)
    PROVE  InOrderInv'
<1> USE DEF TypeOK, BeginSignUp, request
<1>1. Accounts' = Accounts /\ n \notin Accounts
  BY DEF Accounts
<1>2. \A u \in Accounts : created'[u] = created[u]
  BY <1>1 DEF Accounts
<1>3. \A u \in Accounts : Rank(u)' = Rank(u)
  <2> SUFFICES ASSUME NEW u \in Accounts
               PROVE  {v \in Accounts' : created'[v] <= created'[u]}
                        = {v \in Accounts : created[v] <= created[u]}
    BY <1>1 DEF Rank
  <2> QED
    BY <1>1, <1>2
<1>4. \A u \in Users : status[u] \in Visible => status'[u] = status[u]
  BY DEF Visible
<1>5. OrderInv'
  BY <1>1, <1>2, <1>3 DEF InOrderInv, OrderInv
<1>6. AdmittedInv'
  BY <1>1, <1>3, <1>4 DEF InOrderInv, AdmittedInv
<1>7. ReadInv'
  BY <1>1, <1>3, <1>4 DEF InOrderInv, ReadInv
<1> QED
  BY <1>5, <1>6, <1>7 DEF InOrderInv

(* A sign-up that becomes visible in order ranks behind every account.       *)
LEMMA CommitSignUpInv ==
    ASSUME TypeOK, InOrderInv, NEW n \in Users, CommitSignUp(n), ~disordered'
    PROVE  InOrderInv'
<1> USE DEF TypeOK, CommitSignUp, request
<1> DEFINE Seen == {v \in Users : status[v] \in {"account", "gone"}}
<1>1. Accounts' = Accounts \cup {n} /\ n \notin Accounts /\ n \notin Seen
  BY DEF Accounts
<1>2. \A v \in Accounts : created[v] < created[n]
  <2>1. \A v \in Accounts : ~(created[v] >= created[n])
    OBVIOUS
  <2>2. \A v \in Users : created[v] \in Int
    BY CapacityAssumption
  <2>3. Accounts \subseteq Users
    BY DEF Accounts
  <2> QED
    BY <2>1, <2>2, <2>3
<1>3. \A u \in Accounts : Rank(u)' = Rank(u)
  <2> SUFFICES ASSUME NEW u \in Accounts
               PROVE  {v \in Accounts' : created[v] <= created[u]}
                        = {v \in Accounts : created[v] <= created[u]}
    BY <1>1 DEF Rank
  <2>1. created[u] < created[n] /\ created[u] \in Int /\ created[n] \in Int
    BY <1>2 DEF Accounts
  <2> QED
    BY <1>1, <2>1
<1>4. Rank(n)' <= position'[n]
  <2>1. Rank(n)' = Cardinality({v \in Accounts' : created[v] <= created[n]})
    BY <1>1 DEF Rank
  <2>2. {v \in Accounts' : created[v] <= created[n]} \subseteq Seen \cup {n}
    BY <1>1 DEF Accounts
  <2>3. Cardinality(Seen \cup {n}) = Cardinality(Seen) + 1
    BY <1>1, Counting, FS_AddElement
  <2>4. position'[n] = Cardinality(Seen) + 1
    OBVIOUS
  <2>5. Seen \cup {n} \in SUBSET Users
    OBVIOUS
  <2>6. Cardinality({v \in Accounts' : created[v] <= created[n]})
            <= Cardinality(Seen \cup {n})
    BY <2>2, <2>5, Counting
  <2> QED
    BY <2>1, <2>3, <2>4, <2>6
<1>5. \A u \in Users : status[u] \in Visible =>
            /\ status'[u] = status[u] /\ u # n
            /\ u \in Accounts' <=> u \in Accounts
  BY <1>1 DEF Visible
<1>6. OrderInv'
  <2>1. \A u, v \in Accounts' : created[u] = created[v] => u = v
    <3> SUFFICES ASSUME NEW u \in Accounts', NEW v \in Accounts', created[u] = created[v]
                 PROVE  u = v
      OBVIOUS
    <3>1. \A x \in Users : created[x] \in Int
      OBVIOUS
    <3>2. u \in Users /\ v \in Users
      BY DEF Accounts
    <3>3. CASE u \in Accounts /\ v \in Accounts
      BY <3>3 DEF InOrderInv, OrderInv
    <3>4. CASE u = n \/ v = n
      BY <1>1, <1>2, <3>1, <3>2, <3>4
    <3> QED
      BY <1>1, <3>3, <3>4
  <2>2. \A u \in Accounts : position'[u] = position[u]
    BY <1>1
  <2> QED
    BY <1>1, <1>3, <1>4, <2>1, <2>2 DEF InOrderInv, OrderInv
<1>7. AdmittedInv'
  <2> SUFFICES ASSUME NEW u \in everIn
               PROVE  /\ status'[u] \in Visible
                      /\ u \in Accounts' => Rank(u)' <= MaxUsers
    BY DEF AdmittedInv
  <2>1. u \in Users /\ status[u] \in Visible
    BY DEF InOrderInv, AdmittedInv
  <2> QED
    BY <1>3, <1>5, <2>1 DEF InOrderInv, AdmittedInv
<1>8. ReadInv'
  <2> SUFFICES ASSUME NEW w \in Workers
               PROVE  /\ pc[w] # "idle" => status'[user[w]] \in Visible
                      /\ promised[w] => user[w] \in everIn
                      /\ pc[w] = "decide" =>
                            /\ rank[w] <= position'[user[w]]
                            /\ user[w] \in Accounts' => Rank(user[w])' <= rank[w]
                            /\ promised[w] => rank[w] <= MaxUsers
    BY DEF ReadInv
  <2>1. promised[w] => user[w] \in everIn
    BY DEF InOrderInv, ReadInv
  <2>2. CASE pc[w] # "idle"
    <3>1. user[w] \in Users /\ status[user[w]] \in Visible
      BY <2>2, UsersAssumption DEF InOrderInv, ReadInv
    <3>2. user[w] # n
      BY <3>1, <1>5
    <3>3. position'[user[w]] = position[user[w]]
      BY <3>1, <3>2
    <3> QED
      BY <1>3, <1>5, <2>1, <3>1, <3>3 DEF InOrderInv, ReadInv
  <2> QED
    BY <2>1, <2>2
<1> QED
  BY <1>6, <1>7, <1>8 DEF InOrderInv

(* An account that goes makes room: the ranks of the others do not grow.     *)
LEMMA DeleteUserInv ==
    ASSUME TypeOK, InOrderInv, NEW n \in Users, DeleteUser(n)
    PROVE  InOrderInv'
<1> USE DEF TypeOK, DeleteUser, request
<1>1. Accounts' = Accounts \ {n}
  BY DEF Accounts
<1>2. \A u \in Accounts' : Rank(u)' \in Nat /\ Rank(u) \in Nat /\ Rank(u)' <= Rank(u)
  <2> SUFFICES ASSUME NEW u \in Accounts'
               PROVE  Rank(u)' \in Nat /\ Rank(u) \in Nat /\ Rank(u)' <= Rank(u)
    OBVIOUS
  <2>1. Rank(u)' = Cardinality({v \in Accounts' : created[v] <= created[u]})
    BY DEF Rank
  <2>2. Rank(u) = Cardinality({v \in Accounts : created[v] <= created[u]})
    BY <1>1 DEF Rank
  <2>3. {v \in Accounts' : created[v] <= created[u]}
            \subseteq {v \in Accounts : created[v] <= created[u]}
    BY <1>1
  <2>4. {v \in Accounts : created[v] <= created[u]} \in SUBSET Users
    BY DEF Accounts
  <2> QED
    BY <2>1, <2>2, <2>3, <2>4, Counting
<1>3. \A u \in Users : status[u] \in Visible => status'[u] \in Visible
  BY DEF Visible
<1>4. OrderInv'
  <2>1. \A u \in Accounts' : u \in Users /\ u \in Accounts
    BY <1>1 DEF Accounts
  <2>2. \A u \in Accounts' : Rank(u) <= position[u] /\ position[u] \in Nat
    BY <2>1 DEF InOrderInv, OrderInv
  <2>3. \A u \in Accounts' : Rank(u)' <= position[u]
    BY <1>2, <2>2
  <2> QED
    BY <2>1, <2>3 DEF InOrderInv, OrderInv
<1>5. AdmittedInv'
  <2> SUFFICES ASSUME NEW u \in everIn
               PROVE  /\ status'[u] \in Visible
                      /\ u \in Accounts' => Rank(u)' <= MaxUsers
    BY DEF AdmittedInv
  <2>1. u \in Users /\ status[u] \in Visible
    BY DEF InOrderInv, AdmittedInv
  <2>2. u \in Accounts' => Rank(u) <= MaxUsers
    BY <1>1 DEF InOrderInv, AdmittedInv
  <2> QED
    BY <1>2, <1>3, <2>1, <2>2, CapacityAssumption
<1>6. ReadInv'
  <2> SUFFICES ASSUME NEW w \in Workers
               PROVE  /\ pc[w] # "idle" => status'[user[w]] \in Visible
                      /\ promised[w] => user[w] \in everIn
                      /\ pc[w] = "decide" =>
                            /\ rank[w] <= position[user[w]]
                            /\ user[w] \in Accounts' => Rank(user[w])' <= rank[w]
                            /\ promised[w] => rank[w] <= MaxUsers
    BY DEF ReadInv
  <2>1. promised[w] => user[w] \in everIn
    BY DEF InOrderInv, ReadInv
  <2>2. CASE pc[w] # "idle"
    <3>1. user[w] \in Users /\ status[user[w]] \in Visible /\ rank[w] \in Nat
      BY <2>2, UsersAssumption DEF InOrderInv, ReadInv
    <3>2. pc[w] = "decide" /\ user[w] \in Accounts' => Rank(user[w]) <= rank[w]
      BY <1>1 DEF InOrderInv, ReadInv
    <3>3. pc[w] = "decide" /\ user[w] \in Accounts' => Rank(user[w])' <= rank[w]
      BY <1>2, <3>1, <3>2
    <3> QED
      BY <1>3, <2>1, <3>1, <3>3 DEF InOrderInv, ReadInv
  <2> QED
    BY <2>1, <2>2
<1> QED
  BY <1>4, <1>5, <1>6 DEF InOrderInv

-----------------------------------------------------------------------------
(* Requests.                                                                 *)

(* A user who has no account has rank 0. *)
LEMMA NoAccountRanksZero == \A u \in Users : u \notin Accounts => Rank(u) = 0
<1> SUFFICES ASSUME NEW u \in Users, u \notin Accounts PROVE Rank(u) = 0
  OBVIOUS
<1>1. {v \in Accounts : u \in Accounts /\ created[v] <= created[u]} = {}
  OBVIOUS
<1> QED
  BY <1>1, FS_EmptySet DEF Rank

LEMMA BeginRequestInv ==
    ASSUME TypeOK, InOrderInv, NEW w \in Workers, NEW u \in Users, BeginRequest(w, u)
    PROVE  InOrderInv'
<1>1. UNCHANGED <<status, created, position, everIn, rank>>
  BY DEF BeginRequest, world
<1>2. Accounts' = Accounts /\ \A v : Rank(v)' = Rank(v)
  BY <1>1, WorldUnchanged
<1>3. OrderInv' /\ AdmittedInv'
  BY <1>1, <1>2 DEF InOrderInv, OrderInv, AdmittedInv
<1>4. CASE u \in admitted
  <2>1. UNCHANGED <<pc, user, promised>>
    BY <1>4 DEF BeginRequest
  <2> QED
    BY <1>1, <1>2, <1>3, <2>1 DEF InOrderInv, ReadInv
<1>5. CASE u \notin admitted
  <2>1. /\ status[u] \in Visible
        /\ pc' = [pc EXCEPT ![w] = "rank"] /\ user' = [user EXCEPT ![w] = u]
        /\ promised' = [promised EXCEPT ![w] = (u \in everIn)]
    BY <1>5 DEF BeginRequest, Visible
  <2>2. pc'[w] = "rank" /\ user'[w] = u /\ promised'[w] = (u \in everIn)
    BY <2>1 DEF TypeOK
  <2>3. \A x \in Workers \ {w} :
            pc'[x] = pc[x] /\ user'[x] = user[x] /\ promised'[x] = promised[x]
    BY <2>1 DEF TypeOK
  <2>4. ASSUME NEW x \in Workers
        PROVE  /\ pc'[x] # "idle" => status[user'[x]] \in Visible
               /\ promised'[x] => user'[x] \in everIn
               /\ pc'[x] = "decide" =>
                    /\ rank[x] <= position[user'[x]]
                    /\ user'[x] \in Accounts => Rank(user'[x]) <= rank[x]
                    /\ promised'[x] => rank[x] <= MaxUsers
    <3>1. CASE x = w
      BY <2>1, <2>2, <3>1
    <3>2. CASE x # w
      BY <2>3, <3>2 DEF InOrderInv, ReadInv
    <3> QED
      BY <3>1, <3>2
  <2>5. ReadInv'
    BY <1>1, <1>2, <2>4 DEF ReadInv
  <2> QED
    BY <1>3, <2>5 DEF InOrderInv
<1> QED
  BY <1>4, <1>5

LEMMA ReadRankInv ==
    ASSUME TypeOK, InOrderInv, NEW w \in Workers, ReadRank(w)
    PROVE  InOrderInv'
<1> DEFINE u == user[w]
<1>1. UNCHANGED <<status, created, position, everIn, user, promised>>
  BY DEF ReadRank, world
<1>2. Accounts' = Accounts /\ \A v : Rank(v)' = Rank(v)
  BY <1>1, WorldUnchanged
<1>3. OrderInv' /\ AdmittedInv'
  BY <1>1, <1>2 DEF InOrderInv, OrderInv, AdmittedInv
<1>4. u \in Users /\ status[u] \in Visible /\ position[u] \in Nat
  BY DEF TypeOK, ReadRank, InOrderInv, ReadInv
<1>5. Rank(u) <= position[u]
  <2>1. CASE u \in Accounts
    BY <2>1 DEF InOrderInv, OrderInv
  <2>2. CASE u \notin Accounts
    BY <1>4, <2>2, NoAccountRanksZero
  <2> QED
    BY <2>1, <2>2
<1>6. promised[w] => Rank(u) <= MaxUsers
  <2>1. CASE u \in Accounts
    BY <2>1 DEF InOrderInv, AdmittedInv, ReadInv
  <2>2. CASE u \notin Accounts
    BY <1>4, <2>2, NoAccountRanksZero, CapacityAssumption
  <2> QED
    BY <2>1, <2>2
<1>7. rank'[w] = Rank(u) /\ pc'[w] = "decide" /\ pc[w] = "rank"
  BY DEF ReadRank, TypeOK
<1>8. \A x \in Workers \ {w} : pc'[x] = pc[x] /\ rank'[x] = rank[x]
  BY DEF ReadRank, TypeOK
<1>9. ReadInv'
  <2> SUFFICES ASSUME NEW x \in Workers
               PROVE  /\ pc'[x] # "idle" => status[user[x]] \in Visible
                      /\ promised[x] => user[x] \in everIn
                      /\ pc'[x] = "decide" =>
                            /\ rank'[x] <= position[user[x]]
                            /\ user[x] \in Accounts => Rank(user[x]) <= rank'[x]
                            /\ promised[x] => rank'[x] <= MaxUsers
    BY <1>1, <1>2 DEF ReadInv
  <2>1. CASE x = w
    <3>1. Rank(u) \in Nat
      BY <1>4, RankIsNat
    <3> QED
      BY <1>4, <1>5, <1>6, <1>7, <2>1, <3>1 DEF InOrderInv, ReadInv
  <2>2. CASE x # w
    BY <1>8, <2>2 DEF InOrderInv, ReadInv
  <2> QED
    BY <2>1, <2>2
<1> QED
  BY <1>3, <1>9 DEF InOrderInv

(* A request that is answered leaves nothing behind. *)
LEMMA AnsweredInv ==
    ASSUME TypeOK, ReadInv, NEW w \in Workers, NEW a, Answered(w, a),
           UNCHANGED <<status, created, position>>, everIn \subseteq everIn'
    PROVE  ReadInv'
<1>1. Accounts' = Accounts /\ \A v : Rank(v)' = Rank(v)
  BY WorldUnchanged
<1>2. pc'[w] = "idle" /\ ~promised'[w]
  BY DEF Answered, TypeOK
<1>3. \A x \in Workers \ {w} : /\ pc'[x] = pc[x] /\ user'[x] = user[x]
                               /\ rank'[x] = rank[x] /\ promised'[x] = promised[x]
  BY DEF Answered, TypeOK
<1> QED
  BY <1>1, <1>2, <1>3 DEF ReadInv

LEMMA DecideInv ==
    ASSUME TypeOK, InOrderInv, NEW w \in Workers, Decide(w)
    PROVE  InOrderInv'
<1>1. UNCHANGED <<status, created, position>>
  BY DEF Decide, world
<1>2. Accounts' = Accounts /\ \A v : Rank(v)' = Rank(v)
  BY <1>1, WorldUnchanged
<1>3. OrderInv'
  BY <1>1, <1>2 DEF InOrderInv, OrderInv
<1>4. CASE WithinCap(rank[w]) /\ LetIn(w)
  <2>1. everIn' = everIn \cup {user[w]} /\ Answered(w, "in") /\ rank[w] <= MaxUsers
    BY <1>4 DEF LetIn, WithinCap
  <2>2. user[w] \in Users /\ status[user[w]] \in Visible /\ rank[w] \in Nat
    BY DEF TypeOK, Decide, InOrderInv, ReadInv
  <2>3. user[w] \in Accounts => Rank(user[w]) <= MaxUsers
    <3>1. user[w] \in Accounts => Rank(user[w]) <= rank[w]
      BY DEF Decide, InOrderInv, ReadInv
    <3> QED
      BY <2>1, <2>2, <3>1, RankIsNat, CapacityAssumption
  <2>4. AdmittedInv'
    BY <1>1, <1>2, <2>1, <2>2, <2>3 DEF InOrderInv, AdmittedInv
  <2>5. ReadInv'
    BY <1>1, <2>1, AnsweredInv DEF InOrderInv
  <2> QED
    BY <1>3, <2>4, <2>5 DEF InOrderInv
<1>5. CASE Answered(w, "at_capacity") /\ UNCHANGED <<admitted, everIn>>
  <2>1. AdmittedInv'
    BY <1>1, <1>2, <1>5 DEF InOrderInv, AdmittedInv
  <2>2. ReadInv'
    BY <1>1, <1>5, AnsweredInv DEF InOrderInv
  <2> QED
    BY <1>3, <2>1, <2>2 DEF InOrderInv
<1> QED
  BY <1>4, <1>5 DEF Decide

LEMMA CancelInv ==
    ASSUME TypeOK, InOrderInv, NEW w \in Workers, Cancel(w)
    PROVE  InOrderInv'
<1>1. UNCHANGED <<status, created, position, everIn>> /\ Answered(w, "none")
  BY DEF Cancel, world
<1>2. Accounts' = Accounts /\ \A v : Rank(v)' = Rank(v)
  BY <1>1, WorldUnchanged
<1>3. OrderInv' /\ AdmittedInv'
  BY <1>1, <1>2 DEF InOrderInv, OrderInv, AdmittedInv
<1>4. ReadInv'
  BY <1>1, AnsweredInv DEF InOrderInv
<1> QED
  BY <1>3, <1>4 DEF InOrderInv

LEMMA RestartInv ==
    ASSUME InOrderInv, Restart
    PROVE  InOrderInv'
<1>1. UNCHANGED <<status, created, position, everIn>>
  BY DEF Restart, world
<1>2. Accounts' = Accounts /\ \A v : Rank(v)' = Rank(v)
  BY <1>1, WorldUnchanged
<1>3. \A w \in Workers : pc'[w] = "idle" /\ ~promised'[w]
  BY DEF Restart
<1> QED
  BY <1>1, <1>2, <1>3 DEF InOrderInv, OrderInv, AdmittedInv, ReadInv

LEMMA UnchangedInv ==
    ASSUME InOrderInv, UNCHANGED <<status, created, request, position, everIn>>
    PROVE  InOrderInv'
<1>1. Accounts' = Accounts /\ \A v : Rank(v)' = Rank(v)
  BY WorldUnchanged
<1> QED
  BY <1>1 DEF request, InOrderInv, OrderInv, AdmittedInv, ReadInv

LEMMA AnswerStep == TypeOK /\ AnswerInv /\ [Next]_vars => AnswerInv'
<1> SUFFICES ASSUME TypeOK, AnswerInv, [Next]_vars PROVE AnswerInv'
  OBVIOUS
<1> USE DEF TypeOK, AnswerInv
<1>1. CASE UNCHANGED <<pc, answer>>
  BY <1>1
<1>2. CASE Restart
  BY <1>2 DEF Restart
<1>3. ASSUME NEW w \in Workers, NEW a, Answered(w, a)
      PROVE  AnswerInv'
  BY <1>3 DEF Answered
<1>4. ASSUME NEW w \in Workers, ReadRank(w)
      PROVE  AnswerInv'
  BY <1>4 DEF ReadRank
<1>5. ASSUME NEW w \in Workers, NEW u \in Users, BeginRequest(w, u)
      PROVE  AnswerInv'
  BY <1>5 DEF BeginRequest
<1> QED
  BY <1>1, <1>2, <1>3, <1>4, <1>5
     DEF Next, vars, request, Tick, BeginSignUp, CommitSignUp, DeleteUser,
         Decide, LetIn, Cancel

LEMMA StepInv == AdmissionInv /\ [Next]_vars => AdmissionInv'
<1> SUFFICES ASSUME AdmissionInv, [Next]_vars PROVE AdmissionInv'
  OBVIOUS
<1>1. TypeOK /\ TypeOK' /\ AnswerInv'
  BY TypeStep, AnswerStep DEF AdmissionInv
<1>2. disordered => disordered'
  BY <1>1 DEF Next, vars, Tick, Restart, BeginSignUp, CommitSignUp, DeleteUser,
              BeginRequest, ReadRank, Decide, Cancel
<1> SUFFICES ASSUME InOrderInv, ~disordered' PROVE InOrderInv'
  BY <1>1, <1>2 DEF AdmissionInv
<1>3. CASE Tick
  BY <1>3, UnchangedInv DEF Tick
<1>4. CASE Restart
  BY <1>4, RestartInv
<1>5. CASE \E u \in Users : BeginSignUp(u) \/ CommitSignUp(u) \/ DeleteUser(u)
  BY <1>1, <1>5, BeginSignUpInv, CommitSignUpInv, DeleteUserInv
<1>6. CASE \E w \in Workers : ReadRank(w) \/ Decide(w) \/ Cancel(w)
  BY <1>1, <1>6, ReadRankInv, DecideInv, CancelInv
<1>7. CASE \E w \in Workers, u \in Users : BeginRequest(w, u)
  BY <1>1, <1>7, BeginRequestInv
<1>8. CASE UNCHANGED vars
  BY <1>8, UnchangedInv DEF vars, world
<1> QED
  BY <1>3, <1>4, <1>5, <1>6, <1>7, <1>8 DEF Next

LEMMA AdmissionInvariant == Spec => []AdmissionInv
BY InitInv, StepInv, PTL DEF Spec

-----------------------------------------------------------------------------
(* The properties.                                                           *)

(* Among some accounts one is created last: it is where LastTick - created is *)
(* least.                                                                     *)
LEMMA NewestAccount ==
    ASSUME TypeOK, NEW S \in SUBSET Users, S # {}
    PROVE  \E u \in S : \A v \in S : created[v] <= created[u]
<1> DEFINE ages == {LastTick - created[u] : u \in S}
<1>1. \A u \in S : created[u] \in 0..LastTick /\ LastTick \in Nat
  BY CapacityAssumption DEF TypeOK
<1>2. ages \subseteq Nat /\ ages # {}
  BY <1>1
<1>3. PICK a \in ages : \A b \in ages : ~(<<b, a>> \in OpToRel(<, Nat))
  <2> HIDE DEF ages
  <2> QED
    BY <1>2, NatLessThanWellFounded, WFMin
<1>4. PICK u \in S : a = LastTick - created[u]
  OBVIOUS
<1>5. ASSUME NEW v \in S
      PROVE  created[v] <= created[u]
  <2>1. LastTick - created[v] \in ages /\ LastTick - created[v] \in Nat /\ a \in Nat
    BY <1>2
  <2>2. ~(LastTick - created[v] < a)
    BY <1>3, <2>1 DEF OpToRel
  <2> QED
    BY <1>1, <1>4, <2>2
<1> QED
  BY <1>5

(* No more than max_users of the existing accounts are ever let in: the one   *)
(* among them that signed up last ranks behind all the others.                *)
THEOREM CapIsKept == Spec => []CapacityHolds
<1>1. AdmissionInv => CapacityHolds
  <2> SUFFICES ASSUME TypeOK, InOrderInv
               PROVE  Cardinality(everIn \cap Accounts) <= MaxUsers
    BY DEF AdmissionInv, CapacityHolds
  <2> DEFINE S == everIn \cap Accounts
  <2>1. S \in SUBSET Users
    BY DEF TypeOK, Accounts
  <2>2. CASE S = {}
    BY <2>2, FS_EmptySet, CapacityAssumption
  <2>3. CASE S # {}
    <3>1. PICK u \in S : \A v \in S : created[v] <= created[u]
      BY <2>1, <2>3, NewestAccount
    <3>2. S \subseteq {v \in Accounts : u \in Accounts /\ created[v] <= created[u]}
      BY <3>1
    <3>3. {v \in Accounts : u \in Accounts /\ created[v] <= created[u]} \in SUBSET Users
      BY DEF Accounts
    <3>4. Cardinality(S) <= Rank(u) /\ Cardinality(S) \in Nat
      BY <3>2, <3>3, Counting DEF Rank
    <3>5. Rank(u) <= MaxUsers
      BY DEF InOrderInv, AdmittedInv
    <3> QED
      BY <2>1, <3>4, <3>5, RankIsNat, CapacityAssumption
  <2> QED
    BY <2>2, <2>3
<1> QED
  BY <1>1, AdmissionInvariant, PTL

(* Only Decide turns a user away, when the rank that was read is above the cap. *)
LEMMA TurnedAwayAboveCap ==
    ASSUME TypeOK, AnswerInv, [Next]_vars, NEW w \in Workers, TurnedAway(w)
    PROVE  ~(rank[w] <= MaxUsers)
<1>1. pc[w] = "decide" /\ answer[w] = "none" /\ answer'[w] = "at_capacity"
  BY DEF TurnedAway, AnswerInv
<1>2. /\ ~UNCHANGED answer /\ ~Restart
      /\ \A x \in Workers : \A a : Answered(x, a) => x = w /\ a = "at_capacity"
  BY <1>1 DEF TypeOK, Restart, Answered
<1>3. \A x \in Workers, u \in Users : ~BeginRequest(x, u)
  BY <1>1 DEF TypeOK, BeginRequest
<1>4. PICK x \in Workers : Decide(x)
  BY <1>1, <1>2, <1>3
     DEF Next, vars, request, Tick, BeginSignUp, CommitSignUp, DeleteUser,
         ReadRank, Cancel
<1> QED
  BY <1>1, <1>2, <1>4 DEF Decide, LetIn, WithinCap

(* "A user admitted once stays admitted": in order, nobody who was in when    *)
(* they sent their request is turned away, across restarts as well.           *)
THEOREM AdmittedStayIn == Spec => AdmittedStaysInOrder
<1>1. AdmissionInv /\ [Next]_vars
        => [\A w \in Workers : TurnedAway(w) /\ promised[w] => disordered]_vars
  <2> SUFFICES ASSUME AdmissionInv, [Next]_vars, NEW w \in Workers,
                      TurnedAway(w), promised[w], ~disordered
               PROVE  FALSE
    OBVIOUS
  <2>1. ~(rank[w] <= MaxUsers) /\ rank[w] \in Nat
    BY TurnedAwayAboveCap DEF AdmissionInv, TypeOK
  <2>2. rank[w] <= MaxUsers
    BY DEF AdmissionInv, InOrderInv, ReadInv, TurnedAway
  <2> QED
    BY <2>1, <2>2, CapacityAssumption
<1> QED
  BY <1>1, AdmissionInvariant, PTL DEF Spec, AdmittedStaysInOrder

(* "The first max_users users are always admitted": in order, a rank is never *)
(* above the place the user signed up at.                                     *)
THEOREM FirstUsersAreIn == Spec => FirstUsersAdmitted
<1>1. AdmissionInv /\ [Next]_vars
        => [\A w \in Workers :
                TurnedAway(w) /\ position[user[w]] <= MaxUsers => disordered]_vars
  <2> SUFFICES ASSUME AdmissionInv, [Next]_vars, NEW w \in Workers,
                      TurnedAway(w), position[user[w]] <= MaxUsers, ~disordered
               PROVE  FALSE
    OBVIOUS
  <2>1. ~(rank[w] <= MaxUsers) /\ rank[w] \in Nat
    BY TurnedAwayAboveCap DEF AdmissionInv, TypeOK
  <2>2. rank[w] <= position[user[w]]
    BY DEF AdmissionInv, InOrderInv, ReadInv, TurnedAway
  <2>3. position[user[w]] \in Nat
    BY DEF AdmissionInv, TypeOK, TurnedAway
  <2> QED
    BY <2>1, <2>2, <2>3, CapacityAssumption
<1> QED
  BY <1>1, AdmissionInvariant, PTL DEF Spec, FirstUsersAdmitted
=============================================================================
