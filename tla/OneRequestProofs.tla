-------------------------- MODULE OneRequestProofs --------------------------
(***************************************************************************)
(* What the calls of one user compute, for every template, text, batch,    *)
(* patch, predicate and path.                                              *)
(*                                                                         *)
(* The algorithms come first: what the scan of a text, the table of routes,*)
(* the coercion of a value, sorting and create_items do, each by induction *)
(* on a length.  The invariant IInv then puts StoredFieldsValid and TypeOK *)
(* together, item by item (Sound): an item that is moved to another        *)
(* category is validated with the fields it holds, which are coerced right *)
(* because they are values that could have been sent, and a row's id is    *)
(* free because the ids that are held are within Ids and the cap.          *)
(***************************************************************************)
EXTENDS OneRequest, FiniteSetTheorems, FunctionTheorems, NaturalsInduction,
        SequenceTheorems, WellFoundedInduction, TLAPS

-----------------------------------------------------------------------------
(* Induction and recursion over the natural numbers. *)

(* A set of natural numbers that is not empty has a least element. *)
LEMMA LeastNat ==
    ASSUME NEW B, B \subseteq Nat, B # {}
    PROVE  \E n \in B : \A m \in Nat : m < n => m \notin B
<1>1. IsWellFoundedOn(OpToRel(<, Nat), Nat)
  BY NatLessThanWellFounded
<1>2. PICK n \in B : \A m \in B : ~(<<m, n>> \in OpToRel(<, Nat))
  BY <1>1, WFMin
<1> QED
  BY <1>2 DEF OpToRel

(* Induction up to m, with the set of the numbers reached so far. *)
LEMMA UpTo ==
    ASSUME NEW m \in Nat, NEW G, 0 \in G, \A n \in 0..(m - 1) : n \in G => n + 1 \in G
    PROVE  \A n \in 0..m : n \in G
<1> DEFINE Bad == {n \in 0..m : n \notin G}
<1>1. ASSUME Bad # {} PROVE FALSE
  <2>0. Bad \subseteq Nat
    OBVIOUS
  <2>1. PICK b \in Bad : \A k \in Nat : k < b => k \notin Bad
    <3> HIDE DEF Bad
    <3> QED BY <1>1, <2>0, LeastNat
  <2>2. b \in 0..m /\ b \notin G /\ b # 0
    BY <2>1
  <2>3. b - 1 \in 0..(m - 1) /\ b - 1 \in Nat /\ b - 1 < b
    BY <2>2
  <2>4. b - 1 \in G
    BY <2>1, <2>3
  <2>5. (b - 1) + 1 \in G
    BY <2>3, <2>4
  <2>6. (b - 1) + 1 = b
    BY <2>2
  <2> QED BY <2>2, <2>5, <2>6
<1> QED BY <1>1

(* f starts from b and goes on as the steps say, up to m. *)
IsRun(f, m, V, b, step) ==
    /\ f \in [0..m -> V] /\ f[0] = b
    /\ \A n \in 1..m : f[n] = step[n][f[n - 1]]

(* Steps that take a value to a value can be taken one after the other. *)
LEMMA Recursion ==
    ASSUME NEW m \in Nat, NEW V, NEW b \in V, NEW step,
           \A n \in 1..m : \A v \in V : step[n][v] \in V
    PROVE  \E f : IsRun(f, m, V, b, step)
<1> DEFINE Runs(f, k) == /\ f \in [0..k -> V] /\ f[0] = b
                         /\ \A n \in 1..k : f[n] = step[n][f[n - 1]]
           G == {k \in 0..m : \E f : Runs(f, k)}
<1>1. 0 \in G
  <2> DEFINE g == [n \in 0..0 |-> b]
  <2>1. Runs(g, 0) /\ 0 \in 0..m
    OBVIOUS
  <2> HIDE DEF g
  <2> QED BY <2>1
<1>2. ASSUME NEW k \in 0..(m - 1), k \in G PROVE k + 1 \in G
  <2>1. PICK f : Runs(f, k)
    BY <1>2
  <2>2. k \in Nat /\ k + 1 \in 1..m /\ k + 1 \in 0..m /\ f[k] \in V
    BY <2>1
  <2> DEFINE g == [n \in 0..(k + 1) |-> IF n = k + 1 THEN step[k + 1][f[k]] ELSE f[n]]
  <2>3. \A n \in 0..k : n # k + 1 /\ n \in 0..(k + 1) /\ g[n] = f[n]
    BY <2>2
  <2>4. g[k + 1] = step[k + 1][f[k]] /\ g[k + 1] \in V
    BY <2>2
  <2>5. g \in [0..(k + 1) -> V]
    <3>1. \A n \in 0..(k + 1) : n = k + 1 \/ n \in 0..k
      BY <2>2
    <3>2. \A n \in 0..(k + 1) : g[n] \in V
      BY <3>1, <2>1, <2>3, <2>4
    <3> QED BY <3>2
  <2> HIDE DEF g
  <2>6. g[0] = b
    BY <2>1, <2>2, <2>3
  <2>7. ASSUME NEW n \in 1..(k + 1) PROVE g[n] = step[n][g[n - 1]]
    <3>1. CASE n = k + 1
      <4>1. n - 1 = k /\ k \in 0..k
        BY <3>1, <2>2
      <4> QED BY <4>1, <3>1, <2>3, <2>4
    <3>2. CASE n # k + 1
      <4>1. n \in 1..k /\ n \in 0..k /\ n - 1 \in 0..k
        BY <3>2, <2>2
      <4> QED BY <4>1, <2>1, <2>3
    <3> QED BY <3>1, <3>2
  <2>8. Runs(g, k + 1)
    BY <2>5, <2>6, <2>7
  <2> QED BY <2>2, <2>8
<1>3. m \in G
  <2> HIDE DEF G
  <2> QED BY <1>1, <1>2, UpTo
<1> QED BY <1>3 DEF IsRun

-----------------------------------------------------------------------------
(* Texts and labels. *)

LEMMA TextShape ==
    ASSUME NEW t \in Texts
    PROVE  /\ Strip(t) \in Texts /\ ~Strip(t).padded /\ Strip(t).word = t.word
           /\ Lower(t) \in Texts /\ ~Lower(t).upper /\ Lower(t).word = t.word
           /\ Lower(Strip(t)) = Word(t.word)
           /\ Word(t.word) \in Texts /\ t.word \in STRING
<1>1. /\ t = [word |-> t.word, upper |-> t.upper, padded |-> t.padded]
      /\ t.word \in STRING /\ t.upper \in BOOLEAN /\ t.padded \in BOOLEAN
  BY DEF Texts
<1>2. Strip(t) = [word |-> t.word, upper |-> t.upper, padded |-> FALSE]
  BY DEF Strip
<1>3. Lower(t) = [word |-> t.word, upper |-> FALSE, padded |-> t.padded]
  BY DEF Lower
<1>4. Lower(Strip(t)) = [word |-> t.word, upper |-> FALSE, padded |-> FALSE]
  BY DEF Lower, Strip
<1> QED
  BY <1>1, <1>2, <1>3, <1>4 DEF Texts, Word

(* What has been cleaned so far. *)
CleanSoFar(out) == out \in Seq(Texts) /\ CleanLabels(out)

LEMMA AddLabelClean ==
    ASSUME NEW out, CleanSoFar(out), NEW raw \in Texts
    PROVE  CleanSoFar(AddLabel(out, raw))
<1> DEFINE t == Lower(Strip(raw))
<1>1. t = Word(raw.word) /\ t \in Texts /\ t.word = raw.word
  BY TextShape DEF Word
<1>2. CASE Empty(t) \/ Contains(out, t)
  BY <1>2 DEF AddLabel
<1>3. CASE ~(Empty(t) \/ Contains(out, t))
  <2> DEFINE new == Append(out, t)
  <2>1. AddLabel(out, raw) = new
    BY <1>3 DEF AddLabel
  <2>2. out \in Seq(Texts) /\ Len(out) \in Nat /\ DOMAIN out = 1..Len(out)
    BY DEF CleanSoFar
  <2>3. /\ new \in Seq(Texts) /\ DOMAIN new = 1..(Len(out) + 1)
        /\ new[Len(out) + 1] = t
        /\ \A i \in 1..Len(out) : new[i] = out[i]
    BY <1>1, <2>2
  <2>4. \A i \in 1..(Len(out) + 1) : i = Len(out) + 1 \/ i \in 1..Len(out)
    BY <2>2
  <2>5. \A i \in 1..Len(out) : out[i] # t
    BY <1>3 DEF Contains
  <2> HIDE DEF new, t
  <2>6. IsInjective(new)
    BY <2>2, <2>3, <2>4, <2>5 DEF CleanSoFar, CleanLabels, IsInjective
  <2>7. ASSUME NEW i \in DOMAIN new PROVE new[i] = Word(new[i].word) /\ new[i].word # ""
    <3>1. CASE i = Len(out) + 1
      BY <3>1, <2>3, <1>1, <1>3 DEF Empty
    <3>2. CASE i \in 1..Len(out)
      BY <3>2, <2>2, <2>3 DEF CleanSoFar, CleanLabels
    <3> QED BY <2>3, <2>4, <3>1, <3>2
  <2> QED BY <2>1, <2>3, <2>6, <2>7 DEF CleanSoFar, CleanLabels
<1> QED BY <1>2, <1>3

LEMMA CleanedDef ==
    ASSUME NEW values \in Seq(Texts)
    PROVE  /\ Cleaned(values)[0] = <<>>
           /\ \A n \in 1..Len(values) :
                Cleaned(values)[n] = AddLabel(Cleaned(values)[n - 1], values[n])
<1> DEFINE V == {out \in Seq(Texts) : CleanSoFar(out)}
           step == [n \in 1..Len(values) |-> [out \in V |-> AddLabel(out, values[n])]]
           P(f) == f = [n \in 0..Len(values) |->
                          IF n = 0 THEN <<>> ELSE AddLabel(f[n - 1], values[n])]
<1>0. Len(values) \in Nat
  OBVIOUS
<1>1. <<>> \in V
  BY DEF CleanSoFar, CleanLabels, IsInjective
<1>2. ASSUME NEW n \in 1..Len(values), NEW out \in V
      PROVE  step[n][out] = AddLabel(out, values[n]) /\ step[n][out] \in V
  <2>1. values[n] \in Texts
    BY <1>0
  <2>2. CleanSoFar(AddLabel(out, values[n]))
    BY <2>1, AddLabelClean
  <2> QED BY <2>2 DEF CleanSoFar
<1>3. PICK f : IsRun(f, Len(values), V, <<>>, step)
  <2> HIDE DEF V, step
  <2>1. \A n \in 1..Len(values) : \A out \in V : step[n][out] \in V
    BY <1>2
  <2> QED BY <1>0, <1>1, <2>1, Recursion, Zenon
<1>4. P(f)
  <2>1. ASSUME NEW n \in 0..Len(values), n # 0
        PROVE  f[n] = AddLabel(f[n - 1], values[n])
    <3>1. n \in 1..Len(values) /\ n - 1 \in 0..Len(values)
      BY <1>0, <2>1
    <3> HIDE DEF V, step
    <3>2. f[n - 1] \in V /\ f[n] = step[n][f[n - 1]]
      BY <3>1, <1>3 DEF IsRun
    <3> QED BY <3>1, <3>2, <1>2
  <2> HIDE DEF V, step
  <2>2. f = [n \in 0..Len(values) |-> f[n]] /\ f[0] = <<>>
    BY <1>3 DEF IsRun
  <2> QED BY <2>1, <2>2
<1>5. Cleaned(values) = CHOOSE g : P(g)
  BY DEF Cleaned
<1>6. P(Cleaned(values))
  <2> HIDE DEF P
  <2> QED BY <1>4, <1>5
<1> DEFINE C == Cleaned(values)
<1>7. C = [n \in 0..Len(values) |-> IF n = 0 THEN <<>> ELSE AddLabel(C[n - 1], values[n])]
  BY <1>6
<1> HIDE DEF C
<1>8. \A n \in 0..Len(values) :
        C[n] = IF n = 0 THEN <<>> ELSE AddLabel(C[n - 1], values[n])
  BY <1>7
<1>9. 0 \in 0..Len(values) /\ \A n \in 1..Len(values) : n \in 0..Len(values) /\ n # 0
  BY <1>0
<1> QED BY <1>8, <1>9 DEF C

(* _clean_strings leaves clean labels. *)
LEMMA CleanStringsClean ==
    ASSUME NEW values \in Seq(Texts)
    PROVE  CleanStrings(values) \in Seq(Texts) /\ CleanLabels(CleanStrings(values))
<1> DEFINE G == {n \in 0..Len(values) : CleanSoFar(Cleaned(values)[n])}
<1>0. Len(values) \in Nat
  OBVIOUS
<1>1. 0 \in G
  <2>1. Cleaned(values)[0] = <<>>
    BY CleanedDef
  <2>2. CleanSoFar(<<>>)
    BY DEF CleanSoFar, CleanLabels, IsInjective
  <2> QED BY <1>0, <2>1, <2>2
<1>2. ASSUME NEW n \in 0..(Len(values) - 1), n \in G PROVE n + 1 \in G
  <2>1. n + 1 \in 1..Len(values) /\ n + 1 \in 0..Len(values) /\ (n + 1) - 1 = n
    BY <1>0
  <2>2. Cleaned(values)[n + 1] = AddLabel(Cleaned(values)[n], values[n + 1])
    BY <2>1, CleanedDef
  <2>3. values[n + 1] \in Texts
    BY <2>1
  <2> QED BY <1>2, <2>1, <2>2, <2>3, AddLabelClean
<1>3. \A n \in 0..Len(values) : n \in G
  <2> HIDE DEF G
  <2> QED BY <1>0, <1>1, <1>2, UpTo
<1>4. Len(values) \in G
  <2> HIDE DEF G
  <2> QED BY <1>0, <1>3
<1> QED BY <1>4 DEF CleanStrings, CleanSoFar

(* Labels that are clean are left as they are. *)
LEMMA CleanStringsTwice ==
    ASSUME NEW values \in Seq(Texts), CleanLabels(values)
    PROVE  CleanStrings(values) = values
<1> DEFINE C == Cleaned(values)
           Good(n) == /\ C[n] \in Seq(Texts) /\ Len(C[n]) = n
                      /\ \A i \in 1..n : C[n][i] = values[i]
           G == {n \in 0..Len(values) : Good(n)}
<1>0. Len(values) \in Nat /\ DOMAIN values = 1..Len(values)
  OBVIOUS
<1>1. 0 \in G
  <2>1. C[0] = <<>>
    BY CleanedDef
  <2> HIDE DEF C
  <2>2. Len(<<>>) = 0 /\ <<>> \in Seq(Texts) /\ 1..0 = {} /\ 0 \in 0..Len(values)
    BY <1>0
  <2> QED BY <2>1, <2>2
<1>2. ASSUME NEW n \in 0..(Len(values) - 1), n \in G PROVE n + 1 \in G
  <2>1. n + 1 \in 1..Len(values) /\ n + 1 \in 0..Len(values) /\ (n + 1) - 1 = n /\ n \in Nat
    BY <1>0
  <2>2. C[n + 1] = AddLabel(C[n], values[n + 1])
    BY <2>1, CleanedDef
  <2>3. values[n + 1] \in Texts
    BY <2>1
  <2>4. /\ Lower(Strip(values[n + 1])) = values[n + 1]
        /\ ~Empty(values[n + 1])
    BY <2>1, <2>3, <1>0, TextShape DEF CleanLabels, Empty
  <2> HIDE DEF C
  <2>5. Good(n)
    BY <1>2
  <2>6. ~Contains(C[n], values[n + 1])
    <3>1. ASSUME NEW i \in 1..n, C[n][i] = values[n + 1] PROVE FALSE
      <4>1. i \in DOMAIN values /\ n + 1 \in DOMAIN values /\ i # n + 1
        BY <2>1, <1>0
      <4>2. values[i] = values[n + 1]
        BY <3>1, <2>5
      <4> QED BY <4>1, <4>2 DEF CleanLabels, IsInjective
    <3> QED BY <3>1, <2>5 DEF Contains
  <2>7. C[n + 1] = Append(C[n], values[n + 1])
    BY <2>2, <2>4, <2>6 DEF AddLabel
  <2>8. \A i \in 1..(n + 1) : i = n + 1 \/ i \in 1..n
    BY <2>1
  <2>9. C[n + 1] \in Seq(Texts) /\ Len(C[n + 1]) = n + 1
    BY <2>7, <2>5, <2>3
  <2>10. \A i \in 1..(n + 1) : C[n + 1][i] = values[i]
    BY <2>7, <2>5, <2>3, <2>8, <2>1
  <2> QED BY <2>1, <2>9, <2>10
<1>3. \A n \in 0..Len(values) : n \in G
  <2> HIDE DEF G
  <2> QED BY <1>0, <1>1, <1>2, UpTo
<1>4. Len(values) \in G
  <2> HIDE DEF G
  <2> QED BY <1>0, <1>3
<1>5. CleanStrings(values) = C[Len(values)]
  BY DEF CleanStrings
<1> HIDE DEF C
<1> QED BY <1>0, <1>4, <1>5

-----------------------------------------------------------------------------
(* Each tool's calls are its own action's. *)

LEMMA EachItsOwn ==
    ASSUME Next
    PROVE  /\ (IsCall("visit"))' => Visit
           /\ (IsCall("scan"))' => ScanClause
           /\ (IsCall("query_closet_items"))' => QueryClosetItems
           /\ (IsCall("list_category_items"))' => ListCategoryItems
           /\ (IsCall("get_closet_summary"))' => GetClosetSummary
<1>1. CASE AddItem
  BY <1>1 DEF AddItem, Reply, IsCall
<1>2. CASE BatchAddItems
  BY <1>2 DEF BatchAddItems, Reply, IsCall
<1>3. CASE UpdateItem
  BY <1>3 DEF UpdateItem, Reply, IsCall
<1>4. CASE RemoveItem
  BY <1>4 DEF RemoveItem, Reply, IsCall
<1>5. CASE QueryClosetItems
  BY <1>5 DEF QueryClosetItems, Reply, IsCall
<1>6. CASE ScanClause
  BY <1>6 DEF ScanClause, Reply, IsCall
<1>7. CASE ListCategoryItems
  <2>1. PICK raw \in RawCategories :
          \E a : Reply([tool |-> "list_category_items",
                        category |-> NormaliseCategory(raw)], a)
    BY <1>7, Zenon DEF ListCategoryItems
  <2> QED BY <1>7, <2>1 DEF Reply, IsCall
<1>8. CASE GetClosetSummary
  BY <1>8 DEF GetClosetSummary, Reply, IsCall
<1>9. CASE Visit
  BY <1>9 DEF Visit, Reply, IsCall
<1>10. CASE Read
  BY <1>10 DEF Read, IsCall
<1> QED
  BY <1>1, <1>2, <1>3, <1>4, <1>5, <1>6, <1>7, <1>8, <1>9, <1>10 DEF Next

-----------------------------------------------------------------------------
(* The scan of a text. *)

(* How many of the first n places are in S. *)
CountTo(S, n) == Cardinality({j \in 1..n : j \in S})

(* Counting goes up by one at a place that is counted. *)
LEMMA CountStep ==
    ASSUME NEW S, NEW n \in Nat
    PROVE  /\ CountTo(S, n) \in Nat /\ CountTo(S, 0) = 0
           /\ CountTo(S, n + 1) = CountTo(S, n) + IF n + 1 \in S THEN 1 ELSE 0
<1> DEFINE T == {j \in 1..n : j \in S}
           U == {j \in 1..(n + 1) : j \in S}
<1>1. IsFiniteSet(1..n)
  BY FS_Interval
<1>2. IsFiniteSet(T) /\ Cardinality(T) \in Nat
  <2>1. T \in SUBSET (1..n)
    OBVIOUS
  <2> HIDE DEF T
  <2> QED BY <1>1, <2>1, FS_Subset, FS_CardinalityType
<1>3. {j \in 1..0 : j \in S} = {}
  OBVIOUS
<1>4. n + 1 \notin T
  OBVIOUS
<1>5. Cardinality(T \cup {n + 1}) = Cardinality(T) + 1
  <2> HIDE DEF T
  <2> QED BY <1>2, <1>4, FS_AddElement
<1>6. U = IF n + 1 \in S THEN T \cup {n + 1} ELSE T
  OBVIOUS
<1> HIDE DEF T
<1>7. Cardinality(U) = Cardinality(T) + IF n + 1 \in S THEN 1 ELSE 0
  <2> HIDE DEF U
  <2> QED BY <1>2, <1>5, <1>6
<1> QED BY <1>2, <1>3, <1>7, FS_EmptySet DEF CountTo, T

(* Where the pass is after the n-th character, from where it was before. *)
States == {"outside", "inside", "at pair"}
PassStep(clause, n, s) ==
    CASE s = "outside" -> IF clause[n] = "quote" THEN "inside" ELSE "outside"
      [] s = "inside"  -> IF clause[n] # "quote" THEN "inside"
                          ELSE IF n < Len(clause) /\ clause[n + 1] = "quote"
                                 THEN "at pair" ELSE "outside"
      [] s = "at pair" -> "inside"

(* The pass is what its recursive definition says. *)
LEMMA PassDef ==
    ASSUME NEW clause \in Seq(Chars)
    PROVE  LET s == Pass(clause, "inside")
           IN  /\ s[0] = "outside"
               /\ \A n \in 0..Len(clause) : s[n] \in States
               /\ \A n \in 1..Len(clause) : s[n] = PassStep(clause, n, s[n - 1])
<1> DEFINE step == [n \in 1..Len(clause) |-> [s \in States |-> PassStep(clause, n, s)]]
           P(f) == f = [n \in 0..Len(clause) |->
                IF n = 0 THEN "outside"
                ELSE CASE f[n - 1] = "outside" ->
                            IF clause[n] = "quote" THEN "inside" ELSE "outside"
                       [] f[n - 1] = "inside" ->
                            IF clause[n] # "quote" THEN "inside"
                            ELSE IF n < Len(clause) /\ clause[n + 1] = "quote"
                                   THEN "at pair" ELSE "outside"
                       [] f[n - 1] = "at pair" -> "inside"]
<1>0. Len(clause) \in Nat /\ "outside" \in States
  BY DEF States
<1>1. ASSUME NEW n \in 1..Len(clause), NEW s \in States
      PROVE  step[n][s] = PassStep(clause, n, s) /\ step[n][s] \in States
  BY DEF States, PassStep
<1>2. PICK f : IsRun(f, Len(clause), States, "outside", step)
  <2> HIDE DEF step
  <2>1. \A n \in 1..Len(clause) : \A s \in States : step[n][s] \in States
    BY <1>1
  <2> QED BY <1>0, <2>1, Recursion, Zenon
<1>3. P(f)
  <2>1. ASSUME NEW n \in 0..Len(clause), n # 0
        PROVE  f[n] = PassStep(clause, n, f[n - 1])
    <3>1. n \in 1..Len(clause) /\ n - 1 \in 0..Len(clause)
      BY <1>0, <2>1
    <3> HIDE DEF step
    <3>2. f[n - 1] \in States /\ f[n] = step[n][f[n - 1]]
      BY <3>1, <1>2 DEF IsRun
    <3> QED BY <3>1, <3>2, <1>1
  <2> HIDE DEF step
  <2>2. f = [n \in 0..Len(clause) |-> f[n]] /\ f[0] = "outside"
    BY <1>2 DEF IsRun
  <2> QED BY <2>1, <2>2 DEF PassStep
<1>4. Pass(clause, "inside") = CHOOSE g : P(g)
  BY DEF Pass
<1> DEFINE C == Pass(clause, "inside")
<1>5. P(C)
  <2> HIDE DEF P
  <2> QED BY <1>3, <1>4
<1>6. C[0] = "outside"
  <2>1. 0 \in 0..Len(clause)
    BY <1>0
  <2> HIDE DEF C
  <2> QED BY <1>5, <2>1
<1>7. ASSUME NEW n \in 1..Len(clause) PROVE C[n] = PassStep(clause, n, C[n - 1])
  <2>1. n \in 0..Len(clause) /\ n # 0
    BY <1>0
  <2> HIDE DEF C
  <2> QED BY <1>5, <2>1 DEF PassStep
<1> DEFINE G == {n \in 0..Len(clause) : C[n] \in States}
<1> HIDE DEF C, P, step
<1>8. 0 \in G
  BY <1>0, <1>6
<1>9. ASSUME NEW n \in 0..(Len(clause) - 1), n \in G PROVE n + 1 \in G
  <2>1. n + 1 \in 1..Len(clause) /\ n + 1 \in 0..Len(clause) /\ (n + 1) - 1 = n
    BY <1>0
  <2>2. C[n + 1] = PassStep(clause, n + 1, C[n])
    BY <2>1, <1>7
  <2> QED BY <2>1, <2>2, <1>9 DEF PassStep, States
<1>10. \A n \in 0..Len(clause) : n \in G
  <2> HIDE DEF G
  <2> QED BY <1>0, <1>8, <1>9, UpTo
<1> QED BY <1>6, <1>7, <1>10 DEF C

(* The quotes of a text, and whether an even number of them has passed. *)
Quotes(clause) == {j \in DOMAIN clause : clause[j] = "quote"}
Even(clause, n) == CountTo(Quotes(clause), n) % 2 = 0

(* A quote changes whether an even number of them has passed. *)
LEMMA EvenIs ==
    ASSUME NEW clause \in Seq(Chars)
    PROVE  /\ Even(clause, 0)
           /\ \A n \in 1..Len(clause) :
                Even(clause, n) <=> (clause[n] # "quote" <=> Even(clause, n - 1))
           /\ \A n \in 1..Len(clause) :
                Outside(clause, n) <=> clause[n] # "quote" /\ Even(clause, n - 1)
           /\ Even(clause, Len(clause))
                <=> Cardinality({i \in DOMAIN clause : clause[i] = "quote"}) % 2 = 0
<1> DEFINE Q == Quotes(clause)
<1>0. Len(clause) \in Nat /\ DOMAIN clause = 1..Len(clause)
  OBVIOUS
<1>1. CountTo(Q, 0) = 0
  BY CountStep
<1>2. ASSUME NEW n \in 1..Len(clause)
      PROVE  Even(clause, n) <=> (clause[n] # "quote" <=> Even(clause, n - 1))
  <2>1. n - 1 \in Nat /\ (n - 1) + 1 = n /\ n \in Q <=> clause[n] = "quote"
    BY <1>0 DEF Quotes
  <2>2. /\ CountTo(Q, n - 1) \in Nat
        /\ CountTo(Q, n) = CountTo(Q, n - 1) + IF n \in Q THEN 1 ELSE 0
    <3> HIDE DEF Q
    <3>1. n - 1 \in Nat /\ (n - 1) + 1 = n
      BY <2>1
    <3>2. /\ CountTo(Q, n - 1) \in Nat
          /\ CountTo(Q, (n - 1) + 1)
               = CountTo(Q, n - 1) + IF (n - 1) + 1 \in Q THEN 1 ELSE 0
      BY <3>1, CountStep
    <3> QED BY <3>1, <3>2
  <2>3. n \in Q <=> clause[n] = "quote"
    BY <1>0 DEF Quotes
  <2> HIDE DEF Q
  <2>4. (CountTo(Q, n) % 2 = 0) <=> (n \notin Q <=> CountTo(Q, n - 1) % 2 = 0)
    <3> DEFINE a == CountTo(Q, n - 1)
               b == CountTo(Q, n)
    <3>1. a \in Nat /\ b = a + IF n \in Q THEN 1 ELSE 0
      BY <2>2
    <3> HIDE DEF a, b
    <3>2. CASE n \in Q
      <4>1. b = a + 1
        BY <3>1, <3>2
      <4>2. (b % 2 = 0) <=> ~(a % 2 = 0)
        BY <3>1, <4>1
      <4> QED BY <3>2, <4>2 DEF a, b
    <3>3. CASE n \notin Q
      BY <3>1, <3>3 DEF a, b
    <3> QED BY <3>2, <3>3
  <2> QED BY <2>3, <2>4 DEF Even, Q
<1>3. ASSUME NEW n \in 1..Len(clause)
      PROVE  Outside(clause, n) <=> clause[n] # "quote" /\ Even(clause, n - 1)
  <2>1. {j \in 1..(n - 1) : clause[j] = "quote"} = {j \in 1..(n - 1) : j \in Quotes(clause)}
    BY <1>0 DEF Quotes
  <2> QED BY <2>1 DEF Outside, Even, CountTo
<1>4. {i \in DOMAIN clause : clause[i] = "quote"}
        = {j \in 1..Len(clause) : j \in Quotes(clause)}
  BY <1>0 DEF Quotes
<1>5. Even(clause, 0)
  BY <1>1 DEF Even
<1> QED BY <1>2, <1>3, <1>4, <1>5 DEF Even, CountTo

(* Outside of literals, or at a pair, an even number of quotes has passed. *)
Paired(clause, n) ==
    LET s == Pass(clause, "inside")[n]
    IN  /\ (s = "inside") <=> ~Even(clause, n)
        /\ s = "at pair" => n < Len(clause) /\ clause[n + 1] = "quote"

LEMMA PassIsPaired ==
    ASSUME NEW clause \in Seq(Chars)
    PROVE  \A n \in 0..Len(clause) : Paired(clause, n)
<1> DEFINE G == {n \in 0..Len(clause) : Paired(clause, n)}
           s == Pass(clause, "inside")
<1>0. Len(clause) \in Nat
  OBVIOUS
<1>1. 0 \in G
  <2>1. s[0] = "outside"
    BY PassDef
  <2>2. Even(clause, 0)
    BY EvenIs
  <2>3. Paired(clause, 0)
    BY <2>1, <2>2 DEF Paired
  <2> QED BY <1>0, <2>3
<1>2. ASSUME NEW n \in 0..(Len(clause) - 1), n \in G PROVE n + 1 \in G
  <2>1. n + 1 \in 1..Len(clause) /\ n + 1 \in 0..Len(clause) /\ (n + 1) - 1 = n
        /\ n \in 0..Len(clause)
    BY <1>0
  <2>2. s[n] \in States /\ s[n + 1] = PassStep(clause, n + 1, s[n])
    BY <2>1, PassDef
  <2>3. Even(clause, n + 1) <=> (clause[n + 1] # "quote" <=> Even(clause, n))
    BY <2>1, EvenIs
  <2> HIDE DEF s
  <2>4. /\ (s[n] = "inside") <=> ~Even(clause, n)
        /\ s[n] = "at pair" => clause[n + 1] = "quote"
    BY <1>2 DEF Paired, s
  <2>5. (s[n + 1] = "inside") <=> ~Even(clause, n + 1)
    <3>1. CASE s[n] = "outside"
      BY <3>1, <2>2, <2>3, <2>4 DEF PassStep
    <3>2. CASE s[n] = "inside"
      BY <3>2, <2>2, <2>3, <2>4 DEF PassStep
    <3>3. CASE s[n] = "at pair"
      BY <3>3, <2>2, <2>3, <2>4 DEF PassStep
    <3> QED BY <2>2, <3>1, <3>2, <3>3 DEF States
  <2>6. s[n + 1] = "at pair" => n + 1 < Len(clause) /\ clause[(n + 1) + 1] = "quote"
    BY <2>2 DEF PassStep, States
  <2> QED BY <2>1, <2>5, <2>6 DEF Paired, s
<1>3. \A n \in 0..Len(clause) : n \in G
  <2> HIDE DEF G
  <2> QED BY <1>0, <1>1, <1>2, UpTo
<1> QED BY <1>3

Marks == Chars \cup {"blank"}
BlankedOf(clause) == Blanked(clause, Pass(clause, "inside"))

(* What is outside of literals stays; nothing else that the scan looks for *)
(* is left.                                                                *)
LEMMA BlankedIs ==
    ASSUME NEW clause \in Seq(Chars)
    PROVE  /\ BlankedOf(clause) \in Seq(Marks)
           /\ Len(BlankedOf(clause)) = Len(clause)
           /\ \A n \in 1..Len(clause) :
                IF Outside(clause, n) THEN BlankedOf(clause)[n] = clause[n]
                                      ELSE BlankedOf(clause)[n] \in {"quote", "blank"}
<1> DEFINE s == Pass(clause, "inside")
           b == BlankedOf(clause)
<1>0. Len(clause) \in Nat /\ DOMAIN clause = 1..Len(clause)
  OBVIOUS
<1>1. b = [n \in 1..Len(clause) |->
             IF \/ s[n - 1] = "outside"
                \/ clause[n] = "quote" /\ s[n] = "outside"
               THEN clause[n] ELSE "blank"]
  BY <1>0 DEF BlankedOf, Blanked
<1> HIDE DEF b
<1>2. ASSUME NEW n \in 1..Len(clause)
      PROVE  IF Outside(clause, n) THEN b[n] = clause[n] ELSE b[n] \in {"quote", "blank"}
  <2>1. n - 1 \in 0..Len(clause) /\ (n - 1) + 1 = n
    BY <1>0
  <2>2. /\ s[n - 1] \in {"outside", "inside", "at pair"}
        /\ (s[n - 1] = "inside") <=> ~Even(clause, n - 1)
        /\ s[n - 1] = "at pair" => clause[n] = "quote"
    <3>1. s[n - 1] \in States
      BY <2>1, PassDef
    <3>2. Paired(clause, n - 1)
      BY <2>1, PassIsPaired
    <3> QED BY <2>1, <3>1, <3>2 DEF Paired, States
  <2>3. Outside(clause, n) <=> clause[n] # "quote" /\ Even(clause, n - 1)
    BY EvenIs
  <2> HIDE DEF s
  <2>4. b[n] = IF s[n - 1] = "outside" \/ (clause[n] = "quote" /\ s[n] = "outside")
                 THEN clause[n] ELSE "blank"
    BY <1>1
  <2> QED BY <2>2, <2>3, <2>4
<1>3. b \in [1..Len(clause) -> Marks]
  <2>1. \A n \in 1..Len(clause) : clause[n] \in Marks /\ "blank" \in Marks
    BY <1>0 DEF Marks
  <2> HIDE DEF s
  <2> QED BY <1>1, <2>1
<1>4. b \in Seq(Marks) /\ Len(b) = Len(clause)
  <2>1. b \in Seq(Marks)
    BY <1>0, <1>3, SeqDef
  <2> QED BY <1>0, <1>3, <2>1, LenProperties
<1> QED BY <1>2, <1>4 DEF b

Delta(c) == CASE c = "open" -> 1 [] c = "close" -> -1 [] OTHER -> 0

(* The depth is what its recursive definition says. *)
LEMMA NestingDef ==
    ASSUME NEW b, Len(b) \in Nat
    PROVE  /\ Nesting(b)[0] = 0
           /\ \A n \in 1..Len(b) : Nesting(b)[n] = Nesting(b)[n - 1] + Delta(b[n])
<1> DEFINE step == [n \in 1..Len(b) |-> [d \in Int |-> d + Delta(b[n])]]
           P(f) == f = [n \in 0..Len(b) |->
                          IF n = 0 THEN 0
                          ELSE f[n - 1] + (CASE b[n] = "open" -> 1
                                             [] b[n] = "close" -> -1
                                             [] OTHER -> 0)]
<1>1. ASSUME NEW n \in 1..Len(b), NEW d \in Int
      PROVE  step[n][d] = d + Delta(b[n]) /\ step[n][d] \in Int
  <2>1. Delta(b[n]) \in Int
    BY DEF Delta
  <2>2. step[n][d] = d + Delta(b[n])
    OBVIOUS
  <2> HIDE DEF step
  <2> QED BY <2>1, <2>2
<1>2. PICK f : IsRun(f, Len(b), Int, 0, step)
  <2> HIDE DEF step
  <2>1. \A n \in 1..Len(b) : \A d \in Int : step[n][d] \in Int
    BY <1>1
  <2>2. 0 \in Int
    OBVIOUS
  <2> QED BY <2>1, <2>2, Recursion, Zenon
<1>3. P(f)
  <2>1. ASSUME NEW n \in 0..Len(b), n # 0
        PROVE  f[n] = f[n - 1] + Delta(b[n])
    <3>1. n \in 1..Len(b) /\ n - 1 \in 0..Len(b)
      BY <2>1
    <3> HIDE DEF step
    <3>2. f[n - 1] \in Int /\ f[n] = step[n][f[n - 1]]
      BY <3>1, <1>2 DEF IsRun
    <3> QED BY <3>1, <3>2, <1>1
  <2> HIDE DEF step
  <2>2. f = [n \in 0..Len(b) |-> f[n]] /\ f[0] = 0
    BY <1>2 DEF IsRun
  <2> QED BY <2>1, <2>2 DEF Delta
<1>4. Nesting(b) = CHOOSE g : P(g)
  BY DEF Nesting
<1> DEFINE C == Nesting(b)
<1>5. P(C)
  <2> HIDE DEF P
  <2> QED BY <1>3, <1>4
<1> HIDE DEF C
<1>6. C[0] = 0
  <2>1. 0 \in 0..Len(b)
    OBVIOUS
  <2> QED BY <1>5, <2>1
<1>7. ASSUME NEW n \in 1..Len(b) PROVE C[n] = C[n - 1] + Delta(b[n])
  <2>1. n \in 0..Len(b) /\ n # 0
    OBVIOUS
  <2> QED BY <1>5, <2>1 DEF Delta
<1> QED BY <1>6, <1>7 DEF C

(* The places outside of literals that hold c. *)
OutsideOf(clause, c) == {j \in DOMAIN clause : Outside(clause, j) /\ clause[j] = c}
Balance(clause, n) == CountTo(OutsideOf(clause, "open"), n)
                        - CountTo(OutsideOf(clause, "close"), n)

(* The depth counted on what is left is the balance outside of literals. *)
LEMMA NestingIs ==
    ASSUME NEW clause \in Seq(Chars)
    PROVE  \A n \in 0..Len(clause) :
             Nesting(BlankedOf(clause))[n] = Balance(clause, n)
<1> DEFINE b == BlankedOf(clause)
           N == Nesting(b)
           O == OutsideOf(clause, "open")
           C == OutsideOf(clause, "close")
           G == {n \in 0..Len(clause) : N[n] = Balance(clause, n)}
<1>0. Len(clause) \in Nat /\ DOMAIN clause = 1..Len(clause)
  OBVIOUS
<1>1. 0 \in G
  <2>1. N[0] = 0
    BY <1>0, BlankedIs, NestingDef
  <2>2. CountTo(O, 0) = 0 /\ CountTo(C, 0) = 0
    BY CountStep
  <2> QED BY <1>0, <2>1, <2>2 DEF Balance
<1>2. ASSUME NEW n \in 0..(Len(clause) - 1), n \in G PROVE n + 1 \in G
  <2>1. n \in Nat /\ n + 1 \in 1..Len(clause) /\ n + 1 \in 0..Len(clause) /\ (n + 1) - 1 = n
    BY <1>0
  <2>2. N[n + 1] = N[n] + Delta(b[n + 1])
    <3>1. Len(b) = Len(clause)
      BY BlankedIs
    <3> HIDE DEF b
    <3> QED BY <1>0, <2>1, <3>1, NestingDef
  <2>3. IF Outside(clause, n + 1) THEN b[n + 1] = clause[n + 1]
                                  ELSE b[n + 1] \in {"quote", "blank"}
    BY <2>1, BlankedIs
  <2>4. /\ n + 1 \in O <=> Outside(clause, n + 1) /\ clause[n + 1] = "open"
        /\ n + 1 \in C <=> Outside(clause, n + 1) /\ clause[n + 1] = "close"
    BY <2>1, <1>0 DEF OutsideOf
  <2> HIDE DEF O, C, N, b
  <2>5. /\ CountTo(O, n) \in Nat /\ CountTo(C, n) \in Nat
        /\ CountTo(O, n + 1) = CountTo(O, n) + IF n + 1 \in O THEN 1 ELSE 0
        /\ CountTo(C, n + 1) = CountTo(C, n) + IF n + 1 \in C THEN 1 ELSE 0
    BY <2>1, CountStep
  <2>6. N[n] = CountTo(O, n) - CountTo(C, n)
    BY <1>2 DEF Balance, O, C
  <2>7. Delta(b[n + 1]) = (IF n + 1 \in O THEN 1 ELSE 0) - (IF n + 1 \in C THEN 1 ELSE 0)
    BY <2>3, <2>4 DEF Delta
  <2>8. N[n + 1] = CountTo(O, n + 1) - CountTo(C, n + 1)
    BY <2>2, <2>5, <2>6, <2>7
  <2> QED BY <2>1, <2>8 DEF Balance, O, C
<1>3. \A n \in 0..Len(clause) : n \in G
  <2> HIDE DEF G
  <2> QED BY <1>0, <1>1, <1>2, UpTo
<1> QED BY <1>3

(* Where the nesting is within the limit outside of literals, it is within *)
(* it everywhere: it grows nowhere else.                                   *)
LEMMA NestedNowhere ==
    ASSUME NEW clause \in Seq(Chars),
           \A n \in 1..Len(clause) :
             Outside(clause, n) => Balance(clause, n) <= MaxNestingDepth
    PROVE  \A n \in 0..Len(clause) : Balance(clause, n) <= MaxNestingDepth
<1> DEFINE O == OutsideOf(clause, "open")
           C == OutsideOf(clause, "close")
           G == {n \in 0..Len(clause) : Balance(clause, n) <= MaxNestingDepth}
<1>0. Len(clause) \in Nat /\ DOMAIN clause = 1..Len(clause) /\ MaxNestingDepth \in Nat
  BY LimitsAssumption
<1>1. 0 \in G
  <2>1. CountTo(O, 0) = 0 /\ CountTo(C, 0) = 0
    BY CountStep
  <2> QED BY <1>0, <2>1 DEF Balance
<1>2. ASSUME NEW n \in 0..(Len(clause) - 1), n \in G PROVE n + 1 \in G
  <2>1. n \in Nat /\ n + 1 \in 1..Len(clause) /\ n + 1 \in 0..Len(clause)
    BY <1>0
  <2>2. CASE Outside(clause, n + 1)
    BY <2>1, <2>2
  <2>3. CASE ~Outside(clause, n + 1)
    <3>1. n + 1 \notin O /\ n + 1 \notin C
      BY <2>3 DEF OutsideOf
    <3> HIDE DEF O, C
    <3>2. /\ CountTo(O, n) \in Nat /\ CountTo(C, n) \in Nat
          /\ CountTo(O, n + 1) = CountTo(O, n) + IF n + 1 \in O THEN 1 ELSE 0
          /\ CountTo(C, n + 1) = CountTo(C, n) + IF n + 1 \in C THEN 1 ELSE 0
      BY <2>1, CountStep
    <3>3. CountTo(O, n + 1) = CountTo(O, n) /\ CountTo(C, n + 1) = CountTo(C, n)
      BY <3>1, <3>2
    <3> QED BY <1>2, <2>1, <3>3 DEF Balance, O, C
  <2> QED BY <2>2, <2>3
<1>3. \A n \in 0..Len(clause) : n \in G
  <2> HIDE DEF G
  <2> QED BY <1>0, <1>1, <1>2, UpTo
<1> QED BY <1>3

(* LetThrough, in terms of what is counted so far. *)
LEMMA LetThroughIs ==
    ASSUME NEW clause \in Seq(Chars)
    PROVE  LetThrough(clause) <=>
             /\ Len(clause) \in 1..MaxClauseLength
             /\ \A i \in DOMAIN clause : clause[i] # "mark"
             /\ Even(clause, Len(clause))
             /\ \A i \in DOMAIN clause : Outside(clause, i) =>
                  clause[i] # "keyword" /\ Balance(clause, i) <= MaxNestingDepth
<1> DEFINE outside == {i \in DOMAIN clause : Outside(clause, i)}
           Before(i, c) == Cardinality({j \in outside : j <= i /\ clause[j] = c})
<1>1. ASSUME NEW i \in DOMAIN clause, NEW c
      PROVE  Before(i, c) = CountTo(OutsideOf(clause, c), i)
  <2>1. {j \in outside : j <= i /\ clause[j] = c}
          = {j \in 1..i : j \in OutsideOf(clause, c)}
    BY DEF OutsideOf
  <2> QED BY <2>1 DEF CountTo
<1>2. Even(clause, Len(clause))
        <=> Cardinality({i \in DOMAIN clause : clause[i] = "quote"}) % 2 = 0
  BY EvenIs
<1>3. ASSUME NEW i \in DOMAIN clause
      PROVE  Before(i, "open") - Before(i, "close") = Balance(clause, i)
  <2>1. /\ Before(i, "open") = CountTo(OutsideOf(clause, "open"), i)
        /\ Before(i, "close") = CountTo(OutsideOf(clause, "close"), i)
    BY <1>1
  <2> QED BY <2>1 DEF Balance
<1>4. LetThrough(clause) <=>
        /\ Len(clause) \in 1..MaxClauseLength
        /\ \A i \in DOMAIN clause : clause[i] # "mark"
        /\ Cardinality({i \in DOMAIN clause : clause[i] = "quote"}) % 2 = 0
        /\ \A i \in outside :
             clause[i] # "keyword" /\ Before(i, "open") - Before(i, "close") <= MaxNestingDepth
  BY DEF LetThrough
<1> HIDE DEF Before
<1> QED BY <1>2, <1>3, <1>4

(* _prescan lets through exactly what it should. *)
LEMMA PrescanIs ==
    ASSUME NEW clause \in Seq(Chars)
    PROVE  Prescan(clause) = "ok" <=> LetThrough(clause)
<1> DEFINE blanked == BlankStringLiterals(clause)
           b == BlankedOf(clause)
           Nested == \E n \in DOMAIN blanked : Nesting(blanked)[n] > MaxNestingDepth
<1>0. /\ Len(clause) \in Nat /\ DOMAIN clause = 1..Len(clause)
      /\ MaxClauseLength \in Nat /\ MaxNestingDepth \in Nat
  BY LimitsAssumption
<1>1. Prescan(clause) = "ok" <=>
        /\ clause # <<>> /\ Len(clause) <= MaxClauseLength /\ ~Contains(clause, "mark")
        /\ ~Contains(blanked, "unterminated") /\ ~Nested /\ ~Contains(blanked, "keyword")
  <2> HIDE DEF blanked, Nested
  <2>1. Prescan(clause) =
          CASE clause = <<>>                              -> "empty"
            [] Len(clause) > MaxClauseLength              -> "too long"
            [] Contains(clause, "mark")                   -> "forbidden sequence"
            [] Contains(blanked, "unterminated")          -> "unterminated literal"
            [] Nested                                     -> "nested"
            [] Contains(blanked, "keyword")               -> "keyword"
            [] OTHER                                      -> "ok"
    BY DEF Prescan, blanked, Nested
  <2>2. Len(clause) > MaxClauseLength <=> ~(Len(clause) <= MaxClauseLength)
    BY <1>0
  <2> DEFINE toolong == Len(clause) > MaxClauseLength
             mark == Contains(clause, "mark")
             open == Contains(blanked, "unterminated")
             keyword == Contains(blanked, "keyword")
  <2> HIDE DEF toolong, mark, open, keyword
  <2>3. Prescan(clause) = "ok" <=>
          clause # <<>> /\ ~toolong /\ ~mark /\ ~open /\ ~Nested /\ ~keyword
    BY <2>1, Zenon DEF toolong, mark, open, keyword
  <2> QED BY <2>2, <2>3 DEF toolong, mark, open, keyword
<1>2. clause # <<>> /\ Len(clause) <= MaxClauseLength <=> Len(clause) \in 1..MaxClauseLength
  BY <1>0
<1>3. ~Contains(clause, "mark") <=> \A i \in DOMAIN clause : clause[i] # "mark"
  BY <1>0 DEF Contains
<1>4. blanked = IF Even(clause, Len(clause)) THEN b ELSE <<"unterminated">>
  <2>1. Len(clause) \in 0..Len(clause)
    BY <1>0
  <2>2. Pass(clause, "inside")[Len(clause)] \in {"outside", "inside", "at pair"}
    BY <2>1, PassDef DEF States
  <2>3. Paired(clause, Len(clause))
    BY <2>1, PassIsPaired
  <2>4. Pass(clause, "inside")[Len(clause)] = "outside" <=> Even(clause, Len(clause))
    <3>1. ~(Len(clause) < Len(clause))
      BY <1>0
    <3> QED BY <2>2, <2>3, <3>1, Zenon DEF Paired
  <2> QED BY <2>4 DEF BlankStringLiterals, BlankedOf
<1>5. CASE ~Even(clause, Len(clause))
  <2>1. Contains(<<"unterminated">>, "unterminated")
    BY DEF Contains
  <2> QED BY <1>1, <1>4, <1>5, <2>1, LetThroughIs
<1>6. CASE Even(clause, Len(clause))
  <2>1. /\ b \in Seq(Marks) /\ Len(b) = Len(clause)
        /\ \A n \in 1..Len(clause) :
             IF Outside(clause, n) THEN b[n] = clause[n] ELSE b[n] \in {"quote", "blank"}
    BY BlankedIs
  <2> HIDE DEF b
  <2>2. DOMAIN b = 1..Len(clause) /\ blanked = b
    BY <1>4, <1>6, <2>1
  <2>3. ~Contains(b, "unterminated")
    BY <1>0, <2>1, <2>2 DEF Contains, Marks, Chars
  <2>4. ~Contains(b, "keyword")
          <=> \A i \in DOMAIN clause : Outside(clause, i) => clause[i] # "keyword"
    BY <1>0, <2>1 DEF Contains
  <2>5. \A n \in 0..Len(clause) : Nesting(b)[n] = Balance(clause, n) /\ Balance(clause, n) \in Int
    <3>1. ASSUME NEW n \in 0..Len(clause) PROVE Balance(clause, n) \in Int
      <4>1. /\ n \in Nat
            /\ CountTo(OutsideOf(clause, "open"), n) \in Nat
            /\ CountTo(OutsideOf(clause, "close"), n) \in Nat
        BY <1>0, CountStep
      <4> QED BY <4>1 DEF Balance
    <3> QED BY <3>1, NestingIs DEF b
  <2>6. ~Nested <=> \A n \in 1..Len(clause) : Balance(clause, n) <= MaxNestingDepth
    BY <1>0, <2>2, <2>5
  <2>7. ~Nested <=> \A i \in DOMAIN clause :
                      Outside(clause, i) => Balance(clause, i) <= MaxNestingDepth
    BY <1>0, <2>6, NestedNowhere
  <2> HIDE DEF blanked, Nested
  <2> QED BY <1>1, <1>2, <1>3, <1>6, <2>2, <2>3, <2>4, <2>7, LetThroughIs
<1> QED BY <1>5, <1>6

(* However long the text and wherever its quotes, parentheses and keywords   *)
(* are, the one pass of _blank_string_literals lets through exactly the texts *)
(* that may pass: a place it leaves standing is one with an even number of    *)
(* quotes before it.                                                          *)
THEOREM PrescanExactOK == Spec => []PrescanExact
<1>1. Init => PrescanExact
  BY DEF Init, PrescanExact, IsCall
<1>2. PrescanExact /\ [Next]_vars => PrescanExact'
  <2> SUFFICES ASSUME PrescanExact, [Next]_vars, (IsCall("scan"))'
               PROVE  (answer' = "ok") <=> LetThrough(call'.clause)
    BY DEF PrescanExact
  <2>1. CASE ScanClause
    <3>1. PICK clause \in Clauses :
            Reply([tool |-> "scan", clause |-> clause], Prescan(clause))
      BY <2>1 DEF ScanClause
    <3>2. call'.clause = clause /\ answer' = Prescan(clause) /\ clause \in Seq(Chars)
      BY <3>1, TextsAssumption DEF Reply
    <3> QED BY <3>2, PrescanIs
  <2>2. CASE UNCHANGED vars
    BY <2>2 DEF PrescanExact, IsCall, vars
  <2> QED BY <2>1, <2>2, EachItsOwn
<1> QED BY <1>1, <1>2, PTL DEF Spec

-----------------------------------------------------------------------------
(* Routes. *)

Docs == {<<"docs">>, <<"redoc">>, <<"openapi.json">>}

IsJoin(t, a, b, c) ==
    /\ Len(t) = Len(a) + Len(b) + Len(c) /\ DOMAIN t = 1..Len(t)
    /\ \A i \in 1..Len(a) : t[i] = a[i]
    /\ \A i \in 1..Len(b) : t[Len(a) + i] = b[i]
    /\ \A i \in 1..Len(c) : t[Len(a) + Len(b) + i] = c[i]

LEMMA ThreeParts ==
    ASSUME NEW X, NEW a \in Seq(X), NEW b \in Seq(X), NEW c \in Seq(X)
    PROVE  IsJoin((a \o b) \o c, a, b, c)
BY DEF IsJoin

(* The table of a deployment, written out. *)
LEMMA TableIs ==
    ASSUME NEW d \in Deployments
    PROVE  /\ DOMAIN RouteTable(d) \subseteq Nat \ {0} /\ {1, 2, 3} \subseteq DOMAIN RouteTable(d)
           /\ d.fastmcp => {4, 5} \subseteq DOMAIN RouteTable(d)
           /\ d.built => Len(RouteTable(d)) \in DOMAIN RouteTable(d) /\ Len(RouteTable(d)) > 3
           /\ d.built /\ d.fastmcp => Len(RouteTable(d)) > 5
           /\ \A i \in DOMAIN RouteTable(d) :
                 \/ i \in {1, 2, 3}
                 \/ d.fastmcp /\ i \in {4, 5}
                 \/ d.built /\ i = Len(RouteTable(d))
           /\ RouteTable(d)[1] = At(Docs, "docs")
           /\ RouteTable(d)[2] = At({<<"health">>}, "health")
           /\ RouteTable(d)[3] = At(ApiPaths, "api")
           /\ d.fastmcp => /\ RouteTable(d)[4] = Mount("mcp", "mcp")
                           /\ RouteTable(d)[5] = At(RootOAuthRoutes(d), "oauth")
           /\ d.built => RouteTable(d)[Len(RouteTable(d))] = At({}, "web app")
<1> DEFINE r1 == At(Docs, "docs")
           r2 == At({<<"health">>}, "health")
           r3 == At(ApiPaths, "api")
           r4 == Mount("mcp", "mcp")
           r5 == At(RootOAuthRoutes(d), "oauth")
           r6 == At({}, "web app")
           X == {r1, r2, r3, r4, r5, r6}
           A == <<r1, r2, r3>>
           M == IF d.fastmcp THEN <<r4, r5>> ELSE <<>>
           W == IF d.built THEN <<r6>> ELSE <<>>
           T == RouteTable(d)
           m == IF d.fastmcp THEN 2 ELSE 0
           w == IF d.built THEN 1 ELSE 0
<1>1. T = (A \o M) \o W
  BY DEF RouteTable, OwnRoutes, McpRoutes, WebRoutes, Docs
<1> HIDE DEF r1, r2, r3, r4, r5, r6, T
<1>2. Len(A) = 3 /\ A[1] = r1 /\ A[2] = r2 /\ A[3] = r3 /\ A \in Seq(X)
  OBVIOUS
<1>3. M \in Seq(X) /\ Len(M) = m /\ (d.fastmcp => M[1] = r4 /\ M[2] = r5)
  <2>1. CASE d.fastmcp
    BY <2>1
  <2>2. CASE ~d.fastmcp
    BY <2>2
  <2> QED BY <2>1, <2>2
<1>4. W \in Seq(X) /\ Len(W) = w /\ (d.built => W[1] = r6)
  <2>1. CASE d.built
    BY <2>1
  <2>2. CASE ~d.built
    BY <2>2
  <2> QED BY <2>1, <2>2
<1>5. m \in {0, 2} /\ w \in {0, 1} /\ (d.fastmcp => m = 2) /\ (d.built => w = 1)
  OBVIOUS
<1> HIDE DEF A, M, W, X, m, w
<1>0. IsJoin(T, A, M, W)
  <2>1. A \in Seq(X) /\ M \in Seq(X) /\ W \in Seq(X)
    BY <1>2, <1>3, <1>4
  <2>2. IsJoin((A \o M) \o W, A, M, W)
    BY <2>1, ThreeParts, Zenon
  <2> QED BY <1>1, <2>2, Zenon
<1>6. /\ Len(T) = Len(A) + Len(M) + Len(W) /\ DOMAIN T = 1..Len(T)
      /\ \A i \in 1..Len(A) : T[i] = A[i]
      /\ \A i \in 1..Len(M) : T[Len(A) + i] = M[i]
      /\ \A i \in 1..Len(W) : T[Len(A) + Len(M) + i] = W[i]
  BY <1>0 DEF IsJoin
<1>7. Len(T) = 3 + m + w
  BY <1>2, <1>3, <1>4, <1>6
<1>8. T[1] = r1 /\ T[2] = r2 /\ T[3] = r3
  <2>1. 1 \in 1..3 /\ 2 \in 1..3 /\ 3 \in 1..3
    OBVIOUS
  <2> QED BY <2>1, <1>2, <1>6
<1>9. ASSUME d.fastmcp PROVE T[4] = r4 /\ T[5] = r5
  <2>1. 1 \in 1..2 /\ 2 \in 1..2 /\ 3 + 1 = 4 /\ 3 + 2 = 5 /\ m = 2
    BY <1>5, <1>9
  <2> QED BY <2>1, <1>2, <1>3, <1>6, <1>9
<1>10. ASSUME d.built PROVE T[Len(T)] = r6
  <2>1. 1 \in 1..1 /\ w = 1
    BY <1>5, <1>10
  <2>2. T[3 + m + 1] = W[1]
    BY <2>1, <1>2, <1>3, <1>4, <1>6
  <2> QED BY <2>1, <2>2, <1>4, <1>7, <1>10
<1>11. DOMAIN T = 1..(3 + m + w)
  BY <1>6, <1>7
<1>12. DOMAIN T \subseteq Nat \ {0} /\ {1, 2, 3} \subseteq DOMAIN T /\ Len(T) \in DOMAIN T
  BY <1>5, <1>7, <1>11
<1>13. d.fastmcp => {4, 5} \subseteq DOMAIN T
  BY <1>5, <1>11
<1>14. \A i \in DOMAIN T : \/ i \in {1, 2, 3}
                           \/ d.fastmcp /\ i \in {4, 5}
                           \/ d.built /\ i = Len(T)
  <2>1. (~d.fastmcp => m = 0) /\ (~d.built => w = 0)
    BY DEF m, w
  <2>2. ASSUME NEW i \in 1..(3 + m + w)
        PROVE  i \in {1, 2, 3} \/ (m = 2 /\ i \in {4, 5}) \/ (w = 1 /\ i = 3 + m + w)
    <3>1. i \in Int /\ 1 <= i /\ m \in Int /\ w \in Int /\ (m = 0 \/ m = 2) /\ (w = 0 \/ w = 1)
      BY <1>5
    <3>2. i <= 3 + m + w
      BY <1>5
    <3>3. CASE m = 0
      BY <3>1, <3>2, <3>3
    <3>4. CASE m = 2
      BY <3>1, <3>2, <3>4
    <3> QED BY <3>1, <3>3, <3>4
  <2>7. (m = 2 => d.fastmcp) /\ (w = 1 => d.built)
    BY DEF m, w
  <2> QED BY <2>2, <2>7, <1>7, <1>11
<1>15. (d.built => Len(T) > 3) /\ (d.built /\ d.fastmcp => Len(T) > 5)
  BY <1>5, <1>7
<1>16. /\ T[1] = At(Docs, "docs") /\ T[2] = At({<<"health">>}, "health")
       /\ T[3] = At(ApiPaths, "api")
       /\ d.fastmcp => /\ T[4] = Mount("mcp", "mcp")
                       /\ T[5] = At(RootOAuthRoutes(d), "oauth")
       /\ d.built => T[Len(T)] = At({}, "web app")
  BY <1>8, <1>9, <1>10, Zenon DEF r1, r2, r3, r4, r5, r6
<1>17. d.built => Len(T) \in DOMAIN T /\ Len(T) > 3
  BY <1>12, <1>15
<1> QED
  BY <1>12, <1>13, <1>14, <1>15, <1>16, <1>17, Zenon DEF T

(* What the k-th route answers. *)
Answered(d, p, to) ==
    CASE to = "web app" -> WebApp(p)
      [] to = "mcp"     -> SubApp(d, p)
      [] OTHER          -> to

LEMMA FirstRoute ==
    ASSUME NEW d \in Deployments, NEW path, NEW k \in DOMAIN RouteTable(d),
           Matches(RouteTable(d)[k], Normalize(path)),
           \A i \in DOMAIN RouteTable(d) : i < k => ~Matches(RouteTable(d)[i], Normalize(path))
    PROVE  Handler(d, path) = Answered(d, Normalize(path), RouteTable(d)[k].to)
<1> DEFINE p == Normalize(path)
           T == RouteTable(d)
           hits == {i \in DOMAIN T : Matches(T[i], p)}
           first == CHOOSE i \in hits : \A j \in hits : i <= j
<1>1. DOMAIN T \subseteq Nat
  BY TableIs, Zenon
<1>2. k \in hits /\ \A j \in hits : k <= j
  BY <1>1
<1>3. first \in hits /\ \A j \in hits : first <= j
  <2> HIDE DEF hits
  <2> QED BY <1>2
<1>4. first = k
  <2>1. first \in Int /\ k \in Int /\ first <= k /\ k <= first
    BY <1>1, <1>2, <1>3
  <2> HIDE DEF first
  <2> QED BY <2>1
<1>5. Handler(d, path) = IF hits = {} THEN "not found" ELSE Answered(d, p, T[first].to)
  BY DEF Handler, Answered
<1> QED
  BY <1>2, <1>4, <1>5

LEMMA SomeRoute ==
    ASSUME NEW d \in Deployments, NEW path
    PROVE  \/ Handler(d, path) = "not found"
           \/ \E k \in DOMAIN RouteTable(d) :
                 Handler(d, path) = Answered(d, Normalize(path), RouteTable(d)[k].to)
<1> DEFINE T == RouteTable(d)
           hits == {i \in DOMAIN T : Matches(T[i], Normalize(path))}
<1>0. DOMAIN T \subseteq Nat
  BY TableIs, Zenon
<1>1. CASE hits = {}
  BY <1>1 DEF Handler
<1>2. CASE hits # {}
  <2>1. hits \subseteq Nat
    BY <1>0
  <2>2. PICK k \in hits : \A m \in Nat : m < k => m \notin hits
    <3> HIDE DEF hits
    <3> QED BY <1>2, <2>1, LeastNat
  <2>3. \A i \in DOMAIN T : i < k => ~Matches(T[i], Normalize(path))
    <3> QED BY <1>0, <2>2
  <2>4. k \in DOMAIN T /\ Matches(T[k], Normalize(path))
    BY <2>2
  <2>5. Handler(d, path) = Answered(d, Normalize(path), T[k].to)
    BY <2>3, <2>4, FirstRoute
  <2> QED BY <2>4, <2>5
<1> QED BY <1>1, <1>2

LEMMA ToIs ==
    /\ \A r, paths, to : r = At(paths, to) => r.to = to
    /\ \A r, prefix, to : r = Mount(prefix, to) => r.to = to
<1>1. \A paths, to : At(paths, to).to = to
  BY DEF At
<1>2. \A prefix, to : Mount(prefix, to).to = to
  BY DEF Mount
<1> QED BY <1>1, <1>2, Zenon

(* Which paths a route matches. *)
LEMMA MatchesIs ==
    ASSUME NEW p
    PROVE  /\ Matches(At(Docs, "docs"), p) <=> p \in Docs
           /\ Matches(At({<<"health">>}, "health"), p) <=> p = <<"health">>
           /\ Matches(At(ApiPaths, "api"), p) <=> p \in ApiPaths
           /\ Matches(Mount("mcp", "mcp"), p) <=> Head(p) = "mcp" /\ Len(p) > 1
           /\ \A d : Matches(At(RootOAuthRoutes(d), "oauth"), p) <=> p \in RootOAuthRoutes(d)
           /\ Matches(At({}, "web app"), p)
BY DEF Matches, At, Mount

(* The first segments of the application's own paths tell them apart. *)
LEMMA FirstSegments ==
    /\ \A p \in Docs : Head(p) \in {"docs", "redoc", "openapi.json"}
    /\ \A p \in ApiPaths : Head(p) = "api"
    /\ Head(<<"health">>) = "health" /\ Head(<<"mcp">>) = "mcp" /\ Head(<<"mcp", "">>) = "mcp"
    /\ \A d : \A p \in RootOAuthRoutes(d) :
          Head(p) \in {".well-known", "auth", "authorize", "token", "register", "consent"}
    /\ \A p \in Discovery \cup ProxyPaths :
          Head(p) \in {".well-known", "auth", "authorize", "token", "register", "consent"}
    /\ \A p \in Pages : Head(p) \in {"", "login", "privacy", "terms", "connect", "tutorials",
                                      "settings", "oauth"}
<1>1. \A s, t : Head(<<s>>) = s /\ Head(<<s, t>>) = s
  OBVIOUS
<1>2. \A s, t, u, v : Head(<<s, t, u, v>>) = s
  OBVIOUS
<1>3. \A d : \A p \in RootOAuthRoutes(d) :
          Head(p) \in {".well-known", "auth", "authorize", "token", "register", "consent"}
  BY <1>1 DEF RootOAuthRoutes
<1> QED
  BY <1>1, <1>2, <1>3, PathsAssumption DEF Docs, Discovery, ProxyPaths, Pages

LEMMA NormalizeIs ==
    /\ \A p : Head(p) # "mcp" => Normalize(p) = p
    /\ \A p : Len(p) > 1 => Normalize(p) = p
    /\ Normalize(<<"mcp">>) = <<"mcp", "">> /\ Normalize(<<"mcp", "">>) = <<"mcp", "">>
<1>1. Len(<<"mcp">>) = 1 /\ Len(<<"mcp", "">>) = 2
  OBVIOUS
<1>2. Head(<<"mcp">>) = "mcp" /\ <<"mcp", "">> # <<"mcp">>
  BY <1>1
<1>3. \A p : p # <<"mcp">> => Normalize(p) = p
  BY DEF Normalize
<1>4. \A p : Len(p) > 1 => p # <<"mcp">>
  BY <1>1
<1> QED
  BY <1>2, <1>3, <1>4 DEF Normalize

(* A path of the REST API is answered by it. *)
LEMMA ApiIsReached ==
    ASSUME NEW d \in Deployments, NEW p \in ApiPaths
    PROVE  Handler(d, p) = "api"
<1> DEFINE T == RouteTable(d)
<1>1. Head(p) = "api" /\ Normalize(p) = p
  BY FirstSegments, NormalizeIs
<1>2. /\ 3 \in DOMAIN T /\ DOMAIN T \subseteq Nat \ {0}
      /\ T[1] = At(Docs, "docs") /\ T[2] = At({<<"health">>}, "health")
      /\ T[3] = At(ApiPaths, "api")
  BY TableIs, Zenon
<1>3. p \notin Docs /\ p # <<"health">>
  BY <1>1, FirstSegments
<1>4. Matches(T[3], p) /\ ~Matches(T[1], p) /\ ~Matches(T[2], p)
  BY <1>2, <1>3, MatchesIs
<1>5. \A i \in DOMAIN T : i < 3 => ~Matches(T[i], p)
  <2>1. \A i \in Nat \ {0} : i < 3 => i = 1 \/ i = 2
    OBVIOUS
  <2> QED BY <2>1, <1>2, <1>4
<1>6. Handler(d, p) = Answered(d, p, T[3].to)
  BY <1>1, <1>2, <1>4, <1>5, FirstRoute
<1>7. T[3].to = "api"
  BY <1>2, ToIs, Zenon
<1> QED
  BY <1>6, <1>7 DEF Answered

LEMMA EarlierRoutes ==
    ASSUME NEW d \in Deployments
    PROVE  /\ \A i \in DOMAIN RouteTable(d) : i < 4 => i \in {1, 2, 3}
           /\ \A i \in DOMAIN RouteTable(d) : i < 5 => i \in {1, 2, 3} \/ i = 4
           /\ \A i \in DOMAIN RouteTable(d) : i < Len(RouteTable(d)) =>
                i \in {1, 2, 3} \/ (d.fastmcp /\ i \in {4, 5})
<1>1. DOMAIN RouteTable(d) \subseteq Nat \ {0}
  BY TableIs, Zenon
<1>2. \A i \in Nat \ {0} : (i < 4 => i \in {1, 2, 3}) /\ (i < 5 => i \in {1, 2, 3} \/ i = 4)
  OBVIOUS
<1>3. \A i \in DOMAIN RouteTable(d) : \/ i \in {1, 2, 3}
                                      \/ d.fastmcp /\ i \in {4, 5}
                                      \/ d.built /\ i = Len(RouteTable(d))
  BY TableIs, Zenon
<1>4. ASSUME NEW i \in DOMAIN RouteTable(d), i < Len(RouteTable(d))
      PROVE  i # Len(RouteTable(d))
  BY <1>1, <1>4
<1>5. \A i \in DOMAIN RouteTable(d) : i < Len(RouteTable(d)) =>
         i \in {1, 2, 3} \/ (d.fastmcp /\ i \in {4, 5})
  BY <1>3, <1>4, Zenon
<1> QED BY <1>1, <1>2, <1>5

(* A path whose first segment is none of the application's own three matches
   none of the first three routes. *)
LEMMA FirstThree ==
    ASSUME NEW d \in Deployments, NEW p,
           Head(p) \notin {"docs", "redoc", "openapi.json", "health", "api"}
    PROVE  \A i \in {1, 2, 3} : ~Matches(RouteTable(d)[i], p)
<1>1. /\ RouteTable(d)[1] = At(Docs, "docs") /\ RouteTable(d)[2] = At({<<"health">>}, "health")
      /\ RouteTable(d)[3] = At(ApiPaths, "api")
  BY TableIs, Zenon
<1>2. p \notin Docs /\ p # <<"health">> /\ p \notin ApiPaths
  BY FirstSegments
<1> QED BY <1>1, <1>2, MatchesIs

(* A path of two segments: the first, and what is left after it. *)
LEMMA RestOfTwo ==
    ASSUME NEW s, NEW t
    PROVE  Head(<<s, t>>) = s /\ Len(<<s, t>>) > 1 /\ Tail(<<s, t>>) = <<t>>
<1> DEFINE p == <<s, t>>
           q == <<t>>
<1>1. p \in Seq({s, t}) /\ Len(p) = 2 /\ p[2] = t
  OBVIOUS
<1>2. q \in Seq({s, t}) /\ Len(q) = 1 /\ q[1] = t
  OBVIOUS
<1>3. p # <<>>
  OBVIOUS
<1> HIDE DEF p, q
<1>4. /\ Tail(p) \in Seq({s, t}) /\ Len(Tail(p)) = Len(p) - 1
      /\ \A i \in 1..Len(Tail(p)) : Tail(p)[i] = p[i + 1]
  BY <1>1, <1>3, HeadTailProperties
<1>5. Len(Tail(p)) = Len(q)
  BY <1>1, <1>2, <1>4
<1>6. \A i \in 1..Len(Tail(p)) : Tail(p)[i] = q[i]
  <2>1. \A i \in 1..1 : i = 1 /\ i + 1 = 2
    OBVIOUS
  <2>2. 1 \in 1..Len(Tail(p)) /\ Len(Tail(p)) = 1
    BY <1>1, <1>4
  <2>3. Tail(p)[1] = p[1 + 1]
    BY <2>2, <1>4
  <2> QED BY <2>1, <2>2, <2>3, <1>1, <1>2
<1>7. Tail(p) = q
  BY <1>2, <1>4, <1>5, <1>6, SeqEqual, Zenon
<1>8. Head(<<s, t>>) = s /\ Len(<<s, t>>) > 1
  OBVIOUS
<1> QED BY <1>7, <1>8 DEF p, q

(* /mcp and /mcp/ are answered by the transport. *)
LEMMA TransportIsReached ==
    ASSUME NEW d \in Deployments, d.fastmcp, NEW path \in {<<"mcp">>, <<"mcp", "">>}
    PROVE  Handler(d, path) = "mcp"
<1> DEFINE T == RouteTable(d)
           p == <<"mcp", "">>
<1>1. Normalize(path) = p
  BY NormalizeIs
<1>2. Head(p) = "mcp" /\ Len(p) > 1 /\ Tail(p) = <<"">>
  BY RestOfTwo, Zenon
<1> HIDE DEF p
<1>3. 4 \in DOMAIN T /\ T[4] = Mount("mcp", "mcp")
  BY TableIs, Zenon
<1>4. Matches(T[4], p)
  BY <1>2, <1>3, MatchesIs
<1>5. \A i \in DOMAIN T : i < 4 => ~Matches(T[i], p)
  BY <1>2, FirstThree, EarlierRoutes
<1>6. Handler(d, path) = Answered(d, p, T[4].to)
  BY <1>1, <1>3, <1>4, <1>5, FirstRoute
<1>7. T[4].to = "mcp"
  BY <1>3, ToIs, Zenon
<1>8. Tail(p) \in SubAppPaths(d)
  BY <1>2 DEF SubAppPaths
<1> QED
  BY <1>2, <1>6, <1>7, <1>8 DEF Answered, SubApp

LEMMA AdvertisedIsRoot ==
    ASSUME NEW d \in Deployments, NEW p \in Advertised(d)
    PROVE  p \in RootOAuthRoutes(d) /\ p \in Discovery \cup ProxyPaths
<1> DEFINE m == AuthMode(d)
<1>0. m \in {"bare verifier", "oauth proxy", "remote server"}
  <2>1. CASE "SUPABASE_URL" \notin d.settings
    BY <2>1 DEF AuthMode
  <2>2. CASE "SUPABASE_URL" \in d.settings /\ d.settings = Settings
    BY <2>2 DEF AuthMode
  <2>3. CASE "SUPABASE_URL" \in d.settings /\ d.settings # Settings
    BY <2>3 DEF AuthMode
  <2> QED BY <2>1, <2>2, <2>3
<1>1. p \in SubAppPaths(d) /\ p \in Discovery \cup ProxyPaths
  <2> HIDE DEF m
  <2>1. Advertised(d) = CASE m = "bare verifier" -> {}
                          [] m = "remote server" -> Discovery
                          [] m = "oauth proxy"   -> Discovery \cup ProxyPaths
    BY DEF Advertised, m
  <2>2. SubAppPaths(d) = {<<"">>} \cup (IF m = "bare verifier" THEN {} ELSE Discovery)
                                 \cup (IF m = "oauth proxy" THEN ProxyPaths ELSE {})
    BY DEF SubAppPaths, m
  <2>3. CASE m = "bare verifier"
    BY <2>3, <2>1
  <2>4. CASE m = "remote server"
    BY <2>4, <2>1, <2>2
  <2>5. CASE m = "oauth proxy"
    BY <2>5, <2>1, <2>2
  <2> QED BY <1>0, <2>3, <2>4, <2>5
<1>2. \A s, t, u, v : Head(<<s, t, u, v>>) = s /\ Len(<<s, t, u, v>>) > 1
  OBVIOUS
<1>3. \A s, t : Head(<<s, t>>) = s /\ Len(<<s, t>>) > 1
  OBVIOUS
<1>4. \/ Head(p) \in {".well-known", "auth"} /\ Len(p) > 1
      \/ p \in {<<"authorize">>, <<"token">>, <<"register">>, <<"consent">>}
  <2>1. CASE p = <<".well-known", "oauth-protected-resource", "mcp", "">>
    BY <2>1, <1>2
  <2>2. CASE p \in {<<"auth", "callback">>, <<".well-known", "oauth-authorization-server">>}
    BY <2>2, <1>3
  <2>3. CASE p \in {<<"authorize">>, <<"token">>, <<"register">>, <<"consent">>}
    BY <2>3
  <2> QED BY <1>1, <2>1, <2>2, <2>3, Zenon DEF Discovery, ProxyPaths
<1> QED BY <1>1, <1>4 DEF RootOAuthRoutes

(* What a connector is told of at the origin root is answered there. *)
LEMMA AdvertisedIsReached ==
    ASSUME NEW d \in Deployments, d.fastmcp, NEW p \in Advertised(d)
    PROVE  Handler(d, p) = "oauth"
<1> DEFINE T == RouteTable(d)
<1>1. p \in RootOAuthRoutes(d) /\ Head(p) \in {".well-known", "auth", "authorize", "token", "register", "consent"}
  BY AdvertisedIsRoot, FirstSegments
<1>2. Normalize(p) = p
  BY <1>1, NormalizeIs
<1>3. /\ 5 \in DOMAIN T /\ T[4] = Mount("mcp", "mcp")
      /\ T[5] = At(RootOAuthRoutes(d), "oauth")
  BY TableIs, Zenon
<1>4. Matches(T[5], p) /\ ~Matches(T[4], p)
  BY <1>1, <1>3, MatchesIs
<1>5. \A i \in DOMAIN T : i < 5 => ~Matches(T[i], p)
  BY <1>1, <1>4, FirstThree, EarlierRoutes
<1>6. Handler(d, p) = Answered(d, p, T[5].to)
  BY <1>2, <1>3, <1>4, <1>5, FirstRoute
<1>7. T[5].to = "oauth"
  <2>1. T[5] = At(RootOAuthRoutes(d), "oauth")
    BY <1>3
  <2> QED BY <2>1, ToIs, Zenon
<1> QED
  BY <1>6, <1>7 DEF Answered

(* The web app's own pages are served where there is a build. *)
LEMMA PageIsReached ==
    ASSUME NEW d \in Deployments, d.built, NEW p \in Pages
    PROVE  Handler(d, p) = "web app"
<1> DEFINE T == RouteTable(d)
<1>1. Head(p) \in {"", "login", "privacy", "terms", "connect", "tutorials", "settings", "oauth"}
  BY FirstSegments
<1>2. Normalize(p) = p
  BY <1>1, NormalizeIs
<1>3. /\ Len(T) \in DOMAIN T /\ T[Len(T)] = At({}, "web app")
      /\ d.fastmcp => T[4] = Mount("mcp", "mcp") /\ T[5] = At(RootOAuthRoutes(d), "oauth")
  BY TableIs, Zenon
<1>4. p \notin RootOAuthRoutes(d) /\ Head(p) # "mcp"
  BY <1>1, FirstSegments
<1>5. d.fastmcp => \A i \in {4, 5} : ~Matches(T[i], p)
  BY <1>3, <1>4, MatchesIs
<1>6. \A i \in DOMAIN T : i < Len(T) => ~Matches(T[i], p)
  BY <1>1, <1>5, FirstThree, EarlierRoutes
<1>7. Matches(T[Len(T)], p)
  BY <1>3, MatchesIs
<1>8. Handler(d, p) = Answered(d, p, T[Len(T)].to)
  BY <1>2, <1>3, <1>6, <1>7, FirstRoute
<1>9. T[Len(T)].to = "web app"
  BY <1>3, ToIs, Zenon
<1>10. WebApp(p) = "web app"
  BY <1>1, PagesAssumption DEF WebApp, OwnedByApplication, BeginsWithMcp
<1> QED
  BY <1>8, <1>9, <1>10 DEF Answered

(* A path below the application's prefixes is no page of the web app. *)
LEMMA NothingOwnedIsAPage ==
    ASSUME NEW d \in Deployments, NEW p \in Seq(STRING), Len(p) > 1,
           p[1] \in {"api", ".well-known", "mcp"}
    PROVE  Handler(d, p) \notin {"web app", "file"}
<1> DEFINE T == RouteTable(d)
<1>1. Head(p) = p[1] /\ Normalize(p) = p
  <2>1. Normalize(p) = p
    BY NormalizeIs, Zenon
  <2> QED BY <2>1
<1>2. CASE Handler(d, p) = "not found"
  BY <1>2
<1>3. ASSUME NEW k \in DOMAIN T, Handler(d, p) = Answered(d, p, T[k].to)
      PROVE  Handler(d, p) \notin {"web app", "file"}
  <2>1. T[k].to \in {"docs", "health", "api", "mcp", "oauth", "web app"}
    <3>1. CASE k \in {1, 2, 3}
      <4>1. /\ T[1] = At(Docs, "docs") /\ T[2] = At({<<"health">>}, "health")
            /\ T[3] = At(ApiPaths, "api")
        BY TableIs, Zenon
      <4>2. T[1].to = "docs" /\ T[2].to = "health" /\ T[3].to = "api"
        BY <4>1, ToIs, Zenon
      <4> QED BY <3>1, <4>2
    <3>2. CASE d.fastmcp /\ k \in {4, 5}
      <4>0. T[4] = Mount("mcp", "mcp") /\ T[5] = At(RootOAuthRoutes(d), "oauth")
        BY <3>2, TableIs, Zenon
      <4>1. T[4].to = "mcp" /\ T[5].to = "oauth"
        BY <4>0, ToIs, Zenon
      <4> QED BY <3>2, <4>1
    <3>3. CASE d.built /\ k = Len(T)
      <4>1. T[Len(T)].to = "web app"
        BY <3>3, TableIs, ToIs, Zenon
      <4> QED BY <3>3, <4>1
    <3> QED BY <3>1, <3>2, <3>3, TableIs, Zenon
  <2>2. WebApp(p) = "not found"
    <3>1. p \notin Files
      BY <1>1, PathsAssumption DEF Owned
    <3>2. OwnedByApplication(p)
      BY <1>1 DEF OwnedByApplication, BeginsWithMcp
    <3> QED BY <3>1, <3>2 DEF WebApp
  <2>3. SubApp(d, p) \in {"not found", "mcp", "oauth"}
    BY DEF SubApp
  <2> QED BY <1>3, <2>1, <2>2, <2>3 DEF Answered
<1> QED
  BY <1>1, <1>2, <1>3, SomeRoute

(* In every deployment and for every path, the catch-all for the web app that *)
(* is mounted last hides none of the application's own routes, and no path of *)
(* theirs falls through to it.                                                *)
THEOREM RoutesReachOK == Spec => []RoutesReach
<1>1. Init => RoutesReach
  BY DEF Init, RoutesReach, IsCall
<1>2. RoutesReach /\ [Next]_vars => RoutesReach'
  <2> SUFFICES ASSUME RoutesReach, [Next]_vars, (IsCall("visit"))'
               PROVE  RoutesReach'
    BY DEF RoutesReach
  <2>1. CASE Visit
    <3>1. PICK d \in Deployments, path \in Paths :
            Reply([tool |-> "visit", deployment |-> d, path |-> path], Handler(d, path))
      BY <2>1 DEF Visit
    <3>2. call'.deployment = d /\ call'.path = path /\ answer' = Handler(d, path)
      BY <3>1 DEF Reply
    <3>3. path \in Seq(STRING)
      BY VisitsAssumption
    <3>4. path \in ApiPaths => answer' = "api"
      BY <3>2, ApiIsReached
    <3>5. d.fastmcp /\ path \in {<<"mcp">>, <<"mcp", "">>} => answer' = "mcp"
      BY <3>2, TransportIsReached
    <3>6. d.fastmcp /\ path \in Advertised(d) => answer' = "oauth"
      BY <3>2, AdvertisedIsReached
    <3>7. d.built /\ path \in Pages => answer' = "web app"
      BY <3>2, PageIsReached
    <3>8. Len(path) > 1 /\ path[1] \in {"api", ".well-known", "mcp"}
            => answer' \notin {"web app", "file"}
      BY <3>2, <3>3, NothingOwnedIsAPage
    <3> QED
      BY <3>2, <3>4, <3>5, <3>6, <3>7, <3>8, Zenon DEF RoutesReach
  <2>2. CASE UNCHANGED vars
    BY <2>2 DEF RoutesReach, IsCall, vars
  <2> QED BY <2>1, <2>2, EachItsOwn
<1> QED BY <1>1, <1>2, PTL DEF Spec

-----------------------------------------------------------------------------
(* Values of fields. *)

LEMMA RawValueIs ==
    ASSUME NEW v \in RawValues
    PROVE  \/ v.is = "text" /\ v = Text(v.text) /\ v.text \in Texts
           \/ v.is = "bool" /\ v = Bool(v.truth) /\ v.truth \in BOOLEAN
           \/ v.is = "number" /\ v = Number(v.number) /\ v.number \in Numbers
<1>1. CASE v \in [is : {"text"}, text : Texts]
  BY <1>1 DEF Text
<1>2. CASE v \in [is : {"bool"}, truth : BOOLEAN]
  BY <1>2 DEF Bool
<1>3. CASE v \in [is : {"number"}, number : Numbers]
  BY <1>3 DEF Number
<1> QED BY <1>1, <1>2, <1>3 DEF RawValues

LEMMA RawValueOf ==
    /\ \A t \in Texts : Text(t) \in RawValues /\ Text(t).is = "text" /\ Text(t).text = t
    /\ \A b \in BOOLEAN : Bool(b) \in RawValues /\ Bool(b).is = "bool"
    /\ \A x \in Numbers : Number(x) \in RawValues /\ Number(x).is = "number" /\ Number(x).number = x
BY DEF RawValues, Text, Bool, Number

LEMMA AsTextFits ==
    ASSUME NEW v \in RawValues
    PROVE  AsText(v) \in Texts
<1>1. CASE v.is = "text"
  <2>1. AsText(v) = v.text
    BY <1>1 DEF AsText
  <2> QED BY <2>1, <1>1, RawValueIs
<1>2. CASE v.is = "bool"
  <2> DEFINE word == IF v.truth THEN "true" ELSE "false"
  <2>1. AsText(v) = [Word(word) EXCEPT !.upper = TRUE]
    BY <1>2 DEF AsText
  <2>2. \A w \in STRING : [Word(w) EXCEPT !.upper = TRUE] \in Texts
    BY DEF Word, Texts
  <2>3. word \in STRING
    <3>1. "true" \in STRING /\ "false" \in STRING
      BY WordsAssumption DEF Truthy, Falsy
    <3>2. word = "true" \/ word = "false"
      OBVIOUS
    <3> HIDE DEF word
    <3> QED BY <3>1, <3>2, Zenon
  <2> HIDE DEF word
  <2> QED BY <2>1, <2>2, <2>3
<1>3. CASE v.is = "number"
  <2>1. AsText(v) = Word(CHOOSE w \in DOMAIN NumberOf : NumberOf[w] = v.number)
    BY <1>3 DEF AsText
  <2>2. \E w \in DOMAIN NumberOf : NumberOf[w] = v.number
    BY <1>3, RawValueIs DEF Numbers
  <2>3. (CHOOSE w \in DOMAIN NumberOf : NumberOf[w] = v.number) \in STRING
    BY <2>2, NumberAssumption
  <2>4. \A w \in STRING : Word(w) \in Texts
    BY DEF Word, Texts
  <2> QED BY <2>1, <2>3, <2>4
<1> QED BY <1>1, <1>2, <1>3, RawValueIs

(* What a value is coerced to fits its field, but for a number that is none. *)
LEMMA CoerceFits ==
    ASSUME NEW def, def.type \in {"boolean", "number", "enum", "text"},
           def.allowed \in Seq(Texts), NEW v \in RawValues, Coerce(def, v) # None
    PROVE  /\ Coerce(def, v) \in RawValues
           /\ Coerce(def, v) # Number(NaN) => Fits(def, Coerce(def, v))
<1> DEFINE r == Coerce(def, v)
<1>1. CASE def.type = "boolean"
  <2>1. r = CoerceBoolean(v)
    BY <1>1 DEF Coerce
  <2>2. r \in RawValues /\ r.is = "bool"
    <3>1. TRUE \in BOOLEAN /\ FALSE \in BOOLEAN
      OBVIOUS
    <3>2. (r = v /\ v.is = "bool") \/ r = Bool(TRUE) \/ r = Bool(FALSE)
      BY <2>1 DEF CoerceBoolean
    <3> QED BY <3>1, <3>2, RawValueOf
  <2> QED BY <2>2, <1>1 DEF Fits
<1>2. CASE def.type = "number"
  <2>1. r = CoerceNumber(v)
    BY <1>2 DEF Coerce
  <2>2. r \in RawValues /\ r.is = "number"
    <3>1. CASE v.is = "bool"
      BY <3>1, <2>1 DEF CoerceNumber
    <3>2. CASE v.is = "number"
      BY <3>2, <2>1 DEF CoerceNumber
    <3>3. CASE v.is = "text"
      <4>1. r = Number(NumberOf[v.text.word]) /\ v.text.word \in DOMAIN NumberOf
        BY <3>3, <2>1 DEF CoerceNumber
      <4>2. NumberOf[v.text.word] \in Numbers
        BY <4>1 DEF Numbers
      <4> QED BY <4>1, <4>2, RawValueOf
    <3> QED BY <3>1, <3>2, <3>3, RawValueIs
  <2>3. r = Number(r.number)
    BY <2>2, RawValueIs
  <2> HIDE DEF r
  <2>4. r # Number(NaN) => Fits(def, r)
    BY <2>2, <2>3, <1>2 DEF Fits
  <2> QED BY <2>2, <2>4 DEF r
<1>3. CASE def.type = "enum"
  <2> DEFINE t == Lower(Strip(AsText(v)))
             matches == {i \in DOMAIN def.allowed : Lower(def.allowed[i]) = t}
             first == CHOOSE i \in matches : \A j \in matches : i <= j
  <2>1. r = CoerceEnum(v, def.allowed)
    BY <1>3 DEF Coerce
  <2>2. matches # {} /\ r = Text(def.allowed[first])
    BY <2>1 DEF CoerceEnum
  <2>3. matches \subseteq Nat /\ matches \subseteq DOMAIN def.allowed
    OBVIOUS
  <2>4. first \in matches
    <3> HIDE DEF matches
    <3>1. PICK b \in matches : \A k \in Nat : k < b => k \notin matches
      BY <2>2, <2>3, LeastNat
    <3>2. \A j \in matches : b <= j
      BY <3>1, <2>3
    <3> QED BY <3>2
  <2>5. first \in DOMAIN def.allowed
    BY <2>3, <2>4
  <2>6. def.allowed[first] \in Texts /\ def.allowed[first] \in ToSet(def.allowed)
    <3> HIDE DEF first
    <3> QED BY <2>5 DEF ToSet
  <2> HIDE DEF first, r
  <2>7. r \in RawValues /\ r.is = "text" /\ r.text = def.allowed[first]
    BY <2>2, <2>6, RawValueOf
  <2>8. Fits(def, r)
    BY <2>6, <2>7, <1>3 DEF Fits
  <2> QED BY <2>7, <2>8 DEF r
<1>4. CASE def.type = "text"
  <2>1. r = Text(Strip(AsText(v)))
    BY <1>4 DEF Coerce
  <2>2. Strip(AsText(v)) \in Texts /\ ~Strip(AsText(v)).padded
    BY AsTextFits, TextShape
  <2> HIDE DEF r
  <2>3. r \in RawValues /\ r.is = "text" /\ r.text = Strip(AsText(v))
    BY <2>1, <2>2, RawValueOf
  <2>4. Fits(def, r)
    BY <2>2, <2>3, <1>4 DEF Fits
  <2> QED BY <2>3, <2>4 DEF r
<1> QED BY <1>1, <1>2, <1>3, <1>4

(* What fields hold when they fit the template of a category. *)
FieldsFit(c, fields) ==
    /\ c \in Categories
    /\ DOMAIN fields \subseteq DOMAIN Template[c]
    /\ \A n \in DOMAIN Template[c] : Template[c][n].required => n \in DOMAIN fields
    /\ \A n \in DOMAIN fields : fields[n] \in RawValues /\ Fits(Template[c][n], fields[n])

(* What validate_fields returns fits the template of its category. *)
LEMMA ValidateFieldsFit ==
    ASSUME NEW c, NEW fields, \A n \in DOMAIN fields : fields[n] \in RawValues \cup {None},
           ValidateFields(c, fields, TRUE) # None,
           Storable(ValidateFields(c, fields, TRUE))
    PROVE  FieldsFit(c, ValidateFields(c, fields, TRUE))
<1> DEFINE supplied == {n \in DOMAIN fields : fields[n] # None}
           defs == Template[c]
           coerced == [n \in supplied |-> Coerce(defs[n], fields[n])]
           missing == {n \in DOMAIN defs : defs[n].required} \ supplied
<1>1. /\ ValidateFields(c, fields, TRUE) = coerced
      /\ c \in Categories /\ supplied \subseteq DOMAIN defs
      /\ \A n \in supplied : coerced[n] # None
      /\ missing = {}
  BY DEF ValidateFields
<1>2. DOMAIN coerced = supplied
  OBVIOUS
<1>3. ASSUME NEW n \in supplied
      PROVE  coerced[n] \in RawValues /\ Fits(defs[n], coerced[n])
  <2>1. coerced[n] = Coerce(defs[n], fields[n]) /\ coerced[n] # None
    BY <1>1
  <2>2. coerced[n] # Number(NaN)
    <3> HIDE DEF coerced
    <3> QED BY <1>1, <1>2 DEF Storable
  <2>3. /\ defs[n].type \in {"boolean", "number", "enum", "text"}
        /\ defs[n].allowed \in Seq(Texts)
    BY <1>1, TemplateAssumption
  <2>4. fields[n] \in RawValues
    OBVIOUS
  <2> HIDE DEF coerced
  <2> QED BY <2>1, <2>2, <2>3, <2>4, CoerceFits
<1> HIDE DEF coerced
<1> QED BY <1>1, <1>2, <1>3 DEF FieldsFit

-----------------------------------------------------------------------------
(* Items. *)

(* An item that may be stored: its keys hold what their columns may, its
   fields fit its category, and its labels are clean. *)
Sound(item) ==
    /\ item = [k \in Keys |-> item[k]]
    /\ item.formality \in Formalities \cup {None}
    /\ item.colors \in Seq(Texts) /\ CleanLabels(item.colors) /\ Len(item.colors) <= MaxColors
    /\ item.tags \in Seq(Texts) /\ CleanLabels(item.tags)
    /\ item.brand \in Texts \cup {None}
    /\ FieldsFit(item.category, item.fields)

(* What ItemCreate makes: such an item, but for its category and its fields. *)
Payload(item) ==
    /\ item = [k \in Keys |-> item[k]]
    /\ item.category \in STRING
    /\ item.formality \in Formalities \cup {None}
    /\ item.colors \in Seq(Texts) /\ CleanLabels(item.colors) /\ Len(item.colors) <= MaxColors
    /\ item.tags \in Seq(Texts) /\ CleanLabels(item.tags)
    /\ item.brand \in Texts \cup {None}
    /\ \A n \in DOMAIN item.fields : item.fields[n] \in RawValues \cup {None}

LEMMA RawKeys ==
    ASSUME NEW raw, RawFits(raw)
    PROVE  /\ raw = [k \in Keys |-> raw[k]] /\ raw.category \in Texts
           /\ raw.colors \in Seq(Texts) /\ raw.tags \in Seq(Texts)
           /\ raw.brand \in Texts \cup {None} /\ raw.formality \in STRING \cup {None}
           /\ \A n \in DOMAIN raw.fields : raw.fields[n] \in RawValues \cup {None}
<1>1. /\ ArgumentFits("category", raw.category) /\ ArgumentFits("colors", raw.colors)
      /\ ArgumentFits("tags", raw.tags) /\ ArgumentFits("brand", raw.brand)
      /\ ArgumentFits("formality", raw.formality) /\ ArgumentFits("fields", raw.fields)
  BY DEF RawFits, Keys
<1> QED BY <1>1 DEF RawFits, ArgumentFits

(* ItemCreate makes a payload of what it does not refuse. *)
LEMMA ItemCreateMakes ==
    ASSUME NEW raw, RawFits(raw), ItemCreate(raw) # None
    PROVE  /\ Payload(ItemCreate(raw))
           /\ ItemCreate(raw).category = NormaliseCategory(raw.category)
           /\ ItemCreate(raw).tags = CleanStrings(raw.tags)
<1> DEFINE brand == IF raw.brand = None \/ Empty(Strip(raw.brand)) THEN None ELSE Strip(raw.brand)
           item == ItemCreate(raw)
<1>1. /\ raw = [k \in Keys |-> raw[k]] /\ raw.category \in Texts
      /\ raw.colors \in Seq(Texts) /\ raw.tags \in Seq(Texts)
      /\ raw.brand \in Texts \cup {None} /\ raw.formality \in STRING \cup {None}
      /\ \A n \in DOMAIN raw.fields : raw.fields[n] \in RawValues \cup {None}
  BY RawKeys
<1>2. ShapeFits(raw) /\ item = [raw EXCEPT !.category = NormaliseCategory(raw.category),
                                           !.colors = CleanStrings(raw.colors),
                                           !.tags = CleanStrings(raw.tags),
                                           !.brand = brand]
  BY DEF ItemCreate
<1> HIDE DEF brand
<1>3. DOMAIN raw = Keys
  BY <1>1
<1> HIDE DEF item
<1>4. /\ item = [k \in Keys |-> item[k]]
      /\ item.category = NormaliseCategory(raw.category)
      /\ item.colors = CleanStrings(raw.colors)
      /\ item.tags = CleanStrings(raw.tags)
      /\ item.brand = brand /\ item.formality = raw.formality /\ item.fields = raw.fields
  BY <1>2, <1>3 DEF Keys
<1>5. item.category \in STRING
  BY <1>1, <1>4, TextShape DEF NormaliseCategory
<1>6. brand \in Texts \cup {None}
  BY <1>1, TextShape DEF brand
<1>7. item.formality \in Formalities \cup {None} /\ Len(item.colors) <= MaxColors
  BY <1>2, <1>3, <1>4 DEF ShapeFits, Keys, ColorsFit
<1>8. /\ item.colors \in Seq(Texts) /\ CleanLabels(item.colors)
      /\ item.tags \in Seq(Texts) /\ CleanLabels(item.tags)
  BY <1>1, <1>4, CleanStringsClean
<1> QED BY <1>1, <1>4, <1>5, <1>6, <1>7, <1>8 DEF Payload, item

LEMMA ReasonsAreNoItems ==
    /\ ~IsItem(Invalid) /\ ~IsItem(Rejected) /\ ~IsItem(Full)
    /\ \A x : Sound(x) => IsItem(x) /\ x # Invalid /\ x # Rejected
<1>1. \A why : DOMAIN Refused(why) = {"status", "error"}
  BY DEF Refused
<1>2. "category" \notin {"status", "error"}
  OBVIOUS
<1>3. ~IsItem(Invalid) /\ ~IsItem(Rejected) /\ ~IsItem(Full)
  BY <1>1, <1>2 DEF IsItem, Invalid, Rejected, Full
<1>4. ASSUME NEW x, Sound(x) PROVE IsItem(x)
  <2>1. x = [k \in Keys |-> x[k]]
    BY <1>4 DEF Sound
  <2> QED BY <2>1 DEF IsItem, Keys
<1> QED BY <1>3, <1>4

(* What is stored for a payload, if it is, is sound. *)
LEMMA ValidatedIs ==
    ASSUME NEW payload, Payload(payload)
    PROVE  \/ Validated(payload) \in {Invalid, Rejected}
           \/ /\ Sound(Validated(payload))
              /\ Validated(payload).category = payload.category
              /\ Validated(payload).tags = payload.tags
<1> DEFINE coerced == ValidateFields(payload.category, payload.fields, TRUE)
           item == [payload EXCEPT !.fields = coerced]
<1>1. CASE coerced = None \/ ~Storable(coerced)
  BY <1>1 DEF Validated
<1>2. CASE ~(coerced = None \/ ~Storable(coerced))
  <2>1. Validated(payload) = item
    BY <1>2 DEF Validated
  <2>2. FieldsFit(payload.category, coerced)
    BY <1>2, ValidateFieldsFit DEF Payload
  <2> HIDE DEF coerced
  <2>3. DOMAIN payload = Keys
    BY DEF Payload
  <2>4. /\ item = [k \in Keys |-> item[k]] /\ item.fields = coerced
        /\ item.category = payload.category /\ item.colors = payload.colors
        /\ item.tags = payload.tags /\ item.brand = payload.brand
        /\ item.formality = payload.formality
    BY <2>3 DEF Keys
  <2> HIDE DEF item
  <2>5. Sound(item)
    BY <2>2, <2>4 DEF Sound, Payload
  <2> QED BY <2>1, <2>4, <2>5
<1> QED BY <1>1, <1>2

(* What ItemUpdate makes of the arguments of update_item. *)
LEMMA SuppliedIs ==
    ASSUME NEW patch \in Patches
    PROVE  /\ DOMAIN ItemUpdate(Supplied(patch)) = {k \in DOMAIN patch : patch[k] # None}
           /\ DOMAIN patch \subseteq Keys
           /\ \A k \in DOMAIN ItemUpdate(Supplied(patch)) :
                /\ Supplied(patch)[k] = patch[k] /\ patch[k] # None
                /\ ArgumentFits(k, patch[k])
<1>1. DOMAIN Supplied(patch) = {k \in DOMAIN patch : patch[k] # None}
  BY DEF Supplied
<1>2. DOMAIN ItemUpdate(Supplied(patch)) = DOMAIN Supplied(patch)
  BY DEF ItemUpdate
<1>3. \A k \in DOMAIN Supplied(patch) : Supplied(patch)[k] = patch[k]
  BY <1>1 DEF Supplied
<1> QED BY <1>1, <1>2, <1>3, PatchesAssumption

(* What is sent on for each key. *)
Sent(sent) ==
    /\ DOMAIN sent \subseteq Keys
    /\ "category" \in DOMAIN sent => sent.category \in STRING \cup {None}
    /\ "colors" \in DOMAIN sent => sent.colors \in Seq(Texts) /\ CleanLabels(sent.colors)
    /\ "tags" \in DOMAIN sent => sent.tags \in Seq(Texts) /\ CleanLabels(sent.tags)
    /\ "brand" \in DOMAIN sent => sent.brand \in Texts \cup {None}
    /\ "fields" \in DOMAIN sent =>
         \A n \in DOMAIN sent.fields : sent.fields[n] \in RawValues \cup {None}

LEMMA SentIs ==
    ASSUME NEW patch \in Patches
    PROVE  Sent(ItemUpdate(Supplied(patch)))
<1> DEFINE sent == ItemUpdate(Supplied(patch))
<1>1. /\ DOMAIN sent \subseteq Keys
      /\ \A k \in DOMAIN sent : /\ Supplied(patch)[k] = patch[k] /\ patch[k] # None
                                /\ ArgumentFits(k, patch[k])
  BY SuppliedIs
<1>2. \A k \in DOMAIN sent :
        sent[k] = CASE k = "category" -> IF patch[k] = Word("") THEN None
                                         ELSE NormaliseCategory(patch[k])
                    [] k \in {"colors", "tags"} -> CleanStrings(patch[k])
                    [] OTHER -> patch[k]
  BY <1>1 DEF ItemUpdate
<1> HIDE DEF sent
<1>3. ASSUME "category" \in DOMAIN sent PROVE sent.category \in STRING \cup {None}
  <2>1. patch["category"] \in Texts
    BY <1>1, <1>3 DEF ArgumentFits
  <2>2. sent["category"] = IF patch["category"] = Word("") THEN None
                           ELSE NormaliseCategory(patch["category"])
    BY <1>2, <1>3
  <2> QED BY <2>1, <2>2, TextShape DEF NormaliseCategory
<1>4. ASSUME NEW k \in {"colors", "tags"}, k \in DOMAIN sent
      PROVE  sent[k] \in Seq(Texts) /\ CleanLabels(sent[k])
  <2>1. patch[k] \in Seq(Texts)
    BY <1>1, <1>4 DEF ArgumentFits
  <2>2. sent[k] = CleanStrings(patch[k])
    BY <1>2, <1>4
  <2> QED BY <2>1, <2>2, CleanStringsClean
<1>5. ASSUME "brand" \in DOMAIN sent PROVE sent.brand \in Texts \cup {None}
  BY <1>1, <1>2, <1>5 DEF ArgumentFits
<1>6. ASSUME "fields" \in DOMAIN sent
      PROVE  \A n \in DOMAIN sent.fields : sent.fields[n] \in RawValues \cup {None}
  <2>1. sent["fields"] = patch["fields"] /\ ArgumentFits("fields", patch["fields"])
    BY <1>1, <1>2, <1>6
  <2> QED BY <2>1 DEF ArgumentFits
<1> QED BY <1>1, <1>3, <1>4, <1>5, <1>6 DEF Sent, sent

-----------------------------------------------------------------------------
(* Sorting. *)

LEMMA SmallerSet ==
    ASSUME NEW T, IsFiniteSet(T), NEW x \in T
    PROVE  /\ IsFiniteSet(T \ {x}) /\ Cardinality(T) \in Nat \ {0}
           /\ Cardinality(T \ {x}) = Cardinality(T) - 1
<1>1. Cardinality(T) \in Nat /\ Cardinality(T) # 0
  BY FS_CardinalityType, FS_EmptySet
<1> QED BY <1>1, FS_RemoveElement

(* Of a finite set with natural keys, one element has the greatest. *)
LEMMA GreatestKey ==
    ASSUME NEW S, IsFiniteSet(S), S # {}, NEW key, \A x \in S : key[x] \in Nat
    PROVE  \E x \in S : \A y \in S : key[y] <= key[x]
<1> DEFINE Has(T) == T # {} => \E x \in T : \A y \in T : key[y] <= key[x]
           G == {n \in 0..Cardinality(S) : \A T \in SUBSET S : Cardinality(T) = n => Has(T)}
<1>0. Cardinality(S) \in Nat /\ \A T \in SUBSET S : IsFiniteSet(T)
  BY FS_CardinalityType, FS_Subset
<1>1. 0 \in G
  BY <1>0, FS_EmptySet
<1>2. ASSUME NEW n \in 0..(Cardinality(S) - 1), n \in G PROVE n + 1 \in G
  <2>1. ASSUME NEW T \in SUBSET S, Cardinality(T) = n + 1, T # {} PROVE Has(T)
    <3>1. PICK a \in T : TRUE
      BY <2>1
    <3>2. Cardinality(T \ {a}) = n
      BY <1>0, <2>1, SmallerSet
    <3>3. Has(T \ {a})
      BY <1>2, <3>2
    <3>4. CASE T \ {a} = {}
      <4>1. \A y \in T : y = a
        BY <3>4
      <4>2. key[a] <= key[a]
        OBVIOUS
      <4> QED BY <4>1, <4>2
    <3>5. CASE T \ {a} # {}
      <4>1. PICK b \in T \ {a} : \A y \in T \ {a} : key[y] <= key[b]
        BY <3>3, <3>5
      <4>2. CASE key[a] <= key[b]
        BY <4>1, <4>2
      <4>3. CASE ~(key[a] <= key[b])
        <5>1. key[a] \in Nat /\ key[b] \in Nat /\ key[b] <= key[a]
          BY <4>3
        <5>2. \A y \in T : y # a => key[y] \in Nat /\ key[y] <= key[b]
          BY <4>1
        <5>3. \A y \in T : key[y] <= key[a]
          BY <5>1, <5>2
        <5> QED BY <5>3
      <4> QED BY <4>2, <4>3
    <3> QED BY <3>4, <3>5
  <2>2. n + 1 \in 0..Cardinality(S)
    BY <1>0
  <2> QED BY <2>1, <2>2
<1>3. \A n \in 0..Cardinality(S) : n \in G
  <2> HIDE DEF G
  <2> QED BY <1>0, <1>1, <1>2, UpTo
<1>4. Cardinality(S) \in G
  <2> HIDE DEF G
  <2> QED BY <1>0, <1>3
<1>5. Has(S)
  BY <1>4
<1> QED BY <1>5

IsSorting(s, S, key) ==
    /\ s \in [1..Cardinality(S) -> S] /\ IsInjective(s)
    /\ \A i, j \in DOMAIN s : i < j => key[s[i]] <= key[s[j]]

(* A finite set with natural keys can be sorted. *)
LEMMA SortingExists ==
    ASSUME NEW S, IsFiniteSet(S), NEW key, \A x \in S : key[x] \in Nat
    PROVE  \E s : IsSorting(s, S, key)
<1> DEFINE G == {n \in 0..Cardinality(S) :
                    \A T \in SUBSET S : Cardinality(T) = n => \E s : IsSorting(s, T, key)}
<1>0. Cardinality(S) \in Nat /\ \A T \in SUBSET S : IsFiniteSet(T)
  BY FS_CardinalityType, FS_Subset
<1>1. 0 \in G
  <2>1. ASSUME NEW T \in SUBSET S, Cardinality(T) = 0 PROVE \E s : IsSorting(s, T, key)
    <3> DEFINE s == [i \in 1..0 |-> 0]
    <3>1. DOMAIN s = {}
      OBVIOUS
    <3>2. s \in [1..Cardinality(T) -> T]
      BY <2>1
    <3>3. IsSorting(s, T, key)
      BY <3>1, <3>2 DEF IsSorting, IsInjective
    <3> QED BY <3>3
  <2> QED BY <1>0, <2>1
<1>2. ASSUME NEW n \in 0..(Cardinality(S) - 1), n \in G PROVE n + 1 \in G
  <2>1. ASSUME NEW T \in SUBSET S, Cardinality(T) = n + 1 PROVE \E s : IsSorting(s, T, key)
    <3>1. T # {} /\ IsFiniteSet(T)
      BY <1>0, <2>1, FS_EmptySet
    <3>2. PICK x \in T : \A y \in T : key[y] <= key[x]
      BY <3>1, GreatestKey
    <3>3. Cardinality(T \ {x}) = n
      BY <2>1, <3>1, SmallerSet
    <3>4. PICK r : IsSorting(r, T \ {x}, key)
      BY <1>2, <3>3
    <3>5. /\ r \in [1..n -> T \ {x}] /\ IsInjective(r) /\ DOMAIN r = 1..n
          /\ \A i, j \in 1..n : i < j => key[r[i]] <= key[r[j]]
      BY <3>3, <3>4 DEF IsSorting
    <3> DEFINE s == [i \in 1..(n + 1) |-> IF i = n + 1 THEN x ELSE r[i]]
    <3>6. /\ DOMAIN s = 1..(n + 1) /\ s[n + 1] = x /\ n \in Nat
          /\ \A i \in 1..n : s[i] = r[i] /\ i # n + 1 /\ i \in 1..(n + 1)
          /\ \A i \in 1..(n + 1) : i = n + 1 \/ i \in 1..n
      OBVIOUS
    <3>7. s \in [1..(n + 1) -> T]
      BY <3>5
    <3> HIDE DEF s
    <3>8. IsInjective(s)
      <4> SUFFICES ASSUME NEW i \in 1..(n + 1), NEW j \in 1..(n + 1), s[i] = s[j] PROVE i = j
        BY <3>6 DEF IsInjective
      <4>1. CASE i \in 1..n /\ j \in 1..n
        BY <4>1, <3>5, <3>6 DEF IsInjective
      <4>2. CASE i \in 1..n /\ j = n + 1
        BY <4>2, <3>5, <3>6
      <4>3. CASE i = n + 1 /\ j \in 1..n
        BY <4>3, <3>5, <3>6
      <4> QED BY <3>6, <4>1, <4>2, <4>3
    <3>9. ASSUME NEW i \in 1..(n + 1), NEW j \in 1..(n + 1), i < j
          PROVE  key[s[i]] <= key[s[j]]
      <4>1. CASE j = n + 1
        BY <4>1, <3>2, <3>6, <3>7
      <4>2. CASE j \in 1..n
        <5>1. i \in 1..n
          BY <3>9, <4>2
        <5> QED BY <3>9, <4>2, <5>1, <3>5, <3>6
      <4> QED BY <4>1, <4>2, <3>6
    <3>10. IsSorting(s, T, key)
      BY <2>1, <3>6, <3>7, <3>8, <3>9 DEF IsSorting
    <3> QED BY <3>10
  <2>2. n + 1 \in 0..Cardinality(S)
    BY <1>0
  <2> QED BY <2>1, <2>2
<1>3. \A n \in 0..Cardinality(S) : n \in G
  <2> HIDE DEF G
  <2> QED BY <1>0, <1>1, <1>2, UpTo
<1>4. Cardinality(S) \in G
  <2> HIDE DEF G
  <2> QED BY <1>0, <1>3
<1> QED BY <1>4

Covers(s, S) == \A x \in S : \E i \in DOMAIN s : s[i] = x

(* SortedBy sorts. *)
LEMMA SortedByIs ==
    ASSUME NEW S, IsFiniteSet(S), NEW key, \A x \in S : key[x] \in Nat
    PROVE  /\ IsSorting(SortedBy(S, key), S, key)
           /\ DOMAIN SortedBy(S, key) = 1..Cardinality(S)
           /\ Covers(SortedBy(S, key), S)
<1> DEFINE s == SortedBy(S, key)
           n == Cardinality(S)
<1>1. n \in Nat
  BY FS_CardinalityType
<1>2. SortedBy(S, key) = CHOOSE t \in [1..n -> S] :
        IsInjective(t) /\ \A i, j \in DOMAIN t : i < j => key[t[i]] <= key[t[j]]
  BY DEF SortedBy
<1>3. \E t \in [1..n -> S] :
        IsInjective(t) /\ \A i, j \in DOMAIN t : i < j => key[t[i]] <= key[t[j]]
  BY SortingExists DEF IsSorting
<1>4. /\ s \in [1..n -> S] /\ IsInjective(s)
      /\ \A i, j \in DOMAIN s : i < j => key[s[i]] <= key[s[j]]
  BY <1>2, <1>3
<1>5. s \in Injection(1..n, S)
  BY <1>4 DEF Injection
<1>6. IsFiniteSet(1..n) /\ Cardinality(1..n) = n
  BY <1>1, FS_Interval
<1>7. s \in Surjection(1..n, S)
  <2> HIDE DEF s
  <2>1. Cardinality(1..n) = Cardinality(S) <=> s \in Surjection(1..n, S)
    <3> HIDE DEF n
    <3> QED BY <1>5, FS_Injection
  <2> QED BY <1>6, <2>1
<1> HIDE DEF s
<1>8. Covers(s, S)
  BY <1>4, <1>7 DEF Surjection, Covers
<1> QED BY <1>4, <1>8 DEF IsSorting, s

-----------------------------------------------------------------------------
(* Ids and closets. *)

(* Below the cap there is a free id. *)
LEMMA FreshIdIs ==
    ASSUME NEW c, DOMAIN c \subseteq Ids
    PROVE  /\ Count(c) \in Nat /\ IsFiniteSet(DOMAIN c)
           /\ Count(c) < MaxItems => /\ FreshId(c) \in Ids \ DOMAIN c
                                     /\ Cardinality(DOMAIN c \cup {FreshId(c)}) = Count(c) + 1
<1>1. IsFiniteSet(DOMAIN c) /\ Cardinality(DOMAIN c) <= Cardinality(Ids)
  BY IdsAssumption, FS_Subset
<1>2. Cardinality(DOMAIN c) \in Nat /\ Cardinality(Ids) \in Nat
  BY <1>1, IdsAssumption, FS_CardinalityType
<1>3. ASSUME Count(c) < MaxItems
      PROVE  FreshId(c) \in Ids \ DOMAIN c
  <2> DEFINE Free == Ids \ DOMAIN c
  <2>1. DOMAIN c # Ids
    BY <1>2, <1>3, IdsAssumption DEF Count
  <2>2. Free # {} /\ Free \subseteq Nat
    BY <2>1, IdsAssumption
  <2>3. FreshId(c) = CHOOSE x \in Free : \A y \in Free : x <= y
    BY DEF FreshId, Min
  <2> HIDE DEF Free
  <2>4. PICK b \in Free : \A k \in Nat : k < b => k \notin Free
    BY <2>2, LeastNat
  <2>5. \A y \in Free : b <= y
    BY <2>2, <2>4
  <2>6. FreshId(c) \in Free
    BY <2>3, <2>5
  <2> QED BY <2>6 DEF Free
<1>4. ASSUME NEW x, x \notin DOMAIN c
      PROVE  Cardinality(DOMAIN c \cup {x}) = Cardinality(DOMAIN c) + 1
  BY <1>1, <1>4, FS_AddElement
<1> QED BY <1>1, <1>2, <1>3, <1>4 DEF Count

-----------------------------------------------------------------------------
(* Updates. *)

(* What update_item stores for a sound item is sound, and differs from it
   in what was sent only, and in the fields when the item is moved. *)
LEMMA UpdatedIs ==
    ASSUME NEW existing, Sound(existing), NEW sent, Sent(sent), ShapeFits(sent)
    PROVE  \/ Updated(existing, sent) \in {Invalid, Rejected}
           \/ /\ Sound(Updated(existing, sent))
              /\ \A k \in Keys :
                   \/ Updated(existing, sent)[k] = existing[k]
                   \/ k \in DOMAIN sent
                   \/ k = "fields" /\ Updated(existing, sent).category # existing.category
<1> DEFINE named == DOMAIN sent
           category == IF "category" \in named /\ sent.category \notin {None, ""}
                         THEN sent.category ELSE existing.category
           moved == "category" \in named /\ sent.category # existing.category
           fields == IF "fields" \in named /\ sent.fields # None
                       THEN sent.fields ELSE existing.fields
           checked == Revalidates(named, moved)
           coerced == IF checked THEN ValidateFields(category, fields, TRUE) ELSE existing.fields
           item == [k \in Keys |-> IF k = "fields" THEN coerced
                                   ELSE IF k \in named THEN sent[k] ELSE existing[k]]
           bad == coerced = None \/ item.category \notin Categories \/ ~Storable(coerced)
<1>1. Updated(existing, sent) = IF coerced = None THEN Invalid
                                ELSE IF item.category \notin Categories \/ ~Storable(coerced)
                                       THEN Rejected ELSE item
  BY DEF Updated
<1>2. CASE bad
  BY <1>1, <1>2
<1>3. CASE ~bad
  <2>0. Updated(existing, sent) = item
    BY <1>1, <1>3
  <2>1. /\ item = [k \in Keys |-> item[k]]
        /\ item.fields = coerced
        /\ \A k \in Keys \ {"fields"} : item[k] = IF k \in named THEN sent[k] ELSE existing[k]
    BY DEF Keys
  <2>2. item.category = category /\ category \in Categories
    <3>1. item["category"] = IF "category" \in named THEN sent["category"] ELSE existing["category"]
      BY <2>1 DEF Keys
    <3>2. item["category"] \in Categories
      BY <1>3
    <3>3. None \notin STRING /\ Categories \subseteq STRING \ {""}
      BY NoneAssumption, TemplateAssumption
    <3> HIDE DEF item
    <3> QED BY <3>1, <3>2, <3>3
  <2>3. \A n \in DOMAIN existing.fields : existing.fields[n] \in RawValues
    BY DEF Sound, FieldsFit
  <2>4. \A n \in DOMAIN fields : fields[n] \in RawValues \cup {None}
    BY <2>3 DEF Sent
  <2>5. FieldsFit(category, coerced)
    <3>1. CASE checked
      <4>1. coerced = ValidateFields(category, fields, TRUE) /\ coerced # None /\ Storable(coerced)
        BY <1>3, <3>1
      <4> HIDE DEF coerced, category, fields
      <4> QED BY <4>1, <2>4, ValidateFieldsFit
    <3>2. CASE ~checked
      <4>1. coerced = existing.fields
        BY <3>2
      <4>2. ~moved
        BY <3>2 DEF Revalidates
      <4>3. category = existing.category
        BY <4>2
      <4> HIDE DEF coerced, category
      <4> QED BY <4>1, <4>3 DEF Sound
    <3> QED BY <3>1, <3>2
  <2>6. /\ item.formality = IF "formality" \in named THEN sent.formality ELSE existing.formality
        /\ item.colors = IF "colors" \in named THEN sent.colors ELSE existing.colors
        /\ item.tags = IF "tags" \in named THEN sent.tags ELSE existing.tags
        /\ item.brand = IF "brand" \in named THEN sent.brand ELSE existing.brand
    BY <2>1 DEF Keys
  <2> HIDE DEF item, coerced, category
  <2>7. item.formality \in Formalities \cup {None}
    BY <2>6 DEF Sound, ShapeFits
  <2>8. item.colors \in Seq(Texts) /\ CleanLabels(item.colors) /\ Len(item.colors) <= MaxColors
    <3>1. CASE "colors" \in named
      <4>1. sent.colors \in Seq(Texts) /\ CleanLabels(sent.colors)
        BY <3>1 DEF Sent
      <4>2. CleanStrings(sent.colors) = sent.colors
        BY <4>1, CleanStringsTwice
      <4>3. Len(CleanStrings(sent.colors)) <= MaxColors
        BY <3>1 DEF ShapeFits, ColorsFit
      <4> QED BY <4>1, <4>2, <4>3, <3>1, <2>6
    <3>2. CASE "colors" \notin named
      BY <3>2, <2>6 DEF Sound
    <3> QED BY <3>1, <3>2
  <2>9. item.tags \in Seq(Texts) /\ CleanLabels(item.tags)
    BY <2>6 DEF Sound, Sent
  <2>10. item.brand \in Texts \cup {None}
    BY <2>6 DEF Sound, Sent
  <2>11. Sound(item)
    BY <2>1, <2>2, <2>5, <2>7, <2>8, <2>9, <2>10 DEF Sound
  <2>12. ASSUME NEW k \in Keys, item[k] # existing[k], k \notin named
         PROVE  k = "fields" /\ item.category # existing.category
    <3>1. k = "fields"
      BY <2>1, <2>12
    <3>2. coerced # existing.fields
      BY <3>1, <2>1, <2>12
    <3>3. moved
      BY <3>1, <3>2, <2>12 DEF coerced, Revalidates
    <3>4. item["category"] = sent["category"]
      BY <3>3, <2>1 DEF Keys
    <3> QED BY <3>1, <3>3, <3>4
  <2> QED BY <2>0, <2>11, <2>12
<1> QED BY <1>2, <1>3

-----------------------------------------------------------------------------
(* The closet and the results create_items leaves. *)

IsMaking(f, m, payloads) ==
    /\ f = [n \in 0..m |-> f[n]] /\ f[0] = [results |-> <<>>, closet |-> closet]
    /\ \A n \in 1..m : f[n] = Entered(f[n - 1], payloads[n])

LEMMA MakingExists ==
    ASSUME NEW m \in Nat, NEW payloads
    PROVE  \E f : IsMaking(f, m, payloads)
<1> DEFINE G == {k \in 0..m : \E f : IsMaking(f, k, payloads)}
<1>1. 0 \in G
  <2> DEFINE g == [n \in 0..0 |-> [results |-> <<>>, closet |-> closet]]
  <2>1. IsMaking(g, 0, payloads) /\ 0 \in 0..m
    BY DEF IsMaking
  <2> HIDE DEF g
  <2> QED BY <2>1
<1>2. ASSUME NEW k \in 0..(m - 1), k \in G PROVE k + 1 \in G
  <2>1. PICK f : IsMaking(f, k, payloads)
    BY <1>2
  <2> DEFINE g == [n \in 0..(k + 1) |-> IF n = k + 1 THEN Entered(f[k], payloads[k + 1]) ELSE f[n]]
  <2>2. /\ k \in Nat /\ k + 1 \in 0..m /\ k \in 0..k /\ k + 1 \in 0..(k + 1)
        /\ 0 \in 0..k
    OBVIOUS
  <2>3. \A n \in 0..k : n # k + 1 /\ n \in 0..(k + 1)
    BY <2>2
  <2>4. /\ \A n \in 0..k : g[n] = f[n]
        /\ g[k + 1] = Entered(f[k], payloads[k + 1])
        /\ g = [n \in 0..(k + 1) |-> g[n]]
    BY <2>2, <2>3
  <2> HIDE DEF g
  <2>5. g[0] = [results |-> <<>>, closet |-> closet]
    <3>1. g[0] = f[0] /\ f[0] = [results |-> <<>>, closet |-> closet]
      BY <2>1, <2>2, <2>4 DEF IsMaking
    <3> QED BY <3>1, Zenon
  <2>6. ASSUME NEW n \in 1..(k + 1) PROVE g[n] = Entered(g[n - 1], payloads[n])
    <3>1. CASE n = k + 1
      <4>1. n - 1 = k
        BY <3>1, <2>2
      <4> QED BY <4>1, <3>1, <2>2, <2>4
    <3>2. CASE n # k + 1
      <4>1. n \in 1..k /\ n \in 0..k /\ n - 1 \in 0..k
        BY <3>2, <2>2
      <4> QED BY <4>1, <2>1, <2>4 DEF IsMaking
    <3> QED BY <3>1, <3>2
  <2>7. IsMaking(g, k + 1, payloads)
    BY <2>4, <2>5, <2>6 DEF IsMaking
  <2> QED BY <2>2, <2>7
<1>3. \A k \in 0..m : k \in G
  <2> HIDE DEF G
  <2> QED BY <1>1, <1>2, UpTo
<1>4. m \in G
  <2> HIDE DEF G
  <2> QED BY <1>3
<1> QED BY <1>4

(* create_items is what its recursive definition says. *)
LEMMA CreateItemsDef ==
    ASSUME NEW payloads, Len(payloads) \in Nat
    PROVE  IsMaking(CreateItems(payloads), Len(payloads), payloads)
<1> DEFINE m == Len(payloads)
           start == [results |-> <<>>, closet |-> closet]
           P(f) == f = [n \in 0..m |-> IF n = 0 THEN start ELSE Entered(f[n - 1], payloads[n])]
<1>1. PICK f : IsMaking(f, m, payloads)
  BY MakingExists
<1>2. P(f)
  <2>1. ASSUME NEW n \in 0..m, n # 0 PROVE f[n] = Entered(f[n - 1], payloads[n])
    <3>1. n \in 1..m
      BY <2>1
    <3> QED BY <3>1, <1>1 DEF IsMaking
  <2>2. f = [n \in 0..m |-> f[n]] /\ f[0] = start
    BY <1>1 DEF IsMaking
  <2> HIDE DEF start, m
  <2> QED BY <2>1, <2>2
<1>3. CreateItems(payloads) = CHOOSE g : P(g)
  BY DEF CreateItems
<1>4. P(CreateItems(payloads))
  <2> HIDE DEF P
  <2> QED BY <1>2, <1>3
<1> DEFINE C == CreateItems(payloads)
<1>5. C = [n \in 0..m |-> IF n = 0 THEN start ELSE Entered(C[n - 1], payloads[n])]
  BY <1>4
<1> HIDE DEF C, start
<1>6. \A n \in 0..m : C[n] = IF n = 0 THEN start ELSE Entered(C[n - 1], payloads[n])
  BY <1>5
<1>7. C = [n \in 0..m |-> C[n]]
  BY <1>5
<1>8. 0 \in 0..m /\ \A n \in 1..m : n \in 0..m /\ n # 0
  OBVIOUS
<1> QED BY <1>6, <1>7, <1>8 DEF C, start, IsMaking

Reasons == {Full, Invalid, Rejected}
Entries == [index : Nat, is : Reasons \cup {Created(id) : id \in Ids}]

LEMMA StatusIs ==
    /\ \A r \in Reasons : r.status = "failed" /\ r.status # "created"
    /\ \A id : Created(id).status = "created" /\ Created(id).id = id
BY DEF Reasons, Full, Invalid, Rejected, Refused, Created

MadeBy(results) == {i \in DOMAIN results : results[i].is.status = "created"}

(* What create_items has done after n of the payloads: a result for each at
   its place, and what was created is in the closet, as validated, under an
   id of its own that was free. *)
MadeSoFar(results, left, payloads, n) ==
    /\ results \in Seq(Entries) /\ Len(results) = n
    /\ \A i \in 1..n :
         /\ results[i].index = i
         /\ \/ results[i].is \in Reasons
            \/ /\ results[i].is = Created(results[i].is.id)
               /\ results[i].is.id \in Ids \ Held
               /\ left[results[i].is.id] = Validated(payloads[i])
               /\ Sound(Validated(payloads[i]))
    /\ \A i, j \in MadeBy(results) : results[i].is.id = results[j].is.id => i = j
    /\ DOMAIN left = Held \cup {results[i].is.id : i \in MadeBy(results)}
    /\ \A id \in Held : left[id] = closet[id]
    /\ Count(left) = Count(closet) + Cardinality(MadeBy(results))
    /\ Count(left) <= MaxItems

(* The closet holds items that may be stored, within the cap. *)
ClosetSound ==
    /\ Held \subseteq Ids /\ Count(closet) <= MaxItems
    /\ \A id \in Held : Sound(closet[id])

(* One more payload keeps what create_items has done in order. *)
LEMMA EnteredKeeps ==
    ASSUME ClosetSound, NEW n \in Nat, NEW payloads, Payload(payloads[n + 1]),
           NEW results, NEW left, MadeSoFar(results, left, payloads, n)
    PROVE  \E now, new :
             /\ Entered([results |-> results, closet |-> left], payloads[n + 1])
                  = [results |-> now, closet |-> new]
             /\ MadeSoFar(now, new, payloads, n + 1)
<1> DEFINE item == Validated(payloads[n + 1])
           room == Remaining(results) > 0
           id == FreshId(left)
           result == IF ~room THEN Full ELSE IF IsItem(item) THEN Created(id) ELSE item
           entry == [index |-> n + 1, is |-> result]
           now == Append(results, entry)
           new == IF room /\ IsItem(item) THEN Put(left, id, item) ELSE left
<1>0. Entered([results |-> results, closet |-> left], payloads[n + 1])
        = [results |-> now, closet |-> new]
  BY DEF Entered, MadeSoFar
<1>1. /\ results \in Seq(Entries) /\ Len(results) = n /\ DOMAIN results = 1..n
      /\ DOMAIN left \subseteq Ids
  <2>1. ASSUME NEW i \in MadeBy(results) PROVE results[i].is.id \in Ids
    <3>1. i \in 1..n /\ results[i].is.status = "created"
      BY DEF MadeBy, MadeSoFar
    <3> QED BY <3>1, StatusIs DEF MadeSoFar
  <2> QED BY <2>1 DEF MadeSoFar, ClosetSound
<1>2. IsFiniteSet(MadeBy(results)) /\ Cardinality(MadeBy(results)) \in Nat
      /\ MadeBy(results) \subseteq 1..n
  <2>1. MadeBy(results) \in SUBSET (1..n)
    BY <1>1 DEF MadeBy
  <2>2. IsFiniteSet(1..n)
    BY FS_Interval
  <2>3. IsFiniteSet(MadeBy(results))
    BY <2>1, <2>2, FS_Subset
  <2> QED BY <2>1, <2>3, FS_CardinalityType
<1>3. room => Count(left) < MaxItems
  <2>1. Remaining(results) = MaxItems - Count(closet) - Cardinality(MadeBy(results))
    BY DEF Remaining, MadeBy
  <2>2. Count(closet) \in Nat /\ MaxItems \in Nat
    BY FreshIdIs, IdsAssumption DEF ClosetSound, Held
  <2> QED BY <2>1, <2>2, <1>2 DEF MadeSoFar
<1>4. /\ item \in {Invalid, Rejected} \/ Sound(item)
      /\ Sound(item) <=> IsItem(item)
  BY ValidatedIs, ReasonsAreNoItems
<1>5. room => id \in Ids \ DOMAIN left /\ Cardinality(DOMAIN left \cup {id}) = Count(left) + 1
  BY <1>1, <1>3, FreshIdIs
<1> HIDE DEF item, room, id
<1>6. entry \in Entries
  <2>1. result \in Reasons \cup {Created(i) : i \in Ids}
    BY <1>4, <1>5 DEF Reasons
  <2> HIDE DEF result
  <2> QED BY <2>1 DEF Entries
<1>7. /\ now \in Seq(Entries) /\ Len(now) = n + 1 /\ DOMAIN now = 1..(n + 1)
      /\ now[n + 1] = entry /\ \A i \in 1..n : now[i] = results[i]
  <2> HIDE DEF entry
  <2> QED BY <1>1, <1>6
<1>8. entry.index = n + 1 /\ entry.is = result
  OBVIOUS
<1>9. \A i \in 1..(n + 1) : i = n + 1 \/ i \in 1..n
  OBVIOUS
<1>10. \A i \in 1..n : i # n + 1 /\ i \in 1..(n + 1)
  OBVIOUS
<1> HIDE DEF now, entry
<1>11. CASE room /\ IsItem(item)
  <2>1. result = Created(id) /\ new = Put(left, id, item)
    BY <1>11
  <2> HIDE DEF new, result
  <2>2. /\ DOMAIN new = DOMAIN left \cup {id} /\ new[id] = item
        /\ \A i \in DOMAIN left : i # id => new[i] = left[i]
    <3>1. /\ DOMAIN Put(left, id, item) = DOMAIN left \cup {id}
          /\ Put(left, id, item)[id] = item
          /\ \A i \in DOMAIN left : i # id => Put(left, id, item)[i] = left[i]
      BY DEF Put
    <3> QED BY <2>1, <3>1
  <2>3. id \in Ids /\ id \notin DOMAIN left
    BY <1>5, <1>11
  <2>4. result.status = "created" /\ result.id = id
    BY <2>1, StatusIs
  <2>5. MadeBy(now) = MadeBy(results) \cup {n + 1}
    BY <1>1, <1>7, <1>8, <1>9, <1>10, <2>4 DEF MadeBy
  <2>6. Cardinality(MadeBy(now)) = Cardinality(MadeBy(results)) + 1
    <3>1. n + 1 \notin MadeBy(results)
      BY <1>2, <1>10
    <3> QED BY <3>1, <2>5, <1>2, FS_AddElement
  <2>7. ASSUME NEW i \in 1..n, results[i].is \notin Reasons
        PROVE  /\ results[i].is.id \in DOMAIN left /\ results[i].is.id \in Ids \ Held
               /\ results[i].is = Created(results[i].is.id)
               /\ left[results[i].is.id] = Validated(payloads[i])
               /\ Sound(Validated(payloads[i]))
    <3>1. /\ results[i].is = Created(results[i].is.id) /\ results[i].is.id \in Ids \ Held
          /\ left[results[i].is.id] = Validated(payloads[i])
          /\ Sound(Validated(payloads[i]))
      BY <2>7 DEF MadeSoFar
    <3>2. results[i].is.status = "created"
      BY <3>1, StatusIs
    <3>3. i \in MadeBy(results)
      BY <3>2, <1>1 DEF MadeBy
    <3> QED BY <3>1, <3>3 DEF MadeSoFar
  <2>8. ASSUME NEW i \in 1..(n + 1)
        PROVE  /\ now[i].index = i
               /\ \/ now[i].is \in Reasons
                  \/ /\ now[i].is = Created(now[i].is.id)
                     /\ now[i].is.id \in Ids \ Held
                     /\ new[now[i].is.id] = Validated(payloads[i])
                     /\ Sound(Validated(payloads[i]))
    <3>1. CASE i = n + 1
      <4>1. id \notin Held
        BY <2>3 DEF MadeSoFar
      <4> QED BY <3>1, <1>4, <1>7, <1>8, <1>11, <2>1, <2>2, <2>3, <2>4, <4>1 DEF item
    <3>2. CASE i \in 1..n
      <4>1. now[i] = results[i] /\ results[i].index = i
        BY <3>2, <1>7 DEF MadeSoFar
      <4>2. CASE results[i].is \in Reasons
        BY <4>1, <4>2
      <4>3. CASE results[i].is \notin Reasons
        BY <4>1, <4>3, <3>2, <2>2, <2>3, <2>7
      <4> QED BY <4>2, <4>3
    <3> QED BY <1>9, <3>1, <3>2
  <2>9. ASSUME NEW i \in MadeBy(results)
        PROVE  i \in 1..n /\ now[i] = results[i] /\ results[i].is.id \in DOMAIN left
               /\ results[i].is.id # id
  <3>1. i \in 1..n /\ results[i].is.id \in DOMAIN left
    BY <1>2 DEF MadeSoFar
  <3> QED BY <3>1, <1>7, <2>3
  <2>10. now[n + 1].is.id = id
    BY <1>7, <1>8, <2>4
  <2>11. \A i, j \in MadeBy(now) : now[i].is.id = now[j].is.id => i = j
    <3>1. \A i, j \in MadeBy(results) : results[i].is.id = results[j].is.id => i = j
      BY DEF MadeSoFar
    <3> QED BY <3>1, <2>5, <2>9, <2>10
  <2>12. DOMAIN new = Held \cup {now[i].is.id : i \in MadeBy(now)}
    <3>1. DOMAIN left = Held \cup {results[i].is.id : i \in MadeBy(results)}
      BY DEF MadeSoFar
    <3> QED BY <3>1, <2>2, <2>5, <2>9, <2>10
  <2>13. \A i \in Held : new[i] = closet[i]
    BY <2>2, <2>3 DEF MadeSoFar
  <2>14. Count(new) = Count(left) + 1
    BY <1>5, <1>11, <2>2 DEF Count
  <2>15. Count(closet) \in Nat /\ Count(left) \in Nat /\ MaxItems \in Nat
    BY <1>1, FreshIdIs, IdsAssumption DEF ClosetSound, Held
  <2>16. Count(new) = Count(closet) + Cardinality(MadeBy(now)) /\ Count(new) <= MaxItems
    BY <1>2, <1>3, <1>11, <2>6, <2>14, <2>15 DEF MadeSoFar
  <2>17. MadeSoFar(now, new, payloads, n + 1)
    BY <1>7, <2>8, <2>11, <2>12, <2>13, <2>16 DEF MadeSoFar
  <2> QED BY <1>0, <2>17, Zenon DEF new, result
<1>12. CASE ~(room /\ IsItem(item))
  <2>1. result \in Reasons /\ new = left
    BY <1>4, <1>12 DEF Reasons
  <2> HIDE DEF new, result
  <2>2. MadeBy(now) = MadeBy(results)
    <3>1. now[n + 1].is.status # "created"
      BY <1>7, <1>8, <2>1, StatusIs
    <3> QED BY <3>1, <1>1, <1>7, <1>9, <1>10 DEF MadeBy
  <2>3. \A i \in MadeBy(results) : now[i] = results[i]
    BY <1>2, <1>7
  <2>4. ASSUME NEW i \in 1..(n + 1)
        PROVE  /\ now[i].index = i
               /\ \/ now[i].is \in Reasons
                  \/ /\ now[i].is = Created(now[i].is.id)
                     /\ now[i].is.id \in Ids \ Held
                     /\ new[now[i].is.id] = Validated(payloads[i])
                     /\ Sound(Validated(payloads[i]))
    <3>1. CASE i = n + 1
      BY <3>1, <1>7, <1>8, <2>1
    <3>2. CASE i \in 1..n
      <4>1. now[i] = results[i]
        BY <3>2, <1>7
      <4> QED BY <4>1, <3>2, <2>1 DEF MadeSoFar
    <3> QED BY <1>9, <3>1, <3>2
  <2>5. \A i, j \in MadeBy(now) : now[i].is.id = now[j].is.id => i = j
    BY <2>2, <2>3 DEF MadeSoFar
  <2>6. DOMAIN new = Held \cup {now[i].is.id : i \in MadeBy(now)}
    BY <2>1, <2>2, <2>3 DEF MadeSoFar
  <2>7. MadeSoFar(now, new, payloads, n + 1)
    BY <1>7, <2>1, <2>2, <2>4, <2>5, <2>6 DEF MadeSoFar
  <2> QED BY <1>0, <2>7, Zenon DEF new, result
<1> QED BY <1>11, <1>12

Are(v, payloads, n) ==
    /\ v = [results |-> v.results, closet |-> v.closet]
    /\ MadeSoFar(v.results, v.closet, payloads, n)

LEMMA EnteredAre ==
    ASSUME ClosetSound, NEW n \in Nat, NEW payloads, Payload(payloads[n + 1]),
           NEW v, Are(v, payloads, n)
    PROVE  Are(Entered(v, payloads[n + 1]), payloads, n + 1)
<1>1. PICK now, new :
        /\ Entered([results |-> v.results, closet |-> v.closet], payloads[n + 1])
             = [results |-> now, closet |-> new]
        /\ MadeSoFar(now, new, payloads, n + 1)
  BY EnteredKeeps, Zenon DEF Are
<1>2. Entered(v, payloads[n + 1]) = [results |-> now, closet |-> new]
  BY <1>1, Zenon DEF Are
<1> QED BY <1>1, <1>2 DEF Are

LEMMA MadeAll ==
    ASSUME ClosetSound, NEW payloads, Len(payloads) \in Nat,
           \A k \in 1..Len(payloads) : Payload(payloads[k])
    PROVE  Are(CreateItems(payloads)[Len(payloads)], payloads, Len(payloads))
<1> DEFINE m == Len(payloads)
           C == CreateItems(payloads)
           G == {n \in 0..m : Are(C[n], payloads, n)}
<1>0. /\ C[0] = [results |-> <<>>, closet |-> closet]
      /\ \A n \in 1..m : C[n] = Entered(C[n - 1], payloads[n])
  BY CreateItemsDef DEF IsMaking
<1> HIDE DEF C
<1>1. 0 \in G
  <2>1. C[0].results = <<>> /\ C[0].closet = closet
        /\ C[0] = [results |-> C[0].results, closet |-> C[0].closet]
    BY <1>0
  <2>2. <<>> \in Seq(Entries) /\ Len(<<>>) = 0 /\ 1..0 = {} /\ MadeBy(<<>>) = {}
    BY DEF MadeBy
  <2>3. Cardinality({}) = 0 /\ Count(closet) \in Nat
    BY FreshIdIs, FS_EmptySet DEF ClosetSound, Held
  <2> DEFINE r == <<>>
  <2>4. r \in Seq(Entries) /\ Len(r) = 0 /\ 1..0 = {} /\ MadeBy(r) = {}
    BY <2>2
  <2> HIDE DEF r
  <2>5. DOMAIN closet = Held \cup {r[i].is.id : i \in MadeBy(r)}
    BY <2>4 DEF Held
  <2>6. Count(closet) = Count(closet) + Cardinality(MadeBy(r))
    BY <2>3, <2>4
  <2>7. MadeSoFar(r, closet, payloads, 0)
    BY <2>4, <2>5, <2>6 DEF MadeSoFar, ClosetSound
  <2> QED BY <2>1, <2>7 DEF Are, r
<1>2. ASSUME NEW n \in 0..(m - 1), n \in G PROVE n + 1 \in G
  <2>1. n \in Nat /\ n + 1 \in 1..m /\ n + 1 \in 0..m /\ (n + 1) - 1 = n
    OBVIOUS
  <2>2. Are(C[n], payloads, n) /\ Payload(payloads[n + 1])
    BY <1>2, <2>1
  <2>3. Are(Entered(C[n], payloads[n + 1]), payloads, n + 1)
    BY <2>1, <2>2, EnteredAre
  <2>4. C[n + 1] = Entered(C[n], payloads[n + 1])
    BY <1>0, <2>1
  <2> QED BY <2>1, <2>3, <2>4
<1>3. \A n \in 0..m : n \in G
  <2> HIDE DEF G
  <2> QED BY <1>1, <1>2, UpTo
<1>4. m \in G
  <2> HIDE DEF G
  <2> QED BY <1>3
<1> QED BY <1>4 DEF C

-----------------------------------------------------------------------------
(* The entries of a batch whose shape is right, in order. *)

Right(raws) == {i \in DOMAIN raws : ItemCreate(raws[i]) # None}
Payloads(raws) ==
    [k \in DOMAIN OrderedIndexes(raws) |-> ItemCreate(raws[OrderedIndexes(raws)[k]])]

LEMMA RightIs ==
    ASSUME NEW raws \in Batches
    PROVE  /\ DOMAIN raws = 1..Len(raws) /\ Len(raws) \in Nat
           /\ Right(raws) \subseteq 1..Len(raws)
           /\ IsFiniteSet(Right(raws)) /\ Cardinality(Right(raws)) \in Nat
           /\ \A i \in Right(raws) : raws[i] # None /\ RawFits(raws[i])
<1>1. /\ raws = [i \in 1..Len(raws) |-> raws[i]] /\ Len(raws) \in Nat
      /\ \A i \in DOMAIN raws : raws[i] = None \/ RawFits(raws[i])
  BY BatchesAssumption
<1>2. DOMAIN raws = 1..Len(raws)
  BY <1>1
<1>3. Right(raws) \in SUBSET (1..Len(raws))
  BY <1>2 DEF Right
<1>4. IsFiniteSet(1..Len(raws))
  BY <1>1, FS_Interval
<1>5. IsFiniteSet(Right(raws))
  BY <1>3, <1>4, FS_Subset
<1>6. \A i \in Right(raws) : raws[i] # None
  BY DEF Right, ItemCreate
<1> QED BY <1>1, <1>2, <1>3, <1>5, <1>6, FS_CardinalityType DEF Right

LEMMA OrderedIs ==
    ASSUME NEW raws \in Batches
    PROVE  /\ OrderedIndexes(raws) \in [1..Cardinality(Right(raws)) -> Right(raws)]
           /\ IsInjective(OrderedIndexes(raws))
           /\ \A k, l \in 1..Cardinality(Right(raws)) :
                k < l => OrderedIndexes(raws)[k] <= OrderedIndexes(raws)[l]
           /\ Covers(OrderedIndexes(raws), Right(raws))
<1> DEFINE S == Right(raws)
           key == [i \in S |-> i]
<1>1. OrderedIndexes(raws) = SortedBy(S, key)
  BY DEF OrderedIndexes, Right
<1>2. IsFiniteSet(S) /\ S \subseteq Nat
  BY RightIs
<1>3. \A i \in S : key[i] \in Nat
  BY <1>2
<1> HIDE DEF S, key
<1>4. /\ IsSorting(SortedBy(S, key), S, key)
      /\ Covers(SortedBy(S, key), S)
  <2>1. IsSorting(SortedBy(S, key), S, key)
    BY <1>2, <1>3, SortedByIs
  <2>2. Covers(SortedBy(S, key), S)
    BY <1>2, <1>3, SortedByIs
  <2> QED BY <2>1, <2>2
<1>5. \A k, l \in 1..Cardinality(S) :
         k < l => key[SortedBy(S, key)[k]] <= key[SortedBy(S, key)[l]]
  BY <1>4 DEF IsSorting
<1>6. \A k \in 1..Cardinality(S) : SortedBy(S, key)[k] \in S
  BY <1>4 DEF IsSorting
<1>7. \A k \in 1..Cardinality(S) : key[SortedBy(S, key)[k]] = SortedBy(S, key)[k]
  BY <1>6 DEF key
<1>8. \A k, l \in 1..Cardinality(S) : k < l => SortedBy(S, key)[k] <= SortedBy(S, key)[l]
  BY <1>5, <1>7
<1> QED BY <1>1, <1>4, <1>8 DEF IsSorting, S

LEMMA PayloadsAre ==
    ASSUME NEW raws \in Batches
    PROVE  /\ Len(Payloads(raws)) = Cardinality(Right(raws)) /\ Len(Payloads(raws)) \in Nat
           /\ \A k \in 1..Len(Payloads(raws)) :
                /\ OrderedIndexes(raws)[k] \in Right(raws)
                /\ RawFits(raws[OrderedIndexes(raws)[k]])
                /\ Payloads(raws)[k] = ItemCreate(raws[OrderedIndexes(raws)[k]])
                /\ Payload(Payloads(raws)[k])
<1> DEFINE n == Cardinality(Right(raws))
           P == Payloads(raws)
           O == OrderedIndexes(raws)
<1>1. n \in Nat /\ O \in [1..n -> Right(raws)]
  BY RightIs, OrderedIs
<1>2. P = [k \in 1..n |-> ItemCreate(raws[O[k]])]
  BY <1>1 DEF Payloads
<1> HIDE DEF n, P, O
<1>3. Len(P) = n
  BY <1>1, <1>2
<1>4. ASSUME NEW k \in 1..n
      PROVE  /\ O[k] \in Right(raws) /\ RawFits(raws[O[k]])
             /\ P[k] = ItemCreate(raws[O[k]]) /\ Payload(P[k])
  <2>1. O[k] \in Right(raws)
    BY <1>1
  <2>2. RawFits(raws[O[k]]) /\ ItemCreate(raws[O[k]]) # None
    BY <2>1, RightIs DEF Right
  <2>3. P[k] = ItemCreate(raws[O[k]])
    BY <1>2
  <2> QED BY <2>1, <2>2, <2>3, ItemCreateMakes
<1> QED BY <1>1, <1>3, <1>4 DEF n, P, O

-----------------------------------------------------------------------------
(* What a step leaves the closet as: what it was, or one item more, one
   changed, one less, or what create_items leaves. *)

Adds(item) ==
    /\ Sound(item) /\ Count(closet) < MaxItems
    /\ closet' = Put(closet, FreshId(closet), item)
Changes(id, item) ==
    /\ id \in Held /\ Sound(item)
    /\ closet' = [closet EXCEPT ![id] = item]
Removes(id) == closet' = [i \in Held \ {id} |-> closet[i]]

(* add_item adds a sound item, or nothing. *)
LEMMA AddItemDoes ==
    ASSUME ClosetSound, AddItem
    PROVE  /\ call' \in Calls /\ call'.tool = "add_item"
           /\ closet' = closet \/ \E item : Adds(item)
<1>1. PICK raw \in RawItems \ {None} :
        LET payload == ItemCreate(raw)
            item == Validated(payload)
            c == [tool |-> "add_item", raw |-> raw]
        IN  CASE payload = None         -> Reply(c, Invalid) /\ UNCHANGED closet
              [] payload # None /\ item = Invalid
                                        -> Reply(c, Invalid) /\ UNCHANGED closet
              [] payload # None /\ item # Invalid /\ Count(closet) >= MaxItems
                                        -> Reply(c, Full) /\ UNCHANGED closet
              [] OTHER ->
                    IF item = Rejected
                      THEN Reply(c, Rejected) /\ UNCHANGED closet
                      ELSE /\ Reply(c, Created(FreshId(closet)))
                           /\ closet' = Put(closet, FreshId(closet), item)
  BY DEF AddItem
<1> DEFINE payload == ItemCreate(raw)
           item == Validated(payload)
           c == [tool |-> "add_item", raw |-> raw]
<1>2. c \in Calls /\ c.tool = "add_item"
  BY DEF Calls
<1>3. payload = None \/ item \in {Invalid, Rejected} \/ Sound(item)
  <2>1. CASE payload # None
    <3>1. RawFits(raw)
      BY RawItemsAssumption
    <3>2. Payload(payload)
      BY <2>1, <3>1, ItemCreateMakes
    <3> QED BY <3>2, ValidatedIs
  <2> QED BY <2>1
<1>4. MaxItems \in Nat /\ Count(closet) \in Nat
  BY IdsAssumption, FreshIdIs DEF ClosetSound, Held
<1>5. CASE payload = None \/ item = Invalid \/ Count(closet) >= MaxItems
  <2> HIDE DEF payload, item, c
  <2>1. CASE payload = None
    BY <1>1, <1>2, <2>1 DEF Reply, payload, item, c
  <2>2. CASE payload # None /\ item = Invalid
    BY <1>1, <1>2, <2>2 DEF Reply, payload, item, c
  <2>3. CASE payload # None /\ item # Invalid /\ Count(closet) >= MaxItems
    BY <1>1, <1>2, <2>3 DEF Reply, payload, item, c
  <2> QED BY <1>5, <2>1, <2>2, <2>3
<1>6. CASE ~(payload = None \/ item = Invalid \/ Count(closet) >= MaxItems)
  <2>1. IF item = Rejected
          THEN Reply(c, Rejected) /\ UNCHANGED closet
          ELSE /\ Reply(c, Created(FreshId(closet)))
               /\ closet' = Put(closet, FreshId(closet), item)
    BY <1>1, <1>6
  <2> HIDE DEF item, c
  <2>2. call' = c
    BY <2>1 DEF Reply
  <2>3. Count(closet) < MaxItems
    BY <1>4, <1>6
  <2>4. CASE item = Rejected
    BY <1>2, <2>1, <2>2, <2>4
  <2>5. CASE item # Rejected
    <3>1. closet' = Put(closet, FreshId(closet), item)
      BY <2>1, <2>5
    <3>2. Sound(item)
      BY <1>3, <1>6, <2>5
    <3>3. Adds(item)
      BY <2>3, <3>1, <3>2 DEF Adds
    <3> QED BY <1>2, <2>2, <3>3
  <2> QED BY <2>4, <2>5
<1> QED BY <1>5, <1>6

LEMMA BatchDoes ==
    ASSUME ClosetSound, BatchAddItems
    PROVE  \E raws \in Batches :
             /\ call' = [tool |-> "batch_add_items", raws |-> raws]
             /\ \/ closet' = closet /\ answer' = Invalid
                \/ /\ closet' = CreateItems(Payloads(raws))[Len(Payloads(raws))].closet
                   /\ answer' = [results |->
                        LET results == ShapeFailures(raws) \cup ToSet(Positions(raws,
                              CreateItems(Payloads(raws))[Len(Payloads(raws))].results))
                        IN  SortedBy(results, [r \in results |-> r.index])]
BY Zenon DEF BatchAddItems, Reply, Payloads

LEMMA BatchMakes ==
    ASSUME ClosetSound, NEW raws \in Batches
    PROVE  Are(CreateItems(Payloads(raws))[Len(Payloads(raws))],
               Payloads(raws), Len(Payloads(raws)))
<1>1. Len(Payloads(raws)) \in Nat
      /\ \A k \in 1..Len(Payloads(raws)) : Payload(Payloads(raws)[k])
  BY PayloadsAre
<1> DEFINE P == Payloads(raws)
<1> HIDE DEF P
<1>2. Are(CreateItems(P)[Len(P)], P, Len(P))
  BY <1>1, MadeAll DEF P
<1> QED BY <1>2 DEF P

LEMMA UpdateDoes ==
    ASSUME ClosetSound, UpdateItem
    PROVE  \E id \in Ids \cup {BadId}, patch \in Patches :
             /\ call' = [tool |-> "update_item", id |-> id, patch |-> patch]
             /\ \/ closet' = closet
                \/ /\ id \in Held /\ answer' = [status |-> "updated", id |-> id]
                   /\ ShapeFits(ItemUpdate(Supplied(patch)))
                   /\ IsItem(Updated(closet[id], ItemUpdate(Supplied(patch))))
                   /\ closet' = [closet EXCEPT ![id] =
                                   Updated(closet[id], ItemUpdate(Supplied(patch)))]
<1>1. PICK id \in Ids \cup {BadId}, patch \in Patches :
        LET sent == ItemUpdate(Supplied(patch))
            c == [tool |-> "update_item", id |-> id, patch |-> patch]
        IN  CASE id = BadId \/ DOMAIN sent = {} \/ ~ShapeFits(sent) ->
                    Reply(c, Invalid) /\ UNCHANGED closet
              [] OTHER ->
                    IF id \notin Held
                      THEN Reply(c, NotFound) /\ UNCHANGED closet
                      ELSE LET item == Updated(closet[id], sent)
                           IN  IF IsItem(item)
                                 THEN /\ Reply(c, [status |-> "updated", id |-> id])
                                      /\ closet' = [closet EXCEPT ![id] = item]
                                 ELSE Reply(c, item) /\ UNCHANGED closet
  BY DEF UpdateItem
<1> DEFINE sent == ItemUpdate(Supplied(patch))
           c == [tool |-> "update_item", id |-> id, patch |-> patch]
           item == Updated(closet[id], sent)
           bad == id = BadId \/ DOMAIN sent = {} \/ ~ShapeFits(sent)
<1>2. CASE bad
  <2>1. Reply(c, Invalid) /\ UNCHANGED closet
    BY <1>1, <1>2
  <2> QED BY <2>1 DEF Reply
<1>3. CASE ~bad
  <2>1. IF id \notin Held
          THEN Reply(c, NotFound) /\ UNCHANGED closet
          ELSE IF IsItem(item)
                 THEN /\ Reply(c, [status |-> "updated", id |-> id])
                      /\ closet' = [closet EXCEPT ![id] = item]
                 ELSE Reply(c, item) /\ UNCHANGED closet
    BY <1>1, <1>3
  <2>2. CASE id \notin Held
    BY <2>1, <2>2 DEF Reply
  <2>3. CASE id \in Held /\ IsItem(item)
    BY <1>3, <2>1, <2>3, Zenon DEF Reply
  <2>4. CASE id \in Held /\ ~IsItem(item)
    BY <2>1, <2>4 DEF Reply
  <2> QED BY <2>2, <2>3, <2>4
<1> QED BY <1>2, <1>3

LEMMA RemoveDoes ==
    ASSUME RemoveItem
    PROVE  /\ call' \in Calls /\ call'.tool = "remove_item"
           /\ closet' = closet \/ \E id \in Held : Removes(id)
<1>1. PICK id \in Ids \cup {BadId} :
        LET c == [tool |-> "remove_item", id |-> id]
        IN  CASE id = BadId  -> Reply(c, Invalid) /\ UNCHANGED closet
              [] id \in Held -> /\ Reply(c, [status |-> "removed", id |-> id])
                                /\ closet' = [i \in Held \ {id} |-> closet[i]]
              [] OTHER       -> Reply(c, NotFound) /\ UNCHANGED closet
  BY DEF RemoveItem
<1> DEFINE c == [tool |-> "remove_item", id |-> id]
<1>2. c \in Calls /\ c.tool = "remove_item"
  BY DEF Calls
<1>3. CASE id = BadId /\ id \notin Held
  BY <1>1, <1>2, <1>3 DEF Reply
<1>4. CASE id # BadId /\ id \in Held
  BY <1>1, <1>2, <1>4 DEF Reply, Removes
<1>5. CASE id # BadId /\ id \notin Held
  BY <1>1, <1>2, <1>5 DEF Reply
<1>6. CASE id = BadId /\ id \in Held
  BY <1>1, <1>2, <1>6 DEF Reply, Removes
<1> QED BY <1>3, <1>4, <1>5, <1>6

LEMMA AddsKeeps ==
    ASSUME ClosetSound, NEW item, Adds(item)
    PROVE  ClosetSound'
<1> DEFINE id == FreshId(closet)
<1>1. id \in Ids \ Held /\ Cardinality(Held \cup {id}) = Count(closet) + 1 /\ Count(closet) \in Nat
  BY FreshIdIs DEF ClosetSound, Adds, Held
<1>2. closet' = [i \in Held \cup {id} |-> IF i = id THEN item ELSE closet[i]]
  BY DEF Adds, Put, Held
<1> HIDE DEF id
<1>3. Held' = Held \cup {id} /\ \A i \in Held' : Sound(closet'[i])
  BY <1>1, <1>2 DEF ClosetSound, Adds, Held
<1>4. Count(closet)' <= MaxItems
  BY <1>1, <1>3, IdsAssumption DEF Adds, Count, Held
<1> QED BY <1>1, <1>3, <1>4 DEF ClosetSound, Sound

LEMMA ChangesKeeps ==
    ASSUME ClosetSound, NEW id, NEW item, Changes(id, item)
    PROVE  ClosetSound'
<1>1. Held' = Held /\ \A i \in Held' : Sound(closet'[i])
  BY DEF Changes, Held, ClosetSound
<1> QED BY <1>1 DEF ClosetSound, Count, Held

LEMMA RemovesKeeps ==
    ASSUME ClosetSound, NEW id, Removes(id)
    PROVE  ClosetSound'
<1>1. Held' = Held \ {id} /\ \A i \in Held' : Sound(closet'[i])
  BY DEF Removes, Held, ClosetSound
<1>2. IsFiniteSet(Held) /\ Count(closet) \in Nat
  BY FreshIdIs DEF ClosetSound, Held
<1>3. Held' \in SUBSET Held
  BY <1>1
<1>4. IsFiniteSet(Held') /\ Cardinality(Held') <= Cardinality(Held) /\ Cardinality(Held') \in Nat
  BY <1>2, <1>3, FS_Subset, FS_CardinalityType
<1> QED
  BY <1>1, <1>2, <1>4, IdsAssumption DEF ClosetSound, Count, Held

LEMMA MadeKeeps ==
    ASSUME ClosetSound, NEW results, NEW payloads, NEW n \in Nat,
           MadeSoFar(results, closet', payloads, n)
    PROVE  ClosetSound'
<1>1. ASSUME NEW i \in MadeBy(results)
      PROVE  results[i].is.id \in Ids /\ Sound(closet'[results[i].is.id])
  <2>1. i \in 1..n /\ results[i].is.status = "created"
    BY DEF MadeBy, MadeSoFar
  <2> QED BY <2>1, StatusIs DEF MadeSoFar
<1>2. Held' = Held \cup {results[i].is.id : i \in MadeBy(results)}
  BY DEF MadeSoFar, Held
<1>3. \A id \in Held : closet'[id] = closet[id]
  BY DEF MadeSoFar
<1>4. Held' \subseteq Ids /\ \A id \in Held' : Sound(closet'[id])
  BY <1>1, <1>2, <1>3 DEF ClosetSound
<1>5. Count(closet)' <= MaxItems
  BY DEF MadeSoFar, Count
<1> QED BY <1>4, <1>5 DEF ClosetSound

-----------------------------------------------------------------------------
(* The invariant. *)

(* A call is one there may be, and is answered. *)
CallOK ==
    /\ call \in Calls \cup Visits \cup {None}
    /\ call = None => answer = None

(* What the actions call is among the calls there may be. *)
LEMMA CallsAreCalls ==
    /\ None \notin Calls \cup Visits
    /\ \A raws \in Batches : [tool |-> "batch_add_items", raws |-> raws] \in Calls
    /\ \A id \in Ids \cup {BadId}, patch \in Patches :
         [tool |-> "update_item", id |-> id, patch |-> patch] \in Calls
    /\ \A tree \in Trees : [tool |-> "query_closet_items", tree |-> tree] \in Calls
    /\ \A clause \in Clauses : [tool |-> "scan", clause |-> clause] \in Calls
    /\ \A raw \in RawCategories :
         [tool |-> "list_category_items", category |-> NormaliseCategory(raw)] \in Calls
    /\ [tool |-> "get_closet_summary"] \in Calls
    /\ \A d \in Deployments, path \in Paths :
         [tool |-> "visit", deployment |-> d, path |-> path] \in Visits
<1>1. \A raw \in RawCategories : NormaliseCategory(raw) \in STRING
  BY TextsAssumption, TextShape DEF NormaliseCategory
<1>2. None \notin Calls \cup Visits
  BY NoneAssumption, VisitsAssumption
<1>3. \A d \in Deployments, path \in Paths :
         [tool |-> "visit", deployment |-> d, path |-> path] \in Visits
  BY DEF Visits
<1> QED BY <1>1, <1>2, <1>3 DEF Calls

(* A read leaves the closet as it is, and is not taken for a write. *)
LEMMA ReadsDo ==
    ASSUME QueryClosetItems \/ ScanClause \/ ListCategoryItems \/ GetClosetSummary \/ Visit
    PROVE  /\ call' \in Calls \cup Visits /\ closet' = closet
           /\ call'.tool \notin {"update_item", "batch_add_items"}
<1>1. CASE QueryClosetItems
  <2>1. \E tree \in Trees : call' = [tool |-> "query_closet_items", tree |-> tree]
    BY <1>1 DEF QueryClosetItems, Reply
  <2> QED BY <1>1, <2>1, CallsAreCalls DEF QueryClosetItems
<1>2. CASE ScanClause
  <2>1. \E clause \in Clauses : call' = [tool |-> "scan", clause |-> clause]
    BY <1>2 DEF ScanClause, Reply
  <2> QED BY <1>2, <2>1, CallsAreCalls DEF ScanClause
<1>3. CASE ListCategoryItems
  <2>1. PICK raw \in RawCategories :
          \E a : Reply([tool |-> "list_category_items",
                        category |-> NormaliseCategory(raw)], a)
    BY <1>3, Zenon DEF ListCategoryItems
  <2> QED BY <1>3, <2>1, CallsAreCalls DEF ListCategoryItems, Reply
<1>4. CASE GetClosetSummary
  BY <1>4, CallsAreCalls DEF GetClosetSummary, Reply
<1>5. CASE Visit
  <2>1. PICK d \in Deployments, path \in Paths :
          Reply([tool |-> "visit", deployment |-> d, path |-> path], Handler(d, path))
    BY <1>5 DEF Visit
  <2> QED BY <1>5, <2>1, CallsAreCalls DEF Visit, Reply
<1> QED BY <1>1, <1>2, <1>3, <1>4, <1>5

LEMMA UpdateChanges ==
    ASSUME ClosetSound, NEW id \in Held, NEW patch \in Patches,
           ShapeFits(ItemUpdate(Supplied(patch))),
           IsItem(Updated(closet[id], ItemUpdate(Supplied(patch))))
    PROVE  /\ Sound(Updated(closet[id], ItemUpdate(Supplied(patch))))
           /\ \A k \in Keys :
                \/ Updated(closet[id], ItemUpdate(Supplied(patch)))[k] = closet[id][k]
                \/ k \in DOMAIN patch /\ patch[k] # None
                \/ /\ k = "fields"
                   /\ Updated(closet[id], ItemUpdate(Supplied(patch))).category
                        # closet[id].category
<1> DEFINE sent == ItemUpdate(Supplied(patch))
           existing == closet[id]
           item == Updated(existing, sent)
<1>1. Sound(existing) /\ Sent(sent)
  BY SentIs DEF ClosetSound
<1>2. \A k \in DOMAIN sent : k \in DOMAIN patch /\ patch[k] # None
  BY SuppliedIs
<1> HIDE DEF sent, existing
<1>3. \/ item \in {Invalid, Rejected}
      \/ /\ Sound(item)
         /\ \A k \in Keys : \/ item[k] = existing[k]
                            \/ k \in DOMAIN sent
                            \/ k = "fields" /\ item.category # existing.category
  BY <1>1, UpdatedIs DEF sent
<1>4. item \notin {Invalid, Rejected}
  BY ReasonsAreNoItems DEF sent, existing
<1> QED BY <1>2, <1>3, <1>4 DEF sent, existing

(* The closet and the call stay as they should be. *)
IInv == ClosetSound /\ CallOK

LEMMA IInvInit == Init => IInv
<1> SUFFICES ASSUME Init PROVE IInv
  OBVIOUS
<1>1. Held = {} /\ Count(closet) = 0
  BY FS_EmptySet DEF Init, Held, Count
<1> QED BY <1>1, IdsAssumption DEF Init, IInv, ClosetSound, CallOK

LEMMA IInvStep == IInv /\ [Next]_vars => IInv'
<1> SUFFICES ASSUME IInv, [Next]_vars PROVE IInv'
  OBVIOUS
<1>0. ASSUME call' \in Calls \cup Visits PROVE CallOK'
  BY <1>0, CallsAreCalls DEF CallOK
<1>01. ASSUME closet' = closet PROVE ClosetSound'
  BY <1>01 DEF IInv, ClosetSound, Held, Count
<1>1. CASE AddItem
  <2>1. call' \in Calls /\ (closet' = closet \/ \E item : Adds(item))
    BY <1>1, AddItemDoes DEF IInv
  <2> QED BY <2>1, <1>0, <1>01, AddsKeeps DEF IInv
<1>2. CASE BatchAddItems
  <2>1. PICK raws \in Batches :
          /\ call' = [tool |-> "batch_add_items", raws |-> raws]
          /\ \/ closet' = closet
             \/ closet' = CreateItems(Payloads(raws))[Len(Payloads(raws))].closet
    BY <1>2, BatchDoes DEF IInv
  <2> DEFINE P == Payloads(raws)
             made == CreateItems(P)[Len(P)]
  <2>2. Len(P) \in Nat /\ MadeSoFar(made.results, made.closet, P, Len(P))
    BY BatchMakes, PayloadsAre DEF IInv, Are
  <2> HIDE DEF P, made
  <2>3. ASSUME closet' = made.closet PROVE ClosetSound'
    BY <2>2, <2>3, MadeKeeps DEF IInv
  <2> QED BY <2>1, <2>3, <1>0, <1>01, CallsAreCalls DEF IInv, P, made
<1>3. CASE UpdateItem
  <2>1. PICK id \in Ids \cup {BadId}, patch \in Patches :
          /\ call' = [tool |-> "update_item", id |-> id, patch |-> patch]
          /\ \/ closet' = closet
             \/ /\ id \in Held
                /\ ShapeFits(ItemUpdate(Supplied(patch)))
                /\ IsItem(Updated(closet[id], ItemUpdate(Supplied(patch))))
                /\ closet' = [closet EXCEPT ![id] =
                                Updated(closet[id], ItemUpdate(Supplied(patch)))]
    BY <1>3, UpdateDoes DEF IInv
  <2>2. CASE closet' # closet
    <3> DEFINE item == Updated(closet[id], ItemUpdate(Supplied(patch)))
    <3>1. Sound(item)
      BY <2>1, <2>2, UpdateChanges DEF IInv
    <3>2. Changes(id, item)
      BY <2>1, <2>2, <3>1, Zenon DEF Changes
    <3>3. ClosetSound'
      BY <3>2, ChangesKeeps, Zenon DEF IInv
    <3> QED BY <2>1, <3>3, <1>0, CallsAreCalls DEF IInv
  <2> QED BY <2>1, <2>2, <1>0, <1>01, CallsAreCalls DEF IInv
<1>4. CASE RemoveItem
  <2>1. call' \in Calls /\ (closet' = closet \/ \E id \in Held : Removes(id))
    BY <1>4, RemoveDoes
  <2> QED BY <2>1, <1>0, <1>01, RemovesKeeps DEF IInv
<1>5. CASE QueryClosetItems \/ ScanClause \/ ListCategoryItems \/ GetClosetSummary \/ Visit
  BY <1>5, <1>0, <1>01, ReadsDo DEF IInv
<1>6. CASE Read
  BY <1>6, <1>01 DEF IInv, Read, CallOK
<1>7. CASE UNCHANGED vars
  BY <1>7, <1>01 DEF IInv, vars, CallOK
<1> QED
  BY <1>1, <1>2, <1>3, <1>4, <1>5, <1>6, <1>7 DEF Next

(* In every reachable state the closet holds items that may be stored, within *)
(* the cap, and the call being answered is one there may be.                  *)
THEOREM IInvOK == Spec => []IInv
BY IInvInit, IInvStep, PTL DEF Spec

(* The keys of a sound item hold what their columns may. *)
LEMMA SoundFits ==
    ASSUME NEW item, Sound(item)
    PROVE  \A k \in Keys \ {"category"} : ArgumentFits(k, item[k])
<1>1. \A n \in DOMAIN item.fields : item.fields[n] \in RawValues \cup {None}
  BY DEF Sound, FieldsFit
<1>2. item.formality \in STRING \cup {None}
  <2>1. Formalities \subseteq STRING
    BY FormalitiesAssumption
  <2> QED BY <2>1 DEF Sound
<1> QED BY <1>1, <1>2 DEF Sound, Keys, ArgumentFits

(* The closet stays within its cap however adds, batches, edits and removals  *)
(* follow each other, and what its items hold has its column's type.          *)
THEOREM OneRequestTypeOK == Spec => []TypeOK
<1>1. IInv => TypeOK
  <2> SUFFICES ASSUME IInv PROVE TypeOK
    OBVIOUS
  <2>1. ASSUME NEW id \in Held
        PROVE  /\ closet[id] = [k \in Keys |-> closet[id][k]]
               /\ closet[id].category \in Categories
               /\ closet[id].formality \in Formalities \cup {None}
               /\ Len(closet[id].colors) <= MaxColors
               /\ \A k \in Keys \ {"category"} : ArgumentFits(k, closet[id][k])
    <3>1. Sound(closet[id])
      BY DEF IInv, ClosetSound
    <3> QED BY <3>1, SoundFits DEF Sound, FieldsFit
  <2> QED BY <2>1 DEF IInv, ClosetSound, CallOK, TypeOK
<1> QED BY <1>1, IInvOK, PTL

(* No sequence of calls leaves an item whose fields do not fit the template of *)
(* the category it is stored under: an item that is moved to another category  *)
(* is validated with the fields it has.                                        *)
THEOREM StoredFieldsValidOK == Spec => []StoredFieldsValid
<1>1. IInv => StoredFieldsValid
  <2> SUFFICES ASSUME IInv, NEW id \in Held
               PROVE  LET item == closet[id]
                          defs == Template[item.category]
                      IN  /\ DOMAIN item.fields \subseteq DOMAIN defs
                          /\ \A n \in DOMAIN defs : defs[n].required => n \in DOMAIN item.fields
                          /\ \A n \in DOMAIN item.fields : Fits(defs[n], item.fields[n])
                          /\ CleanLabels(item.colors)
                          /\ CleanLabels(item.tags)
    BY DEF StoredFieldsValid
  <2>1. Sound(closet[id])
    BY DEF IInv, ClosetSound
  <2> QED BY <2>1 DEF Sound, FieldsFit
<1> QED BY <1>1, IInvOK, PTL

(* What UpdateTouchesNamed says of a step. *)
UpdateStep ==
    (call = None /\ call' # None /\ call'.tool = "update_item") =>
        /\ Held' = Held
        /\ \A id \in Held :
            \/ closet'[id] = closet[id]
            \/ /\ answer'.status = "updated" /\ id = call'.id
               /\ \A k \in Keys :
                    \/ closet'[id][k] = closet[id][k]
                    \/ k \in DOMAIN call'.patch /\ call'.patch[k] # None
                    \/ k = "fields" /\ closet'[id].category # closet[id].category

(* A step that updates touches what was named. *)
LEMMA UpdateTouches ==
    ASSUME IInv, [Next]_vars
    PROVE  UpdateStep
<1>0. ASSUME ~UpdateItem PROVE UpdateStep
  <2>1. CASE AddItem
    BY <2>1, AddItemDoes DEF IInv, UpdateStep
  <2>2. CASE BatchAddItems
    <3>1. PICK raws \in Batches : call' = [tool |-> "batch_add_items", raws |-> raws]
      BY <2>2, BatchDoes DEF IInv
    <3> QED BY <3>1 DEF UpdateStep
  <2>3. CASE RemoveItem
    BY <2>3, RemoveDoes DEF UpdateStep
  <2>4. CASE QueryClosetItems \/ ScanClause \/ ListCategoryItems \/ GetClosetSummary \/ Visit
    BY <2>4, ReadsDo DEF UpdateStep
  <2>5. CASE Read
    BY <2>5 DEF Read, UpdateStep
  <2>6. CASE UNCHANGED vars
    BY <2>6 DEF vars, UpdateStep
  <2> QED BY <1>0, <2>1, <2>2, <2>3, <2>4, <2>5, <2>6 DEF Next
<1>1. CASE UpdateItem
  <2>1. PICK id \in Ids \cup {BadId}, patch \in Patches :
          /\ call' = [tool |-> "update_item", id |-> id, patch |-> patch]
          /\ \/ closet' = closet
             \/ /\ id \in Held /\ answer' = [status |-> "updated", id |-> id]
                /\ ShapeFits(ItemUpdate(Supplied(patch)))
                /\ IsItem(Updated(closet[id], ItemUpdate(Supplied(patch))))
                /\ closet' = [closet EXCEPT ![id] =
                                Updated(closet[id], ItemUpdate(Supplied(patch)))]
    BY <1>1, UpdateDoes DEF IInv
  <2>2. CASE closet' = closet
    BY <2>2 DEF UpdateStep, Held
  <2>3. CASE closet' # closet
    <3> DEFINE item == Updated(closet[id], ItemUpdate(Supplied(patch)))
    <3>1. \A k \in Keys : \/ item[k] = closet[id][k]
                          \/ k \in DOMAIN patch /\ patch[k] # None
                          \/ k = "fields" /\ item.category # closet[id].category
      BY <2>1, <2>3, UpdateChanges DEF IInv
    <3> HIDE DEF item
    <3>2. id \in Held /\ closet' = [closet EXCEPT ![id] = item]
      BY <2>1, <2>3 DEF item
    <3>3. /\ Held' = Held /\ closet'[id] = item
          /\ \A i \in Held : i # id => closet'[i] = closet[i]
      BY <3>2 DEF Held
    <3>4. call'.id = id /\ call'.patch = patch /\ answer'.status = "updated"
      BY <2>1, <2>3
    <3> QED BY <3>1, <3>3, <3>4 DEF UpdateStep
  <2> QED BY <2>2, <2>3
<1> QED BY <1>0, <1>1

(* For every patch and every item, update_item changes only what was named    *)
(* with a value, and the fields of an item it moves.                          *)
THEOREM UpdateTouchesNamedOK == Spec => UpdateTouchesNamed
<1>1. IInv /\ [Next]_vars => [UpdateStep]_vars
  BY UpdateTouches
<1>2. UpdateTouchesNamed <=> [][UpdateStep]_vars
  BY PTL DEF UpdateTouchesNamed, UpdateStep
<1> QED BY <1>1, <1>2, IInvOK, PTL DEF Spec

-----------------------------------------------------------------------------
(* The answer to a batch, in order. *)

(* Numbers up to N in strictly increasing order, N of them: each is at its place. *)
LEMMA StrictlyUp ==
    ASSUME NEW N \in Nat, NEW f \in [1..N -> 1..N],
           \A i, j \in 1..N : i < j => f[i] < f[j]
    PROVE  \A i \in 1..N : f[i] = i
<1> DEFINE G == {n \in 0..N : \A i \in 1..n : f[i] >= i}
           H == {n \in 0..N : \A i \in 1..N : i > N - n => f[i] <= i}
<1>1. 0 \in G /\ 0 \in H
  OBVIOUS
<1>2. ASSUME NEW n \in 0..(N - 1), n \in G PROVE n + 1 \in G
  <2>1. n + 1 \in 0..N /\ n + 1 \in 1..N /\ n \in Nat
    OBVIOUS
  <2>2. ASSUME NEW i \in 1..(n + 1) PROVE f[i] >= i
    <3>1. CASE i \in 1..n
      BY <1>2, <3>1
    <3>2. CASE i = n + 1 /\ n = 0
      BY <3>2, <2>1
    <3>3. CASE i = n + 1 /\ n # 0
      <4>1. n \in 1..n /\ n \in 1..N /\ n < n + 1
        BY <3>3, <2>1
      <4>2. f[n] >= n /\ f[n] < f[n + 1] /\ f[n] \in Int /\ f[n + 1] \in Int
        BY <4>1, <1>2, <2>1
      <4> QED BY <3>3, <4>2
    <3> QED BY <2>1, <3>1, <3>2, <3>3
  <2> QED BY <2>1, <2>2
<1>3. ASSUME NEW n \in 0..(N - 1), n \in H PROVE n + 1 \in H
  <2>1. n + 1 \in 0..N /\ n \in Nat
    OBVIOUS
  <2>2. ASSUME NEW i \in 1..N, i > N - (n + 1) PROVE f[i] <= i
    <3>1. CASE i > N - n
      BY <1>3, <3>1
    <3>2. CASE i = N
      BY <3>2
    <3>3. CASE ~(i > N - n) /\ i # N
      <4>1. i + 1 \in 1..N /\ i < i + 1 /\ i + 1 > N - n
        BY <2>2, <3>3
      <4>2. f[i + 1] <= i + 1 /\ f[i] < f[i + 1] /\ f[i] \in Int /\ f[i + 1] \in Int
        BY <4>1, <1>3
      <4> QED BY <4>2
    <3> QED BY <3>1, <3>2, <3>3
  <2> QED BY <2>1, <2>2
<1>4. (\A n \in 0..N : n \in G) /\ (\A n \in 0..N : n \in H)
  <2> HIDE DEF G, H
  <2> QED BY <1>1, <1>2, <1>3, UpTo
<1>5. N \in G /\ N \in H
  <2> HIDE DEF G, H
  <2> QED BY <1>4
<1>6. ASSUME NEW i \in 1..N PROVE f[i] = i
  <2>1. f[i] >= i /\ f[i] <= i /\ f[i] \in Int
    BY <1>5
  <2> QED BY <2>1
<1> QED BY <1>6

InOrder(S, E, N) ==
    /\ DOMAIN SortedBy(S, [r \in S |-> r.index]) = 1..N
    /\ \A i \in 1..N : SortedBy(S, [r \in S |-> r.index])[i] = E[i]

(* Entries with one index each, all of 1..n, are sorted to their places. *)
LEMMA SortedEntries ==
    ASSUME NEW N \in Nat, NEW E, DOMAIN E = 1..N, \A i \in 1..N : E[i].index = i,
           NEW S, S = {E[i] : i \in 1..N}
    PROVE  InOrder(S, E, N)
<1> DEFINE key == [r \in S |-> r.index]
           g == [i \in 1..N |-> E[i]]
           s == SortedBy(S, key)
<1>1. g \in [1..N -> S] /\ \A i \in 1..N : g[i] = E[i]
  OBVIOUS
<1> HIDE DEF g
<1>2. g \in Bijection(1..N, S)
  <2>1. IsInjective(g)
    BY <1>1 DEF IsInjective
  <2>2. \A r \in S : \E i \in 1..N : g[i] = r
    BY <1>1
  <2> QED BY <1>1, <2>1, <2>2 DEF Bijection, Injection, Surjection
<1>3. IsFiniteSet(1..N) /\ Cardinality(1..N) = N
  BY FS_Interval
<1>4. IsFiniteSet(S) /\ Cardinality(S) = N
  BY <1>2, <1>3, FS_Bijection DEF ExistsBijection
<1>5. \A r \in S : r.index \in 1..N /\ key[r] = r.index /\ key[r] \in Nat /\ r = E[r.index]
  OBVIOUS
<1> HIDE DEF key
<1>6. IsSorting(s, S, key)
  BY <1>4, <1>5, SortedByIs
<1> HIDE DEF s
<1>7. /\ s \in [1..N -> S] /\ DOMAIN s = 1..N
      /\ \A i, j \in 1..N : s[i] = s[j] => i = j
      /\ \A i, j \in 1..N : i < j => key[s[i]] <= key[s[j]]
  BY <1>4, <1>6 DEF IsSorting, IsInjective
<1> DEFINE f == [i \in 1..N |-> s[i].index]
<1>8. \A i \in 1..N : s[i] \in S /\ f[i] = s[i].index /\ f[i] \in 1..N /\ key[s[i]] = f[i]
  BY <1>5, <1>7
<1>9. f \in [1..N -> 1..N]
  BY <1>8
<1> HIDE DEF f
<1>10. ASSUME NEW i \in 1..N, NEW j \in 1..N, i < j PROVE f[i] < f[j]
  <2>1. f[i] <= f[j] /\ i # j /\ s[i] # s[j]
    <3>1. i # j
      BY <1>10
    <3>2. key[s[i]] <= key[s[j]]
      BY <1>7, <1>10
    <3>3. s[i] # s[j]
      BY <3>1, <1>7
    <3> QED BY <3>1, <3>2, <3>3, <1>8
  <2>2. f[i] # f[j]
    <3>1. s[i] = E[f[i]] /\ s[j] = E[f[j]]
      BY <1>5, <1>8
    <3> QED BY <2>1, <3>1
  <2>3. f[i] \in Int /\ f[j] \in Int
    BY <1>8
  <2> QED BY <2>1, <2>2, <2>3
<1>11. \A i \in 1..N : f[i] = i
  BY <1>9, <1>10, StrictlyUp
<1>12. \A i \in 1..N : s[i] = E[i]
  BY <1>5, <1>8, <1>11
<1> QED BY <1>7, <1>12 DEF s, key, InOrder

(* What a batch is answered, entry by entry. *)
Answer(raws, results, i) ==
    [index |-> i,
     is |-> IF i \in Right(raws)
              THEN results[CHOOSE k \in DOMAIN OrderedIndexes(raws) : OrderedIndexes(raws)[k] = i].is
              ELSE Invalid]

LEMMA AnswerIs ==
    ASSUME NEW raws \in Batches, NEW results, NEW k \in DOMAIN OrderedIndexes(raws)
    PROVE  Answer(raws, results, OrderedIndexes(raws)[k])
             = [index |-> OrderedIndexes(raws)[k], is |-> results[k].is]
<1> DEFINE O == OrderedIndexes(raws)
           i == O[k]
           l == CHOOSE m \in DOMAIN O : O[m] = i
<1>1. i \in Right(raws) /\ IsInjective(O)
  BY OrderedIs
<1>2. l \in DOMAIN O /\ O[l] = O[k]
  OBVIOUS
<1> HIDE DEF l
<1>3. l = k
  BY <1>1, <1>2 DEF IsInjective
<1> QED BY <1>1, <1>3 DEF Answer, l

(* The service's results stand at their entries' positions. *)
LEMMA PositionsAre ==
    ASSUME NEW raws \in Batches, NEW results, NEW left,
           MadeSoFar(results, left, Payloads(raws), Len(Payloads(raws)))
    PROVE  ShapeFailures(raws) \cup ToSet(Positions(raws, results))
             = {Answer(raws, results, i) : i \in DOMAIN raws}
<1> DEFINE O == OrderedIndexes(raws)
           n == Len(Payloads(raws))
           R == Right(raws)
<1>1. /\ DOMAIN results = 1..n /\ DOMAIN O = 1..n /\ n \in Nat
      /\ results \in Seq(Entries)
  BY PayloadsAre, OrderedIs DEF MadeSoFar
<1>2. /\ R = {i \in DOMAIN raws : ItemCreate(raws[i]) # None}
      /\ \A k \in 1..n : O[k] \in R
      /\ \A i \in R : \E k \in 1..n : O[k] = i
  BY <1>1, PayloadsAre, OrderedIs DEF Right, Covers
<1>4. ToSet(Positions(raws, results)) = {[index |-> O[k], is |-> results[k].is] : k \in 1..n}
  <2>2. Positions(raws, results) = [k \in 1..n |-> [index |-> O[k], is |-> results[k].is]]
    BY <1>1 DEF Positions
  <2> DEFINE Pos == Positions(raws, results)
  <2>3. DOMAIN Pos = 1..n /\ \A k \in 1..n : Pos[k] = [index |-> O[k], is |-> results[k].is]
    BY <2>2
  <2> HIDE DEF Pos, O, n
  <2>4. ToSet(Pos) = {Pos[k] : k \in 1..n}
    BY <2>3 DEF ToSet
  <2> QED BY <2>3, <2>4 DEF Pos
<1>5. \A k \in 1..n : Answer(raws, results, O[k]) = [index |-> O[k], is |-> results[k].is]
  BY <1>1, AnswerIs
<1>6. \A i \in DOMAIN raws \ R : Answer(raws, results, i) = [index |-> i, is |-> Invalid]
  BY DEF Answer
<1>7. ShapeFailures(raws) = {[index |-> i, is |-> Invalid] : i \in DOMAIN raws \ R}
  BY <1>2 DEF ShapeFailures
<1>8. ToSet(Positions(raws, results)) = {Answer(raws, results, i) : i \in R}
  <2> HIDE DEF O, n, R
  <2>1. ToSet(Positions(raws, results)) = {Answer(raws, results, O[k]) : k \in 1..n}
    BY <1>4, <1>5
  <2> QED BY <1>2, <2>1
<1>9. ShapeFailures(raws) = {Answer(raws, results, i) : i \in DOMAIN raws \ R}
  <2> HIDE DEF R
  <2> QED BY <1>6, <1>7
<1>10. DOMAIN raws = R \cup (DOMAIN raws \ R)
  BY <1>2
<1> HIDE DEF R
<1> QED BY <1>8, <1>9, <1>10

(* The answer to a batch has, at each place, what became of the entry there. *)
LEMMA BatchReply ==
    ASSUME NEW raws \in Batches, NEW results, NEW left,
           MadeSoFar(results, left, Payloads(raws), Len(Payloads(raws))),
           NEW all, all = ShapeFailures(raws) \cup ToSet(Positions(raws, results))
    PROVE  /\ DOMAIN SortedBy(all, [r \in all |-> r.index]) = DOMAIN raws
           /\ \A i \in DOMAIN raws :
                SortedBy(all, [r \in all |-> r.index])[i] = Answer(raws, results, i)
<1> DEFINE N == Len(raws)
           E == [i \in 1..N |-> Answer(raws, results, i)]
<1>1. N \in Nat /\ DOMAIN raws = 1..N
  BY RightIs
<1>2. /\ DOMAIN E = 1..N /\ \A i \in 1..N : E[i].index = i
      /\ \A i \in 1..N : E[i] = Answer(raws, results, i)
  BY DEF Answer
<1>3. all = {Answer(raws, results, i) : i \in 1..N}
  BY <1>1, PositionsAre
<1> HIDE DEF E, N
<1>4. all = {E[i] : i \in 1..N}
  BY <1>2, <1>3
<1>5. InOrder(all, E, N)
  <2>1. \A i \in 1..N : E[i].index = i
    BY <1>2
  <2> QED BY <1>1, <1>2, <1>4, <2>1, SortedEntries
<1> QED BY <1>1, <1>2, <1>5 DEF InOrder

(* Such an answer is what BatchEntriesAnswered asks for. *)
LEMMA BatchEntries ==
    ASSUME ClosetSound, NEW raws \in Batches, NEW results, NEW reply,
           call'.raws = raws, answer'.results = reply,
           MadeSoFar(results, closet', Payloads(raws), Len(Payloads(raws))),
           DOMAIN reply = DOMAIN raws,
           \A i \in DOMAIN raws : reply[i] = Answer(raws, results, i)
    PROVE  BatchEntriesAnswered
<1> DEFINE O == OrderedIndexes(raws)
           n == Len(Payloads(raws))
           created == {i \in DOMAIN reply : reply[i].is.status = "created"}
           Made == MadeBy(results)
<1>1. /\ DOMAIN results = 1..n /\ DOMAIN O = 1..n /\ n \in Nat
      /\ \A k \in 1..n : O[k] \in Right(raws) /\ RawFits(raws[O[k]])
      /\ \A k \in 1..n : Payloads(raws)[k] = ItemCreate(raws[O[k]])
      /\ \A k \in 1..n : Payload(Payloads(raws)[k])
      /\ Right(raws) \subseteq DOMAIN raws
      /\ \A i \in Right(raws) : \E k \in 1..n : O[k] = i
  <2>1. n = Cardinality(Right(raws)) /\ n \in Nat
    BY PayloadsAre
  <2>2. DOMAIN O = 1..n
    BY <2>1, OrderedIs
  <2>3. \A i \in Right(raws) : \E k \in DOMAIN O : O[k] = i
    BY OrderedIs DEF Covers
  <2>4. DOMAIN results = 1..n
    BY <2>1 DEF MadeSoFar
  <2>5. \A k \in 1..n : /\ O[k] \in Right(raws) /\ RawFits(raws[O[k]])
                        /\ Payloads(raws)[k] = ItemCreate(raws[O[k]])
                        /\ Payload(Payloads(raws)[k])
    BY PayloadsAre
  <2>6. Right(raws) \subseteq DOMAIN raws
    BY DEF Right
  <2> HIDE DEF O, n
  <2> QED BY <2>1, <2>2, <2>3, <2>4, <2>5, <2>6
<1>2. \A i \in DOMAIN raws : reply[i].index = i
  <2>1. \A i : Answer(raws, results, i).index = i
    BY DEF Answer
  <2> QED BY <2>1
<1>3. \A i \in DOMAIN raws \ Right(raws) : reply[i].is = Invalid /\ reply[i].is.status = "failed"
                                           /\ i \notin created
  <2>1. \A i \in DOMAIN raws \ Right(raws) : Answer(raws, results, i).is = Invalid
    BY DEF Answer
  <2> QED BY <2>1, StatusIs DEF Reasons
<1>4. \A k \in 1..n : reply[O[k]].is = results[k].is /\ O[k] \in DOMAIN raws
  <2>1. ASSUME NEW k \in 1..n PROVE reply[O[k]].is = results[k].is
    <3>1. reply[O[k]] = Answer(raws, results, O[k])
      BY <1>1
    <3>2. Answer(raws, results, O[k]) = [index |-> O[k], is |-> results[k].is]
      BY <1>1, AnswerIs
    <3> QED BY <3>1, <3>2
  <2> QED BY <1>1, <2>1
<1>5. \A i \in DOMAIN raws : raws[i] = None => reply[i].is.status = "failed"
  <2>1. \A i \in DOMAIN raws : raws[i] = None => i \notin Right(raws)
    BY RightIs
  <2> QED BY <1>3, <2>1
<1>6. \A i \in created : \E k \in Made : O[k] = i
  <2> SUFFICES ASSUME NEW i \in created PROVE \E k \in Made : O[k] = i
    OBVIOUS
  <2>1. PICK k \in 1..n : O[k] = i
    BY <1>1, <1>3
  <2>2. k \in Made
    BY <1>1, <1>4, <2>1 DEF MadeBy
  <2> QED BY <2>1, <2>2
<1>7. \A k \in Made : k \in 1..n /\ O[k] \in created
  BY <1>1, <1>4 DEF MadeBy
<1>8. ASSUME NEW k \in Made
      PROVE  /\ results[k].is.id \in Ids \ Held
             /\ closet'[results[k].is.id] = Validated(Payloads(raws)[k])
             /\ Sound(Validated(Payloads(raws)[k]))
             /\ results[k].is.id \in Held'
  <2>1. k \in 1..n /\ results[k].is.status = "created"
    BY <1>1 DEF MadeBy
  <2> QED BY <2>1, StatusIs DEF MadeSoFar, Held
<1>9. ASSUME NEW k \in Made
      PROVE  /\ closet'[results[k].is.id].category = NormaliseCategory(raws[O[k]].category)
             /\ closet'[results[k].is.id].tags = CleanStrings(raws[O[k]].tags)
  <2> DEFINE payload == Payloads(raws)[k]
             raw == raws[O[k]]
  <2>1. RawFits(raw) /\ ItemCreate(raw) # None /\ payload = ItemCreate(raw) /\ Payload(payload)
    BY <1>1, <1>7 DEF Right
  <2>2. payload.category = NormaliseCategory(raw.category) /\ payload.tags = CleanStrings(raw.tags)
    BY <2>1, ItemCreateMakes
  <2>3. Validated(payload).category = payload.category /\ Validated(payload).tags = payload.tags
    BY <1>8, <2>1, ValidatedIs, ReasonsAreNoItems
  <2> QED BY <1>8, <2>2, <2>3
<1> HIDE DEF O, n, created, Made
<1>10. ASSUME NEW i \in created
       PROVE  /\ reply[i].is.id \in Held' \ Held
              /\ closet'[reply[i].is.id].category = NormaliseCategory(raws[i].category)
              /\ closet'[reply[i].is.id].tags = CleanStrings(raws[i].tags)
              /\ \A j \in created \ {i} : reply[j].is.id # reply[i].is.id
  <2>1. PICK k \in Made : O[k] = i
    BY <1>6
  <2>2. reply[i].is = results[k].is
    BY <1>4, <1>7, <2>1
  <2>3. ASSUME NEW j \in created \ {i} PROVE reply[j].is.id # reply[i].is.id
    <3>1. PICK l \in Made : O[l] = j
      BY <1>6
    <3>2. reply[j].is = results[l].is /\ l # k
      BY <1>4, <1>7, <2>1, <3>1
    <3>3. results[l].is.id # results[k].is.id
      BY <3>2 DEF MadeSoFar, Made
    <3> QED BY <2>2, <3>2, <3>3
  <2> QED BY <1>8, <1>9, <2>1, <2>2, <2>3
<1>11. Held' = Held \cup {reply[i].is.id : i \in created}
  <2>1. Held' = Held \cup {results[k].is.id : k \in Made}
    BY DEF MadeSoFar, Held, Made
  <2>2. \A k \in Made : O[k] \in created /\ reply[O[k]].is.id = results[k].is.id
    BY <1>4, <1>7
  <2>3. \A i \in created : \E k \in Made : reply[i].is.id = results[k].is.id
    BY <1>6, <2>2
  <2> QED BY <2>1, <2>2, <2>3
<1>12. \A id \in Held : closet'[id] = closet[id]
  BY DEF MadeSoFar
<1> QED
  BY <1>2, <1>5, <1>10, <1>11, <1>12 DEF BatchEntriesAnswered, created

(* What BatchAnswered says of a step. *)
BatchStep ==
    (call = None /\ call' # None /\ call'.tool = "batch_add_items") =>
        ("results" \in DOMAIN answer' => BatchEntriesAnswered)

LEMMA BatchIsAnswered ==
    ASSUME IInv, [Next]_vars
    PROVE  BatchStep
<1>0. ASSUME ~BatchAddItems PROVE BatchStep
  <2>1. CASE AddItem
    BY <2>1, AddItemDoes DEF IInv, BatchStep
  <2>2. CASE UpdateItem
    <3>1. PICK id \in Ids \cup {BadId}, patch \in Patches :
            call' = [tool |-> "update_item", id |-> id, patch |-> patch]
      BY <2>2, UpdateDoes DEF IInv
    <3> QED BY <3>1 DEF BatchStep
  <2>3. CASE RemoveItem
    BY <2>3, RemoveDoes DEF BatchStep
  <2>4. CASE QueryClosetItems \/ ScanClause \/ ListCategoryItems \/ GetClosetSummary \/ Visit
    BY <2>4, ReadsDo DEF BatchStep
  <2>5. CASE Read
    BY <2>5 DEF Read, BatchStep
  <2>6. CASE UNCHANGED vars
    BY <2>6 DEF vars, BatchStep
  <2> QED BY <1>0, <2>1, <2>2, <2>3, <2>4, <2>5, <2>6 DEF Next
<1>1. CASE BatchAddItems
  <2> DEFINE made(raws) == CreateItems(Payloads(raws))[Len(Payloads(raws))]
             all(raws) == ShapeFailures(raws) \cup ToSet(Positions(raws, made(raws).results))
  <2>1. PICK raws \in Batches :
          /\ call' = [tool |-> "batch_add_items", raws |-> raws]
          /\ \/ closet' = closet /\ answer' = Invalid
             \/ /\ closet' = made(raws).closet
                /\ answer' = [results |-> SortedBy(all(raws), [r \in all(raws) |-> r.index])]
    BY <1>1, BatchDoes DEF IInv
  <2>2. CASE answer' = Invalid
    <3>1. "results" \notin DOMAIN Invalid
      BY DEF Invalid, Refused
    <3> QED BY <2>2, <3>1 DEF BatchStep
  <2>3. CASE /\ closet' = made(raws).closet
             /\ answer' = [results |-> SortedBy(all(raws), [r \in all(raws) |-> r.index])]
    <3> DEFINE S == all(raws)
               reply == SortedBy(S, [r \in S |-> r.index])
               results == made(raws).results
    <3>1. MadeSoFar(results, closet', Payloads(raws), Len(Payloads(raws)))
      BY <2>3, BatchMakes DEF IInv, Are
    <3>2. S = ShapeFailures(raws) \cup ToSet(Positions(raws, results))
      OBVIOUS
    <3>3. call'.raws = raws /\ answer'.results = reply
      BY <2>1, <2>3
    <3> HIDE DEF results, S, made, all
    <3>4. /\ DOMAIN reply = DOMAIN raws
          /\ \A i \in DOMAIN raws : reply[i] = Answer(raws, results, i)
      BY <3>1, <3>2, BatchReply
    <3> HIDE DEF reply
    <3>5. BatchEntriesAnswered
      BY <3>1, <3>3, <3>4, BatchEntries DEF IInv
    <3> QED BY <3>5 DEF BatchStep
  <2> QED BY <2>1, <2>2, <2>3
<1> QED BY <1>0, <1>1

(* For every batch, in which any entries may be of the wrong shape and any may *)
(* be refused by the service: each result is at its entry's place and tells    *)
(* what became of that entry.                                                  *)
THEOREM BatchAnsweredOK == Spec => BatchAnswered
<1>1. IInv /\ [Next]_vars => [BatchStep]_vars
  BY BatchIsAnswered
<1>2. BatchAnswered <=> [][BatchStep]_vars
  BY PTL DEF BatchAnswered, BatchStep
<1> QED BY <1>1, <1>2, IInvOK, PTL DEF Spec

-----------------------------------------------------------------------------
(* Reads. *)

(* The user's rows are one for each item, whoever else has rows. *)
LEMMA RowsAre ==
    ASSUME ClosetSound
    PROVE  /\ IsFiniteSet(Rows) /\ Cardinality(Rows) = Cardinality(Held)
           /\ {r \in View : r.user = User} = Rows
<1> DEFINE row == [id \in Held |-> [id |-> id, user |-> User, item |-> closet[id]]]
<1>1. IsFiniteSet(Held)
  <2>1. IsFiniteSet(Ids) /\ Held \in SUBSET Ids
    BY IdsAssumption DEF ClosetSound
  <2> QED BY <2>1, FS_Subset
<1>2. row \in Bijection(Held, Rows)
  <2>1. row \in [Held -> Rows]
    BY DEF Rows
  <2>2. \A a, b \in Held : row[a] = row[b] => a = b
    OBVIOUS
  <2>3. \A r \in Rows : \E id \in Held : row[id] = r
    BY DEF Rows
  <2> HIDE DEF row
  <2> QED BY <2>1, <2>2, <2>3, Zenon DEF Bijection, Injection, Surjection, IsInjective
<1>3. ExistsBijection(Held, Rows)
  <2> HIDE DEF row
  <2> QED BY <1>2 DEF ExistsBijection
<1>4. \A r \in Rows : r.user = User
  BY DEF Rows
<1>5. {r \in View : r.user = User} = Rows
  BY <1>4, OtherRowsAssumption DEF View
<1> QED BY <1>1, <1>3, <1>5, FS_Bijection

(* What is kept of some rows is all of them, or as many as the limit. *)
LEMMA AnswersAre ==
    ASSUME NEW rows, IsFiniteSet(rows), NEW limit \in Nat, NEW a \in Answers(rows, limit)
    PROVE  /\ a.items \subseteq rows /\ a.count = Cardinality(a.items)
           /\ IF a.truncated THEN a.count = limit ELSE a.items = rows
<1> DEFINE n == IF Cardinality(rows) < limit THEN Cardinality(rows) ELSE limit
<1>1. PICK kept \in kSubset(n, rows) :
        a = [items |-> kept, count |-> n, truncated |-> (n = limit)]
  BY DEF Answers
<1>2. kept \in SUBSET rows /\ Cardinality(kept) = n
  BY <1>1 DEF kSubset
<1>3. Cardinality(rows) \in Nat
  BY FS_CardinalityType
<1>4. n # limit => Cardinality(rows) = n
  BY <1>3
<1> HIDE DEF n
<1>5. n # limit => kept = rows
  BY <1>2, <1>4, FS_Subset
<1> QED BY <1>1, <1>2, <1>5

(* The counts by a key add up to the number of things that have one. *)
LEMMA CountsAdd ==
    ASSUME NEW key, IsFiniteSet(DOMAIN key)
    PROVE  SumOf(CountBy(key)) = Cardinality(DOMAIN key)
<1> DEFINE D == DOMAIN key
           K == {key[r] : r \in D}
           group == [k \in K |-> {r \in D : key[r] = k}]
           c == CountBy(key)
           B == [k \in K |-> CHOOSE f : f \in Bijection(1..c[k], group[k])]
           U == UNION {{k} \X (1..c[k]) : k \in DOMAIN c}
           F == [p \in U |-> B[p[1]][p[2]]]
<1>1. DOMAIN c = K /\ \A k \in K : c[k] = Cardinality(group[k])
  BY DEF CountBy
<1>2. ASSUME NEW k \in K PROVE B[k] \in Bijection(1..c[k], group[k])
  <2>1. group[k] \in SUBSET D
    OBVIOUS
  <2> HIDE DEF D, K, group, c
  <2>2. IsFiniteSet(group[k])
    BY <2>1, FS_Subset DEF D
  <2>3. ExistsBijection(1..Cardinality(group[k]), group[k])
    BY <2>2, FS_CardinalityType
  <2>4. \E f : f \in Bijection(1..c[k], group[k])
    BY <1>1, <2>3 DEF ExistsBijection
  <2> QED BY <2>4
<1>3. \A r \in D : key[r] \in K /\ r \in group[key[r]]
  OBVIOUS
<1>4. \A k \in K : group[k] \subseteq D /\ \A r \in group[k] : key[r] = k
  OBVIOUS
<1>5. \A p : p \in U <=> \E k \in K : \E i \in 1..c[k] : p = <<k, i>>
  <2> HIDE DEF c
  <2> QED BY <1>1
<1>6. \A p \in U : F[p] = B[p[1]][p[2]]
  OBVIOUS
<1>7. F = [p \in U |-> F[p]]
  OBVIOUS
<1> HIDE DEF D, K, group, c, B, U, F
<1>8. \A k \in K : /\ \A i \in 1..c[k] : B[k][i] \in group[k]
                   /\ \A i, j \in 1..c[k] : B[k][i] = B[k][j] => i = j
                   /\ \A r \in group[k] : \E i \in 1..c[k] : B[k][i] = r
  BY <1>2 DEF Bijection, Injection, Surjection, IsInjective
<1>9. F \in [U -> D]
  <2>1. ASSUME NEW p \in U PROVE F[p] \in D
    BY <1>4, <1>5, <1>6, <1>8
  <2> QED BY <1>7, <2>1
<1>10. ASSUME NEW p \in U, NEW q \in U, F[p] = F[q] PROVE p = q
  <2>01. PICK k \in K : \E i \in 1..c[k] : p = <<k, i>>
    BY <1>5
  <2>02. PICK l \in K : \E j \in 1..c[l] : q = <<l, j>>
    BY <1>5
  <2>1. PICK i \in 1..c[k] : p = <<k, i>>
    BY <2>01
  <2>2. PICK j \in 1..c[l] : q = <<l, j>>
    BY <2>02
  <2>3. B[k][i] = B[l][j] /\ B[k][i] \in group[k] /\ B[l][j] \in group[l]
    BY <1>6, <1>8, <1>10, <2>1, <2>2
  <2>4. k = l
    BY <1>4, <2>3
  <2>5. i = j
    BY <1>8, <2>3, <2>4
  <2> QED BY <2>1, <2>2, <2>4, <2>5
<1>11. ASSUME NEW r \in D PROVE \E p \in U : F[p] = r
  <2>1. key[r] \in K /\ r \in group[key[r]]
    BY <1>3
  <2>2. PICK i \in 1..c[key[r]] : B[key[r]][i] = r
    BY <2>1, <1>8
  <2>3. <<key[r], i>> \in U
    BY <2>1, <2>2, <1>5
  <2>4. F[<<key[r], i>>] = r
    BY <2>2, <2>3, <1>6
  <2> QED BY <2>3, <2>4
<1>12. ExistsBijection(U, D)
  <2>1. F \in Bijection(U, D)
    BY <1>9, <1>10, <1>11, Zenon DEF Bijection, Injection, Surjection, IsInjective
  <2> QED BY <2>1 DEF ExistsBijection
<1>13. Cardinality(U) = Cardinality(D)
  <2>1. ExistsBijection(D, U)
    BY <1>12, Fun_ExistsBijSymmetric
  <2> QED BY <2>1, FS_Bijection DEF D
<1> QED BY <1>13 DEF SumOf, U, c, D

(* What a read is answered. *)
LEMMA QueryIsComplete ==
    ASSUME ClosetSound, QueryClosetItems, "items" \in DOMAIN answer'
    PROVE  Complete({r \in Rows : Holds(call.tree, 1, r.item)}, QueryLimit)'
<1>1. PICK tree \in Trees :
        /\ call' = [tool |-> "query_closet_items", tree |-> tree]
        /\ \/ answer' = Refused("unsafe_query")
           \/ answer' = Refused("database_error")
           \/ answer' \in Answers(Where(View, User, tree), QueryLimit)
  BY Zenon DEF QueryClosetItems, Reply
<1> DEFINE wanted == {r \in Rows : Holds(tree, 1, r.item)}
<1>2. answer' \in Answers(Where(View, User, tree), QueryLimit)
  BY <1>1 DEF Refused
<1>3. Where(View, User, tree) = wanted
  <2>1. Where(View, User, tree) = {r \in {s \in View : s.user = User} : Holds(tree, 1, r.item)}
    BY DEF Where
  <2> QED BY <2>1, RowsAre
<1>4. IsFiniteSet(wanted)
  <2>1. wanted \in SUBSET Rows
    OBVIOUS
  <2> HIDE DEF wanted
  <2> QED BY <2>1, RowsAre, FS_Subset
<1>5. /\ answer'.items \subseteq wanted /\ answer'.count = Cardinality(answer'.items)
      /\ IF answer'.truncated THEN answer'.count = QueryLimit ELSE answer'.items = wanted
  <2> HIDE DEF wanted
  <2> QED BY <1>2, <1>3, <1>4, AnswersAre, ReadLimitsAssumption
<1>6. call'.tree = tree
  BY <1>1
<1>7. Rows' = Rows
  BY DEF QueryClosetItems, Rows, Held
<1>8. {r \in Rows' : Holds(call'.tree, 1, r.item)} = wanted
  BY <1>6, <1>7
<1> HIDE DEF wanted
<1> QED BY <1>5, <1>8 DEF Complete

LEMMA ListingIsComplete ==
    ASSUME ClosetSound, ListCategoryItems, "items" \in DOMAIN answer'
    PROVE  Complete({r \in Rows : r.item.category = call.category}, ListingLimit)'
<1>1. PICK raw \in RawCategories :
        LET category == NormaliseCategory(raw)
            rows == {r \in View : r.user = User /\ r.item.category = category}
        IN  /\ call' = [tool |-> "list_category_items", category |-> category]
            /\ \/ answer' = Refused("unknown_category")
               \/ answer' \in Answers(rows, ListingLimit)
  BY Zenon DEF ListCategoryItems, Reply
<1> DEFINE category == NormaliseCategory(raw)
           wanted == {r \in Rows : r.item.category = category}
           rows == {r \in View : r.user = User /\ r.item.category = category}
<1>2. answer' \in Answers(rows, ListingLimit) /\ call'.category = category
  BY <1>1 DEF Refused
<1>3. rows = wanted
  <2>1. rows = {r \in {s \in View : s.user = User} : r.item.category = category}
    OBVIOUS
  <2> QED BY <2>1, RowsAre
<1>4. IsFiniteSet(wanted)
  <2>1. wanted \in SUBSET Rows
    OBVIOUS
  <2> HIDE DEF wanted
  <2> QED BY <2>1, RowsAre, FS_Subset
<1>5. /\ answer'.items \subseteq wanted /\ answer'.count = Cardinality(answer'.items)
      /\ IF answer'.truncated THEN answer'.count = ListingLimit ELSE answer'.items = wanted
  <2> HIDE DEF wanted, rows
  <2> QED BY <1>2, <1>3, <1>4, AnswersAre, ReadLimitsAssumption
<1>7. Rows' = Rows
  BY DEF ListCategoryItems, Rows, Held
<1>8. {r \in Rows' : r.item.category = call'.category} = wanted
  BY <1>2, <1>7
<1> HIDE DEF wanted
<1> QED BY <1>5, <1>8 DEF Complete

LEMMA SummaryAddsUp ==
    ASSUME ClosetSound, GetClosetSummary
    PROVE  /\ answer'.total = Cardinality(Held')
           /\ SumOf(answer'.perCategory) = answer'.total
           /\ SumOf(answer'.perFormality) = answer'.total
<1> DEFINE category == [r \in Rows |-> r.item.category]
           formality == [r \in Rows |-> IF r.item.formality = None THEN "unspecified"
                                        ELSE r.item.formality]
<1>1. answer' = Summary(Rows)
  BY RowsAre DEF GetClosetSummary, Reply
<1>2. /\ answer'.total = Cardinality(Rows)
      /\ answer'.perCategory = CountBy(category) /\ answer'.perFormality = CountBy(formality)
  BY <1>1 DEF Summary
<1>3. DOMAIN category = Rows /\ DOMAIN formality = Rows
  OBVIOUS
<1> HIDE DEF category, formality
<1>4. SumOf(CountBy(category)) = Cardinality(Rows)
      /\ SumOf(CountBy(formality)) = Cardinality(Rows)
  BY <1>3, RowsAre, CountsAdd
<1>5. Held' = Held
  BY DEF GetClosetSummary, Held
<1> QED BY <1>2, <1>4, <1>5, RowsAre

(* For every predicate, category and limit: a read tells of the caller's items *)
(* only, of all it asks for unless it says it was cut off, and the counts of a *)
(* summary add up to the closet.                                               *)
THEOREM AnswersCompleteOK == Spec => []AnswersComplete
<1>1. Init => AnswersComplete
  BY DEF Init, AnswersComplete, IsCall
<1>2. IInv /\ AnswersComplete /\ [Next]_vars => AnswersComplete'
  <2> SUFFICES ASSUME IInv, AnswersComplete, [Next]_vars PROVE AnswersComplete'
    OBVIOUS
  <2>1. CASE Next
    <3>1. (IsCall("query_closet_items") /\ "items" \in DOMAIN answer =>
             Complete({r \in Rows : Holds(call.tree, 1, r.item)}, QueryLimit))'
      BY <2>1, EachItsOwn, QueryIsComplete DEF IInv
    <3>2. (IsCall("list_category_items") /\ "items" \in DOMAIN answer =>
             Complete({r \in Rows : r.item.category = call.category}, ListingLimit))'
      BY <2>1, EachItsOwn, ListingIsComplete DEF IInv
    <3>3. (IsCall("get_closet_summary") =>
             /\ answer.total = Cardinality(Held)
             /\ SumOf(answer.perCategory) = answer.total
             /\ SumOf(answer.perFormality) = answer.total)'
      BY <2>1, EachItsOwn, SummaryAddsUp DEF IInv
    <3> QED BY <3>1, <3>2, <3>3 DEF AnswersComplete
  <2>2. CASE UNCHANGED vars
    BY <2>2 DEF AnswersComplete, IsCall, Complete, Rows, Held, vars
  <2> QED BY <2>1, <2>2
<1> QED BY <1>1, <1>2, IInvOK, PTL DEF Spec
=============================================================================
