--------------------------- MODULE WebClosetProofs ---------------------------
(***************************************************************************)
(* What the closet page shows and what its saves change, for every closet, *)
(* page size and number of clicks, edits, requests under way, losses and   *)
(* writes of the assistant.                                                *)
(*                                                                         *)
(* Select picks elements of a sequence.  What it picks is stated first, by *)
(* induction on the length of the sequence.  The invariant then comes in   *)
(* layers.  RowsInv is about the closet, and PendingInv about the ids of   *)
(* rows that are still to be inserted; FormInv and SavesInv follow what    *)
(* the user left alone from the open form into the patch that is sent;     *)
(* PageInv adds the listings under way, and Inv how the page and the       *)
(* closet differ while one request of a calm page is under way.            *)
(***************************************************************************)
EXTENDS WebCloset, FiniteSetTheorems, NaturalsInduction, WellFoundedInduction, TLAPS

-----------------------------------------------------------------------------
(* What Select picks. *)

(* What a recursive function that selects must satisfy. *)
Step(kept, s, S, n) ==
    IF n = 0 THEN <<>>
    ELSE IF s[n] \in S THEN Append(kept[n - 1], s[n]) ELSE kept[n - 1]

LEMMA LeastNat ==
    ASSUME NEW B, B \subseteq Nat, B # {}
    PROVE  \E n \in B : \A m \in Nat : m < n => m \notin B
<1>1. IsWellFoundedOn(OpToRel(<, Nat), Nat)
  BY NatLessThanWellFounded
<1>2. PICK n \in B : \A m \in B : ~(<<m, n>> \in OpToRel(<, Nat))
  BY <1>1, WFMin
<1> QED
  BY <1>2 DEF OpToRel

LEMMA KeptExists ==
    ASSUME NEW s, Len(s) \in Nat, NEW S
    PROVE  \E kept : kept = [n \in 0..Len(s) |-> Step(kept, s, S, n)]
<1> DEFINE IsKept(f, m) == f = [n \in 0..m |-> Step(f, s, S, n)]
           Bad == {m \in Nat : ~\E f : IsKept(f, m)}
<1>1. ASSUME Bad # {} PROVE FALSE
  <2>0. Bad \subseteq Nat
    OBVIOUS
  <2>1. PICK m \in Bad : \A k \in Nat : k < m => k \notin Bad
    <3> HIDE DEF Bad
    <3> QED BY <1>1, <2>0, LeastNat
  <2>2. CASE m = 0
    <3>1. IsKept([n \in 0..0 |-> <<>>], 0)
      BY DEF Step
    <3> QED BY <2>1, <2>2, <3>1
  <2>3. CASE m # 0
    <3>1. m - 1 \in Nat /\ m - 1 < m
      BY <2>1, <2>3
    <3>2. m - 1 \notin Bad
      BY <2>1, <3>1
    <3>3. PICK f : IsKept(f, m - 1)
      BY <3>1, <3>2
    <3> DEFINE g == [n \in 0..m |-> IF n = m THEN Step(f, s, S, m) ELSE f[n]]
    <3>4. IsKept(g, m)
      <4>1. ASSUME NEW n \in 0..m PROVE g[n] = Step(g, s, S, n)
        <5>1. CASE n = m
          <6>1. m - 1 \in 0..m /\ m - 1 # m
            BY <3>1
          <6>2. g[m - 1] = f[m - 1]
            BY <6>1
          <6>3. g[m] = Step(f, s, S, m)
            BY <3>1
          <6>4. Step(f, s, S, m) = Step(g, s, S, m)
            BY <6>2, <2>3 DEF Step
          <6> QED BY <5>1, <6>3, <6>4
        <5>2. CASE n # m
          <6>1. n \in 0..(m - 1) /\ g[n] = f[n]
            BY <3>1, <5>2
          <6>2. f[n] = Step(f, s, S, n)
            BY <3>3, <6>1
          <6>3. CASE n = 0
            BY <6>1, <6>2, <6>3 DEF Step
          <6>4. CASE n # 0
            <7>1. n - 1 \in 0..m /\ n - 1 # m
              BY <6>4, <6>1, <3>1
            <7>2. g[n - 1] = f[n - 1]
              BY <7>1
            <7> HIDE DEF g
            <7>3. Step(f, s, S, n) = Step(g, s, S, n)
              BY <6>4, <7>2 DEF Step
            <7> QED BY <6>1, <6>2, <7>3
          <6> QED BY <6>3, <6>4
        <5> QED BY <5>1, <5>2
      <4>2. g = [n \in 0..m |-> g[n]]
        OBVIOUS
      <4> HIDE DEF g
      <4> QED BY <4>1, <4>2
    <3> QED BY <2>1, <3>4
  <2> QED BY <2>2, <2>3
<1>2. Len(s) \notin Bad
  BY <1>1
<1> QED BY <1>2

LEMMA KeptDef ==
    ASSUME NEW s, Len(s) \in Nat, NEW S
    PROVE  /\ DOMAIN Kept(s, S) = 0..Len(s)
           /\ \A n \in 0..Len(s) : Kept(s, S)[n] = Step(Kept(s, S), s, S, n)
<1> DEFINE P(f) == f = [n \in 0..Len(s) |-> Step(f, s, S, n)]
<1>1. \E f : P(f)
  BY KeptExists
<1>2. Kept(s, S) = CHOOSE f : P(f)
  BY DEF Kept, Step
<1>3. P(Kept(s, S))
  <2> HIDE DEF P
  <2> QED BY <1>1, <1>2
<1> DEFINE K == Kept(s, S)
<1>4. K = [n \in 0..Len(s) |-> Step(K, s, S, n)]
  BY <1>3
<1> HIDE DEF K
<1>5. DOMAIN K = 0..Len(s) /\ \A n \in 0..Len(s) : K[n] = Step(K, s, S, n)
  BY <1>4
<1> QED BY <1>5 DEF K

(* Induction up to m, with the set of the numbers reached so far. *)
LEMMA UpTo ==
    ASSUME NEW m \in Nat, NEW G, 0 \in G, \A n \in 0..(m - 1) : n \in G => n + 1 \in G
    PROVE  \A n \in 0..m : n \in G
<1> DEFINE Bad == {n \in 0..m : n \notin G}
<1>1. ASSUME Bad # {} PROVE FALSE
  <2>0. Bad \subseteq Nat
    OBVIOUS
  <2>1. PICK b \in Bad : \A k \in Nat : k < b => k \notin Bad
    <3> HIDE DEF Bad
    <3> QED BY <1>1, <2>0, LeastNat
  <2>2. b \in 0..m /\ b \notin G /\ b # 0
    BY <2>1
  <2>3. b - 1 \in 0..(m - 1) /\ b - 1 \in Nat /\ b - 1 < b
    BY <2>2
  <2>4. b - 1 \in G
    BY <2>1, <2>3
  <2>5. (b - 1) + 1 \in G
    BY <2>3, <2>4
  <2>6. (b - 1) + 1 = b
    BY <2>2
  <2> QED BY <2>2, <2>5, <2>6
<1> QED BY <1>1

LEMMA KeptStep ==
    ASSUME NEW X, NEW s \in Seq(X), NEW S
    PROVE  /\ Kept(s, S)[0] = <<>>
           /\ \A n \in 0..(Len(s) - 1) :
                Kept(s, S)[n + 1] = IF s[n + 1] \in S
                                      THEN Append(Kept(s, S)[n], s[n + 1])
                                      ELSE Kept(s, S)[n]
<1>1. Len(s) \in Nat
  OBVIOUS
<1>2. \A n \in 0..Len(s) : Kept(s, S)[n] = Step(Kept(s, S), s, S, n)
  BY <1>1, KeptDef
<1> DEFINE K == Kept(s, S)
<1> HIDE DEF K
<1>3. K[0] = <<>>
  BY <1>1, <1>2 DEF Step, K
<1>4. ASSUME NEW n \in 0..(Len(s) - 1)
      PROVE  K[n + 1] = IF s[n + 1] \in S THEN Append(K[n], s[n + 1]) ELSE K[n]
  <2>1. n + 1 \in 0..Len(s) /\ n + 1 # 0 /\ (n + 1) - 1 = n
    BY <1>1
  <2>2. K[n + 1] = Step(K, s, S, n + 1)
    BY <1>2, <2>1 DEF K
  <2> QED BY <2>1, <2>2 DEF Step
<1> QED BY <1>3, <1>4 DEF K

(* t is a part of the first n elements of s, in the same order. *)
PartOf(t, s, n) ==
    /\ Len(t) <= n
    /\ \A k \in 1..Len(t) : \E i \in 1..n : t[k] = s[i]
    /\ \A j, k \in 1..Len(t) : j < k =>
          \E h, i \in 1..n : h < i /\ t[j] = s[h] /\ t[k] = s[i]

(* What is kept of the first n elements: those that are in S, and no others. *)
LEMMA KeptSeq ==
    ASSUME NEW X, NEW s \in Seq(X), NEW S, NEW n \in 0..Len(s)
    PROVE  /\ Kept(s, S)[n] \in Seq(X)
           /\ PartOf(Kept(s, S)[n], s, n)
           /\ \A k \in 1..Len(Kept(s, S)[n]) : Kept(s, S)[n][k] \in S
           /\ \A i \in 1..n : s[i] \in S =>
                    \E k \in 1..Len(Kept(s, S)[n]) : Kept(s, S)[n][k] = s[i]
<1> DEFINE K == Kept(s, S)
           Good(m) == /\ K[m] \in Seq(X)
                      /\ Len(K[m]) <= m
                      /\ \A k \in 1..Len(K[m]) : \E i \in 1..m : s[i] \in S /\ K[m][k] = s[i]
                      /\ \A i \in 1..m : s[i] \in S => \E k \in 1..Len(K[m]) : K[m][k] = s[i]
                      /\ \A j, k \in 1..Len(K[m]) : j < k =>
                            \E h, i \in 1..m : h < i /\ K[m][j] = s[h] /\ K[m][k] = s[i]
           G == {m \in 0..Len(s) : Good(m)}
<1>0. Len(s) \in Nat
  OBVIOUS
<1>1. 0 \in G
  <2>1. K[0] = <<>>
    BY KeptStep
  <2>2. Len(<<>>) = 0 /\ <<>> \in Seq(X) /\ 1..0 = {} /\ 0 \in 0..Len(s)
    BY <1>0
  <2>3. Good(0)
    <3> HIDE DEF K
    <3> QED BY <2>1, <2>2
  <2> QED BY <2>2, <2>3
<1>2. ASSUME NEW m \in 0..(Len(s) - 1), m \in G PROVE m + 1 \in G
  <2>1. Good(m) /\ m + 1 \in 0..Len(s) /\ m \in Nat
    BY <1>0, <1>2
  <2>2. K[m + 1] = IF s[m + 1] \in S THEN Append(K[m], s[m + 1]) ELSE K[m]
    BY KeptStep
  <2>3. s[m + 1] \in X
    BY <2>1
  <2> HIDE DEF K
  <2>4. CASE s[m + 1] \notin S
    <3>1. K[m + 1] = K[m]
      BY <2>2, <2>4
    <3>2. 1..m \subseteq 1..(m + 1) /\ \A i \in 1..(m + 1) : i = m + 1 \/ i \in 1..m
      BY <2>1
    <3>3. Len(K[m]) <= m + 1
      BY <2>1
    <3>4. Good(m + 1)
      BY <2>1, <3>1, <3>2, <3>3, <2>4
    <3> QED BY <2>1, <3>4
  <2>5. CASE s[m + 1] \in S
    <3> DEFINE t == K[m]
               u == K[m + 1]
    <3>1. u = Append(t, s[m + 1]) /\ t \in Seq(X)
      BY <2>1, <2>2, <2>5
    <3> HIDE DEF t, u
    <3>2. /\ u \in Seq(X) /\ Len(u) = Len(t) + 1 /\ Len(t) \in Nat
          /\ u[Len(t) + 1] = s[m + 1]
          /\ \A k \in 1..Len(t) : u[k] = t[k]
      BY <2>3, <3>1
    <3>3. /\ Len(t) <= m
          /\ \A k \in 1..Len(t) : \E i \in 1..m : s[i] \in S /\ t[k] = s[i]
          /\ \A i \in 1..m : s[i] \in S => \E k \in 1..Len(t) : t[k] = s[i]
          /\ \A j, k \in 1..Len(t) : j < k =>
                \E h, i \in 1..m : h < i /\ t[j] = s[h] /\ t[k] = s[i]
      BY <2>1 DEF t
    <3>4. 1..m \subseteq 1..(m + 1) /\ \A i \in 1..(m + 1) : i = m + 1 \/ i \in 1..m
      BY <2>1
    <3>5. /\ 1..Len(t) \subseteq 1..Len(u) /\ Len(t) + 1 \in 1..Len(u)
          /\ \A k \in 1..Len(u) : k = Len(t) + 1 \/ k \in 1..Len(t)
      BY <3>2
    <3>6. Len(u) <= m + 1
      BY <3>2, <3>3, <2>1
    <3>7. ASSUME NEW k \in 1..Len(u) PROVE \E i \in 1..(m + 1) : s[i] \in S /\ u[k] = s[i]
      <4>1. CASE k = Len(t) + 1
        BY <4>1, <3>2, <2>5, <2>1
      <4>2. CASE k \in 1..Len(t)
        BY <4>2, <3>2, <3>3, <3>4
      <4> QED BY <4>1, <4>2, <3>5
    <3>8. ASSUME NEW i \in 1..(m + 1), s[i] \in S PROVE \E k \in 1..Len(u) : u[k] = s[i]
      <4>1. CASE i = m + 1
        BY <4>1, <3>2, <3>5
      <4>2. CASE i \in 1..m
        <5>1. PICK k \in 1..Len(t) : t[k] = s[i]
          BY <4>2, <3>3, <3>8
        <5> QED BY <5>1, <3>2, <3>5
      <4> QED BY <4>1, <4>2, <3>4
    <3>9. ASSUME NEW j \in 1..Len(u), NEW k \in 1..Len(u), j < k
          PROVE  \E h, i \in 1..(m + 1) : h < i /\ u[j] = s[h] /\ u[k] = s[i]
      <4>0. j \in 1..Len(t)
        BY <3>9, <3>2, <3>5
      <4>1. CASE k = Len(t) + 1
        <5>1. PICK h \in 1..m : t[j] = s[h]
          BY <4>0, <3>3
        <5>2. h \in 1..(m + 1) /\ m + 1 \in 1..(m + 1) /\ h < m + 1
          BY <2>1
        <5>3. u[j] = s[h] /\ u[k] = s[m + 1]
          BY <4>0, <4>1, <5>1, <3>2
        <5> QED BY <5>2, <5>3
      <4>2. CASE k \in 1..Len(t)
        <5>1. PICK h \in 1..m, i \in 1..m : h < i /\ t[j] = s[h] /\ t[k] = s[i]
          BY <4>0, <4>2, <3>3, <3>9
        <5>2. u[j] = t[j] /\ u[k] = t[k]
          BY <4>0, <4>2, <3>2
        <5> QED BY <5>1, <5>2, <3>4
      <4> QED BY <4>1, <4>2, <3>5
    <3> QED BY <2>1, <3>2, <3>6, <3>7, <3>8, <3>9 DEF u
  <2> QED BY <2>4, <2>5
<1>3. n \in G
  <2> HIDE DEF G
  <2> QED BY <1>0, <1>1, <1>2, UpTo
<1> QED BY <1>3 DEF PartOf

(* What is kept of the first n elements depends on no others. *)
LEMMA KeptSame ==
    ASSUME NEW X, NEW s \in Seq(X), NEW t \in Seq(X), NEW S, NEW T,
           NEW m \in 0..Len(s), m <= Len(t),
           \A i \in 1..m : s[i] = t[i] /\ (s[i] \in S <=> t[i] \in T)
    PROVE  \A n \in 0..m : Kept(s, S)[n] = Kept(t, T)[n]
<1> DEFINE K == Kept(s, S)
           L == Kept(t, T)
           G == {n \in 0..m : K[n] = L[n]}
<1>0. Len(s) \in Nat /\ Len(t) \in Nat /\ m \in Nat
  OBVIOUS
<1>1. K[0] = L[0]
  BY KeptStep
<1>2. ASSUME NEW n \in 0..(m - 1), n \in G PROVE n + 1 \in G
  <2>1. n \in 0..(Len(s) - 1) /\ n \in 0..(Len(t) - 1) /\ n + 1 \in 1..m /\ n + 1 \in 0..m
    BY <1>0
  <2>2. K[n + 1] = IF s[n + 1] \in S THEN Append(K[n], s[n + 1]) ELSE K[n]
    BY <2>1, KeptStep
  <2>3. L[n + 1] = IF t[n + 1] \in T THEN Append(L[n], t[n + 1]) ELSE L[n]
    BY <2>1, KeptStep
  <2>4. K[n] = L[n]
    BY <1>2
  <2> HIDE DEF K, L
  <2> QED BY <2>1, <2>2, <2>3, <2>4
<1>3. 0 \in G
  BY <1>0, <1>1
<1>4. \A n \in 0..m : n \in G
  <2> HIDE DEF G
  <2> QED BY <1>0, <1>2, <1>3, UpTo
<1> QED BY <1>4

LEMMA SubSeqIs ==
    ASSUME NEW X, NEW s \in Seq(X), NEW n \in 0..Len(s)
    PROVE  /\ SubSeq(s, 1, n) \in Seq(X)
           /\ Len(SubSeq(s, 1, n)) = n
           /\ \A i \in 1..n : SubSeq(s, 1, n)[i] = s[i]
OBVIOUS

LEMMA SeqEqual ==
    ASSUME NEW X, NEW s \in Seq(X), NEW t \in Seq(X), Len(s) = Len(t),
           \A i \in 1..Len(s) : s[i] = t[i]
    PROVE  s = t
OBVIOUS

(* More elements of s only add to the end of what is kept. *)
LEMMA KeptGrows ==
    ASSUME NEW X, NEW s \in Seq(X), NEW S, NEW n \in 0..Len(s), NEW m \in 0..Len(s), n <= m
    PROVE  /\ Len(Kept(s, S)[n]) <= Len(Kept(s, S)[m])
           /\ Kept(s, S)[n] = SubSeq(Kept(s, S)[m], 1, Len(Kept(s, S)[n]))
<1> DEFINE K == Kept(s, S)
           Good(p) == Len(K[n]) <= Len(K[p]) /\ \A i \in 1..Len(K[n]) : K[n][i] = K[p][i]
           G == {p \in 0..m : p < n \/ Good(p)}
<1>0. Len(s) \in Nat /\ m \in Nat /\ n \in Nat
  OBVIOUS
<1>1. \A p \in 0..Len(s) : K[p] \in Seq(X)
  BY KeptSeq
<1>2. K[n] \in Seq(X) /\ K[m] \in Seq(X)
  BY <1>1
<1>3. 0 \in G
  <2>1. 0 < n \/ n = 0
    BY <1>0
  <2> HIDE DEF K
  <2>2. Good(n)
    BY <1>2
  <2> QED BY <1>0, <2>1, <2>2
<1>4. ASSUME NEW p \in 0..(m - 1), p \in G PROVE p + 1 \in G
  <2>1. p \in 0..(Len(s) - 1) /\ p + 1 \in 0..m /\ p \in Nat /\ p \in 0..Len(s)
    BY <1>0
  <2>2. K[p + 1] = IF s[p + 1] \in S THEN Append(K[p], s[p + 1]) ELSE K[p]
    BY <2>1, KeptStep
  <2>3. p + 1 \in 1..Len(s) /\ s[p + 1] \in X
    BY <1>0, <2>1
  <2>4. K[p] \in Seq(X)
    BY <1>1, <2>1
  <2> HIDE DEF K
  <2>5. CASE p + 1 < n
    BY <2>1, <2>5
  <2>6. CASE p + 1 = n
    <3>1. Good(p + 1)
      BY <2>6, <1>2
    <3> QED BY <2>1, <3>1
  <2>7. CASE p >= n
    <3>1. Good(p)
      BY <1>0, <1>4, <2>7, <2>1
    <3>2. Good(p + 1)
      <4>1. CASE s[p + 1] \notin S
        BY <4>1, <3>1, <2>2
      <4>2. CASE s[p + 1] \in S
        <5>1. K[p + 1] = Append(K[p], s[p + 1])
          BY <4>2, <2>2
        <5>2. /\ Len(K[p + 1]) = Len(K[p]) + 1
              /\ \A i \in 1..Len(K[p]) : K[p + 1][i] = K[p][i]
              /\ Len(K[p]) \in Nat /\ Len(K[n]) \in Nat
          BY <5>1, <2>3, <2>4, <1>2
        <5>3. 1..Len(K[n]) \subseteq 1..Len(K[p]) /\ Len(K[n]) <= Len(K[p + 1])
          BY <5>2, <3>1
        <5> QED BY <5>2, <5>3, <3>1
      <4> QED BY <4>1, <4>2
    <3> QED BY <2>1, <3>2
  <2> QED BY <1>0, <2>1, <2>5, <2>6, <2>7
<1>5. m \in G
  <2>1. m \in 0..m
    BY <1>0
  <2> HIDE DEF G
  <2> QED BY <1>0, <1>3, <1>4, <2>1, UpTo
<1>6. Good(m)
  BY <1>0, <1>5
<1> HIDE DEF K
<1>7. /\ Len(K[n]) \in 0..Len(K[m])
      /\ SubSeq(K[m], 1, Len(K[n])) \in Seq(X)
      /\ Len(SubSeq(K[m], 1, Len(K[n]))) = Len(K[n])
      /\ \A i \in 1..Len(K[n]) : SubSeq(K[m], 1, Len(K[n]))[i] = K[m][i]
  <2>1. Len(K[n]) \in 0..Len(K[m])
    BY <1>2, <1>6
  <2> QED BY <1>2, <2>1, SubSeqIs
<1>8. K[n] = SubSeq(K[m], 1, Len(K[n]))
  BY <1>2, <1>6, <1>7, SeqEqual
<1> QED BY <1>6, <1>8 DEF K

LEMMA SelectSeqOf ==
    ASSUME NEW X, NEW s \in Seq(X), NEW S
    PROVE  /\ Select(s, S) \in Seq(X)
           /\ PartOf(Select(s, S), s, Len(s))
           /\ \A k \in 1..Len(Select(s, S)) : Select(s, S)[k] \in S
           /\ \A i \in 1..Len(s) : s[i] \in S =>
                    \E k \in 1..Len(Select(s, S)) : Select(s, S)[k] = s[i]
<1> DEFINE n == Len(s)
<1>1. n \in 0..Len(s)
  OBVIOUS
<1>2. Select(s, S) = Kept(s, S)[n]
  BY DEF Select
<1> HIDE DEF n
<1>3. /\ Kept(s, S)[n] \in Seq(X)
      /\ PartOf(Kept(s, S)[n], s, n)
      /\ \A k \in 1..Len(Kept(s, S)[n]) : Kept(s, S)[n][k] \in S
      /\ \A i \in 1..n : s[i] \in S =>
               \E k \in 1..Len(Kept(s, S)[n]) : Kept(s, S)[n][k] = s[i]
  BY <1>1, KeptSeq
<1> QED BY <1>2, <1>3 DEF n

(* Selecting from the first n elements. *)
LEMMA SelectFirst ==
    ASSUME NEW X, NEW s \in Seq(X), NEW S, NEW n \in 0..Len(s)
    PROVE  /\ Select(SubSeq(s, 1, n), S) = Kept(s, S)[n]
           /\ Select(SubSeq(s, 1, n), S)
                = SubSeq(Select(s, S), 1, Len(Select(SubSeq(s, 1, n), S)))
           /\ Len(Select(SubSeq(s, 1, n), S)) <= Len(Select(s, S))
<1> DEFINE t == SubSeq(s, 1, n)
<1>1. t \in Seq(X) /\ Len(t) = n /\ \A i \in 1..n : t[i] = s[i]
  BY SubSeqIs
<1>2. n \in 0..n /\ n \in 0..Len(t) /\ n <= Len(s) /\ Len(s) \in 0..Len(s)
  BY <1>1
<1> HIDE DEF t
<1>3. Kept(t, S)[n] = Kept(s, S)[n]
  BY <1>1, <1>2, KeptSame
<1>4. Select(t, S) = Kept(s, S)[n]
  BY <1>1, <1>3 DEF Select
<1>5. /\ Len(Kept(s, S)[n]) <= Len(Kept(s, S)[Len(s)])
      /\ Kept(s, S)[n] = SubSeq(Kept(s, S)[Len(s)], 1, Len(Kept(s, S)[n]))
  BY <1>2, KeptGrows
<1> QED BY <1>4, <1>5 DEF Select, t

LEMMA SelectAppend ==
    ASSUME NEW X, NEW s \in Seq(X), NEW x \in X, NEW S
    PROVE  Select(Append(s, x), S) = IF x \in S THEN Append(Select(s, S), x) ELSE Select(s, S)
<1> DEFINE t == Append(s, x)
           n == Len(s)
<1>1. /\ t \in Seq(X) /\ Len(t) = n + 1 /\ t[n + 1] = x /\ n \in Nat
      /\ \A i \in 1..n : t[i] = s[i]
  OBVIOUS
<1> HIDE DEF t
<1>2. n \in 0..n /\ n <= Len(t) /\ n \in 0..(Len(t) - 1)
  BY <1>1
<1>3. Kept(s, S)[n] = Kept(t, S)[n]
  BY <1>1, <1>2, KeptSame
<1>4. Kept(t, S)[n + 1] = IF t[n + 1] \in S THEN Append(Kept(t, S)[n], t[n + 1]) ELSE Kept(t, S)[n]
  BY <1>1, <1>2, KeptStep
<1> QED BY <1>1, <1>3, <1>4 DEF Select, t

(* Selecting twice is selecting from both sets. *)
LEMMA SelectTwice ==
    ASSUME NEW X, NEW s \in Seq(X), NEW S, NEW T
    PROVE  Select(Select(s, S), T) = Select(s, S \cap T)
<1> DEFINE K == Kept(s, S)
           L == Kept(s, S \cap T)
           G == {n \in 0..Len(s) : Select(K[n], T) = L[n]}
<1>0. Len(s) \in Nat
  OBVIOUS
<1>1. 0 \in G
  <2>1. K[0] = <<>> /\ L[0] = <<>>
    BY KeptStep
  <2>2. <<>> \in Seq(X) /\ Len(<<>>) = 0
    OBVIOUS
  <2>3. Select(<<>>, T) = <<>>
    BY <2>2, KeptStep DEF Select
  <2> QED BY <1>0, <2>1, <2>3
<1>2. ASSUME NEW n \in 0..(Len(s) - 1), n \in G PROVE n + 1 \in G
  <2>1. n + 1 \in 0..Len(s) /\ n \in 0..Len(s) /\ n + 1 \in 1..Len(s) /\ s[n + 1] \in X
    BY <1>0
  <2>2. K[n + 1] = IF s[n + 1] \in S THEN Append(K[n], s[n + 1]) ELSE K[n]
    BY KeptStep
  <2>3. L[n + 1] = IF s[n + 1] \in S \cap T THEN Append(L[n], s[n + 1]) ELSE L[n]
    BY KeptStep
  <2>4. K[n] \in Seq(X)
    BY <2>1, KeptSeq
  <2>5. Select(Append(K[n], s[n + 1]), T)
            = IF s[n + 1] \in T THEN Append(Select(K[n], T), s[n + 1]) ELSE Select(K[n], T)
    <3> DEFINE t == K[n]
               x == s[n + 1]
    <3>1. t \in Seq(X) /\ x \in X
      BY <2>1, <2>4
    <3> HIDE DEF t, x
    <3>2. Select(Append(t, x), T) = IF x \in T THEN Append(Select(t, T), x) ELSE Select(t, T)
      BY <3>1, SelectAppend
    <3> QED BY <3>2 DEF t, x
  <2>6. Select(K[n], T) = L[n]
    BY <1>2
  <2> HIDE DEF K, L
  <2>7. Select(K[n + 1], T) = L[n + 1]
    BY <2>2, <2>3, <2>5, <2>6
  <2> QED BY <2>1, <2>7
<1>3. Len(s) \in G
  <2>1. Len(s) \in 0..Len(s)
    BY <1>0
  <2> HIDE DEF G
  <2> QED BY <1>0, <1>1, <1>2, <2>1, UpTo
<1> QED BY <1>3 DEF Select

(* Two sets that agree on s select the same. *)
LEMMA SelectSame ==
    ASSUME NEW X, NEW s \in Seq(X), NEW S, NEW T,
           \A i \in 1..Len(s) : s[i] \in S <=> s[i] \in T
    PROVE  Select(s, S) = Select(s, T)
<1>1. Len(s) \in 0..Len(s) /\ Len(s) <= Len(s)
  OBVIOUS
<1> QED BY <1>1, KeptSame DEF Select

LEMMA SelectAll ==
    ASSUME NEW X, NEW s \in Seq(X), NEW S, NEW n \in 0..Len(s),
           \A i \in 1..n : s[i] \in S
    PROVE  Kept(s, S)[n] = SubSeq(s, 1, n)
<1> DEFINE K == Kept(s, S)
           G == {m \in 0..n : K[m] \in Seq(X) /\ Len(K[m]) = m /\ \A i \in 1..m : K[m][i] = s[i]}
<1>0. Len(s) \in Nat /\ n \in Nat
  OBVIOUS
<1>1. 0 \in G
  <2>1. K[0] = <<>>
    BY KeptStep
  <2>2. <<>> \in Seq(X) /\ Len(<<>>) = 0 /\ 1..0 = {} /\ 0 \in 0..n
    BY <1>0
  <2> HIDE DEF K
  <2> QED BY <2>1, <2>2
<1>2. ASSUME NEW m \in 0..(n - 1), m \in G PROVE m + 1 \in G
  <2>1. m \in 0..(Len(s) - 1) /\ m + 1 \in 0..n /\ m + 1 \in 1..n /\ s[m + 1] \in X /\ m \in Nat
    BY <1>0
  <2>2. K[m + 1] = IF s[m + 1] \in S THEN Append(K[m], s[m + 1]) ELSE K[m]
    BY <2>1, KeptStep
  <2>3. K[m] \in Seq(X) /\ Len(K[m]) = m /\ \A i \in 1..m : K[m][i] = s[i]
    BY <1>2
  <2> HIDE DEF K
  <2>4. K[m + 1] = Append(K[m], s[m + 1])
    BY <2>1, <2>2
  <2>5. /\ K[m + 1] \in Seq(X) /\ Len(K[m + 1]) = m + 1
        /\ K[m + 1][m + 1] = s[m + 1]
        /\ \A i \in 1..m : K[m + 1][i] = s[i]
    BY <2>1, <2>3, <2>4
  <2>6. \A i \in 1..(m + 1) : i = m + 1 \/ i \in 1..m
    BY <2>1
  <2> QED BY <2>1, <2>5, <2>6
<1>3. n \in G
  <2>1. n \in 0..n
    BY <1>0
  <2> HIDE DEF G
  <2> QED BY <1>0, <1>1, <1>2, <2>1, UpTo
<1> HIDE DEF K
<1>4. K[n] \in Seq(X) /\ Len(K[n]) = n /\ \A i \in 1..n : K[n][i] = s[i]
  BY <1>3
<1>5. K[n] = SubSeq(s, 1, n)
  BY <1>4, SubSeqIs, SeqEqual
<1> QED BY <1>5 DEF K

LEMMA SelectWhole ==
    ASSUME NEW X, NEW s \in Seq(X), NEW S, \A i \in 1..Len(s) : s[i] \in S
    PROVE  Select(s, S) = s
<1>1. Len(s) \in 0..Len(s) /\ SubSeq(s, 1, Len(s)) = s
  OBVIOUS
<1> QED BY <1>1, SelectAll DEF Select

(* All but one of the elements. *)
LEMMA SelectAllButOne ==
    ASSUME NEW X, NEW s \in Seq(X), NEW S, NEW p \in 1..Len(s),
           \A i \in 1..Len(s) : s[i] \in S <=> i # p
    PROVE  Len(Select(s, S)) = Len(s) - 1
<1> DEFINE K == Kept(s, S)
           G == {m \in 0..Len(s) : m < p \/ Len(K[m]) = m - 1}
<1>0. Len(s) \in Nat /\ p \in Nat /\ p - 1 \in 0..Len(s)
  OBVIOUS
<1>1. 0 \in G
  BY <1>0
<1>2. ASSUME NEW m \in 0..(Len(s) - 1), m \in G PROVE m + 1 \in G
  <2>1. m + 1 \in 0..Len(s) /\ m \in 0..Len(s) /\ m + 1 \in 1..Len(s) /\ s[m + 1] \in X /\ m \in Nat
    BY <1>0
  <2>2. K[m + 1] = IF s[m + 1] \in S THEN Append(K[m], s[m + 1]) ELSE K[m]
    BY KeptStep
  <2>3. K[m] \in Seq(X)
    BY <2>1, KeptSeq
  <2>4. CASE m + 1 < p
    BY <2>1, <2>4
  <2>5. CASE m + 1 = p
    <3>1. \A i \in 1..m : s[i] \in S
      BY <2>1, <2>5
    <3>2. K[m] = SubSeq(s, 1, m)
      BY <2>1, <3>1, SelectAll
    <3>3. Len(K[m]) = m
      BY <3>2, <2>1, SubSeqIs
    <3> HIDE DEF K
    <3>4. Len(K[m + 1]) = (m + 1) - 1
      BY <2>1, <2>2, <2>5, <3>3
    <3> QED BY <2>1, <3>4
  <2>6. CASE m >= p
    <3>1. Len(K[m]) = m - 1
      BY <1>0, <1>2, <2>1, <2>6
    <3> HIDE DEF K
    <3>2. s[m + 1] \in S
      BY <1>0, <2>1, <2>6
    <3>3. Len(K[m + 1]) = (m + 1) - 1
      BY <2>1, <2>2, <2>3, <3>1, <3>2
    <3> QED BY <2>1, <3>3
  <2> QED BY <1>0, <2>1, <2>4, <2>5, <2>6
<1>3. Len(s) \in G
  <2>1. Len(s) \in 0..Len(s)
    BY <1>0
  <2> HIDE DEF G
  <2> QED BY <1>0, <1>1, <1>2, <2>1, UpTo
<1> QED BY <1>0, <1>3 DEF Select

-----------------------------------------------------------------------------
(* The rows. *)

IsItem(r) == DOMAIN r = Keys \cup {"id"} /\ IsFields(r.fields)
IsList(s) == s \in Seq({r \in Range(s) : IsItem(r)})

(* The closet: items in the order of their ids, which are given out in order. *)
RowsInv ==
    /\ IsList(rows) /\ nextId \in Nat \ {0}
    /\ \A i \in DOMAIN rows : rows[i].id \in 1..(nextId - 1)
    /\ \A i, j \in DOMAIN rows : i < j => rows[i].id > rows[j].id

(* A patch does not name the id; a payload has fields. *)
IsPatch(p) == DOMAIN p \subseteq Keys /\ ("fields" \in DOMAIN p => IsFields(p["fields"]))
IsPayload(p) == IsFields(p["fields"])

(* An id that was given out for a row that is not there (yet). *)
Reserved(id) == id \in 1..(nextId - 1) /\ id \notin RowIds

(* The ways in which a step may change the closet. *)
ClosetStep ==
    /\ nextId' \in {nextId, nextId + 1}
    /\ \/ UNCHANGED rows
       \/ \E id : rows' = Without(rows, id)
       \/ \E id, p : IsPatch(p) /\ rows' = Patched(id, p)
       \/ \E id, p : Reserved(id) /\ IsPayload(p) /\ rows' = Inserted(id, p)

LEMMA ListOf ==
    ASSUME NEW X, \A x \in X : IsItem(x), NEW s \in Seq(X)
    PROVE  IsList(s)
<1>1. Len(s) \in Nat /\ DOMAIN s = 1..Len(s) /\ s = [i \in 1..Len(s) |-> s[i]]
  OBVIOUS
<1>2. \A i \in 1..Len(s) : s[i] \in {r \in Range(s) : IsItem(r)}
  BY <1>1 DEF Range
<1> QED BY <1>1, <1>2 DEF IsList

LEMMA ListIs ==
    ASSUME NEW s, IsList(s)
    PROVE  /\ Len(s) \in Nat /\ DOMAIN s = 1..Len(s)
           /\ \A i \in 1..Len(s) : IsItem(s[i])
           /\ \E X : s \in Seq(X) /\ \A x \in X : IsItem(x)
BY DEF IsList

(* What Without leaves: the elements with another id, in their order. *)
LEMMA WithoutIs ==
    ASSUME NEW s, IsList(s), NEW id
    PROVE  /\ IsList(Without(s, id))
           /\ PartOf(Without(s, id), s, Len(s))
           /\ \A k \in 1..Len(Without(s, id)) : Without(s, id)[k].id # id
           /\ \A i \in 1..Len(s) : s[i].id # id =>
                    \E k \in 1..Len(Without(s, id)) : Without(s, id)[k] = s[i]
<1> DEFINE S == {r \in Range(s) : r.id # id}
<1>1. Without(s, id) = Select(s, S)
  BY DEF Without
<1>2. /\ \A i \in 1..Len(s) : s[i].id # id => s[i] \in S
      /\ \A r \in S : r.id # id
  BY ListIs DEF Range
<1> HIDE DEF S
<1>3. PICK X : s \in Seq(X) /\ \A x \in X : IsItem(x)
  BY ListIs
<1>4. /\ Select(s, S) \in Seq(X)
      /\ PartOf(Select(s, S), s, Len(s))
      /\ \A k \in 1..Len(Select(s, S)) : Select(s, S)[k] \in S
      /\ \A i \in 1..Len(s) : s[i] \in S =>
               \E k \in 1..Len(Select(s, S)) : Select(s, S)[k] = s[i]
  <2>1. s \in Seq(X)
    BY <1>3
  <2> QED BY <2>1, SelectSeqOf
<1>5. IsList(Select(s, S))
  BY <1>3, <1>4, ListOf
<1> QED BY <1>1, <1>2, <1>4, <1>5

LEMMA WithoutNone ==
    ASSUME NEW s, IsList(s), NEW id, \A i \in 1..Len(s) : s[i].id # id
    PROVE  Without(s, id) = s
<1> DEFINE S == {r \in Range(s) : r.id # id}
<1>1. \A i \in 1..Len(s) : s[i] \in S
  BY ListIs DEF Range
<1> HIDE DEF S
<1>2. PICK X : s \in Seq(X)
  BY ListIs
<1>3. Select(s, S) = s
  BY <1>1, <1>2, SelectWhole
<1> QED BY <1>3 DEF Without, S

LEMMA GoneIsNotThere ==
    ASSUME NEW id, id \notin RowIds, IsList(rows)
    PROVE  Without(rows, id) = rows
<1>1. \A i \in 1..Len(rows) : rows[i].id # id
  BY ListIs DEF RowIds
<1> QED BY <1>1, WithoutNone

LEMMA PatchedIs ==
    ASSUME IsList(rows), NEW id, NEW p, IsPatch(p)
    PROVE  /\ IsList(Patched(id, p)) /\ Len(Patched(id, p)) = Len(rows)
           /\ \A i \in 1..Len(rows) : Patched(id, p)[i].id = rows[i].id
<1> DEFINE n == Len(rows)
           N(i) == IF rows[i].id # id THEN rows[i]
                   ELSE [k \in DOMAIN rows[i] |-> IF k \in DOMAIN p THEN p[k] ELSE rows[i][k]]
           X == {N(i) : i \in 1..n}
<1>1. n \in Nat /\ DOMAIN rows = 1..n /\ \A i \in 1..n : IsItem(rows[i])
  BY ListIs
<1>2. Patched(id, p) = [i \in 1..n |-> N(i)]
  BY <1>1 DEF Patched
<1>3. ASSUME NEW i \in 1..n PROVE N(i) \in X /\ IsItem(N(i)) /\ N(i).id = rows[i].id
  <2>1. /\ DOMAIN rows[i] = Keys \cup {"id"} /\ "id" \notin DOMAIN p
        /\ "fields" \in DOMAIN rows[i] /\ IsFields(rows[i]["fields"])
    BY <1>1 DEF IsPatch, IsItem, Keys
  <2> DEFINE m == [k \in DOMAIN rows[i] |-> IF k \in DOMAIN p THEN p[k] ELSE rows[i][k]]
  <2>2. DOMAIN m = Keys \cup {"id"} /\ m.id = rows[i].id
    BY <2>1
  <2>3. (m["fields"] = p["fields"] /\ "fields" \in DOMAIN p) \/ m["fields"] = rows[i]["fields"]
    BY <2>1
  <2> HIDE DEF m
  <2>4. IsFields(m.fields)
    BY <2>1, <2>3 DEF IsPatch
  <2>5. IsItem(m)
    BY <2>2, <2>4 DEF IsItem
  <2> QED BY <1>1, <2>2, <2>5 DEF m
<1>4. \A x \in X : IsItem(x)
  BY <1>3
<1> HIDE DEF N, X
<1>5. Patched(id, p) \in Seq(X) /\ Len(Patched(id, p)) = n
  BY <1>1, <1>2, <1>3
<1> QED BY <1>1, <1>2, <1>3, <1>4, <1>5, ListOf

LEMMA Concatenated ==
    ASSUME NEW X, NEW a \in Seq(X), NEW b \in Seq(X)
    PROVE  /\ a \o b \in Seq(X) /\ Len(a \o b) = Len(a) + Len(b)
           /\ \A i \in 1..(Len(a) + Len(b)) :
                    (a \o b)[i] = IF i <= Len(a) THEN a[i] ELSE b[i - Len(a)]
OBVIOUS

(* What is put between what is greater and what is less. *)
LEMMA Between ==
    ASSUME NEW X, NEW a \in Seq(X), NEW x \in X, NEW b \in Seq(X)
    PROVE  LET t == a \o <<x>> \o b
           IN  /\ t \in Seq(X) /\ Len(t) = Len(a) + 1 + Len(b)
               /\ \A i \in 1..Len(t) :
                    t[i] = IF i <= Len(a) THEN a[i]
                           ELSE IF i = Len(a) + 1 THEN x ELSE b[i - Len(a) - 1]
<1>1. <<x>> \in Seq(X) /\ Len(<<x>>) = 1 /\ <<x>>[1] = x
  OBVIOUS
<1> DEFINE y == <<x>>
<1> HIDE DEF y
<1>2. y \in Seq(X) /\ Len(y) = 1 /\ y[1] = x
  BY <1>1 DEF y
<1>3. /\ a \o y \in Seq(X) /\ Len(a \o y) = Len(a) + 1
      /\ \A i \in 1..(Len(a) + 1) : (a \o y)[i] = IF i <= Len(a) THEN a[i] ELSE x
  <2>1. /\ a \o y \in Seq(X) /\ Len(a \o y) = Len(a) + Len(y)
        /\ \A i \in 1..(Len(a) + Len(y)) :
                (a \o y)[i] = IF i <= Len(a) THEN a[i] ELSE y[i - Len(a)]
    BY <1>2, Concatenated
  <2>2. \A i \in 1..(Len(a) + 1) : i <= Len(a) \/ i - Len(a) = 1
    OBVIOUS
  <2> QED BY <1>2, <2>1, <2>2
<1> DEFINE c == a \o y
<1>4. /\ c \o b \in Seq(X) /\ Len(c \o b) = Len(c) + Len(b)
      /\ \A i \in 1..(Len(c) + Len(b)) : (c \o b)[i] = IF i <= Len(c) THEN c[i] ELSE b[i - Len(c)]
  <2>1. c \in Seq(X)
    BY <1>3
  <2> HIDE DEF c
  <2> QED BY <2>1, Concatenated
<1>5. a \o <<x>> \o b = c \o b
  BY DEF y
<1>6. Len(a) \in Nat /\ Len(b) \in Nat
  OBVIOUS
<1> HIDE DEF c
<1>7. c \in Seq(X) /\ Len(c) = Len(a) + 1
      /\ \A i \in 1..(Len(a) + 1) : c[i] = IF i <= Len(a) THEN a[i] ELSE x
  BY <1>3 DEF c
<1>8. ASSUME NEW i \in 1..(Len(c) + Len(b))
      PROVE  (c \o b)[i] = IF i <= Len(a) THEN a[i]
                           ELSE IF i = Len(a) + 1 THEN x ELSE b[i - Len(a) - 1]
  <2>1. CASE i <= Len(a)
    BY <1>4, <1>6, <1>7, <2>1
  <2>2. CASE i = Len(a) + 1
    BY <1>4, <1>6, <1>7, <2>2
  <2>3. CASE i > Len(a) + 1
    BY <1>4, <1>6, <1>7, <2>3
  <2> QED BY <1>6, <1>7, <2>1, <2>2, <2>3
<1> QED BY <1>4, <1>5, <1>6, <1>7, <1>8

LEMMA InsertedIs ==
    ASSUME RowsInv, NEW id, NEW p, Reserved(id), IsPayload(p)
    PROVE  LET t == Inserted(id, p)
           IN  /\ IsList(t)
               /\ \A i \in DOMAIN t : t[i].id = id \/ \E j \in DOMAIN rows : t[i] = rows[j]
               /\ \A i, j \in DOMAIN t : i < j => t[i].id > t[j].id
               /\ \A j \in DOMAIN rows : \E i \in DOMAIN t : t[i] = rows[j]
               /\ \E i \in DOMAIN t : t[i].id = id
<1> DEFINE x == [k \in Keys \cup {"id"} |-> IF k = "id" THEN id ELSE p[k]]
           A == {r \in Range(rows) : r.id > id}
           B == {r \in Range(rows) : r.id < id}
           a == Select(rows, A)
           b == Select(rows, B)
           n == Len(rows)
           t == Inserted(id, p)
<1>0. /\ n \in Nat /\ DOMAIN rows = 1..n /\ nextId \in Nat
      /\ \A i \in 1..n : rows[i].id \in Nat /\ rows[i].id # id /\ rows[i] \in Range(rows)
      /\ \A i, j \in 1..n : i < j => rows[i].id > rows[j].id
      /\ id \in Nat
  <2>1. n \in Nat /\ DOMAIN rows = 1..n
    BY ListIs DEF RowsInv
  <2>2. nextId \in Nat /\ id \in Nat /\ id \notin RowIds
    BY DEF RowsInv, Reserved
  <2>3. ASSUME NEW i \in 1..n
        PROVE  rows[i].id \in Nat /\ rows[i].id # id /\ rows[i] \in Range(rows)
    BY <2>1, <2>2 DEF RowsInv, RowIds, Range
  <2> QED BY <2>1, <2>2, <2>3 DEF RowsInv
<1>1. t = a \o <<x>> \o b
  BY DEF Inserted
<1>2. x.id = id /\ IsItem(x)
  <2>1. DOMAIN x = Keys \cup {"id"} /\ x.id = id /\ x.fields = p["fields"]
    BY DEF Keys
  <2> HIDE DEF x
  <2> QED BY <2>1 DEF IsItem, IsPayload
<1>3. /\ \A i \in 1..n : rows[i] \in A <=> rows[i].id > id
      /\ \A i \in 1..n : rows[i] \in B <=> rows[i].id < id
      /\ \A r \in A : r.id > id
      /\ \A r \in B : r.id < id
  BY <1>0
<1> HIDE DEF A, B, x, t, n
<1>2a. PICK R : rows \in Seq(R) /\ \A r \in R : IsItem(r)
  BY ListIs DEF RowsInv
<1> DEFINE X == R \cup {x}
<1>4. /\ a \in Seq(R) /\ PartOf(a, rows, n)
      /\ \A k \in 1..Len(a) : a[k] \in A
      /\ \A i \in 1..n : rows[i] \in A => \E k \in 1..Len(a) : a[k] = rows[i]
  BY <1>2a, SelectSeqOf DEF n
<1>5. /\ b \in Seq(R) /\ PartOf(b, rows, n)
      /\ \A k \in 1..Len(b) : b[k] \in B
      /\ \A i \in 1..n : rows[i] \in B => \E k \in 1..Len(b) : b[k] = rows[i]
  BY <1>2a, SelectSeqOf DEF n
<1> HIDE DEF a, b
<1>6. a \in Seq(X) /\ b \in Seq(X) /\ Len(a) \in Nat /\ Len(b) \in Nat
  BY <1>4, <1>5
<1>6a. x \in X /\ \A y \in X : IsItem(y)
  BY <1>2, <1>2a
<1> HIDE DEF X
<1>7. /\ t \in Seq(X) /\ Len(t) = Len(a) + 1 + Len(b)
      /\ \A i \in 1..Len(t) :
            t[i] = IF i <= Len(a) THEN a[i] ELSE IF i = Len(a) + 1 THEN x ELSE b[i - Len(a) - 1]
  BY <1>1, <1>6, <1>6a, Between
<1>8. DOMAIN t = 1..Len(t) /\ Len(t) \in Nat
  BY <1>7
<1>9. /\ \A k \in 1..Len(a) : \E j \in 1..n : a[k] = rows[j]
      /\ \A k \in 1..Len(b) : \E j \in 1..n : b[k] = rows[j]
  BY <1>4, <1>5 DEF PartOf
<1>10. /\ \A k \in 1..Len(a) : a[k].id > id /\ a[k].id \in Nat
       /\ \A k \in 1..Len(b) : b[k].id < id /\ b[k].id \in Nat
  BY <1>0, <1>3, <1>4, <1>5, <1>9
<1>11. /\ \A k, m \in 1..Len(a) : k < m => a[k].id > a[m].id
       /\ \A k, m \in 1..Len(b) : k < m => b[k].id > b[m].id
  <2>1. ASSUME NEW k \in 1..Len(a), NEW m \in 1..Len(a), k < m PROVE a[k].id > a[m].id
    <3>1. PICK h \in 1..n, i \in 1..n : h < i /\ a[k] = rows[h] /\ a[m] = rows[i]
      BY <1>4, <2>1 DEF PartOf
    <3> QED BY <1>0, <3>1
  <2>2. ASSUME NEW k \in 1..Len(b), NEW m \in 1..Len(b), k < m PROVE b[k].id > b[m].id
    <3>1. PICK h \in 1..n, i \in 1..n : h < i /\ b[k] = rows[h] /\ b[m] = rows[i]
      BY <1>5, <2>2 DEF PartOf
    <3> QED BY <1>0, <3>1
  <2> QED BY <2>1, <2>2
<1>12. ASSUME NEW i \in 1..Len(t)
       PROVE  \/ i <= Len(a) /\ i \in 1..Len(a) /\ t[i] = a[i]
              \/ i = Len(a) + 1 /\ t[i] = x
              \/ i > Len(a) + 1 /\ i - Len(a) - 1 \in 1..Len(b) /\ t[i] = b[i - Len(a) - 1]
  BY <1>6, <1>7
<1>13. ASSUME NEW i \in 1..Len(t)
       PROVE  t[i].id = id \/ \E j \in DOMAIN rows : t[i] = rows[j]
  <2>1. t[i] = x \/ \E j \in 1..n : t[i] = rows[j]
    BY <1>9, <1>12
  <2> QED BY <1>0, <1>2, <2>1
<1>14. ASSUME NEW i \in 1..Len(t), NEW j \in 1..Len(t), i < j PROVE t[i].id > t[j].id
  <2>1. CASE i <= Len(a)
    <3>1. i \in 1..Len(a) /\ t[i] = a[i]
      BY <1>6, <1>12, <2>1
    <3>2. CASE j <= Len(a)
      BY <1>6, <1>11, <1>12, <1>14, <3>1, <3>2
    <3>3. CASE j > Len(a)
      <4>1. t[j] = x \/ \E m \in 1..Len(b) : t[j] = b[m]
        BY <1>6, <1>12, <3>3
      <4> QED BY <1>0, <1>2, <1>10, <3>1, <4>1
    <3> QED BY <1>6, <3>2, <3>3
  <2>2. CASE i = Len(a) + 1
    BY <1>2, <1>6, <1>10, <1>12, <1>14, <2>2
  <2>3. CASE i > Len(a) + 1
    <3>1. /\ i - Len(a) - 1 \in 1..Len(b) /\ t[i] = b[i - Len(a) - 1]
          /\ j - Len(a) - 1 \in 1..Len(b) /\ t[j] = b[j - Len(a) - 1]
          /\ i - Len(a) - 1 < j - Len(a) - 1
      BY <1>6, <1>12, <1>14, <2>3
    <3> QED BY <1>11, <3>1
  <2> QED BY <1>6, <2>1, <2>2, <2>3
<1>15. ASSUME NEW j \in 1..n PROVE \E i \in 1..Len(t) : t[i] = rows[j]
  <2>1. CASE rows[j].id > id
    <3>1. PICK k \in 1..Len(a) : a[k] = rows[j]
      BY <1>3, <1>4, <2>1
    <3>2. k \in 1..Len(t) /\ t[k] = a[k]
      BY <1>6, <1>7
    <3> QED BY <3>1, <3>2
  <2>2. CASE rows[j].id < id
    <3>1. PICK k \in 1..Len(b) : b[k] = rows[j]
      BY <1>3, <1>5, <2>2
    <3> DEFINE i == Len(a) + 1 + k
    <3>2. i \in 1..Len(t) /\ i > Len(a) + 1 /\ i - Len(a) - 1 = k
      BY <1>6, <1>7
    <3> HIDE DEF i
    <3>3. t[i] = b[k]
      BY <1>6, <1>7, <3>2
    <3> QED BY <3>1, <3>2, <3>3
  <2> QED BY <1>0, <2>1, <2>2
<1>16. Len(a) + 1 \in 1..Len(t) /\ t[Len(a) + 1].id = id
  BY <1>2, <1>6, <1>7
<1>17. IsList(t)
  BY <1>6a, <1>7, ListOf
<1> QED BY <1>0, <1>8, <1>13, <1>14, <1>15, <1>16, <1>17 DEF t

LEMMA RowsInit == Init => RowsInv
<1> SUFFICES ASSUME Init PROVE RowsInv
  OBVIOUS
<1> DEFINE n == Len(InitRows)
<1>1. rows = InitRows /\ nextId = n + 1 /\ InitRows \in Seq(Range(InitRows))
  BY InitRowsAssumption DEF Init
<1>2. n \in Nat /\ DOMAIN InitRows = 1..n
  BY <1>1
<1>3. ASSUME NEW i \in 1..n PROVE IsItem(InitRows[i])
  <2>1. InitRows[i] = [k \in Keys \cup {"id"} |-> InitRows[i][k]] /\ IsFields(InitRows[i].fields)
    BY <1>2, InitRowsAssumption
  <2> QED BY <2>1 DEF IsItem
<1>4. IsList(InitRows)
  <2> DEFINE X == {r \in Range(InitRows) : IsItem(r)}
  <2>1. \A i \in 1..n : InitRows[i] \in X
    BY <1>2, <1>3 DEF Range
  <2>2. InitRows = [i \in 1..n |-> InitRows[i]]
    BY <1>1, <1>2
  <2> HIDE DEF X
  <2>3. InitRows \in Seq(X)
    BY <1>2, <2>1, <2>2
  <2> QED BY <2>3 DEF IsList, X
<1> QED
  BY <1>1, <1>2, <1>4, InitRowsAssumption DEF RowsInv

LEMMA ClosetStepInv == RowsInv /\ ClosetStep => RowsInv'
<1> SUFFICES ASSUME RowsInv, ClosetStep PROVE RowsInv'
  OBVIOUS
<1>0. /\ IsList(rows) /\ nextId \in Nat \ {0} /\ nextId' \in Nat \ {0} /\ nextId' >= nextId
      /\ DOMAIN rows = 1..Len(rows) /\ Len(rows) \in Nat
      /\ \A i \in 1..Len(rows) : rows[i].id \in 1..(nextId - 1) /\ rows[i].id \in 1..(nextId' - 1)
      /\ \A i, j \in 1..Len(rows) : i < j => rows[i].id > rows[j].id
  <2>1. IsList(rows) /\ nextId \in Nat \ {0} /\ nextId' \in {nextId, nextId + 1}
    BY DEF RowsInv, ClosetStep
  <2>2. DOMAIN rows = 1..Len(rows) /\ Len(rows) \in Nat
    BY <2>1, ListIs
  <2>3. nextId' \in Nat \ {0} /\ nextId' >= nextId
    BY <2>1
  <2>4. \A i \in 1..Len(rows) : rows[i].id \in 1..(nextId - 1)
    BY <2>2 DEF RowsInv
  <2>5. \A i \in 1..Len(rows) : rows[i].id \in 1..(nextId' - 1)
    BY <2>1, <2>3, <2>4
  <2> QED BY <2>1, <2>2, <2>3, <2>4, <2>5 DEF RowsInv
<1>1. CASE UNCHANGED rows
  BY <1>0, <1>1 DEF RowsInv
<1>2. ASSUME NEW id, rows' = Without(rows, id) PROVE RowsInv'
  <2> DEFINE w == Without(rows, id)
  <2>0. IsList(w) /\ PartOf(w, rows, Len(rows))
    BY <1>0, WithoutIs
  <2> HIDE DEF w
  <2>1. /\ \A k \in 1..Len(w) : \E i \in 1..Len(rows) : w[k] = rows[i]
        /\ \A j, k \in 1..Len(w) : j < k =>
              \E h, i \in 1..Len(rows) : h < i /\ w[j] = rows[h] /\ w[k] = rows[i]
    BY <2>0 DEF PartOf
  <2>2. DOMAIN w = 1..Len(w) /\ Len(w) \in Nat
    BY <2>0, ListIs
  <2>3. \A k \in 1..Len(w) : w[k].id \in 1..(nextId' - 1)
    BY <1>0, <2>1
  <2>4. ASSUME NEW j \in 1..Len(w), NEW k \in 1..Len(w), j < k PROVE w[j].id > w[k].id
    <3>1. PICK h \in 1..Len(rows), i \in 1..Len(rows) :
               h < i /\ w[j] = rows[h] /\ w[k] = rows[i]
      BY <2>1, <2>4
    <3> QED BY <1>0, <3>1
  <2>5. rows' = w
    BY <1>2 DEF w
  <2> QED BY <1>0, <2>0, <2>2, <2>3, <2>4, <2>5 DEF RowsInv
<1>3. ASSUME NEW id, NEW p, IsPatch(p), rows' = Patched(id, p) PROVE RowsInv'
  <2>1. /\ IsList(rows') /\ Len(rows') = Len(rows)
        /\ \A i \in 1..Len(rows) : rows'[i].id = rows[i].id
    BY <1>0, <1>3, PatchedIs
  <2>2. DOMAIN rows' = 1..Len(rows)
    BY <2>1, ListIs
  <2>3. \A i \in DOMAIN rows' : rows'[i].id \in 1..(nextId' - 1)
    BY <1>0, <2>1, <2>2
  <2>4. \A i, j \in DOMAIN rows' : i < j => rows'[i].id > rows'[j].id
    BY <1>0, <2>1, <2>2
  <2> QED BY <1>0, <2>1, <2>3, <2>4 DEF RowsInv
<1>4. ASSUME NEW id, NEW p, Reserved(id), IsPayload(p), rows' = Inserted(id, p) PROVE RowsInv'
  <2>1. /\ IsList(rows')
        /\ \A i \in DOMAIN rows' : rows'[i].id = id \/ \E j \in DOMAIN rows : rows'[i] = rows[j]
        /\ \A i, j \in DOMAIN rows' : i < j => rows'[i].id > rows'[j].id
    BY <1>4, InsertedIs
  <2>2. id \in 1..(nextId' - 1)
    BY <1>0, <1>4 DEF Reserved
  <2>3. \A i \in DOMAIN rows' : rows'[i].id \in 1..(nextId' - 1)
    BY <1>0, <2>1, <2>2
  <2> QED BY <1>0, <2>1, <2>3 DEF RowsInv
<1> QED BY <1>1, <1>2, <1>3, <1>4 DEF ClosetStep

(* What becomes of the ids that are in the closet. *)
LEMMA RowIdsStep ==
    ASSUME RowsInv
    PROVE  /\ \A id : rows' = Without(rows, id) => RowIds' \subseteq RowIds
           /\ \A id, p : IsPatch(p) /\ rows' = Patched(id, p) => RowIds' \subseteq RowIds
           /\ \A id, p : Reserved(id) /\ IsPayload(p) /\ rows' = Inserted(id, p)
                            => RowIds' \subseteq RowIds \cup {id}
<1>0. IsList(rows) /\ DOMAIN rows = 1..Len(rows)
  BY ListIs DEF RowsInv
<1>1. ASSUME NEW id, rows' = Without(rows, id) PROVE RowIds' \subseteq RowIds
  <2> DEFINE w == Without(rows, id)
  <2>1. IsList(w) /\ PartOf(w, rows, Len(rows))
    BY <1>0, WithoutIs
  <2>2. rows' = w
    BY <1>1
  <2> HIDE DEF w
  <2>3. DOMAIN w = 1..Len(w)
    BY <2>1, ListIs
  <2> QED BY <1>0, <2>1, <2>2, <2>3 DEF RowIds, PartOf
<1>2. ASSUME NEW id, NEW p, IsPatch(p), rows' = Patched(id, p) PROVE RowIds' \subseteq RowIds
  <2>1. /\ IsList(rows') /\ Len(rows') = Len(rows)
        /\ \A i \in 1..Len(rows) : rows'[i].id = rows[i].id
    BY <1>0, <1>2, PatchedIs
  <2>2. DOMAIN rows' = 1..Len(rows)
    BY <2>1, ListIs
  <2> QED BY <1>0, <2>1, <2>2 DEF RowIds
<1>3. ASSUME NEW id, NEW p, Reserved(id), IsPayload(p), rows' = Inserted(id, p)
      PROVE  RowIds' \subseteq RowIds \cup {id}
  <2>1. \A i \in DOMAIN rows' : rows'[i].id = id \/ \E j \in DOMAIN rows : rows'[i] = rows[j]
    BY <1>3, InsertedIs
  <2> QED BY <2>1 DEF RowIds
<1> QED BY <1>1, <1>2, <1>3

LEMMA RowIs ==
    ASSUME RowsInv, NEW id \in RowIds
    PROVE  IsItem(Row(id)) /\ \E n \in 1..Len(rows) : Row(id) = rows[n] /\ rows[n].id = id
<1>1. /\ DOMAIN rows = 1..Len(rows) /\ \A i \in 1..Len(rows) : IsItem(rows[i])
  BY ListIs DEF RowsInv
<1>2. \E i \in DOMAIN rows : rows[i].id = id
  BY DEF RowIds
<1>3. PICK n \in DOMAIN rows : n = CHOOSE i \in DOMAIN rows : rows[i].id = id
  BY <1>2
<1>4. rows[n].id = id
  BY <1>2, <1>3
<1> QED BY <1>1, <1>3, <1>4 DEF Row

-----------------------------------------------------------------------------
(* The form, and the requests that write. *)

FormFields == {"original", "kind", "notes", "fields", "touched"}
DeleteFields == {"click", "id", "at", "client"}
SaveFields == {"click", "original", "touched", "listed", "id", "patch", "at", "client"}

(* Inputs that nobody edited hold what the item did. *)
FormInv ==
    form # None =>
        /\ DOMAIN form = FormFields
        /\ form.original # NewItem =>
              /\ IsItem(form.original)
              /\ "kind" \notin form.touched =>
                    /\ form.kind = form.original.kind
                    /\ "fields" \notin form.touched => form.fields = form.original.fields
              /\ "notes" \notin form.touched => form.notes = form.original.notes

(* A save of an item names no key that the user left alone. *)
SaveInv(s) ==
    /\ DOMAIN s = SaveFields
    /\ IF s.original = NewItem THEN IsPayload(s.patch)
       ELSE /\ IsPatch(s.patch)
            /\ \A k \in Keys : LeftAlone(s, k) /\ GivenBack(s.original, k) =>
                    k \notin DOMAIN s.patch

SavesInv == IsFiniteSet(saves) /\ \A s \in saves : SaveInv(s)

DeletesInv == IsFiniteSet(deletes) /\ \A d \in deletes : DOMAIN d = DeleteFields

(* Items that were counted and are still to be inserted have ids of their own. *)
Adds(s) == s.at = "checked" /\ s.original = NewItem

PendingInv ==
    /\ \A s \in saves : Adds(s) => Reserved(s.id)
    /\ \A t \in assistant :
            /\ t.new => Reserved(t.id) /\ IsPayload(t.patch)
            /\ ~t.new => IsPatch(t.patch)
    /\ \A s, u \in saves : Adds(s) /\ Adds(u) /\ s.id = u.id => s = u
    /\ \A t, u \in assistant : t.new /\ u.new /\ t.id = u.id => t = u
    /\ \A s \in saves, t \in assistant : Adds(s) /\ t.new => s.id # t.id

(* A save that goes on is about what it was about. *)
Goes(s, m) ==
    /\ DOMAIN m = SaveFields
    /\ m.original = s.original /\ m.touched = s.touched /\ m.listed = s.listed
    /\ m.id = s.id /\ m.patch = s.patch

LEMMA GoesOn ==
    ASSUME NEW s, NEW m, SaveInv(s), Goes(s, m)
    PROVE  SaveInv(m)
<1>1. \A k \in Keys : LeftAlone(m, k) => LeftAlone(s, k)
  BY DEF Goes, LeftAlone
<1> QED BY <1>1 DEF Goes, SaveInv

LEMMA At ==
    ASSUME NEW s, DOMAIN s = SaveFields, NEW v
    PROVE  /\ Goes(s, [s EXCEPT !.at = v]) /\ Goes(s, [s EXCEPT !.client = v])
           /\ [s EXCEPT !.at = v].at = v /\ [s EXCEPT !.at = v].client = s.client
           /\ [s EXCEPT !.client = v].at = s.at /\ [s EXCEPT !.client = v].client = v
BY DEF Goes, SaveFields

LEMMA AnswerIs ==
    ASSUME NEW s, DOMAIN s = SaveFields, NEW v
    PROVE  /\ IsFiniteSet(Answer(s, v))
           /\ \A m \in Answer(s, v) : Goes(s, m) /\ m.at = v /\ m.client = s.client
           /\ s.client # "gone" => \E m : Answer(s, v) = {m}
<1> DEFINE m == [s EXCEPT !.at = v]
<1>1. Goes(s, m) /\ m.at = v /\ m.client = s.client
  BY At
<1> HIDE DEF m
<1>2. Answer(s, v) = IF s.client = "gone" THEN {} ELSE {m}
  BY DEF Answer, m
<1> QED BY <1>1, <1>2, FS_EmptySet, FS_Singleton

(* Taking cards and forms down leaves the requests what they are. *)
LEMMA UnmountedFinite ==
    ASSUME NEW S, IsFiniteSet(S)
    PROVE  IsFiniteSet(Unmounted(S))
<1> DEFINE U(c) == [c EXCEPT !.client = IF @ = "mounted" THEN "unmounted" ELSE @]
           g == [c \in S |-> U(c)]
           T == Unmounted(S)
<1>1. T = {g[c] : c \in S}
  BY DEF Unmounted
<1>2. g \in Surjection(S, T)
  BY <1>1 DEF Surjection
<1> HIDE DEF g, T
<1>3. IsFiniteSet(T)
  BY <1>2, FS_Surjection
<1> QED BY <1>3 DEF T

LEMMA UnmountedSaves ==
    ASSUME NEW S, \A s \in S : DOMAIN s = SaveFields
    PROVE  /\ \A m \in Unmounted(S) : \E s \in S :
                 /\ m = [s EXCEPT !.client = IF @ = "mounted" THEN "unmounted" ELSE @]
                 /\ Goes(s, m) /\ m.at = s.at /\ (s.client # "gone" => m.client # "gone")
<1> SUFFICES ASSUME NEW m \in Unmounted(S)
             PROVE  \E s \in S :
                 /\ m = [s EXCEPT !.client = IF @ = "mounted" THEN "unmounted" ELSE @]
                 /\ Goes(s, m) /\ m.at = s.at /\ (s.client # "gone" => m.client # "gone")
  OBVIOUS
<1>1. PICK s \in S : m = [s EXCEPT !.client = IF @ = "mounted" THEN "unmounted" ELSE @]
  BY DEF Unmounted
<1>2. PICK v : v = (IF s.client = "mounted" THEN "unmounted" ELSE s.client)
  OBVIOUS
<1>3. m = [s EXCEPT !.client = v]
  BY <1>1, <1>2
<1>4. Goes(s, m) /\ m.at = s.at /\ m.client = v
  BY <1>3, At
<1> QED BY <1>1, <1>2, <1>4

(* What the form makes of a value that it gives back is that value. *)
LEMMA StaysAsItIs ==
    ASSUME FormInv, form # None, form.original # NewItem, form.kind # None,
           NEW k \in Keys, k \notin form.touched,
           k = "fields" => "kind" \notin form.touched /\ categories,
           GivenBack(form.original, k)
    PROVE  Payload[k] = form.original[k]
<1>1. CASE k = "kind"
  BY <1>1 DEF FormInv, Payload
<1>2. CASE k = "notes"
  <2>1. form.notes = form.original.notes
    BY <1>2 DEF FormInv
  <2>2. Trim(form.original.notes) = form.original.notes
    BY <1>2 DEF GivenBack
  <2> QED BY <1>2, <2>1, <2>2 DEF Payload
<1>3. CASE k = "fields"
  <2> DEFINE F == form.original.fields
             Given(f) == IF f \in Flags THEN F[f] = TRUE ELSE Trim(F[f]) # None
             V(f) == IF f \in Flags THEN TRUE ELSE Trim(F[f])
             D == {g \in Template[form.kind] \cap DOMAIN F : Given(g)}
  <2>1. form.kind = form.original.kind /\ form.fields = F /\ categories /\ IsFields(F)
    BY <1>3 DEF FormInv, IsItem
  <2>2. Defs(form.kind) = Template[form.kind]
    BY <2>1 DEF Defs
  <2>3. BuildFields = [f \in D |-> V(f)]
    BY <2>1, <2>2 DEF BuildFields
  <2>4. \A f \in DOMAIN F :
            /\ f \in Template[form.original.kind]
            /\ IF f \in Flags THEN F[f] = TRUE ELSE F[f] # None /\ Trim(F[f]) = F[f]
    BY <1>3 DEF GivenBack
  <2>5. \A f \in DOMAIN F : f \in Template[form.kind] /\ Given(f) /\ V(f) = F[f]
    BY <2>1, <2>4
  <2>6. D = DOMAIN F
    BY <2>5
  <2>7. F = [f \in DOMAIN F |-> F[f]]
    BY <2>1 DEF IsFields
  <2> HIDE DEF F, V, D
  <2>8. [f \in D |-> V(f)] = F
    BY <2>5, <2>6, <2>7
  <2> QED BY <1>3, <2>3, <2>8 DEF Payload, F
<1> QED BY <1>1, <1>2, <1>3 DEF Keys

LEMMA FormInit == Init => FormInv
BY DEF Init, FormInv

LEMMA FormStep == FormInv /\ IsList(items) /\ [Next]_vars => FormInv'
<1> SUFFICES ASSUME FormInv, IsList(items), [Next]_vars PROVE FormInv'
  OBVIOUS
<1>1. CASE UNCHANGED form \/ form' = None
  BY <1>1 DEF FormInv
<1>2. CASE OpenForm
  <2>1. CASE \E i \in DOMAIN items : form' = Opened(items[i])
    <3>1. PICK i \in DOMAIN items : form' = Opened(items[i])
      BY <2>1
    <3>2. IsItem(items[i])
      BY ListIs
    <3> QED BY <3>1, <3>2 DEF FormInv, Opened, FormFields
  <2>2. CASE form' = Emptied
    BY <2>2 DEF FormInv, Emptied, FormFields
  <2> QED BY <1>2, <2>1, <2>2 DEF OpenForm
<1>3. CASE Fill
  <2>0. form # None /\ DOMAIN form = FormFields
    BY <1>3 DEF Fill, ChangeCategory, SetNotes, SetField, FormInv
  <2>1. CASE ChangeCategory
    <3>1. PICK kind, fields :
            form' = [[form EXCEPT !.kind = kind, !.fields = fields]
                        EXCEPT !.touched = @ \cup {"kind"}]
      BY <2>1 DEF ChangeCategory, Touch
    <3>2. /\ DOMAIN form' = FormFields /\ form'.original = form.original
          /\ form'.touched = form.touched \cup {"kind"} /\ form'.notes = form.notes
      BY <2>0, <3>1 DEF FormFields
    <3>3. form' # None /\ form'.original # NewItem =>
            /\ IsItem(form'.original)
            /\ "notes" \notin form'.touched => form'.notes = form'.original.notes
      BY <2>0, <3>2 DEF FormInv
    <3> QED BY <3>2, <3>3 DEF FormInv
  <2>2. CASE SetNotes
    <3>1. PICK text : form' = [[form EXCEPT !.notes = text] EXCEPT !.touched = @ \cup {"notes"}]
      BY <2>2 DEF SetNotes, Touch
    <3>2. /\ DOMAIN form' = FormFields /\ form'.original = form.original
          /\ form'.touched = form.touched \cup {"notes"}
          /\ form'.kind = form.kind /\ form'.fields = form.fields
      BY <2>0, <3>1 DEF FormFields
    <3> QED BY <2>0, <3>2 DEF FormInv
  <2>3. CASE SetField
    <3>1. PICK fields : form' = [[form EXCEPT !.fields = fields]
                                    EXCEPT !.touched = @ \cup {"fields"}]
      BY <2>3 DEF SetField, Touch
    <3>2. /\ DOMAIN form' = FormFields /\ form'.original = form.original
          /\ form'.touched = form.touched \cup {"fields"}
          /\ form'.kind = form.kind /\ form'.notes = form.notes
      BY <2>0, <3>1 DEF FormFields
    <3> QED BY <2>0, <3>2 DEF FormInv
  <2> QED BY <1>3, <2>1, <2>2, <2>3 DEF Fill
<1>4. CASE ~OpenForm /\ ~Fill
  BY <1>1, <1>4 DEF Next, Serve, Receive, vars, LoadCategories, ChangeFilter, SendMore,
         SendDelete, CloseForm, Submit, ServePage, ServeTotal, ServeDelete, CheckSave, WriteSave,
         ReceiveFirst, ReceiveMore, ReceiveDelete, ReceiveSave, AssistantChecks,
         AssistantWrites, AssistantRemoves, Lose
<1> QED BY <1>2, <1>3, <1>4

-----------------------------------------------------------------------------

(* The save that a form sends. *)
LEMMA SubmitSave ==
    ASSUME FormInv, Submit
    PROVE  \E m : saves' = saves \cup {m} /\ SaveInv(m) /\ m.at = "sent" /\ m.client = "mounted"
<1> DEFINE p == IF form.original = NewItem THEN Payload ELSE Diff(form.original, Payload)
           m == [click |-> left.clicks, original |-> form.original, touched |-> form.touched,
                 listed |-> categories, id |-> form.original.id, patch |-> p,
                 at |-> "sent", client |-> "mounted"]
<1>1. saves' = saves \cup {m} /\ form # None /\ form.kind # None
  BY DEF Submit
<1>2. /\ DOMAIN m = SaveFields /\ m.original = form.original /\ m.touched = form.touched
      /\ m.listed = categories /\ m.patch = p /\ m.at = "sent" /\ m.client = "mounted"
  BY DEF SaveFields
<1>3. DOMAIN Payload = Keys /\ IsFields(Payload["fields"])
  <2>1. DOMAIN Payload = Keys /\ Payload["fields"] = BuildFields
    BY DEF Payload, Keys
  <2>2. IsFields(BuildFields)
    BY DEF BuildFields, IsFields
  <2> QED BY <2>1, <2>2
<1>4. CASE form.original = NewItem
  <2>1. p = Payload
    BY <1>4
  <2> HIDE DEF p, m
  <2> QED BY <1>1, <1>2, <1>3, <1>4, <2>1 DEF SaveInv, IsPayload
<1>5. CASE form.original # NewItem
  <2>1. p = Diff(form.original, Payload)
    BY <1>5
  <2> HIDE DEF p, m
  <2>2. /\ DOMAIN p = {key \in Keys : form.original[key] # Payload[key]}
        /\ \A k \in DOMAIN p : p[k] = Payload[k]
    BY <2>1 DEF Diff
  <2>3. IsPatch(p)
    BY <1>3, <2>2 DEF IsPatch
  <2>4. ASSUME NEW k \in Keys, LeftAlone(m, k), GivenBack(m.original, k)
        PROVE  k \notin DOMAIN p
    <3>1. k \notin form.touched /\ (k = "fields" => "kind" \notin form.touched /\ categories)
      BY <1>2, <2>4 DEF LeftAlone
    <3>2. Payload[k] = form.original[k]
      BY <1>1, <1>2, <1>5, <2>4, <3>1, StaysAsItIs
    <3> QED BY <2>2, <3>2
  <2> QED BY <1>1, <1>2, <1>5, <2>3, <2>4 DEF SaveInv
<1> QED BY <1>4, <1>5

(* A patch stays one with what update_item adds to it. *)
LEMMA ResolvedPatch ==
    ASSUME NEW row, IsItem(row), NEW p, IsPatch(p)
    PROVE  IsPatch(Resolved(row, p))
<1> DEFINE q == Resolved(row, p)
<1>1. /\ DOMAIN q \subseteq DOMAIN p \cup {"fields"}
      /\ \A k \in DOMAIN q : q[k] = IF k \in DOMAIN p THEN p[k] ELSE row[k]
  BY DEF Resolved
<1>2. IsFields(row["fields"])
  BY DEF IsItem
<1>3. "fields" \in DOMAIN q => \/ q["fields"] = p["fields"] /\ "fields" \in DOMAIN p
                               \/ q["fields"] = row["fields"]
  BY <1>1
<1> HIDE DEF q
<1>4. IsPatch(q)
  BY <1>1, <1>2, <1>3 DEF IsPatch, Keys
<1> QED BY <1>4 DEF q

(* What update_item adds to a patch is not left alone. *)
LEMMA ResolvedIs ==
    ASSUME NEW row, IsItem(row), NEW s, SaveInv(s), s.original # NewItem,
           NEW m, DOMAIN m = SaveFields, m.original = s.original, m.touched = s.touched,
           m.listed = s.listed, m.patch = Resolved(row, s.patch)
    PROVE  SaveInv(m)
<1> DEFINE p == s.patch
           q == Resolved(row, p)
<1>1. /\ IsPatch(p)
      /\ \A k \in Keys : LeftAlone(s, k) /\ GivenBack(s.original, k) => k \notin DOMAIN p
  BY DEF SaveInv
<1>2. /\ DOMAIN q \subseteq DOMAIN p \cup {"fields"}
      /\ "kind" \notin DOMAIN p => DOMAIN q = DOMAIN p
      /\ \A k \in DOMAIN q : q[k] = IF k \in DOMAIN p THEN p[k] ELSE row[k]
  BY DEF Resolved
<1>3. IsPatch(q)
  BY <1>1, ResolvedPatch
<1>4. ASSUME NEW k \in Keys, LeftAlone(m, k), GivenBack(m.original, k) PROVE k \notin DOMAIN q
  <2>1. LeftAlone(s, k) /\ GivenBack(s.original, k)
    BY <1>4 DEF LeftAlone
  <2>2. k \notin DOMAIN p
    BY <1>1, <2>1
  <2>3. CASE k # "fields"
    BY <1>2, <2>2, <2>3
  <2>4. CASE k = "fields"
    <3>1. LeftAlone(s, "kind") /\ GivenBack(s.original, "kind") /\ "kind" \in Keys
      BY <2>1, <2>4 DEF LeftAlone, GivenBack, Keys
    <3>2. "kind" \notin DOMAIN p
      BY <1>1, <3>1
    <3> QED BY <1>2, <2>2, <3>2
  <2> QED BY <2>3, <2>4
<1> HIDE DEF p, q
<1> QED BY <1>3, <1>4 DEF SaveInv, p, q

LEMMA SavesAre ==
    ASSUME SavesInv, NEW T, IsFiniteSet(T), \A m \in T : SaveInv(m), saves' \subseteq saves \cup T
    PROVE  SavesInv'
<1>1. IsFiniteSet(saves')
  <2>1. IsFiniteSet(saves \cup T)
    BY FS_Union DEF SavesInv
  <2> QED BY <2>1, FS_Subset
<1>2. \A m \in saves' : SaveInv(m)
  BY DEF SavesInv
<1> QED BY <1>1, <1>2 DEF SavesInv

LEMMA SavesUnmounted ==
    ASSUME SavesInv, NEW S, S \subseteq saves, saves' = Unmounted(S)
    PROVE  SavesInv'
<1>1. IsFiniteSet(saves')
  <2>1. IsFiniteSet(S)
    BY FS_Subset DEF SavesInv
  <2> QED BY <2>1, UnmountedFinite
<1>2. \A m \in saves' : \E s \in S : Goes(s, m)
  BY UnmountedSaves DEF SavesInv, SaveInv
<1>3. \A m \in saves' : SaveInv(m)
  BY <1>2, GoesOn DEF SavesInv
<1> QED BY <1>1, <1>3 DEF SavesInv

(* The three outcomes of a save's first statement. *)
LEMMA CheckIs ==
    ASSUME RowsInv, SavesInv, CheckSave
    PROVE  \E s \in saves : \E m :
              /\ s.at = "sent" /\ SaveInv(s) /\ SaveInv(m)
              /\ m.original = s.original /\ m.client = s.client /\ UNCHANGED <<rows, assistant>>
              /\ \/ /\ saves' = (saves \ {s}) \cup {m} /\ m.at = "checked" /\ m.id = nextId
                    /\ nextId' = nextId + 1
                 \/ /\ saves' = (saves \ {s}) \cup {m} /\ m.at = "checked"
                    /\ m.original # NewItem /\ UNCHANGED nextId
                 \/ /\ saves' = (saves \ {s}) \cup Answer(s, "refused") /\ m.at = "refused"
                    /\ (s.client # "gone" => Answer(s, "refused") = {m})
                    /\ UNCHANGED nextId
<1>1. PICK s \in saves :
        /\ s.at = "sent"
        /\ \/ /\ s.original = NewItem
              /\ saves' = (saves \ {s}) \cup {[s EXCEPT !.at = "checked", !.id = nextId]}
              /\ nextId' = nextId + 1
           \/ /\ s.original # NewItem /\ s.id \in RowIds
              /\ saves' = (saves \ {s}) \cup
                    {[s EXCEPT !.at = "checked", !.patch = Resolved(Row(s.id), s.patch)]}
              /\ UNCHANGED nextId
           \/ /\ saves' = (saves \ {s}) \cup Answer(s, "refused")
              /\ UNCHANGED nextId
        /\ UNCHANGED <<rows, assistant>>
  BY DEF CheckSave
<1>2. SaveInv(s) /\ DOMAIN s = SaveFields
  BY DEF SavesInv, SaveInv
<1>3. ASSUME s.original = NewItem, nextId' = nextId + 1,
             saves' = (saves \ {s}) \cup {[s EXCEPT !.at = "checked", !.id = nextId]}
      PROVE  \E m : /\ SaveInv(m) /\ m.original = s.original /\ m.client = s.client
                    /\ saves' = (saves \ {s}) \cup {m} /\ m.at = "checked" /\ m.id = nextId
  <2> DEFINE m == [s EXCEPT !.at = "checked", !.id = nextId]
  <2>1. /\ DOMAIN m = SaveFields /\ m.original = s.original /\ m.client = s.client
        /\ m.patch = s.patch /\ m.at = "checked" /\ m.id = nextId
    BY <1>2 DEF SaveFields
  <2>2. saves' = (saves \ {s}) \cup {m}
    BY <1>3
  <2> HIDE DEF m
  <2> QED BY <1>2, <1>3, <2>1, <2>2 DEF SaveInv
<1>4. ASSUME s.original # NewItem, s.id \in RowIds,
             saves' = (saves \ {s}) \cup
                 {[s EXCEPT !.at = "checked", !.patch = Resolved(Row(s.id), s.patch)]}
      PROVE  \E m : /\ SaveInv(m) /\ m.original = s.original /\ m.client = s.client
                    /\ saves' = (saves \ {s}) \cup {m} /\ m.at = "checked"
  <2> DEFINE m == [s EXCEPT !.at = "checked", !.patch = Resolved(Row(s.id), s.patch)]
  <2>1. /\ DOMAIN m = SaveFields /\ m.original = s.original /\ m.client = s.client
        /\ m.touched = s.touched /\ m.listed = s.listed
        /\ m.patch = Resolved(Row(s.id), s.patch) /\ m.at = "checked"
    BY <1>2 DEF SaveFields
  <2>2. saves' = (saves \ {s}) \cup {m}
    BY <1>4
  <2> HIDE DEF m
  <2>3. IsItem(Row(s.id))
    BY <1>4, RowIs
  <2>4. SaveInv(m)
    BY <1>2, <1>4, <2>1, <2>3, ResolvedIs
  <2> QED BY <2>1, <2>2, <2>4
<1>5. \E m : /\ SaveInv(m) /\ m.original = s.original /\ m.client = s.client /\ m.at = "refused"
             /\ (s.client # "gone" => Answer(s, "refused") = {m})
  <2>1. PICK m : m = [s EXCEPT !.at = "refused"]
    OBVIOUS
  <2>2. Goes(s, m) /\ m.at = "refused" /\ m.client = s.client
    BY <1>2, <2>1, At
  <2>3. SaveInv(m)
    BY <1>2, <2>2, GoesOn
  <2>4. s.client # "gone" => Answer(s, "refused") = {m}
    BY <2>1 DEF Answer
  <2> QED BY <2>2, <2>3, <2>4 DEF Goes
<1>6. CASE s.original = NewItem /\ nextId' = nextId + 1
             /\ saves' = (saves \ {s}) \cup {[s EXCEPT !.at = "checked", !.id = nextId]}
  BY <1>1, <1>2, <1>3, <1>6
<1>7. CASE s.original # NewItem /\ s.id \in RowIds /\ UNCHANGED nextId
             /\ saves' = (saves \ {s}) \cup
                 {[s EXCEPT !.at = "checked", !.patch = Resolved(Row(s.id), s.patch)]}
  BY <1>1, <1>2, <1>4, <1>7
<1>8. CASE saves' = (saves \ {s}) \cup Answer(s, "refused") /\ UNCHANGED nextId
  BY <1>1, <1>2, <1>5, <1>8
<1> QED BY <1>1, <1>6, <1>7, <1>8

LEMMA SavesStep == RowsInv /\ FormInv /\ SavesInv /\ [Next]_vars => SavesInv'
<1> SUFFICES ASSUME RowsInv, FormInv, SavesInv, [Next]_vars PROVE SavesInv'
  OBVIOUS
<1>0. IsFiniteSet({}) /\ \A m : IsFiniteSet({m})
  BY FS_EmptySet, FS_Singleton
<1>1. CASE saves' \subseteq saves
  <2>1. saves' \subseteq saves \cup {}
    BY <1>1
  <2> QED BY <1>0, <2>1, SavesAre
<1>2. CASE Submit
  <2>1. PICK m : saves' = saves \cup {m} /\ SaveInv(m)
    BY <1>2, SubmitSave
  <2>2. saves' \subseteq saves \cup {m} /\ \A x \in {m} : SaveInv(x)
    BY <2>1
  <2> QED BY <1>0, <2>2, SavesAre
<1>3. CASE CloseForm
  BY <1>3, SavesUnmounted DEF CloseForm
<1>4. CASE ReceiveSave
  <2>1. PICK s \in saves : saves' = Unmounted(saves \ {s}) \/ saves' = saves \ {s}
    BY <1>4 DEF ReceiveSave
  <2>2. CASE saves' = saves \ {s}
    BY <1>1, <2>2
  <2>3. CASE saves' = Unmounted(saves \ {s})
    <3>1. saves \ {s} \subseteq saves
      OBVIOUS
    <3> QED BY <2>3, <3>1, SavesUnmounted
  <2> QED BY <2>1, <2>2, <2>3
<1>5. CASE CheckSave
  <2>1. PICK s, m :
              /\ s \in saves
              /\ SaveInv(s) /\ SaveInv(m)
              /\ \/ saves' = (saves \ {s}) \cup {m}
                 \/ saves' = (saves \ {s}) \cup Answer(s, "refused")
    BY <1>5, CheckIs
  <2>2. CASE saves' = (saves \ {s}) \cup {m}
    <3>1. saves' \subseteq saves \cup {m} /\ \A x \in {m} : SaveInv(x)
      BY <2>1, <2>2
    <3> QED BY <1>0, <3>1, SavesAre
  <2>3. CASE saves' = (saves \ {s}) \cup Answer(s, "refused")
    <3> DEFINE T == Answer(s, "refused")
    <3>1. DOMAIN s = SaveFields
      BY <2>1 DEF SaveInv
    <3>2. IsFiniteSet(T) /\ \A x \in T : SaveInv(x)
      BY <2>1, <3>1, AnswerIs, GoesOn
    <3>3. saves' \subseteq saves \cup T
      BY <2>3
    <3> HIDE DEF T
    <3> QED BY <3>2, <3>3, SavesAre
  <2> QED BY <2>1, <2>2, <2>3
<1>6. CASE WriteSave
  <2>1. PICK s, v : s \in saves /\ saves' = (saves \ {s}) \cup Answer(s, v)
    BY <1>6 DEF WriteSave
  <2> DEFINE T == Answer(s, v)
  <2>2. SaveInv(s) /\ DOMAIN s = SaveFields
    BY <2>1 DEF SavesInv, SaveInv
  <2>3. IsFiniteSet(T) /\ \A x \in T : SaveInv(x)
    BY <2>2, AnswerIs, GoesOn
  <2>4. saves' \subseteq saves \cup T
    BY <2>1
  <2> HIDE DEF T
  <2> QED BY <2>3, <2>4, SavesAre
<1>7. CASE Lose
  <2>1. \/ saves' \subseteq saves
        \/ \E s \in saves : saves' = (saves \ {s}) \cup {[s EXCEPT !.client = "gone"]}
    BY <1>7 DEF Lose
  <2>2. ASSUME NEW s \in saves, saves' = (saves \ {s}) \cup {[s EXCEPT !.client = "gone"]}
        PROVE  SavesInv'
    <3>1. PICK m : m = [s EXCEPT !.client = "gone"]
      OBVIOUS
    <3>2. SaveInv(s) /\ DOMAIN s = SaveFields
      BY DEF SavesInv, SaveInv
    <3>3. SaveInv(m)
      BY <3>1, <3>2, At, GoesOn
    <3>4. saves' \subseteq saves \cup {m} /\ \A x \in {m} : SaveInv(x)
      BY <2>2, <3>1, <3>3
    <3> QED BY <1>0, <3>4, SavesAre
  <2> QED BY <1>1, <2>1, <2>2
<1>8. CASE ~Submit /\ ~CloseForm /\ ~ReceiveSave /\ ~CheckSave /\ ~WriteSave /\ ~Lose
  <2>1. saves' = saves
    BY <1>8 DEF Next, Serve, Receive, Fill, Touch, vars, LoadCategories, ChangeFilter, SendMore,
         SendDelete, OpenForm, ChangeCategory, SetNotes, SetField, ServePage, ServeTotal,
         ServeDelete, ReceiveFirst, ReceiveMore, ReceiveDelete, AssistantChecks,
         AssistantWrites, AssistantRemoves
  <2> QED BY <1>1, <2>1
<1> QED BY <1>2, <1>3, <1>4, <1>5, <1>6, <1>7, <1>8

-----------------------------------------------------------------------------
(* Deletes under way. *)

LEMMA DeleteAt ==
    ASSUME NEW d, DOMAIN d = DeleteFields, NEW v
    PROVE  /\ DOMAIN [d EXCEPT !.at = v] = DeleteFields
           /\ [d EXCEPT !.at = v].at = v /\ [d EXCEPT !.at = v].id = d.id
           /\ [d EXCEPT !.at = v].client = d.client
           /\ DOMAIN [d EXCEPT !.client = v] = DeleteFields
BY DEF DeleteFields

LEMMA DeletesAre ==
    ASSUME DeletesInv, NEW T, IsFiniteSet(T), \A d \in T : DOMAIN d = DeleteFields,
           deletes' \subseteq deletes \cup T
    PROVE  DeletesInv'
<1>1. IsFiniteSet(deletes \cup T)
  BY FS_Union DEF DeletesInv
<1>2. IsFiniteSet(deletes')
  BY <1>1, FS_Subset
<1> QED BY <1>2 DEF DeletesInv

LEMMA UnmountedDeletes ==
    ASSUME DeletesInv, NEW S, S \subseteq deletes
    PROVE  IsFiniteSet(Unmounted(S)) /\ \A d \in Unmounted(S) : DOMAIN d = DeleteFields
<1>1. IsFiniteSet(S)
  BY FS_Subset DEF DeletesInv
<1>2. ASSUME NEW d \in Unmounted(S) PROVE DOMAIN d = DeleteFields
  BY <1>2 DEF Unmounted, DeletesInv
<1> QED BY <1>1, <1>2, UnmountedFinite

LEMMA DeletesStep == DeletesInv /\ [Next]_vars => DeletesInv'
<1> SUFFICES ASSUME DeletesInv, [Next]_vars PROVE DeletesInv'
  OBVIOUS
<1>0. IsFiniteSet({}) /\ \A m : IsFiniteSet({m})
  BY FS_EmptySet, FS_Singleton
<1>1. CASE deletes' \subseteq deletes
  <2>1. deletes' \subseteq deletes \cup {}
    BY <1>1
  <2> QED BY <1>0, <2>1, DeletesAre
<1>2. ASSUME NEW d, DOMAIN d = DeleteFields, deletes' \subseteq deletes \cup {d} PROVE DeletesInv'
  <2>1. \A x \in {d} : DOMAIN x = DeleteFields
    BY <1>2
  <2> QED BY <1>0, <1>2, <2>1, DeletesAre
<1>3. ASSUME NEW S, S \subseteq deletes, deletes' \subseteq deletes \cup Unmounted(S)
      PROVE  DeletesInv'
  BY <1>3, UnmountedDeletes, DeletesAre
<1>4. CASE ChangeFilter \/ ReceiveSave
  <2>1. deletes' = Unmounted(deletes) \/ deletes' = deletes
    BY <1>4 DEF ChangeFilter, ReceiveSave, Load
  <2> QED BY <1>1, <1>3, <2>1
<1>5. CASE SendDelete
  <2>1. PICK i \in DOMAIN items :
            deletes' = deletes \cup {[click |-> left.clicks, id |-> items[i].id,
                                      at |-> "sent", client |-> "mounted"]}
    BY <1>5 DEF SendDelete
  <2>2. PICK d : d = [click |-> left.clicks, id |-> items[i].id, at |-> "sent",
                      client |-> "mounted"]
    OBVIOUS
  <2>3. DOMAIN d = DeleteFields /\ deletes' \subseteq deletes \cup {d}
    BY <2>1, <2>2 DEF DeleteFields
  <2> QED BY <1>2, <2>3
<1>6. CASE ReceiveDelete
  <2>1. PICK d \in deletes :
            deletes' = {c \in deletes \ {d} : c.id # d.id}
                         \cup Unmounted({c \in deletes \ {d} : c.id = d.id})
    BY <1>6 DEF ReceiveDelete
  <2> DEFINE S == {c \in deletes \ {d} : c.id = d.id}
  <2>2. S \subseteq deletes /\ deletes' \subseteq deletes \cup Unmounted(S)
    BY <2>1
  <2> HIDE DEF S
  <2> QED BY <1>3, <2>2
<1>7. CASE ServeDelete
  <2>1. PICK d, v : d \in deletes /\ deletes' = (deletes \ {d}) \cup Answer(d, v)
    BY <1>7 DEF ServeDelete
  <2>2. DOMAIN [d EXCEPT !.at = v] = DeleteFields
    BY <2>1, DeleteAt DEF DeletesInv
  <2>3. deletes' \subseteq deletes \cup {[d EXCEPT !.at = v]}
    BY <2>1 DEF Answer
  <2>4. PICK m : m = [d EXCEPT !.at = v]
    OBVIOUS
  <2> QED BY <1>2, <2>2, <2>3, <2>4
<1>8. CASE Lose
  <2>1. \/ deletes' \subseteq deletes
        \/ \E d \in deletes : deletes' = (deletes \ {d}) \cup {[d EXCEPT !.client = "gone"]}
    BY <1>8 DEF Lose
  <2>2. ASSUME NEW d \in deletes, deletes' = (deletes \ {d}) \cup {[d EXCEPT !.client = "gone"]}
        PROVE  DeletesInv'
    <3>1. DOMAIN [d EXCEPT !.client = "gone"] = DeleteFields
      BY DeleteAt DEF DeletesInv
    <3>2. PICK m : m = [d EXCEPT !.client = "gone"]
      OBVIOUS
    <3> QED BY <1>2, <2>2, <3>1, <3>2
  <2> QED BY <1>1, <2>1, <2>2
<1>9. CASE ~ChangeFilter /\ ~ReceiveSave /\ ~SendDelete /\ ~ReceiveDelete /\ ~ServeDelete /\ ~Lose
  <2>1. deletes' = deletes
    BY <1>9 DEF Next, Serve, Receive, Fill, Touch, vars, LoadCategories, SendMore, CloseForm,
         Submit,
         OpenForm, ChangeCategory, SetNotes, SetField, ServePage, ServeTotal, CheckSave, WriteSave,
         ReceiveFirst, ReceiveMore, AssistantChecks, AssistantWrites, AssistantRemoves
  <2> QED BY <1>1, <2>1
<1> QED BY <1>4, <1>5, <1>6, <1>7, <1>8, <1>9

-----------------------------------------------------------------------------
(* Every step is a ClosetStep, and ids that were given out stay reserved. *)

LEMMA WriteIs ==
    ASSUME SavesInv, PendingInv, WriteSave
    PROVE  \E s \in saves : \E v :
              /\ s.at = "checked" /\ SaveInv(s) /\ UNCHANGED <<nextId, assistant>>
              /\ v # "checked" /\ saves' = (saves \ {s}) \cup Answer(s, v)
              /\ \/ UNCHANGED rows
                 \/ /\ Adds(s) /\ Reserved(s.id) /\ IsPayload(s.patch)
                    /\ rows' = Inserted(s.id, s.patch)
                 \/ /\ s.original # NewItem /\ IsPatch(s.patch)
                    /\ rows' = Patched(s.id, s.patch)
<1>1. PICK s \in saves :
        /\ s.at = "checked"
        /\ \/ saves' = (saves \ {s}) \cup Answer(s, "refused") /\ UNCHANGED rows
           \/ /\ rows' = IF s.original = NewItem THEN Inserted(s.id, s.patch)
                                                 ELSE Patched(s.id, s.patch)
              /\ saves' = (saves \ {s}) \cup Answer(s, "saved")
        /\ UNCHANGED <<nextId, assistant>>
  BY DEF WriteSave
<1>2. SaveInv(s)
  BY DEF SavesInv
<1>3. CASE saves' = (saves \ {s}) \cup Answer(s, "refused") /\ UNCHANGED rows
  BY <1>1, <1>2, <1>3
<1>4. CASE /\ rows' = IF s.original = NewItem THEN Inserted(s.id, s.patch)
                                              ELSE Patched(s.id, s.patch)
           /\ saves' = (saves \ {s}) \cup Answer(s, "saved")
  <2>1. \/ /\ Adds(s) /\ Reserved(s.id) /\ IsPayload(s.patch)
           /\ rows' = Inserted(s.id, s.patch)
        \/ s.original # NewItem /\ IsPatch(s.patch) /\ rows' = Patched(s.id, s.patch)
    BY <1>1, <1>2, <1>4 DEF SaveInv, PendingInv, Adds
  <2> QED BY <1>1, <1>2, <1>4, <2>1
<1> QED BY <1>1, <1>3, <1>4

LEMMA StepIsClosetStep == SavesInv /\ PendingInv /\ [Next]_vars => ClosetStep
<1> SUFFICES ASSUME SavesInv, PendingInv, [Next]_vars PROVE ClosetStep
  OBVIOUS
<1>1. CASE WriteSave
  BY <1>1, WriteIs DEF ClosetStep
<1>2. CASE AssistantWrites
  <2>1. PICK t \in assistant :
            /\ rows' = IF t.new THEN Inserted(t.id, t.patch) ELSE Patched(t.id, t.patch)
            /\ UNCHANGED nextId
    BY <1>2 DEF AssistantWrites
  <2>2. (t.new => Reserved(t.id) /\ IsPayload(t.patch)) /\ (~t.new => IsPatch(t.patch))
    BY DEF PendingInv
  <2>3. CASE t.new
    BY <2>1, <2>2, <2>3 DEF ClosetStep
  <2>4. CASE ~t.new
    BY <2>1, <2>2, <2>4 DEF ClosetStep
  <2> QED BY <2>3, <2>4
<1>3. CASE ServeDelete \/ AssistantRemoves
  <2>1. UNCHANGED nextId /\ \E id : rows' = Without(rows, id)
    BY <1>3 DEF ServeDelete, AssistantRemoves
  <2> QED BY <2>1 DEF ClosetStep
<1>4. CASE ~WriteSave /\ ~AssistantWrites /\ ~ServeDelete /\ ~AssistantRemoves
  <2>1. UNCHANGED rows /\ nextId' \in {nextId, nextId + 1}
    BY <1>4 DEF Next, Serve, Receive, Fill, Touch, vars, LoadCategories, ChangeFilter, SendMore,
         SendDelete, CloseForm, Submit, OpenForm, ChangeCategory, SetNotes, SetField, ServePage,
         ServeTotal, CheckSave, ReceiveFirst, ReceiveMore, ReceiveDelete, ReceiveSave,
         AssistantChecks, Lose
  <2> QED BY <2>1 DEF ClosetStep
<1> QED BY <1>1, <1>2, <1>3, <1>4

LEMMA UpToLater ==
    ASSUME NEW m \in Nat, NEW n \in Nat, n >= m
    PROVE  \A id \in 1..(m - 1) : id \in 1..(n - 1)
OBVIOUS

(* What is pending was pending, and its row is not there yet. *)
LEMMA PendingAre ==
    ASSUME PendingInv, nextId \in Nat, nextId' \in {nextId, nextId + 1},
           assistant' \subseteq assistant,
           \A m \in saves' : Adds(m) =>
                (\E s \in saves : Adds(s) /\ s.id = m.id) /\ m.id \notin RowIds',
           \A m, u \in saves' : Adds(m) /\ Adds(u) /\ m.id = u.id => m = u,
           \A t \in assistant' : t.new => t.id \notin RowIds'
    PROVE  PendingInv'
<1>0. nextId' \in Nat /\ nextId' >= nextId
  OBVIOUS
<1>1. \A id \in 1..(nextId - 1) : id \in 1..(nextId' - 1)
  BY <1>0, UpToLater
<1>2. ASSUME NEW m \in saves', Adds(m) PROVE Reserved(m.id)'
  BY <1>1, <1>2 DEF PendingInv, Reserved
<1>3. ASSUME NEW t \in assistant'
      PROVE  /\ t.new => Reserved(t.id)' /\ IsPayload(t.patch)
             /\ ~t.new => IsPatch(t.patch)
  BY <1>1, <1>3 DEF PendingInv, Reserved
<1>4. \A t, u \in assistant' : t.new /\ u.new /\ t.id = u.id => t = u
  BY DEF PendingInv
<1>5. \A m \in saves', t \in assistant' : Adds(m) /\ t.new => m.id # t.id
  BY DEF PendingInv
<1> QED BY <1>2, <1>3, <1>4, <1>5 DEF PendingInv, Adds

(* A save goes on as it is, to another place or no further. *)
LEMMA PendingMoves ==
    ASSUME RowsInv, PendingInv, UNCHANGED <<nextId, assistant>>, RowIds' \subseteq RowIds,
           NEW M, \A m \in M : ~Adds(m), saves' \subseteq saves \cup M
    PROVE  PendingInv'
<1>1. \A m \in saves' : Adds(m) => m \in saves
  OBVIOUS
<1>2. \A m \in saves' : Adds(m) =>
                (\E s \in saves : Adds(s) /\ s.id = m.id) /\ m.id \notin RowIds'
  BY <1>1 DEF PendingInv, Reserved
<1>3. \A m, u \in saves' : Adds(m) /\ Adds(u) /\ m.id = u.id => m = u
  BY <1>1 DEF PendingInv
<1>4. \A t \in assistant' : t.new => t.id \notin RowIds'
  BY DEF PendingInv, Reserved
<1>5. nextId \in Nat
  BY DEF RowsInv
<1> QED BY <1>2, <1>3, <1>4, <1>5, PendingAre

LEMMA PendingUnmounted ==
    ASSUME RowsInv, SavesInv, PendingInv, UNCHANGED <<nextId, assistant, rows>>,
           NEW S, S \subseteq saves, saves' = Unmounted(S)
    PROVE  PendingInv'
<1> DEFINE U(s) == [s EXCEPT !.client = IF @ = "mounted" THEN "unmounted" ELSE @]
<1>1. \A m \in saves' : \E s \in S : m = U(s) /\ Goes(s, m) /\ m.at = s.at
  BY UnmountedSaves DEF SavesInv, SaveInv
<1> HIDE DEF U
<1>2. \A m \in saves' : Adds(m) => \E s \in saves : Adds(s) /\ s.id = m.id /\ m = U(s)
  BY <1>1 DEF Adds, Goes
<1>3. RowIds' = RowIds
  BY DEF RowIds
<1>4. \A m \in saves' : Adds(m) =>
                (\E s \in saves : Adds(s) /\ s.id = m.id) /\ m.id \notin RowIds'
  BY <1>2, <1>3 DEF PendingInv, Reserved
<1>5. ASSUME NEW m \in saves', NEW u \in saves', Adds(m), Adds(u), m.id = u.id PROVE m = u
  <2>1. PICK s \in saves : Adds(s) /\ s.id = m.id /\ m = U(s)
    BY <1>2, <1>5
  <2>2. PICK r \in saves : Adds(r) /\ r.id = u.id /\ u = U(r)
    BY <1>2, <1>5
  <2>3. s = r
    BY <1>5, <2>1, <2>2 DEF PendingInv
  <2> QED BY <2>1, <2>2, <2>3
<1>6. \A t \in assistant' : t.new => t.id \notin RowIds'
  BY <1>3 DEF PendingInv, Reserved
<1>7. nextId \in Nat
  BY DEF RowsInv
<1> QED BY <1>4, <1>5, <1>6, <1>7, PendingAre

(* A row is inserted under the id that was kept for it. *)
LEMMA PendingWritten ==
    ASSUME RowsInv, PendingInv, UNCHANGED nextId, NEW id, NEW p, Reserved(id), IsPayload(p),
           rows' = Inserted(id, p), assistant' \subseteq assistant,
           NEW M, \A m \in M : ~Adds(m), saves' \subseteq saves \cup M,
           \A m \in saves' : Adds(m) => m.id # id,
           \A t \in assistant' : t.new => t.id # id
    PROVE  PendingInv'
<1>1. RowIds' \subseteq RowIds \cup {id}
  BY RowIdsStep
<1>2. \A m \in saves' : Adds(m) => m \in saves
  OBVIOUS
<1>3. \A m \in saves' : Adds(m) =>
                (\E s \in saves : Adds(s) /\ s.id = m.id) /\ m.id \notin RowIds'
  BY <1>1, <1>2 DEF PendingInv, Reserved
<1>4. \A m, u \in saves' : Adds(m) /\ Adds(u) /\ m.id = u.id => m = u
  BY <1>2 DEF PendingInv
<1>5. \A t \in assistant' : t.new => t.id \notin RowIds'
  BY <1>1 DEF PendingInv, Reserved
<1>6. nextId \in Nat
  BY DEF RowsInv
<1> QED BY <1>3, <1>4, <1>5, <1>6, PendingAre

LEMMA NextIdIsFree == RowsInv => nextId \in Nat \ {0} /\ nextId \notin RowIds
<1> SUFFICES ASSUME RowsInv PROVE nextId \in Nat \ {0} /\ nextId \notin RowIds
  OBVIOUS
<1>1. nextId \in Nat \ {0} /\ \A i \in DOMAIN rows : rows[i].id \in 1..(nextId - 1)
  BY DEF RowsInv
<1>2. \A i \in DOMAIN rows : rows[i].id # nextId
  BY <1>1
<1> QED BY <1>1, <1>2 DEF RowIds

(* A transaction that adds an item begins. *)
LEMMA PendingAdds ==
    ASSUME RowsInv, PendingInv, nextId' = nextId + 1, UNCHANGED rows,
           NEW M, NEW T, saves' \subseteq saves \cup M, assistant' \subseteq assistant \cup T,
           \A m \in M : Adds(m) => m.id = nextId,
           \A t \in T : t.new /\ t.id = nextId /\ IsPayload(t.patch),
           M = {} \/ (T = {} /\ \E m : M = {m}), T = {} \/ \E t : T = {t}
    PROVE  PendingInv'
<1>0. nextId \in Nat \ {0} /\ nextId \notin RowIds /\ RowIds' = RowIds
  BY NextIdIsFree DEF RowIds
<1>0a. PICK new : new = nextId
  OBVIOUS
<1>1. /\ \A id \in 1..(nextId - 1) : id \in 1..(nextId' - 1) /\ id # nextId
      /\ nextId \in 1..(nextId' - 1)
  BY <1>0
<1>2. \A id : Reserved(id) => Reserved(id)' /\ id # nextId
  BY <1>0, <1>1 DEF Reserved
<1>3. Reserved(new)'
  BY <1>0, <1>0a, <1>1 DEF Reserved
<1>4. ASSUME NEW m \in saves', Adds(m)
      PROVE  \/ m \in saves /\ Reserved(m.id) /\ m.id # nextId
             \/ m \in M /\ m.id = nextId
  BY <1>2, <1>4 DEF PendingInv
<1>5. ASSUME NEW t \in assistant'
      PROVE  \/ /\ t \in assistant
                /\ t.new => Reserved(t.id) /\ t.id # nextId /\ IsPayload(t.patch)
                /\ ~t.new => IsPatch(t.patch)
             \/ t \in T /\ t.new /\ t.id = nextId /\ IsPayload(t.patch)
  <2>1. CASE t \in assistant
    <3>1. (t.new => Reserved(t.id) /\ IsPayload(t.patch)) /\ (~t.new => IsPatch(t.patch))
      BY <2>1 DEF PendingInv
    <3> QED BY <1>2, <2>1, <3>1
  <2>2. CASE t \in T
    BY <2>2
  <2> QED BY <1>5, <2>1, <2>2
<1>6. \A m \in saves' : Adds(m) => Reserved(m.id)'
  BY <1>0a, <1>2, <1>3, <1>4
<1>7. ASSUME NEW t \in assistant'
      PROVE  /\ t.new => Reserved(t.id)' /\ IsPayload(t.patch)
             /\ ~t.new => IsPatch(t.patch)
  <2>1. CASE t \in T /\ t.new /\ t.id = nextId /\ IsPayload(t.patch)
    BY <1>0a, <1>3, <2>1
  <2>2. CASE /\ t.new => Reserved(t.id) /\ t.id # nextId /\ IsPayload(t.patch)
             /\ ~t.new => IsPatch(t.patch)
    BY <1>2, <2>2
  <2> QED BY <1>5, <2>1, <2>2
<1>8. \A m, u \in saves' : Adds(m) /\ Adds(u) /\ m.id = u.id => m = u
  BY <1>4 DEF PendingInv
<1>9. \A t, u \in assistant' : t.new /\ u.new /\ t.id = u.id => t = u
  BY <1>5 DEF PendingInv
<1>10. \A m \in saves', t \in assistant' : Adds(m) /\ t.new => m.id # t.id
  BY <1>4, <1>5 DEF PendingInv
<1> QED BY <1>6, <1>7, <1>8, <1>9, <1>10 DEF PendingInv, Adds

LEMMA PendingStep == RowsInv /\ FormInv /\ SavesInv /\ PendingInv /\ [Next]_vars => PendingInv'
<1> SUFFICES ASSUME RowsInv, FormInv, SavesInv, PendingInv, [Next]_vars PROVE PendingInv'
  OBVIOUS
<1>0. nextId \in Nat \ {0} /\ \A s \in saves : SaveInv(s) /\ DOMAIN s = SaveFields
  BY DEF RowsInv, SavesInv, SaveInv
<1>1. ASSUME RowIds' \subseteq RowIds, UNCHANGED <<nextId, assistant>>, saves' \subseteq saves
      PROVE  PendingInv'
  <2> DEFINE M == {}
  <2>1. saves' \subseteq saves \cup M /\ \A m \in M : ~Adds(m)
    BY <1>1
  <2> HIDE DEF M
  <2> QED BY <1>1, <2>1, PendingMoves
<1>2. ASSUME UNCHANGED <<rows, nextId, assistant>>, NEW m, ~Adds(m), saves' \subseteq saves \cup {m}
      PROVE  PendingInv'
  <2> DEFINE M == {m}
  <2>1. /\ saves' \subseteq saves \cup M /\ \A x \in M : ~Adds(x)
        /\ RowIds' \subseteq RowIds
    BY <1>2 DEF RowIds
  <2> HIDE DEF M
  <2> QED BY <1>2, <2>1, PendingMoves
<1>3. CASE Submit
  <2>1. PICK m : saves' = saves \cup {m} /\ m.at = "sent"
    BY <1>3, SubmitSave
  <2>2. ~Adds(m) /\ saves' \subseteq saves \cup {m}
    BY <2>1 DEF Adds
  <2>3. UNCHANGED <<rows, nextId, assistant>>
    BY <1>3 DEF Submit
  <2> QED BY <1>2, <2>2, <2>3
<1>4. CASE CloseForm
  BY <1>4, PendingUnmounted DEF CloseForm
<1>5. CASE ReceiveSave
  <2>1. PICK s \in saves : saves' = Unmounted(saves \ {s}) \/ saves' = saves \ {s}
    BY <1>5 DEF ReceiveSave
  <2>2. UNCHANGED <<rows, nextId, assistant>> /\ RowIds' = RowIds
    BY <1>5 DEF ReceiveSave, RowIds
  <2>3. saves \ {s} \subseteq saves
    OBVIOUS
  <2> QED BY <1>1, <2>1, <2>2, <2>3, PendingUnmounted
<1>6. CASE CheckSave
  <2>1. PICK s, m :
              /\ s \in saves
              /\ SaveInv(s) /\ UNCHANGED <<rows, assistant>>
              /\ \/ /\ saves' = (saves \ {s}) \cup {m} /\ m.at = "checked" /\ m.id = nextId
                    /\ nextId' = nextId + 1
                 \/ /\ saves' = (saves \ {s}) \cup {m} /\ m.at = "checked"
                    /\ m.original # NewItem /\ UNCHANGED nextId
                 \/ /\ saves' = (saves \ {s}) \cup Answer(s, "refused") /\ m.at = "refused"
                    /\ UNCHANGED nextId
    BY <1>6, CheckIs
  <2>2. CASE saves' = (saves \ {s}) \cup {m} /\ m.id = nextId /\ nextId' = nextId + 1
    <3> DEFINE M == {m}
               T == {}
    <3>1. /\ saves' \subseteq saves \cup M /\ assistant' \subseteq assistant \cup T
          /\ \A x \in M : Adds(x) => x.id = nextId
          /\ \A t \in T : t.new /\ t.id = nextId /\ IsPayload(t.patch)
          /\ T = {} /\ \E x : M = {x}
      BY <2>1, <2>2
    <3> HIDE DEF M, T
    <3> QED BY <2>1, <2>2, <3>1, PendingAdds
  <2>3. CASE saves' = (saves \ {s}) \cup {m} /\ m.original # NewItem /\ UNCHANGED nextId
    <3>1. ~Adds(m) /\ saves' \subseteq saves \cup {m}
      BY <2>3 DEF Adds
    <3> QED BY <1>2, <2>1, <2>3, <3>1
  <2>4. CASE saves' = (saves \ {s}) \cup Answer(s, "refused") /\ UNCHANGED nextId
    <3> DEFINE M == Answer(s, "refused")
    <3>1. \A x \in M : x.at = "refused"
      BY <1>0, <2>1, AnswerIs
    <3>2. saves' \subseteq saves \cup M /\ \A x \in M : ~Adds(x)
      BY <2>4, <3>1 DEF Adds
    <3>3. RowIds' = RowIds
      BY <2>1 DEF RowIds
    <3> HIDE DEF M
    <3> QED BY <2>1, <2>4, <3>2, <3>3, PendingMoves
  <2> QED BY <2>1, <2>2, <2>3, <2>4
<1>7. CASE WriteSave
  <2>1. PICK s, v :
              /\ s \in saves
              /\ UNCHANGED <<nextId, assistant>>
              /\ v # "checked" /\ saves' = (saves \ {s}) \cup Answer(s, v)
              /\ \/ UNCHANGED rows
                 \/ /\ Adds(s) /\ Reserved(s.id) /\ IsPayload(s.patch)
                    /\ rows' = Inserted(s.id, s.patch)
                 \/ IsPatch(s.patch) /\ rows' = Patched(s.id, s.patch)
    BY <1>7, WriteIs
  <2> DEFINE M == Answer(s, v)
  <2>2. saves' \subseteq saves \cup M /\ saves' = (saves \ {s}) \cup M
    BY <2>1
  <2>3. \A x \in M : ~Adds(x)
    <3>1. \A x \in M : x.at = v
      BY <1>0, <2>1, AnswerIs
    <3> HIDE DEF M
    <3> QED BY <2>1, <3>1 DEF Adds
  <2> HIDE DEF M
  <2>4. CASE UNCHANGED rows \/ (IsPatch(s.patch) /\ rows' = Patched(s.id, s.patch))
    <3>1. RowIds' \subseteq RowIds
      <4>1. CASE UNCHANGED rows
        BY <4>1 DEF RowIds
      <4>2. CASE IsPatch(s.patch) /\ rows' = Patched(s.id, s.patch)
        BY <4>2, RowIdsStep
      <4> QED BY <2>4, <4>1, <4>2
    <3> QED BY <2>1, <2>2, <2>3, <3>1, PendingMoves
  <2>5. CASE Adds(s) /\ Reserved(s.id) /\ IsPayload(s.patch) /\ rows' = Inserted(s.id, s.patch)
    <3>1. \A x \in saves' : Adds(x) => x.id # s.id
      BY <2>1, <2>2, <2>3, <2>5 DEF PendingInv
    <3>2. \A t \in assistant' : t.new => t.id # s.id
      BY <2>1, <2>5 DEF PendingInv
    <3>3. assistant' \subseteq assistant
      BY <2>1
    <3> QED BY <2>1, <2>2, <2>3, <2>5, <3>1, <3>2, <3>3, PendingWritten
  <2> QED BY <2>1, <2>4, <2>5
<1>8. CASE Lose
  <2>1. \/ saves' \subseteq saves
        \/ \E s \in saves : saves' = (saves \ {s}) \cup {[s EXCEPT !.client = "gone"]}
    BY <1>8 DEF Lose
  <2>2. UNCHANGED <<rows, nextId, assistant>> /\ RowIds' = RowIds
    BY <1>8 DEF Lose, RowIds
  <2>3. ASSUME NEW s \in saves, saves' = (saves \ {s}) \cup {[s EXCEPT !.client = "gone"]}
        PROVE  PendingInv'
    <3>1. PICK m : m = [s EXCEPT !.client = "gone"]
      OBVIOUS
    <3>2. Goes(s, m) /\ m.at = s.at
      BY <1>0, <3>1, At
    <3>3. Adds(m) => Adds(s) /\ s.id = m.id
      BY <3>2 DEF Adds, Goes
    <3>4. saves' = (saves \ {s}) \cup {m}
      BY <2>3, <3>1
    <3>5. \A x \in saves' : Adds(x) => (\E r \in saves : Adds(r) /\ r.id = x.id)
                                        /\ x.id \notin RowIds'
      BY <2>2, <3>3, <3>4 DEF PendingInv, Reserved
    <3>6. \A x, u \in saves' : Adds(x) /\ Adds(u) /\ x.id = u.id => x = u
      BY <3>3, <3>4 DEF PendingInv
    <3>7. \A t \in assistant' : t.new => t.id \notin RowIds'
      BY <2>2 DEF PendingInv, Reserved
    <3> QED BY <1>0, <2>2, <3>5, <3>6, <3>7, PendingAre
  <2> QED BY <1>1, <2>1, <2>2, <2>3
<1>9. CASE AssistantChecks
  <2>1. PICK w \in Writes :
        \/ /\ DOMAIN w = Keys
           /\ assistant' = assistant \cup {[id |-> nextId, new |-> TRUE, patch |-> w]}
           /\ nextId' = nextId + 1
        \/ /\ \E id \in RowIds : assistant' = assistant \cup
                    {[id |-> id, new |-> FALSE, patch |-> Resolved(Row(id), w)]}
           /\ UNCHANGED nextId
    BY <1>9 DEF AssistantChecks
  <2>2. IsPatch(w) /\ (DOMAIN w = Keys => IsPayload(w)) /\ UNCHANGED <<rows, saves>>
    BY <1>9, WritesAssumption DEF IsPatch, IsPayload, Keys, AssistantChecks
  <2>3. CASE /\ DOMAIN w = Keys
             /\ assistant' = assistant \cup {[id |-> nextId, new |-> TRUE, patch |-> w]}
             /\ nextId' = nextId + 1
    <3>1. PICK t : t = [id |-> nextId, new |-> TRUE, patch |-> w]
      OBVIOUS
    <3> DEFINE M == {}
               T == {t}
    <3>1a. t.new /\ t.id = nextId /\ IsPayload(t.patch)
      BY <2>2, <2>3, <3>1
    <3>2. /\ saves' \subseteq saves \cup M /\ assistant' \subseteq assistant \cup T
          /\ \A x \in M : Adds(x) => x.id = nextId
          /\ \A x \in T : x.new /\ x.id = nextId /\ IsPayload(x.patch)
          /\ M = {} /\ \E x : T = {x}
      BY <2>2, <2>3, <3>1, <3>1a
    <3> HIDE DEF M, T
    <3> QED BY <2>2, <2>3, <3>2, PendingAdds
  <2>4. ASSUME NEW id \in RowIds, UNCHANGED nextId, assistant' = assistant \cup
                    {[id |-> id, new |-> FALSE, patch |-> Resolved(Row(id), w)]}
        PROVE  PendingInv'
    <3>1. PICK t : t = [id |-> id, new |-> FALSE, patch |-> Resolved(Row(id), w)]
      OBVIOUS
    <3>2. IsPatch(Resolved(Row(id), w))
      BY <2>2, RowIs, ResolvedPatch
    <3>3. ~t.new /\ IsPatch(t.patch) /\ assistant' = assistant \cup {t}
      BY <2>4, <3>1, <3>2
    <3>4. \A i : Reserved(i) => Reserved(i)'
      BY <2>2, <2>4 DEF Reserved, RowIds
    <3> QED BY <2>2, <3>3, <3>4 DEF PendingInv, Adds
  <2> QED BY <2>1, <2>3, <2>4
<1>10. CASE AssistantWrites
  <2>1. PICK t \in assistant :
            /\ assistant' = assistant \ {t} /\ UNCHANGED <<nextId, saves>>
            /\ rows' = IF t.new THEN Inserted(t.id, t.patch) ELSE Patched(t.id, t.patch)
    BY <1>10 DEF AssistantWrites
  <2>2. (t.new => Reserved(t.id) /\ IsPayload(t.patch)) /\ (~t.new => IsPatch(t.patch))
    BY DEF PendingInv
  <2>3. CASE t.new
    <3>1. Reserved(t.id) /\ IsPayload(t.patch) /\ rows' = Inserted(t.id, t.patch)
      BY <2>1, <2>2, <2>3
    <3>2. \A m \in saves' : Adds(m) => m.id # t.id
      BY <2>1, <2>3 DEF PendingInv
    <3>3. \A u \in assistant' : u.new => u.id # t.id
      BY <2>1, <2>3 DEF PendingInv
    <3> DEFINE M == {}
    <3>4. /\ assistant' \subseteq assistant /\ saves' \subseteq saves \cup M
          /\ \A m \in M : ~Adds(m)
      BY <2>1
    <3> HIDE DEF M
    <3> QED BY <2>1, <3>1, <3>2, <3>3, <3>4, PendingWritten
  <2>4. CASE ~t.new
    <3>1. RowIds' \subseteq RowIds
      BY <2>1, <2>2, <2>4, RowIdsStep
    <3>2. \A m \in saves' : Adds(m) =>
                (\E s \in saves : Adds(s) /\ s.id = m.id) /\ m.id \notin RowIds'
      BY <2>1, <3>1 DEF PendingInv, Reserved
    <3>3. \A m, u \in saves' : Adds(m) /\ Adds(u) /\ m.id = u.id => m = u
      BY <2>1 DEF PendingInv
    <3>4. \A u \in assistant' : u.new => u.id \notin RowIds'
      BY <2>1, <3>1 DEF PendingInv, Reserved
    <3>5. nextId \in Nat /\ nextId' \in {nextId, nextId + 1} /\ assistant' \subseteq assistant
      BY <1>0, <2>1
    <3> QED BY <3>2, <3>3, <3>4, <3>5, PendingAre
  <2> QED BY <2>3, <2>4
<1>11. CASE ServeDelete \/ AssistantRemoves
  <2>1. UNCHANGED <<nextId, assistant, saves>> /\ \E id : rows' = Without(rows, id)
    BY <1>11 DEF ServeDelete, AssistantRemoves
  <2>2. RowIds' \subseteq RowIds
    BY <2>1, RowIdsStep
  <2> QED BY <1>1, <2>1, <2>2
<1>12. CASE /\ ~Submit /\ ~CloseForm /\ ~ReceiveSave /\ ~CheckSave /\ ~WriteSave /\ ~Lose
            /\ ~AssistantChecks /\ ~AssistantWrites /\ ~ServeDelete /\ ~AssistantRemoves
  <2>1. UNCHANGED <<rows, nextId, assistant, saves>>
    BY <1>12 DEF Next, Serve, Receive, Fill, Touch, vars, LoadCategories, ChangeFilter, SendMore,
         SendDelete, OpenForm, ChangeCategory, SetNotes, SetField, ServePage,
         ServeTotal, ReceiveFirst, ReceiveMore, ReceiveDelete
  <2>2. RowIds' = RowIds
    BY <2>1 DEF RowIds
  <2> QED BY <1>1, <2>1, <2>2
<1> QED BY <1>3, <1>4, <1>5, <1>6, <1>7, <1>8, <1>9, <1>10, <1>11, <1>12

-----------------------------------------------------------------------------
(* The listings under way, and what is shown. *)

ListFields == {"token", "filter", "offset", "at", "page", "total", "stale"}

(* The page a listing asks for, as the closet stands. *)
PageAt(f, offset) ==
    LET found == Matching(f)
        end == IF offset + PageSize < Len(found) THEN offset + PageSize ELSE Len(found)
    IN  SubSeq(found, offset + 1, end)

ListTypeOK(l) ==
    /\ DOMAIN l = ListFields
    /\ l.token \in 0..token
    /\ l.at \in {"sent", "listed", "answered", "failed"}
    /\ IsList(l.page) /\ l.total \in Nat /\ l.offset \in Nat
    /\ l.token # More => l.offset = 0

(* What was read is the closet's as long as it is not stale. *)
Current(l) ==
    /\ l.at \in {"listed", "answered"} /\ ~l.stale => l.page = PageAt(l.filter, l.offset)
    /\ l.at = "answered" /\ ~l.stale => l.total = Len(rows)

ListInv(l) == ListTypeOK(l) /\ Current(l) /\ (l.token = token => l.filter = filter)

ListsInv ==
    /\ token \in Nat \ {0}
    /\ IsFiniteSet(lists)
    /\ \A l \in lists : ListInv(l)
    /\ \A l, m \in lists : l.token = token /\ m.token = token => l = m
    /\ loading \in BOOLEAN
    /\ loading <=> \E l \in lists : l.token = token

ShownInv == IsList(items) /\ total \in Nat /\ hasMore \in BOOLEAN

LEMMA EmptyIsList == IsList(<<>>)
BY DEF IsList

LEMMA NewListing ==
    ASSUME NEW tok, NEW f, NEW n
    PROVE  /\ DOMAIN Listing(tok, f, n) = ListFields
           /\ Listing(tok, f, n).token = tok /\ Listing(tok, f, n).filter = f
           /\ Listing(tok, f, n).offset = n /\ Listing(tok, f, n).at = "sent"
           /\ Listing(tok, f, n).page = <<>> /\ Listing(tok, f, n).total = 0
BY DEF Listing, ListFields

LEMMA MatchingIs ==
    ASSUME NEW f, IsList(rows)
    PROVE  /\ IsList(Matching(f)) /\ Len(Matching(f)) \in Nat
           /\ PartOf(Matching(f), rows, Len(rows))
<1> DEFINE S == {r \in Range(rows) : f = None \/ r.kind = f}
<1>1. Matching(f) = Select(rows, S)
  BY DEF Matching
<1> HIDE DEF S
<1>2. PICK X : rows \in Seq(X) /\ \A x \in X : IsItem(x)
  BY ListIs
<1>3. rows \in Seq(X)
  BY <1>2
<1>4. Select(rows, S) \in Seq(X) /\ PartOf(Select(rows, S), rows, Len(rows))
  BY <1>3, SelectSeqOf
<1>5. IsList(Select(rows, S)) /\ Len(Select(rows, S)) \in Nat
  BY <1>2, <1>4, ListOf
<1> QED BY <1>1, <1>4, <1>5

LEMMA PartIn ==
    ASSUME NEW X, NEW s \in Seq(X), NEW m \in Nat, NEW n \in 0..Len(s)
    PROVE  SubSeq(s, m + 1, n) \in Seq(X)
<1>1. CASE m + 1 > n
  <2>1. SubSeq(s, m + 1, n) = <<>>
    BY <1>1
  <2> QED BY <2>1
<1>2. CASE m + 1 <= n
  BY <1>2
<1> QED BY <1>1, <1>2

LEMMA PageIs ==
    ASSUME NEW f, NEW n \in Nat, IsList(rows)
    PROVE  IsList(PageAt(f, n))
<1> DEFINE found == Matching(f)
           end == IF n + PageSize < Len(found) THEN n + PageSize ELSE Len(found)
<1>1. IsList(found) /\ Len(found) \in Nat
  BY MatchingIs
<1> HIDE DEF found
<1>2. end \in 0..Len(found)
  BY <1>1, BoundsAssumption
<1> HIDE DEF end
<1>3. PICK X : found \in Seq(X) /\ \A x \in X : IsItem(x)
  BY <1>1, ListIs
<1>4. found \in Seq(X)
  BY <1>3
<1>5. SubSeq(found, n + 1, end) \in Seq(X)
  BY <1>2, <1>4, PartIn
<1>6. IsList(SubSeq(found, n + 1, end))
  BY <1>3, <1>5, ListOf
<1> QED BY <1>6 DEF PageAt, found, end

(* A listing that moves on: it asks for what it asked for before. *)
SameRequest(l, m) ==
    /\ DOMAIN m = ListFields
    /\ m.token = l.token /\ m.filter = l.filter /\ m.offset = l.offset

LEMMA Replaced ==
    ASSUME ListsInv, UNCHANGED <<rows, token, filter, loading>>, NEW l \in lists, NEW m,
           lists' = (lists \ {l}) \cup {m}, SameRequest(l, m),
           m.at \in {"listed", "answered", "failed"}, IsList(m.page), m.total \in Nat,
           Current(m)
    PROVE  ListsInv'
<1>1. IsFiniteSet(lists')
  <2>1. IsFiniteSet(lists \ {l}) /\ IsFiniteSet({m})
    BY FS_Difference, FS_Singleton DEF ListsInv
  <2> QED BY <2>1, FS_Union
<1>2. ListTypeOK(m) /\ (m.token = token => m.filter = filter)
  BY DEF ListsInv, ListInv, ListTypeOK, SameRequest
<1>3. ASSUME NEW k \in lists' PROVE ListInv(k)'
  <2>1. ListInv(k)
    BY <1>2 DEF ListsInv, ListInv
  <2>2. Current(k)'
    BY <2>1 DEF ListInv, Current, PageAt, Matching
  <2> QED BY <2>1, <2>2 DEF ListInv, ListTypeOK
<1>4. \A j, k \in lists' : j.token = token /\ k.token = token => j = k
  BY DEF ListsInv, SameRequest
<1>5. (\E k \in lists : k.token = token) <=> (\E k \in lists' : k.token = token)
  BY DEF SameRequest
<1> QED BY <1>1, <1>3, <1>4, <1>5 DEF ListsInv

LEMMA Renewed ==
    ASSUME ListsInv, UNCHANGED <<token, filter, loading>>, lists' = Touched
    PROVE  ListsInv'
<1> DEFINE T(l) == [l EXCEPT !.stale = (l.at # "sent")]
<1>1. lists' = {T(l) : l \in lists}
  BY DEF Touched
<1>2. IsFiniteSet(lists')
  <2> DEFINE g == [l \in lists |-> T(l)]
  <2>1. lists' = {g[l] : l \in lists}
    BY <1>1
  <2> HIDE DEF g
  <2>2. g \in Surjection(lists, lists')
    BY <2>1 DEF Surjection, g
  <2> QED BY <2>2, FS_Surjection DEF ListsInv
<1>3. ASSUME NEW l \in lists
      PROVE  /\ DOMAIN T(l) = ListFields
             /\ T(l).token = l.token /\ T(l).filter = l.filter /\ T(l).offset = l.offset
             /\ T(l).at = l.at /\ T(l).page = l.page /\ T(l).total = l.total
             /\ T(l).stale = (l.at # "sent")
  BY DEF ListsInv, ListInv, ListTypeOK, ListFields
<1> HIDE DEF T
<1>4. ASSUME NEW k \in lists' PROVE ListInv(k)'
  <2>1. PICK l \in lists : k = T(l)
    BY <1>1
  <2>2. ListInv(l)
    BY DEF ListsInv
  <2>3. Current(k)'
    BY <1>3, <2>1 DEF Current
  <2>4. ListTypeOK(k)
    BY <1>3, <2>1, <2>2 DEF ListInv, ListTypeOK
  <2>5. k.token = token => k.filter = filter
    BY <1>3, <2>1, <2>2 DEF ListInv
  <2> QED BY <2>3, <2>4, <2>5 DEF ListInv, ListTypeOK
<1>5. \A j, k \in lists' : j.token = token /\ k.token = token => j = k
  BY <1>1, <1>3 DEF ListsInv
<1>6. (\E k \in lists : k.token = token) <=> (\E k \in lists' : k.token = token)
  BY <1>1, <1>3
<1> QED BY <1>2, <1>4, <1>5, <1>6 DEF ListsInv

(* Listings that stay as they are, in a closet that does. *)
LEMMA ListInvKept ==
    ASSUME NEW l, ListInv(l), UNCHANGED <<rows, token, filter>>
    PROVE  ListInv(l)'
<1>1. Current(l)'
  BY DEF ListInv, Current, PageAt, Matching
<1> QED BY <1>1 DEF ListInv, ListTypeOK

LEMMA ListsUnchanged ==
    ASSUME ListsInv, UNCHANGED <<rows, token, filter, loading, lists>>
    PROVE  ListsInv'
BY ListInvKept DEF ListsInv

LEMMA FurtherPage ==
    ASSUME ListsInv, UNCHANGED <<rows, token, filter, loading>>, NEW n \in Nat,
           lists' = lists \cup {Listing(More, filter, n)}
    PROVE  ListsInv'
<1>0. PICK m : m = Listing(More, filter, n)
  OBVIOUS
<1>1. /\ DOMAIN m = ListFields /\ m.token = 0 /\ m.filter = filter /\ m.offset = n
      /\ m.at = "sent" /\ m.page = <<>> /\ m.total = 0
  BY <1>0, NewListing DEF More
<1>2. IsFiniteSet(lists')
  BY <1>0, FS_AddElement DEF ListsInv
<1>3. token \in Nat \ {0} /\ IsList(<<>>)
  BY EmptyIsList DEF ListsInv
<1>4. ListInv(m)'
  <2>1. ListTypeOK(m)'
    BY <1>1, <1>3 DEF ListTypeOK, More
  <2>2. Current(m)'
    BY <1>1 DEF Current
  <2>3. m.token = token' => m.filter = filter'
    BY <1>1
  <2> QED BY <2>1, <2>2, <2>3 DEF ListInv
<1>5. \A k \in lists' : ListInv(k)'
  BY <1>0, <1>4, ListInvKept DEF ListsInv
<1>6. m.token # token
  BY <1>1, <1>3
<1> QED BY <1>0, <1>2, <1>5, <1>6 DEF ListsInv

LEMMA FirstPage ==
    ASSUME ListsInv, UNCHANGED rows, NEW f, Load(f)
    PROVE  ListsInv'
<1>0. PICK m : m = Listing(token + 1, f, 0)
  OBVIOUS
<1>1. /\ DOMAIN m = ListFields /\ m.token = token + 1 /\ m.filter = f /\ m.offset = 0
      /\ m.at = "sent" /\ m.page = <<>> /\ m.total = 0
  BY <1>0, NewListing
<1>2. token' = token + 1 /\ filter' = f /\ lists' = lists \cup {m} /\ loading' = TRUE
  BY <1>0 DEF Load
<1>3. IsFiniteSet(lists')
  BY <1>2, FS_AddElement DEF ListsInv
<1>4. token \in Nat \ {0} /\ IsList(<<>>)
  BY EmptyIsList DEF ListsInv
<1>5. ListInv(m)'
  <2>1. ListTypeOK(m)'
    BY <1>1, <1>2, <1>4 DEF ListTypeOK, More
  <2>2. Current(m)'
    BY <1>1 DEF Current
  <2>3. m.token = token' => m.filter = filter'
    BY <1>1, <1>2
  <2> QED BY <2>1, <2>2, <2>3 DEF ListInv
<1>6. ASSUME NEW k \in lists PROVE ListInv(k)' /\ k.token # token'
  <2>1. ListInv(k) /\ k.token \in 0..token
    BY DEF ListsInv, ListInv, ListTypeOK
  <2>2. k.token # token' /\ k.token \in 0..token'
    BY <1>2, <1>4, <2>1
  <2>3. Current(k)'
    BY <2>1 DEF ListInv, Current, PageAt, Matching
  <2> QED BY <2>1, <2>2, <2>3 DEF ListInv, ListTypeOK
<1>7. \A k \in lists' : ListInv(k)'
  BY <1>2, <1>5, <1>6
<1>8. \A j, k \in lists' : j.token = token' /\ k.token = token' => j = k
  BY <1>2, <1>6
<1>9. m \in lists' /\ m.token = token'
  BY <1>1, <1>2
<1> QED BY <1>2, <1>3, <1>4, <1>7, <1>8, <1>9 DEF ListsInv

LEMMA Dropped ==
    ASSUME ListsInv, UNCHANGED <<rows, token, filter>>, NEW l \in lists,
           lists' = lists \ {l},
           IF l.token = token THEN loading' = FALSE ELSE UNCHANGED loading
    PROVE  ListsInv'
<1>1. IsFiniteSet(lists')
  BY FS_Difference DEF ListsInv
<1>2. \A k \in lists' : ListInv(k)'
  BY ListInvKept DEF ListsInv
<1>3. loading' <=> \E k \in lists' : k.token = token
  BY DEF ListsInv
<1>4. loading' \in BOOLEAN
  BY DEF ListsInv
<1> QED BY <1>1, <1>2, <1>3, <1>4 DEF ListsInv

LEMMA ListsInit == Init => ListsInv
<1> SUFFICES ASSUME Init PROVE ListsInv
  OBVIOUS
<1> DEFINE m == Listing(1, None, 0)
<1>1. /\ DOMAIN m = ListFields /\ m.token = 1 /\ m.filter = None /\ m.offset = 0
      /\ m.at = "sent" /\ m.page = <<>> /\ m.total = 0
  BY NewListing
<1>2. token = 1 /\ filter = None /\ lists = {m} /\ loading = TRUE
  BY DEF Init
<1> HIDE DEF m
<1>3. IsList(<<>>)
  BY EmptyIsList
<1>4. ListInv(m)
  <2>1. ListTypeOK(m)
    BY <1>1, <1>2, <1>3 DEF ListTypeOK, More
  <2>2. Current(m)
    BY <1>1 DEF Current
  <2> QED BY <1>1, <1>2, <2>1, <2>2 DEF ListInv
<1>5. IsFiniteSet(lists)
  BY <1>2, FS_Singleton
<1> QED BY <1>1, <1>2, <1>4, <1>5 DEF ListsInv

PageInv ==
    RowsInv /\ FormInv /\ SavesInv /\ DeletesInv /\ PendingInv /\ ListsInv /\ ShownInv

LEMMA PageInvInit == Init => PageInv
<1> SUFFICES ASSUME Init PROVE PageInv
  OBVIOUS
<1>1. items = <<>> /\ total = 0 /\ hasMore = FALSE
  BY DEF Init
<1>2. IsList(<<>>)
  BY EmptyIsList
<1>3. ShownInv
  BY <1>1, <1>2 DEF ShownInv
<1>4. SavesInv /\ DeletesInv /\ PendingInv
  BY FS_EmptySet DEF Init, SavesInv, DeletesInv, PendingInv
<1> QED BY <1>3, <1>4, RowsInit, FormInit, ListsInit DEF PageInv

LEMMA ListsStep == PageInv /\ [Next]_vars => ListsInv'
<1> SUFFICES ASSUME PageInv, [Next]_vars PROVE ListsInv'
  OBVIOUS
<1>0. ListsInv /\ IsList(rows) /\ IsList(items) /\ Len(items) \in Nat
  BY ListIs DEF PageInv, ShownInv, RowsInv
<1>1. CASE ChangeFilter
  BY <1>0, <1>1, FirstPage DEF ChangeFilter
<1>2. CASE SendMore
  <2>1. UNCHANGED <<rows, token, filter, loading>>
        /\ lists' = lists \cup {Listing(More, filter, Len(items))}
    BY <1>2 DEF SendMore, page, Offset
  <2> QED BY <1>0, <2>1, FurtherPage
<1>3. CASE ReceiveFirst
  <2>1. PICK l \in lists :
            /\ lists' = lists \ {l}
            /\ IF l.token = token THEN loading' = FALSE ELSE UNCHANGED loading
            /\ UNCHANGED <<rows, token, filter>>
    BY <1>3 DEF ReceiveFirst, Active, StopLoading, page
  <2> QED BY <1>0, <2>1, Dropped
<1>4. CASE ReceiveMore
  <2>1. PICK l \in lists : l.token = More /\ lists' = lists \ {l}
                            /\ UNCHANGED <<rows, token, filter, loading>>
    BY <1>4 DEF ReceiveMore
  <2>2. l.token # token
    BY <1>0, <2>1 DEF ListsInv, More
  <2> QED BY <1>0, <2>1, <2>2, Dropped
<1>5. CASE ReceiveSave
  <2>1. UNCHANGED rows /\ (Load(filter) \/ UNCHANGED <<page, lists>>)
    BY <1>5 DEF ReceiveSave
  <2>2. CASE Load(filter)
    BY <1>0, <2>1, <2>2, FirstPage
  <2>3. CASE UNCHANGED <<page, lists>>
    BY <1>0, <2>1, <2>3, ListsUnchanged DEF page
  <2> QED BY <2>1, <2>2, <2>3
<1>6. CASE ServePage
  <2>1. PICK l \in lists :
            lists' = (lists \ {l}) \cup
                       {[l EXCEPT !.at = "listed", !.page = PageAt(l.filter, l.offset)]}
    BY <1>6 DEF ServePage, PageAt
  <2> DEFINE m == [l EXCEPT !.at = "listed", !.page = PageAt(l.filter, l.offset)]
  <2>2. ListTypeOK(l)
    BY <1>0 DEF ListsInv, ListInv
  <2>3. /\ SameRequest(l, m) /\ m.at = "listed" /\ m.page = PageAt(l.filter, l.offset)
        /\ m.total = l.total /\ m.filter = l.filter /\ m.offset = l.offset
    BY <2>2 DEF ListTypeOK, ListFields, SameRequest
  <2>4. lists' = (lists \ {l}) \cup {m}
    BY <2>1
  <2> HIDE DEF m
  <2>5. IsList(m.page) /\ m.total \in Nat
    BY <1>0, <2>2, <2>3, PageIs DEF ListTypeOK
  <2>6. Current(m)
    BY <2>3 DEF Current
  <2>7. UNCHANGED <<rows, token, filter, loading>>
    BY <1>6 DEF ServePage, page
  <2> QED BY <1>0, <2>3, <2>4, <2>5, <2>6, <2>7, Replaced
<1>7. CASE ServeTotal
  <2>1. PICK l \in lists : /\ l.at = "listed"
            /\ lists' = (lists \ {l}) \cup {[l EXCEPT !.at = "answered", !.total = Len(rows)]}
    BY <1>7 DEF ServeTotal
  <2> DEFINE m == [l EXCEPT !.at = "answered", !.total = Len(rows)]
  <2>2. ListTypeOK(l) /\ Current(l)
    BY <1>0 DEF ListsInv, ListInv
  <2>3. /\ SameRequest(l, m) /\ m.at = "answered" /\ m.page = l.page
        /\ m.total = Len(rows) /\ m.filter = l.filter /\ m.offset = l.offset
        /\ m.stale = l.stale
    BY <2>2 DEF ListTypeOK, ListFields, SameRequest
  <2>4. lists' = (lists \ {l}) \cup {m}
    BY <2>1
  <2> HIDE DEF m
  <2>5. IsList(m.page) /\ m.total \in Nat
    BY <1>0, <2>2, <2>3 DEF ListTypeOK
  <2>6. Current(m)
    BY <2>1, <2>2, <2>3 DEF Current
  <2>7. UNCHANGED <<rows, token, filter, loading>>
    BY <1>7 DEF ServeTotal, page
  <2> QED BY <1>0, <2>3, <2>4, <2>5, <2>6, <2>7, Replaced
<1>8. CASE Lose
  <2>0. UNCHANGED <<rows, token, filter, loading>>
    BY <1>8 DEF Lose, page
  <2>1. CASE UNCHANGED lists
    BY <1>0, <2>0, <2>1, ListsUnchanged
  <2>2. ASSUME NEW l \in lists,
               lists' = (lists \ {l}) \cup {[l EXCEPT !.at = "failed"]}
        PROVE  ListsInv'
    <3> DEFINE m == [l EXCEPT !.at = "failed"]
    <3>1. ListTypeOK(l)
      BY <1>0 DEF ListsInv, ListInv
    <3>2. /\ SameRequest(l, m) /\ m.at = "failed" /\ m.page = l.page /\ m.total = l.total
      BY <3>1 DEF ListTypeOK, ListFields, SameRequest
    <3>3. lists' = (lists \ {l}) \cup {m}
      BY <2>2
    <3> HIDE DEF m
    <3>4. IsList(m.page) /\ m.total \in Nat /\ Current(m)
      BY <3>1, <3>2 DEF ListTypeOK, Current
    <3> QED BY <1>0, <2>0, <3>2, <3>3, <3>4, Replaced
  <2> QED BY <1>8, <2>1, <2>2 DEF Lose
<1>9. CASE ServeDelete
  <2>0. UNCHANGED <<token, filter, loading>>
    BY <1>9 DEF ServeDelete, page
  <2>1. PICK id : /\ rows' = Without(rows, id)
                  /\ lists' = IF id \in RowIds THEN Touched ELSE lists
    BY <1>9 DEF ServeDelete
  <2>2. CASE id \in RowIds
    BY <1>0, <2>0, <2>1, <2>2, Renewed
  <2>3. CASE id \notin RowIds
    BY <1>0, <2>0, <2>1, <2>3, GoneIsNotThere, ListsUnchanged
  <2> QED BY <2>2, <2>3
<1>10. CASE WriteSave
  <2>0. UNCHANGED <<token, filter, loading>>
    BY <1>10 DEF WriteSave, page
  <2>1. UNCHANGED <<rows, lists>> \/ lists' = Touched
    BY <1>10 DEF WriteSave
  <2> QED BY <1>0, <2>0, <2>1, Renewed, ListsUnchanged
<1>11. CASE AssistantWrites \/ AssistantRemoves
  <2>1. UNCHANGED <<token, filter, loading>> /\ lists' = Touched
    BY <1>11 DEF AssistantWrites, AssistantRemoves, page
  <2> QED BY <1>0, <2>1, Renewed
<1>12. CASE /\ ~ChangeFilter /\ ~SendMore /\ ~Serve /\ ~Receive
            /\ ~AssistantWrites /\ ~AssistantRemoves /\ ~Lose
  <2>1. UNCHANGED <<rows, token, filter, loading, lists>>
    BY <1>12 DEF Next, LoadCategories, SendDelete, OpenForm, Fill, Touch, ChangeCategory,
           SetNotes, SetField, CloseForm, Submit, AssistantChecks, vars, page
  <2> QED BY <1>0, <2>1, ListsUnchanged
<1>13. CASE ReceiveDelete \/ CheckSave
  <2>1. UNCHANGED <<rows, token, filter, loading, lists>>
    BY <1>13 DEF ReceiveDelete, CheckSave, page
  <2> QED BY <1>0, <2>1, ListsUnchanged
<1> QED BY <1>1, <1>2, <1>3, <1>4, <1>5, <1>6, <1>7, <1>8, <1>9, <1>10, <1>11, <1>12, <1>13
        DEF Serve, Receive

LEMMA JoinedList ==
    ASSUME NEW s, NEW u, IsList(s), IsList(u)
    PROVE  IsList(s \o u)
<1> DEFINE X == {r \in Range(s) : IsItem(r)}
           Y == {r \in Range(u) : IsItem(r)}
           Z == X \cup Y
<1>1. s \in Seq(X) /\ u \in Seq(Y) /\ \A z \in Z : IsItem(z)
  BY DEF IsList
<1> HIDE DEF X, Y
<1>2. s \in Seq(Z) /\ u \in Seq(Z)
  BY <1>1
<1> HIDE DEF Z
<1>3. s \o u \in Seq(Z)
  BY <1>2, Concatenated
<1> QED BY <1>1, <1>3, ListOf

LEMMA ShownStep == PageInv /\ [Next]_vars => ShownInv'
<1> SUFFICES ASSUME PageInv, [Next]_vars PROVE ShownInv'
  OBVIOUS
<1>0. /\ \A l \in lists : ListTypeOK(l)
      /\ IsList(items) /\ total \in Nat /\ hasMore \in BOOLEAN
  BY DEF PageInv, ShownInv, ListsInv, ListInv
<1>1. CASE UNCHANGED <<items, total, hasMore>>
  BY <1>0, <1>1 DEF ShownInv
<1>2. CASE ReceiveFirst
  <2>1. \/ UNCHANGED <<items, total, hasMore>>
        \/ \E l \in lists : items' = l.page /\ total' = l.total
                              /\ hasMore' = (Len(l.page) = PageSize)
    BY <1>2 DEF ReceiveFirst, page
  <2> QED BY <1>0, <1>1, <2>1 DEF ShownInv, ListTypeOK
<1>3. CASE ReceiveMore
  <2>1. CASE UNCHANGED <<items, total, hasMore>>
    BY <1>1, <2>1
  <2>2. CASE \E l \in lists : items' = items \o l.page /\ total' = l.total
                              /\ hasMore' = (Len(l.page) = PageSize)
    <3>1. PICK l \in lists : items' = items \o l.page /\ total' = l.total
                              /\ hasMore' = (Len(l.page) = PageSize)
      BY <2>2
    <3>2. IsList(l.page) /\ l.total \in Nat
      BY <1>0 DEF ListTypeOK
    <3>3. IsList(items \o l.page)
      BY <1>0, <3>2, JoinedList
    <3> QED BY <1>0, <3>1, <3>2, <3>3 DEF ShownInv
  <2> QED BY <1>3, <2>1, <2>2 DEF ReceiveMore
<1>4. CASE ReceiveDelete
  <2>1. PICK d \in deletes :
            /\ items' = Without(items, d.id)
            /\ total' = IF d.at = "removed" /\ total > 0 THEN total - 1 ELSE total
            /\ UNCHANGED hasMore
    BY <1>4 DEF ReceiveDelete
  <2>2. IsList(items')
    BY <1>0, <2>1, WithoutIs
  <2>3. total' \in Nat
    BY <1>0, <2>1
  <2> QED BY <1>0, <2>1, <2>2, <2>3 DEF ShownInv
<1>5. CASE ~ReceiveFirst /\ ~ReceiveMore /\ ~ReceiveDelete
  <2>1. UNCHANGED <<items, total, hasMore>>
    BY <1>5 DEF Next, Serve, Receive, vars, page, LoadCategories, ChangeFilter, Load, SendMore,
                SendDelete, OpenForm, Fill, Touch, ChangeCategory, SetNotes, SetField,
                CloseForm, Submit, ServePage, ServeTotal, ServeDelete, CheckSave, WriteSave,
                ReceiveSave, AssistantChecks, AssistantWrites, AssistantRemoves, Lose
  <2> QED BY <1>1, <2>1
<1> QED BY <1>2, <1>3, <1>4, <1>5

LEMMA PageInvStep == PageInv /\ [Next]_vars => PageInv'
<1> SUFFICES ASSUME PageInv, [Next]_vars PROVE PageInv'
  OBVIOUS
<1>1. RowsInv'
  BY StepIsClosetStep, ClosetStepInv DEF PageInv
<1>2. FormInv' /\ SavesInv' /\ DeletesInv' /\ PendingInv'
  BY FormStep, SavesStep, DeletesStep, PendingStep DEF PageInv, ShownInv
<1> QED BY <1>1, <1>2, ListsStep, ShownStep DEF PageInv

(* The closet keeps the order of its ids although rows are inserted in     *)
(* whatever order their transactions write; and the page is loading        *)
(* exactly as long as the newest first page is under way.                  *)
THEOREM PageTypeOK == Spec => []TypeOK
<1>1. PageInv => TypeOK
  <2> SUFFICES ASSUME PageInv PROVE TypeOK
    OBVIOUS
  <2>1. ASSUME NEW i \in DOMAIN rows
        PROVE  DOMAIN rows[i] = Keys \cup {"id"} /\ rows[i].id < nextId
    <3>1. IsItem(rows[i]) /\ rows[i].id \in 1..(nextId - 1) /\ nextId \in Nat
      BY ListIs DEF PageInv, RowsInv
    <3> QED BY <3>1 DEF IsItem
  <2> QED BY <2>1 DEF PageInv, RowsInv, ListsInv, ListInv, ListTypeOK, ShownInv, TypeOK
<1> QED BY <1>1, PageInvInit, PageInvStep, PTL DEF Spec

(* When loading ends with an answer, it is the answer to what the filters  *)
(* ask for now: only the listing with the newest token ends it, and a      *)
(* filter is not chosen without a new token.                               *)
THEOREM FirstPageIsCurrent == Spec => FirstPageCurrent
<1>1. PageInv /\ [Next]_vars
        => [(loading /\ ~loading') =>
              \/ items' = items
              \/ \E l \in lists : l.token = token /\ l.filter = filter
                                    /\ items' = l.page]_vars
  <2> SUFFICES ASSUME PageInv, [Next]_vars, loading, ~loading'
               PROVE  \/ items' = items
                      \/ \E l \in lists : l.token = token /\ l.filter = filter
                                            /\ items' = l.page
    OBVIOUS
  <2>1. CASE ReceiveFirst
    BY <2>1 DEF ReceiveFirst, Active, page, PageInv, ListsInv, ListInv
  <2>2. CASE ~ReceiveFirst
    BY <2>2 DEF Next, Serve, Receive, vars, page, LoadCategories, ChangeFilter, Load, SendMore,
                SendDelete, OpenForm, Fill, Touch, ChangeCategory, SetNotes, SetField,
                CloseForm, Submit, ServePage, ServeTotal, ServeDelete, CheckSave, WriteSave,
                ReceiveMore, ReceiveDelete, ReceiveSave, AssistantChecks, AssistantWrites,
                AssistantRemoves, Lose
  <2> QED
    BY <2>1, <2>2
<1> QED
  BY <1>1, PageInvInit, PageInvStep, PTL DEF Spec, FirstPageCurrent

(* A save changes no key that the user left alone and the form gives back: *)
(* what the form makes of such a value is the value it was opened with, so *)
(* the difference does not name it, and neither does what update_item adds *)
(* from the row it reads; and the write replaces the keys of the row that  *)
(* the patch names, whatever row it has become meanwhile.                  *)
THEOREM SavesKeepTheRest == Spec => SaveKeepsTheRest
<1> DEFINE Kept0(s, k) ==
        \E i \in DOMAIN rows' : rows'[i].id = s.id /\ rows'[i][k] = Row(s.id)[k]
<1>1. ASSUME PageInv, [Next]_vars, NEW s \in saves, s.at = "checked", s \notin saves',
             rows' # rows, s.original # NewItem, NEW k \in Keys,
             LeftAlone(s, k), GivenBack(s.original, k)
      PROVE  Kept0(s, k)
  <2>0. RowsInv /\ SavesInv /\ PendingInv
    BY <1>1 DEF PageInv
  <2>1. WriteSave
    BY <1>1 DEF Next, Serve, Receive, Fill, Touch, vars, LoadCategories, ChangeFilter, SendMore,
         SendDelete, OpenForm, ChangeCategory, SetNotes, SetField, CloseForm, Submit, ServePage,
         ServeTotal, ServeDelete, CheckSave, ReceiveFirst, ReceiveMore, ReceiveDelete,
         ReceiveSave, AssistantChecks, AssistantWrites, AssistantRemoves, Lose
  <2>2. s.id \in RowIds /\ rows' = Patched(s.id, s.patch)
    BY <1>1, <2>1 DEF WriteSave
  <2>3. k \notin DOMAIN s.patch /\ IsPatch(s.patch)
    BY <1>1, <2>0 DEF SavesInv, SaveInv
  <2>4. PICK n \in 1..Len(rows) : Row(s.id) = rows[n] /\ rows[n].id = s.id
    BY <2>0, <2>2, RowIs
  <2>5. DOMAIN rows = 1..Len(rows) /\ IsItem(rows[n])
    BY <2>0, ListIs DEF RowsInv
  <2>6. /\ n \in DOMAIN rows'
        /\ rows'[n] = [j \in DOMAIN rows[n] |->
                          IF j \in DOMAIN s.patch THEN s.patch[j] ELSE rows[n][j]]
    BY <2>2, <2>4, <2>5 DEF Patched
  <2>7. k \in DOMAIN rows[n] /\ "id" \in DOMAIN rows[n] /\ "id" \notin DOMAIN s.patch
    BY <2>3, <2>5 DEF IsItem, IsPatch, Keys
  <2>8. rows'[n][k] = rows[n][k]
    BY <2>3, <2>6, <2>7
  <2>9. rows'[n].id = rows[n].id
    BY <2>6, <2>7
  <2> QED BY <2>4, <2>6, <2>8, <2>9
<1>2. PageInv /\ [Next]_vars =>
        [\A s \in saves :
            (s.at = "checked" /\ s \notin saves' /\ rows' # rows /\ s.original # NewItem) =>
                \A k \in Keys : LeftAlone(s, k) /\ GivenBack(s.original, k) => Kept0(s, k)]_vars
  BY <1>1
<1> QED BY <1>2, PageInvInit, PageInvStep, PTL DEF Spec, SaveKeepsTheRest

-----------------------------------------------------------------------------
(* How the page and the closet differ while a request is under way. *)

(* The newest items the filter asks for, and how many the closet holds. *)
Shows(its, tot) ==
    LET found == Matching(filter)
    IN  /\ Len(its) <= Len(found)
        /\ its = SubSeq(found, 1, Len(its))
        /\ Len(its) < Len(found) => hasMore
        /\ tot = Len(rows)

(* The places of a calm page: nothing is under way; a listing is; a delete *)
(* is, which the closet may be ahead of the page by; or a save is.         *)
CalmIdle == lists = {} /\ deletes = {} /\ saves = {} /\ Shows(items, total)

CalmListing ==
    /\ deletes = {} /\ saves = {}
    /\ \E l \in lists :
        /\ lists = {l}
        /\ \/ l.token = token
           \/ /\ l.token = More /\ l.filter = filter /\ l.offset = Len(items)
              /\ Shows(items, total)

Deleting(d) ==
    /\ d.client # "gone"
    /\ d.at = "sent" => Shows(items, total)
    /\ d.at = "missing" => Shows(items, total) /\ d.id \notin RowIds
    /\ d.at = "removed" => total > 0 /\ Shows(Without(items, d.id), total - 1)

CalmDeleting == lists = {} /\ saves = {} /\ \E d \in deletes : deletes = {d} /\ Deleting(d)

CalmSaving ==
    /\ lists = {} /\ deletes = {}
    /\ \E s \in saves : /\ saves = {s} /\ s.client # "gone"
                        /\ s.at # "saved" => Shows(items, total)

CalmInv == calm => CalmIdle \/ CalmListing \/ CalmDeleting \/ CalmSaving

Inv == PageInv /\ CalmInv

LEMMA CountZero ==
    ASSUME NEW a \in Nat, NEW b \in Nat, NEW c \in Nat
    PROVE  /\ a + b + c = 0 => a = 0 /\ b = 0 /\ c = 0
           /\ a >= 1 /\ a + b + c = 1 => a = 1 /\ b = 0 /\ c = 0
OBVIOUS

LEMMA NothingUnderWay ==
    ASSUME PageInv
    PROVE  /\ UnderWay = 0 => lists = {} /\ deletes = {} /\ saves = {}
           /\ UnderWay = 1 => \A l \in lists : lists = {l} /\ deletes = {} /\ saves = {}
<1> DEFINE a == Cardinality(lists)
           b == Cardinality(deletes)
           c == Cardinality(saves)
<1>1. IsFiniteSet(lists) /\ IsFiniteSet(deletes) /\ IsFiniteSet(saves)
  BY DEF PageInv, ListsInv, DeletesInv, SavesInv
<1>2. a \in Nat /\ b \in Nat /\ c \in Nat
  BY <1>1, FS_CardinalityType
<1>3. UnderWay = a + b + c
  BY DEF UnderWay
<1>4. /\ a = 0 => lists = {}
      /\ b = 0 => deletes = {}
      /\ c = 0 => saves = {}
  BY <1>1, FS_EmptySet
<1>5. ASSUME NEW l \in lists PROVE a >= 1 /\ (a = 1 => lists = {l})
  <2>1. a # 0
    BY <1>1, <1>5, FS_EmptySet
  <2>2. a = 1 => \E x : lists = {x}
    BY <1>1, FS_Singleton
  <2> QED BY <1>2, <1>5, <2>1, <2>2
<1> HIDE DEF a, b, c
<1>6. UnderWay = 0 => a = 0 /\ b = 0 /\ c = 0
  BY <1>2, <1>3, CountZero
<1>7. a >= 1 /\ UnderWay = 1 => a = 1 /\ b = 0 /\ c = 0
  BY <1>2, <1>3, CountZero
<1> QED BY <1>4, <1>5, <1>6, <1>7

LEMMA Joined ==
    ASSUME NEW X, NEW s \in Seq(X), NEW n \in 0..Len(s), NEW m \in n..Len(s)
    PROVE  /\ SubSeq(s, 1, n) \o SubSeq(s, n + 1, m) = SubSeq(s, 1, m)
           /\ Len(SubSeq(s, n + 1, m)) = m - n
<1> DEFINE a == SubSeq(s, 1, n)
           b == SubSeq(s, n + 1, m)
           t == SubSeq(s, 1, m)
<1>0. Len(s) \in Nat /\ n \in Nat /\ m \in Nat /\ n <= m /\ m <= Len(s) /\ m \in 0..Len(s)
  OBVIOUS
<1>1. a \in Seq(X) /\ Len(a) = n /\ \A i \in 1..n : a[i] = s[i]
  BY SubSeqIs
<1>2. t \in Seq(X) /\ Len(t) = m /\ \A i \in 1..m : t[i] = s[i]
  BY <1>0, SubSeqIs
<1>3. b \in Seq(X) /\ Len(b) = m - n /\ \A i \in 1..(m - n) : b[i] = s[n + i]
  <2>1. CASE n = m
    BY <1>0, <2>1
  <2>2. CASE n < m
    BY <1>0, <2>2
  <2> QED BY <1>0, <2>1, <2>2
<1> HIDE DEF a, b, t
<1>4. /\ a \o b \in Seq(X) /\ Len(a \o b) = m
      /\ \A i \in 1..m : (a \o b)[i] = IF i <= n THEN a[i] ELSE b[i - n]
  <2>1. a \in Seq(X) /\ b \in Seq(X) /\ Len(a) = n /\ n + Len(b) = m
    BY <1>0, <1>1, <1>3
  <2> QED BY <2>1, Concatenated
<1>5. ASSUME NEW i \in 1..m PROVE (a \o b)[i] = t[i]
  <2>1. CASE i <= n
    BY <1>1, <1>2, <1>4, <2>1
  <2>2. CASE i > n
    <3>1. i - n \in 1..(m - n) /\ n + (i - n) = i
      BY <1>0, <2>2
    <3> QED BY <1>0, <1>2, <1>3, <1>4, <2>2, <3>1
  <2>3. i <= n \/ i > n
    BY <1>0
  <2> QED BY <2>1, <2>2, <2>3
<1>6. a \o b = t
  BY <1>2, <1>4, <1>5, SeqEqual
<1> QED BY <1>3, <1>6 DEF a, b, t

(* The first page of a listing, and one that goes on from what is shown. *)
LEMMA PageJoined ==
    ASSUME NEW X, NEW s \in Seq(X), NEW n \in 0..Len(s)
    PROVE  LET end == IF n + PageSize < Len(s) THEN n + PageSize ELSE Len(s)
               p == SubSeq(s, n + 1, end)
               j == SubSeq(s, 1, n) \o p
           IN  /\ Len(j) <= Len(s) /\ j = SubSeq(s, 1, Len(j))
               /\ Len(j) < Len(s) => Len(p) = PageSize
<1> DEFINE end == IF n + PageSize < Len(s) THEN n + PageSize ELSE Len(s)
           p == SubSeq(s, n + 1, end)
           j == SubSeq(s, 1, n) \o p
<1>1. end \in n..Len(s) /\ (end < Len(s) => end - n = PageSize) /\ Len(s) \in Nat /\ n \in Nat
  BY BoundsAssumption
<1> HIDE DEF end
<1>2. end \in 0..Len(s)
  BY <1>1
<1>3. j = SubSeq(s, 1, end) /\ Len(p) = end - n
  BY <1>1, Joined
<1>4. Len(SubSeq(s, 1, end)) = end
  BY <1>2, SubSeqIs
<1> HIDE DEF p, j
<1>5. Len(j) <= Len(s) /\ j = SubSeq(s, 1, Len(j)) /\ (Len(j) < Len(s) => Len(p) = PageSize)
  BY <1>1, <1>2, <1>3, <1>4
<1> QED BY <1>5 DEF end, p, j

LEMMA FirstPageShows ==
    ASSUME NEW X, NEW s \in Seq(X)
    PROVE  LET end == IF 0 + PageSize < Len(s) THEN 0 + PageSize ELSE Len(s)
               p == SubSeq(s, 0 + 1, end)
           IN  /\ Len(p) <= Len(s) /\ p = SubSeq(s, 1, Len(p))
               /\ Len(p) < Len(s) => Len(p) = PageSize
<1> DEFINE end == IF 0 + PageSize < Len(s) THEN 0 + PageSize ELSE Len(s)
<1>1. end \in 0..Len(s) /\ (end < Len(s) => end = PageSize) /\ 0 + 1 = 1
  BY BoundsAssumption
<1> HIDE DEF end
<1>2. Len(SubSeq(s, 1, end)) = end
  BY <1>1, SubSeqIs
<1> QED BY <1>1, <1>2 DEF end

(* A list without an item is selected with any set that has the others. *)
LEMMA WithoutSelects ==
    ASSUME NEW X, NEW s \in Seq(X), NEW id, NEW U,
           \A i \in 1..Len(s) : s[i] \in U <=> s[i].id # id
    PROVE  Without(s, id) = Select(s, U)
<1> DEFINE S == {r \in Range(s) : r.id # id}
<1>1. \A i \in 1..Len(s) : s[i] \in S <=> s[i] \in U
  BY DEF Range
<1> HIDE DEF S
<1>2. Select(s, S) = Select(s, U)
  BY <1>1, SelectSame
<1> QED BY <1>2 DEF Without, S

(* What a filter finds after an item is gone is what it found without it. *)
LEMMA MatchingWithout ==
    ASSUME IsList(rows), NEW id, rows' = Without(rows, id), UNCHANGED filter
    PROVE  Matching(filter)' = Without(Matching(filter), id)
<1> DEFINE S == {r \in Range(rows) : filter = None \/ r.kind = filter}
           T == {r \in Range(rows') : filter = None \/ r.kind = filter}
           U == {r \in Range(rows) : r.id # id}
<1>0. PICK X : rows \in Seq(X)
  BY ListIs
<1>0a. rows \in Seq(X)
  BY <1>0
<1>1. Matching(filter) = Select(rows, S) /\ Matching(filter)' = Select(rows', T)
  BY DEF Matching
<1>2. rows' = Select(rows, U)
  BY DEF Without
<1>2a. rows' \in Seq(X)
  BY <1>0a, <1>2, SelectSeqOf
<1>3. /\ IsList(rows')
      /\ \A k \in 1..Len(rows') : \E i \in 1..Len(rows) : rows'[k] = rows[i]
  BY WithoutIs DEF PartOf
<1>4. \A k \in 1..Len(rows') : rows'[k] \in S <=> rows'[k] \in T
  BY <1>3 DEF Range
<1>5. Select(rows, S) \in Seq(X) /\ PartOf(Select(rows, S), rows, Len(rows))
  BY <1>0a, SelectSeqOf
<1>6. \A k \in 1..Len(Select(rows, S)) :
            Select(rows, S)[k] \in U <=> Select(rows, S)[k].id # id
  <2> DEFINE t == Select(rows, S)
  <2> HIDE DEF t
  <2>1. ASSUME NEW k \in 1..Len(t) PROVE t[k] \in Range(rows)
    <3>1. PICK i \in 1..Len(rows) : t[k] = rows[i]
      BY <1>5 DEF PartOf, t
    <3> QED BY <3>1 DEF Range
  <2> QED BY <2>1 DEF t
<1> HIDE DEF S, T, U
<1>7. Select(rows', T) = Select(rows', S)
  BY <1>2a, <1>4, SelectSame
<1>8. Select(rows', S) = Select(rows, U \cap S)
  BY <1>0a, <1>2, SelectTwice
<1>9. Select(Select(rows, S), U) = Select(rows, S \cap U)
  BY <1>0a, SelectTwice
<1>10. Without(Select(rows, S), id) = Select(Select(rows, S), U)
  BY <1>5, <1>6, WithoutSelects
<1>11. S \cap U = U \cap S
  OBVIOUS
<1> QED BY <1>1, <1>7, <1>8, <1>9, <1>10, <1>11

(* A prefix of a list without an item is a prefix of the list without it. *)
LEMMA PrefixWithout ==
    ASSUME NEW X, NEW s \in Seq(X), NEW its, its = SubSeq(s, 1, Len(its)), Len(its) \in 0..Len(s),
           NEW id
    PROVE  /\ Len(Without(its, id)) <= Len(Without(s, id))
           /\ Without(its, id) = SubSeq(Without(s, id), 1, Len(Without(its, id)))
           /\ Len(Without(its, id)) < Len(Without(s, id)) => Len(its) < Len(s)
<1> DEFINE U == {r \in Range(s) : r.id # id}
           n == Len(its)
<1>1. its \in Seq(X) /\ \A i \in 1..n : its[i] = s[i]
  BY SubSeqIs
<1>2. /\ \A i \in 1..Len(s) : s[i] \in U <=> s[i].id # id
      /\ \A i \in 1..n : its[i] \in U <=> its[i].id # id
  BY <1>1 DEF Range
<1> HIDE DEF U
<1>3. Without(s, id) = Select(s, U) /\ Without(its, id) = Select(its, U)
  BY <1>1, <1>2, WithoutSelects
<1>4. n \in 0..Len(s) /\ its = SubSeq(s, 1, n)
  OBVIOUS
<1> HIDE DEF n
<1>5. /\ Select(SubSeq(s, 1, n), U)
           = SubSeq(Select(s, U), 1, Len(Select(SubSeq(s, 1, n), U)))
      /\ Len(Select(SubSeq(s, 1, n), U)) <= Len(Select(s, U))
  BY <1>4, SelectFirst
<1>6. /\ Select(its, U) = SubSeq(Select(s, U), 1, Len(Select(its, U)))
      /\ Len(Select(its, U)) <= Len(Select(s, U))
  BY <1>4, <1>5
<1>7. Len(its) = Len(s) => its = s
  BY <1>4
<1>8. Len(its) = Len(s) => Len(Select(its, U)) = Len(Select(s, U))
  BY <1>7
<1>9. Select(its, U) \in Seq(X) /\ Select(s, U) \in Seq(X)
  BY <1>1, SelectSeqOf
<1>10. Len(Select(its, U)) < Len(Select(s, U)) => Len(its) # Len(s)
  BY <1>8, <1>9
<1> QED BY <1>3, <1>6, <1>10

LEMMA ShowsKept ==
    ASSUME Shows(items, total), UNCHANGED <<rows, filter, items, total, hasMore>>
    PROVE  Shows(items, total)'
BY DEF Shows, Matching

(* The list before the answer to a DELETE, in the closet after it. *)
LEMMA RemovedShows ==
    ASSUME RowsInv, ShownInv, Shows(items, total), NEW id, id \in RowIds,
           rows' = Without(rows, id), UNCHANGED <<filter, items, total, hasMore>>
    PROVE  (total > 0 /\ Shows(Without(items, id), total - 1))'
<1> DEFINE found == Matching(filter)
           left0 == Without(items, id)
<1>0. IsList(rows) /\ DOMAIN rows = 1..Len(rows) /\ Len(rows) \in Nat
  BY ListIs DEF RowsInv
<1>0a. PICK X : rows \in Seq(X)
  BY <1>0, ListIs
<1>0b. rows \in Seq(X)
  BY <1>0a
<1>1. /\ IsList(found) /\ Len(found) \in Nat
      /\ Len(items) <= Len(found) /\ items = SubSeq(found, 1, Len(items))
      /\ Len(items) < Len(found) => hasMore
      /\ total = Len(rows) /\ IsList(items)
  BY <1>0, MatchingIs DEF Shows, ShownInv
<1>2. Len(items) \in 0..Len(found)
  BY <1>1, ListIs
<1>3. Matching(filter)' = Without(found, id)
  BY <1>0, MatchingWithout
<1>4. /\ Len(left0) <= Len(Without(found, id))
      /\ left0 = SubSeq(Without(found, id), 1, Len(left0))
      /\ Len(left0) < Len(Without(found, id)) => Len(items) < Len(found)
  <2> HIDE DEF found
  <2>1. PICK Y : found \in Seq(Y)
    BY <1>1, ListIs
  <2>2. found \in Seq(Y)
    BY <2>1
  <2> QED BY <1>1, <1>2, <2>2, PrefixWithout
<1>5. PICK p \in 1..Len(rows) : rows[p].id = id
  BY <1>0 DEF RowIds
<1>6. \A i \in 1..Len(rows) : rows[i].id # id <=> i # p
  BY <1>0, <1>5 DEF RowsInv
<1>7. Len(rows') = Len(rows) - 1
  <2> DEFINE U == {r \in Range(rows) : r.id # id}
  <2>1. \A i \in 1..Len(rows) : rows[i] \in U <=> i # p
    BY <1>0, <1>6 DEF Range
  <2>2. rows' = Select(rows, U)
    BY DEF Without
  <2> HIDE DEF U
  <2> QED BY <1>0, <1>0b, <2>1, <2>2, SelectAllButOne
<1>8. total > 0 /\ total - 1 = Len(rows')
  BY <1>0, <1>1, <1>5, <1>7
<1>9. /\ Len(left0) <= Len(Matching(filter)')
      /\ left0 = SubSeq(Matching(filter)', 1, Len(left0))
      /\ Len(left0) < Len(Matching(filter)') => hasMore
  BY <1>1, <1>3, <1>4
<1>10. Without(items, id)' = left0
  OBVIOUS
<1> HIDE DEF left0, found
<1>11. Shows(Without(items, id), total - 1)'
  BY <1>8, <1>9, <1>10 DEF Shows
<1> QED BY <1>8, <1>11

(* An item that is not in the closet is not on a list that shows it. *)
LEMMA GoneIsNotShown ==
    ASSUME RowsInv, ShownInv, Shows(items, total), NEW id, id \notin RowIds
    PROVE  Without(items, id) = items
<1>0. IsList(rows) /\ DOMAIN rows = 1..Len(rows)
  BY ListIs DEF RowsInv
<1> DEFINE found == Matching(filter)
<1>1. /\ IsList(found) /\ PartOf(found, rows, Len(rows)) /\ Len(found) \in Nat
      /\ Len(items) <= Len(found) /\ items = SubSeq(found, 1, Len(items))
      /\ IsList(items)
  BY <1>0, MatchingIs DEF Shows, ShownInv
<1> HIDE DEF found
<1>1a. PICK X : found \in Seq(X)
  BY <1>1, ListIs
<1>1b. found \in Seq(X) /\ Len(items) \in Nat
  BY <1>1, <1>1a, ListIs
<1>2. ASSUME NEW i \in 1..Len(items) PROVE items[i].id # id
  <2>1. Len(items) \in 0..Len(found) /\ i \in 1..Len(found)
    BY <1>1, <1>1b
  <2>2. items[i] = found[i]
    BY <1>1, <1>1b, <2>1, SubSeqIs
  <2>3. PICK k \in 1..Len(rows) : found[i] = rows[k]
    BY <1>1, <2>1 DEF PartOf
  <2>4. rows[k].id \in RowIds
    BY <1>0 DEF RowIds
  <2> QED BY <2>2, <2>3, <2>4
<1> QED BY <1>1, <1>2, WithoutNone

LEMMA FirstPageIsShown ==
    ASSUME RowsInv, NEW p, p = PageAt(filter, 0), items' = p, total' = Len(rows),
           hasMore' = (Len(p) = PageSize), UNCHANGED <<rows, filter>>
    PROVE  Shows(items, total)'
<1>1. PICK X : Matching(filter) \in Seq(X)
  BY MatchingIs, ListIs DEF RowsInv
<1>1a. Matching(filter) \in Seq(X)
  BY <1>1
<1>2. Matching(filter)' = Matching(filter)
  BY DEF Matching
<1>3. /\ Len(p) <= Len(Matching(filter)) /\ p = SubSeq(Matching(filter), 1, Len(p))
      /\ Len(p) < Len(Matching(filter)) => Len(p) = PageSize
  BY <1>1a, FirstPageShows DEF PageAt
<1> QED BY <1>2, <1>3 DEF Shows

LEMMA FurtherPageIsShown ==
    ASSUME RowsInv, ShownInv, Shows(items, total), NEW p, p = PageAt(filter, Len(items)),
           items' = items \o p, total' = Len(rows),
           hasMore' = (Len(p) = PageSize), UNCHANGED <<rows, filter>>
    PROVE  Shows(items, total)'
<1> DEFINE found == Matching(filter)
<1>1. IsList(found) /\ Len(found) \in Nat
  BY MatchingIs DEF RowsInv
<1>2. Matching(filter)' = found
  BY DEF Matching
<1>1a. PICK X : found \in Seq(X)
  BY <1>1, ListIs
<1>1b. found \in Seq(X)
  BY <1>1a
<1>3. Len(items) \in 0..Len(found) /\ items = SubSeq(found, 1, Len(items))
  BY <1>1, ListIs DEF Shows, ShownInv
<1>4. p = SubSeq(found, Len(items) + 1,
                 IF Len(items) + PageSize < Len(found) THEN Len(items) + PageSize ELSE Len(found))
  BY DEF PageAt
<1> HIDE DEF found
<1>5. /\ Len(items \o p) <= Len(found) /\ items \o p = SubSeq(found, 1, Len(items \o p))
      /\ Len(items \o p) < Len(found) => Len(p) = PageSize
  <2> DEFINE n == Len(items)
  <2>1. n \in 0..Len(found)
    BY <1>3
  <2> HIDE DEF n
  <2>2. LET end == IF n + PageSize < Len(found) THEN n + PageSize ELSE Len(found)
            q == SubSeq(found, n + 1, end)
            j == SubSeq(found, 1, n) \o q
        IN  /\ Len(j) <= Len(found) /\ j = SubSeq(found, 1, Len(j))
            /\ Len(j) < Len(found) => Len(q) = PageSize
    BY <1>1b, <2>1, PageJoined
  <2>3. items = SubSeq(found, 1, n)
    BY <1>3 DEF n
  <2>4. p = SubSeq(found, n + 1, IF n + PageSize < Len(found) THEN n + PageSize ELSE Len(found))
    BY <1>4 DEF n
  <2> QED BY <2>2, <2>3, <2>4
<1> QED BY <1>2, <1>5 DEF Shows

-----------------------------------------------------------------------------
(* One lemma for each action: the invariant of a calm page. *)

LEMMA InitInv == Init => Inv
<1> SUFFICES ASSUME Init PROVE Inv
  OBVIOUS
<1>1. PICK l : l = Listing(1, None, 0)
  OBVIOUS
<1>2. l.token = 1
  BY <1>1, NewListing
<1>3. CalmListing
  BY <1>1, <1>2 DEF Init, CalmListing
<1> QED BY <1>3, PageInvInit DEF Inv, CalmInv

LEMMA NothingUnmounted == Unmounted({}) = {}
BY DEF Unmounted

(* Only one request of the user is under way while the page is calm. *)
LEMMA CalmSend ==
    ASSUME Inv, Sending, calm'
    PROVE  CalmIdle
<1>1. calm /\ lists = {} /\ deletes = {} /\ saves = {}
  BY NothingUnderWay DEF Inv, Sending
<1> QED BY <1>1 DEF Inv, CalmInv, CalmIdle, CalmListing, CalmDeleting, CalmSaving

LEMMA CalmChangeFilter == ASSUME Inv, ChangeFilter PROVE CalmInv'
<1> SUFFICES ASSUME calm' PROVE CalmListing'
  BY DEF CalmInv
<1>1. CalmIdle
  BY CalmSend DEF ChangeFilter
<1>2. PICK f : Load(f)
  BY DEF ChangeFilter
<1>3. PICK l : l = Listing(token + 1, f, 0)
  OBVIOUS
<1>4. l.token = token' /\ lists' = {l}
  BY <1>1, <1>2, <1>3, NewListing DEF Load, CalmIdle
<1>5. deletes' = {} /\ saves' = {}
  BY <1>1, <1>2, NothingUnmounted DEF Load, ChangeFilter, CalmIdle
<1> QED BY <1>4, <1>5 DEF CalmListing

LEMMA CalmSendMore == ASSUME Inv, SendMore PROVE CalmInv'
<1> SUFFICES ASSUME calm' PROVE CalmListing'
  BY DEF CalmInv
<1>1. CalmIdle
  BY CalmSend DEF SendMore
<1>2. PICK l : l = Listing(More, filter, Len(items))
  OBVIOUS
<1>3. l.token = More /\ l.filter = filter /\ l.offset = Len(items)
  BY <1>2, NewListing
<1>4. lists' = {l} /\ UNCHANGED <<rows, items, total, hasMore, filter, deletes, saves>>
  BY <1>1, <1>2 DEF SendMore, Offset, CalmIdle, page
<1>5. Shows(items, total)'
  BY <1>1, <1>4, ShowsKept DEF CalmIdle
<1> QED BY <1>1, <1>3, <1>4, <1>5 DEF CalmIdle, CalmListing

LEMMA CalmSendDelete == ASSUME Inv, SendDelete PROVE CalmInv'
<1> SUFFICES ASSUME calm' PROVE CalmDeleting'
  BY DEF CalmInv
<1>1. CalmIdle
  BY CalmSend DEF SendDelete
<1>2. PICK i \in DOMAIN items :
          deletes' = deletes \cup {[click |-> left.clicks, id |-> items[i].id,
                                    at |-> "sent", client |-> "mounted"]}
  BY DEF SendDelete
<1>3. PICK d : d = [click |-> left.clicks, id |-> items[i].id, at |-> "sent",
                    client |-> "mounted"]
  OBVIOUS
<1>4. deletes' = {d} /\ d.at = "sent" /\ d.client = "mounted"
  BY <1>1, <1>2, <1>3 DEF CalmIdle
<1>5. UNCHANGED <<rows, lists, items, total, hasMore, filter, saves>>
  BY DEF SendDelete, page
<1>6. Shows(items, total)'
  BY <1>1, <1>5, ShowsKept DEF CalmIdle
<1>7. Deleting(d)'
  BY <1>4, <1>6 DEF Deleting
<1> QED BY <1>1, <1>4, <1>5, <1>7 DEF CalmIdle, CalmDeleting

LEMMA CalmSubmit == ASSUME Inv, Submit PROVE CalmInv'
<1> SUFFICES ASSUME calm' PROVE CalmSaving'
  BY DEF CalmInv
<1>1. CalmIdle
  BY CalmSend DEF Submit
<1>2. PICK m : saves' = saves \cup {m} /\ m.at = "sent" /\ m.client = "mounted"
  BY SubmitSave DEF Inv, PageInv
<1>3. UNCHANGED <<rows, lists, items, total, hasMore, filter, deletes>>
  BY DEF Submit, page
<1>4. Shows(items, total)'
  BY <1>1, <1>3, ShowsKept DEF CalmIdle
<1> QED BY <1>1, <1>2, <1>3, <1>4 DEF CalmIdle, CalmSaving

LEMMA CalmKept ==
    ASSUME Inv, UNCHANGED <<rows, page, lists, deletes, saves, calm>>
    PROVE  CalmInv'
<1>1. UNCHANGED <<items, total, hasMore, token, filter>>
  BY DEF page
<1>2. /\ Shows(items, total) => Shows(items, total)'
      /\ \A d : Shows(Without(items, d.id), total - 1)
                            => Shows(Without(items, d.id), total - 1)'
      /\ RowIds' = RowIds
  BY <1>1 DEF Shows, Matching, RowIds
<1>3. CalmIdle => CalmIdle'
  BY <1>1, <1>2 DEF CalmIdle
<1>4. CalmListing => CalmListing'
  BY <1>1, <1>2 DEF CalmListing
<1>5. CalmDeleting => CalmDeleting'
  BY <1>1, <1>2 DEF CalmDeleting, Deleting
<1>6. CalmSaving => CalmSaving'
  BY <1>1, <1>2 DEF CalmSaving
<1> QED BY <1>3, <1>4, <1>5, <1>6 DEF Inv, CalmInv

LEMMA CalmCloseForm == ASSUME Inv, CloseForm PROVE CalmInv'
<1>0. saves' = Unmounted(saves) /\ UNCHANGED <<rows, page, lists, deletes, calm>>
  BY DEF CloseForm
<1>1. CASE saves = {}
  BY <1>0, <1>1, NothingUnmounted, CalmKept
<1>2. CASE saves # {}
  <2> SUFFICES ASSUME calm' PROVE CalmSaving'
    BY DEF CalmInv
  <2>1. CalmSaving
    BY <1>0, <1>2 DEF Inv, CalmInv, CalmIdle, CalmListing, CalmDeleting
  <2>2. PICK s \in saves : saves = {s} /\ s.client # "gone"
                             /\ (s.at # "saved" => Shows(items, total))
    BY <2>1 DEF CalmSaving
  <2>3. DOMAIN s = SaveFields
    BY DEF Inv, PageInv, SavesInv, SaveInv
  <2>4. PICK m : m = [s EXCEPT !.client = IF @ = "mounted" THEN "unmounted" ELSE @]
    OBVIOUS
  <2>5. saves' = {m}
    BY <1>0, <2>2, <2>4 DEF Unmounted
  <2>6. m.at = s.at /\ m.client # "gone"
    <3>1. m.client = IF s.client = "mounted" THEN "unmounted" ELSE s.client
      BY <2>3, <2>4 DEF SaveFields
    <3> QED BY <2>2, <2>3, <2>4, <3>1 DEF SaveFields
  <2>7. Shows(items, total) => Shows(items, total)'
    BY <1>0, ShowsKept DEF page
  <2> QED BY <1>0, <2>1, <2>2, <2>5, <2>6, <2>7 DEF CalmSaving
<1> QED BY <1>1, <1>2

LEMMA CalmReceiveFirst == ASSUME Inv, ReceiveFirst PROVE CalmInv'
<1> SUFFICES ASSUME calm' PROVE CalmIdle'
  BY DEF CalmInv
<1>1. PICK l \in lists :
        /\ l.token # More /\ l.at \in {"answered", "failed"}
        /\ lists' = lists \ {l}
        /\ IF ~Active(l) THEN UNCHANGED <<page, calm>>
           ELSE /\ StopLoading(l)
                /\ IF l.at = "failed"
                     THEN UNCHANGED <<items, total, hasMore>> /\ calm' = FALSE
                     ELSE /\ items' = l.page
                          /\ total' = l.total
                          /\ hasMore' = (Len(l.page) = PageSize)
                          /\ calm' = (UnderWay = 1 /\ ~l.stale)
                /\ UNCHANGED <<token, filter>>
        /\ UNCHANGED <<rows, deletes, saves>>
  BY DEF ReceiveFirst
<1>2. ListsInv /\ ListInv(l) /\ token \in Nat \ {0} /\ RowsInv
  BY DEF Inv, PageInv, ListsInv
<1>3. CASE l.token # token
  <2>1. calm
    BY <1>1, <1>3 DEF Active
  <2> QED BY <1>1, <1>3, <2>1 DEF Inv, CalmInv, CalmIdle, CalmListing, CalmDeleting, CalmSaving
<1>4. CASE l.token = token
  <2>1. /\ l.at = "answered" /\ items' = l.page /\ total' = l.total
        /\ hasMore' = (Len(l.page) = PageSize) /\ UnderWay = 1 /\ ~l.stale
        /\ UNCHANGED <<token, filter>>
    BY <1>1, <1>4 DEF Active
  <2>2. lists = {l} /\ deletes = {} /\ saves = {}
    BY <2>1, NothingUnderWay DEF Inv
  <2>3. l.page = PageAt(filter, 0) /\ l.total = Len(rows)
    BY <1>1, <1>2, <1>4, <2>1 DEF ListInv, ListTypeOK, Current
  <2>4. Shows(items, total)'
    BY <1>1, <1>2, <2>1, <2>3, FirstPageIsShown
  <2> QED BY <1>1, <2>2, <2>4 DEF CalmIdle
<1> QED BY <1>3, <1>4

LEMMA CalmReceiveMore == ASSUME Inv, ReceiveMore PROVE CalmInv'
<1> SUFFICES ASSUME calm' PROVE CalmIdle'
  BY DEF CalmInv
<1>1. PICK l \in lists :
        /\ l.token = More /\ l.at \in {"answered", "failed"}
        /\ lists' = lists \ {l}
        /\ IF l.at = "failed" THEN UNCHANGED <<items, total, hasMore, calm>>
           ELSE /\ items' = items \o l.page
                /\ total' = l.total
                /\ hasMore' = (Len(l.page) = PageSize)
                /\ calm' = (calm /\ ~l.stale)
        /\ UNCHANGED <<loading, token, filter, rows, deletes, saves>>
  BY DEF ReceiveMore
<1>2. ListInv(l) /\ token \in Nat \ {0} /\ RowsInv /\ ShownInv
  BY DEF Inv, PageInv, ListsInv
<1>3. calm
  BY <1>1
<1>4. /\ deletes = {} /\ saves = {} /\ lists = {l} /\ l.filter = filter
      /\ l.offset = Len(items) /\ Shows(items, total)
  <2>1. CalmListing
    BY <1>1, <1>3 DEF Inv, CalmInv, CalmIdle, CalmDeleting, CalmSaving
  <2>2. l.token # token
    BY <1>1, <1>2 DEF More
  <2> QED BY <2>1, <2>2 DEF CalmListing
<1>5. Shows(items, total)'
  <2>1. CASE l.at = "failed"
    BY <1>1, <1>4, <2>1, ShowsKept
  <2>2. CASE l.at = "answered"
    <3>1. l.page = PageAt(filter, Len(items)) /\ l.total = Len(rows)
      BY <1>1, <1>2, <1>4, <2>2 DEF ListInv, Current
    <3> QED BY <1>1, <1>2, <1>4, <2>2, <3>1, FurtherPageIsShown
  <2> QED BY <1>1, <2>1, <2>2
<1> QED BY <1>1, <1>4, <1>5 DEF CalmIdle

LEMMA CalmReceiveDelete == ASSUME Inv, ReceiveDelete PROVE CalmInv'
<1> SUFFICES ASSUME calm' PROVE CalmIdle'
  BY DEF CalmInv
<1>1. PICK d \in deletes :
        /\ d.at \in {"removed", "missing"}
        /\ deletes' = {c \in deletes \ {d} : c.id # d.id}
                        \cup Unmounted({c \in deletes \ {d} : c.id = d.id})
        /\ items' = Without(items, d.id)
        /\ total' = IF d.at = "removed" /\ total > 0 THEN total - 1 ELSE total
        /\ UNCHANGED <<hasMore, filter, rows, lists, saves, calm>>
  BY DEF ReceiveDelete
<1>2. lists = {} /\ saves = {} /\ deletes = {d} /\ Deleting(d)
  BY <1>1 DEF Inv, CalmInv, CalmIdle, CalmListing, CalmDeleting, CalmSaving
<1>3. deletes' = {}
  <2>1. {c \in deletes \ {d} : c.id # d.id} = {} /\ {c \in deletes \ {d} : c.id = d.id} = {}
    BY <1>2
  <2> QED BY <1>1, <2>1, NothingUnmounted
<1>4. CASE d.at = "removed"
  <2>1. Shows(Without(items, d.id), total - 1) /\ total > 0
    BY <1>2, <1>4 DEF Deleting
  <2>2. items' = Without(items, d.id) /\ total' = total - 1
    BY <1>1, <1>4, <2>1
  <2>3. Shows(items, total)'
    BY <1>1, <2>1, <2>2 DEF Shows, Matching
  <2> QED BY <1>1, <1>2, <1>3, <2>3 DEF CalmIdle
<1>5. CASE d.at = "missing"
  <2>1. Shows(items, total) /\ d.id \notin RowIds
    BY <1>2, <1>5 DEF Deleting
  <2>2. Without(items, d.id) = items
    BY <2>1, GoneIsNotShown DEF Inv, PageInv
  <2>3. items' = items /\ total' = total
    BY <1>1, <1>5, <2>2
  <2>4. Shows(items, total)'
    BY <1>1, <2>1, <2>3, ShowsKept
  <2> QED BY <1>1, <1>2, <1>3, <2>4 DEF CalmIdle
<1> QED BY <1>1, <1>4, <1>5

LEMMA CalmReceiveSave == ASSUME Inv, ReceiveSave PROVE CalmInv'
<1> SUFFICES ASSUME calm' PROVE CalmIdle' \/ CalmListing'
  BY DEF CalmInv
<1>1. PICK s \in saves :
        /\ \/ s.at = "saved" /\ Load(filter) /\ saves' = Unmounted(saves \ {s})
           \/ s.at = "refused" /\ saves' = saves \ {s} /\ UNCHANGED <<page, lists, deletes>>
        /\ UNCHANGED <<rows, calm>>
  BY DEF ReceiveSave
<1>2. lists = {} /\ deletes = {} /\ saves = {s} /\ (s.at # "saved" => Shows(items, total))
  BY <1>1 DEF Inv, CalmInv, CalmIdle, CalmListing, CalmDeleting, CalmSaving
<1>3. CASE s.at = "saved" /\ Load(filter) /\ saves' = Unmounted(saves \ {s})
  <2>1. PICK l : l = Listing(token + 1, filter, 0)
    OBVIOUS
  <2>2. l.token = token' /\ lists' = {l}
    BY <1>2, <1>3, <2>1, NewListing DEF Load
  <2>3. saves' = {} /\ deletes' = {}
    <3>1. saves \ {s} = {}
      BY <1>2
    <3> QED BY <1>2, <1>3, <3>1, NothingUnmounted DEF Load
  <2> QED BY <2>2, <2>3 DEF CalmListing
<1>4. CASE s.at = "refused" /\ saves' = saves \ {s} /\ UNCHANGED <<page, lists, deletes>>
  <2>1. Shows(items, total)'
    BY <1>1, <1>2, <1>4, ShowsKept DEF page
  <2> QED BY <1>2, <1>4, <2>1 DEF CalmIdle
<1> QED BY <1>1, <1>3, <1>4

(* A listing is served or lost: the page behind it stays as it is. *)
LEMMA CalmListingMoves ==
    ASSUME Inv, NEW l \in lists, NEW m, lists' = (lists \ {l}) \cup {m}, SameRequest(l, m),
           UNCHANGED <<rows, page, deletes, saves, calm>>
    PROVE  CalmInv'
<1> SUFFICES ASSUME calm' PROVE CalmListing'
  BY DEF CalmInv
<1>1. CalmListing
  BY DEF Inv, CalmInv, CalmIdle, CalmDeleting, CalmSaving
<1>2. lists = {l} /\ lists' = {m}
  BY <1>1 DEF CalmListing
<1>3. UNCHANGED <<items, total, hasMore, token, filter>>
  BY DEF page
<1>4. l.token = token \/ (/\ l.token = More /\ l.filter = filter /\ l.offset = Len(items)
                          /\ Shows(items, total))
  BY <1>1, <1>2 DEF CalmListing
<1>5. Shows(items, total) => Shows(items, total)'
  BY <1>3, ShowsKept
<1> QED BY <1>1, <1>2, <1>3, <1>4, <1>5 DEF CalmListing, SameRequest

LEMMA CalmServePage == ASSUME Inv, ServePage PROVE CalmInv'
<1>1. PICK l \in lists :
          lists' = (lists \ {l}) \cup
                     {[l EXCEPT !.at = "listed", !.page = PageAt(l.filter, l.offset)]}
  BY DEF ServePage, PageAt
<1>2. DOMAIN l = ListFields
  BY DEF Inv, PageInv, ListsInv, ListInv, ListTypeOK
<1>3. SameRequest(l, [l EXCEPT !.at = "listed", !.page = PageAt(l.filter, l.offset)])
  BY <1>2 DEF SameRequest, ListFields
<1>4. PICK m : m = [l EXCEPT !.at = "listed", !.page = PageAt(l.filter, l.offset)]
  OBVIOUS
<1> QED BY <1>1, <1>3, <1>4, CalmListingMoves DEF ServePage

LEMMA CalmServeTotal == ASSUME Inv, ServeTotal PROVE CalmInv'
<1>1. PICK l \in lists :
          lists' = (lists \ {l}) \cup {[l EXCEPT !.at = "answered", !.total = Len(rows)]}
  BY DEF ServeTotal
<1>2. DOMAIN l = ListFields
  BY DEF Inv, PageInv, ListsInv, ListInv, ListTypeOK
<1>3. SameRequest(l, [l EXCEPT !.at = "answered", !.total = Len(rows)])
  BY <1>2 DEF SameRequest, ListFields
<1>4. PICK m : m = [l EXCEPT !.at = "answered", !.total = Len(rows)]
  OBVIOUS
<1> QED BY <1>1, <1>3, <1>4, CalmListingMoves DEF ServeTotal

LEMMA CalmServeDelete == ASSUME Inv, ServeDelete PROVE CalmInv'
<1> SUFFICES ASSUME calm' PROVE CalmDeleting'
  BY DEF CalmInv
<1>1. PICK d \in deletes :
        /\ d.at = "sent"
        /\ deletes' = (deletes \ {d}) \cup
                        Answer(d, IF d.id \in RowIds THEN "removed" ELSE "missing")
        /\ rows' = Without(rows, d.id)
        /\ lists' = IF d.id \in RowIds THEN Touched ELSE lists
  BY DEF ServeDelete
<1>2. calm /\ UNCHANGED <<items, total, hasMore, filter, saves>> /\ RowsInv /\ ShownInv
  BY DEF ServeDelete, page, Inv, PageInv
<1>3. lists = {} /\ saves = {} /\ deletes = {d} /\ Deleting(d)
  BY <1>1, <1>2 DEF Inv, CalmInv, CalmIdle, CalmListing, CalmDeleting, CalmSaving
<1>4. Shows(items, total) /\ d.client # "gone" /\ DOMAIN d = DeleteFields
  BY <1>1, <1>3 DEF Deleting, Inv, PageInv, DeletesInv
<1>5. lists' = {}
  BY <1>1, <1>3 DEF Touched
<1>6. PICK v : v = IF d.id \in RowIds THEN "removed" ELSE "missing"
  OBVIOUS
<1>7. PICK m : m = [d EXCEPT !.at = v]
  OBVIOUS
<1>8. deletes' = {m} /\ m.at = v /\ m.id = d.id /\ m.client = d.client
  <2>1. m.at = v /\ m.id = d.id /\ m.client = d.client
    BY <1>4, <1>7, DeleteAt
  <2> QED BY <1>1, <1>3, <1>4, <1>6, <1>7, <2>1 DEF Answer
<1>9. CASE d.id \in RowIds
  <2>1. (total > 0 /\ Shows(Without(items, d.id), total - 1))'
    BY <1>1, <1>2, <1>4, <1>9, RemovedShows
  <2>2. Deleting(m)'
    BY <1>4, <1>6, <1>8, <1>9, <2>1 DEF Deleting
  <2> QED BY <1>2, <1>3, <1>5, <1>8, <2>2 DEF CalmDeleting
<1>10. CASE d.id \notin RowIds
  <2>1. rows' = rows
    BY <1>1, <1>2, <1>10, GoneIsNotThere DEF RowsInv
  <2>2. Shows(items, total)' /\ d.id \notin RowIds'
    BY <1>2, <1>4, <1>10, <2>1, ShowsKept DEF RowIds
  <2>3. Deleting(m)'
    BY <1>4, <1>6, <1>8, <1>10, <2>2 DEF Deleting
  <2> QED BY <1>2, <1>3, <1>5, <1>8, <2>3 DEF CalmDeleting
<1> QED BY <1>9, <1>10

LEMMA CalmCheckSave == ASSUME Inv, CheckSave PROVE CalmInv'
<1> SUFFICES ASSUME calm' PROVE CalmSaving'
  BY DEF CalmInv
<1>0. UNCHANGED <<rows, items, total, hasMore, filter, lists, deletes, calm>>
  BY DEF CheckSave, page
<1>1. PICK s, m :
         /\ s \in saves
         /\ s.at = "sent" /\ m.client = s.client
         /\ \/ saves' = (saves \ {s}) \cup {m} /\ m.at = "checked"
            \/ /\ saves' = (saves \ {s}) \cup Answer(s, "refused") /\ m.at = "refused"
               /\ (s.client # "gone" => Answer(s, "refused") = {m})
  BY CheckIs DEF Inv, PageInv
<1>2. /\ lists = {} /\ deletes = {} /\ saves = {s} /\ s.client # "gone"
      /\ Shows(items, total)
  BY <1>0, <1>1 DEF Inv, CalmInv, CalmIdle, CalmListing, CalmDeleting, CalmSaving
<1>3. saves' = {m} /\ m.at # "saved" /\ m.client # "gone"
  BY <1>1, <1>2
<1>4. Shows(items, total)'
  BY <1>0, <1>2, ShowsKept
<1> QED BY <1>0, <1>2, <1>3, <1>4 DEF CalmSaving

LEMMA CalmWriteSave == ASSUME Inv, WriteSave PROVE CalmInv'
<1> SUFFICES ASSUME calm' PROVE CalmSaving'
  BY DEF CalmInv
<1>0. UNCHANGED <<items, total, hasMore, filter, deletes, calm>>
  BY DEF WriteSave, page
<1>0a. PICK s \in saves :
         /\ s.at = "checked"
         /\ \/ saves' = (saves \ {s}) \cup Answer(s, "refused") /\ UNCHANGED <<rows, lists>>
            \/ saves' = (saves \ {s}) \cup Answer(s, "saved") /\ lists' = Touched
  BY DEF WriteSave
<1>1. PICK v :
         /\ s.at = "checked" /\ saves' = (saves \ {s}) \cup Answer(s, v)
         /\ \/ v = "refused" /\ UNCHANGED <<rows, lists>>
            \/ v = "saved" /\ lists' = Touched
  BY <1>0a
<1>2. /\ lists = {} /\ deletes = {} /\ saves = {s} /\ s.client # "gone"
      /\ Shows(items, total)
  BY <1>0, <1>1 DEF Inv, CalmInv, CalmIdle, CalmListing, CalmDeleting, CalmSaving
<1>3. DOMAIN s = SaveFields
  BY DEF Inv, PageInv, SavesInv, SaveInv
<1>4. PICK m : Answer(s, v) = {m} /\ m.at = v /\ m.client # "gone"
  BY <1>2, <1>3, AnswerIs
<1>5. saves' = {m}
  BY <1>1, <1>2, <1>4
<1>6. lists' = {}
  BY <1>1, <1>2 DEF Touched
<1>7. v = "refused" => Shows(items, total)'
  BY <1>0, <1>1, <1>2, ShowsKept
<1> QED BY <1>0, <1>1, <1>2, <1>4, <1>5, <1>6, <1>7 DEF CalmSaving

LEMMA CalmLose == ASSUME Inv, Lose PROVE CalmInv'
<1>0. UNCHANGED <<rows, page>>
  BY DEF Lose
<1>1. CASE calm' = FALSE
  BY <1>1 DEF CalmInv
<1>2. ASSUME NEW l \in lists,
             lists' = (lists \ {l}) \cup {[l EXCEPT !.at = "failed"]},
             UNCHANGED <<deletes, saves, calm>>
      PROVE  CalmInv'
  <2>1. DOMAIN l = ListFields
    BY DEF Inv, PageInv, ListsInv, ListInv, ListTypeOK
  <2>2. SameRequest(l, [l EXCEPT !.at = "failed"])
    BY <2>1 DEF SameRequest, ListFields
  <2>3. PICK m : m = [l EXCEPT !.at = "failed"]
    OBVIOUS
  <2> QED BY <1>0, <1>2, <2>2, <2>3, CalmListingMoves
<1> QED BY <1>1, <1>2 DEF Lose

LEMMA StepInv == Inv /\ [Next]_vars => Inv'
<1> SUFFICES ASSUME Inv, [Next]_vars PROVE Inv'
  OBVIOUS
<1>1. PageInv'
  BY PageInvStep DEF Inv
<1>2. CalmInv'
  <2>1. CASE LoadCategories \/ OpenForm \/ Fill \/ AssistantChecks \/ UNCHANGED vars
    <3>1. UNCHANGED <<rows, page, lists, deletes, saves, calm>>
      BY <2>1 DEF LoadCategories, OpenForm, Fill, ChangeCategory, SetNotes, SetField, Touch,
                  AssistantChecks, vars
    <3> QED BY <3>1, CalmKept
  <2>2. CASE AssistantWrites \/ AssistantRemoves
    <3>1. calm' = FALSE
      BY <2>2 DEF AssistantWrites, AssistantRemoves
    <3> QED BY <3>1 DEF CalmInv
  <2> QED
    BY <2>1, <2>2, CalmChangeFilter, CalmSendMore, CalmSendDelete, CalmSubmit, CalmCloseForm,
       CalmReceiveFirst, CalmReceiveMore, CalmReceiveDelete, CalmReceiveSave,
       CalmServePage, CalmServeTotal, CalmServeDelete, CalmCheckSave, CalmWriteSave, CalmLose
       DEF Next, Serve, Receive
<1> QED BY <1>1, <1>2 DEF Inv

(* A calm page shows the newest items its filter asks for, as the closet   *)
(* holds them, and knows whether there are more and how many there are.    *)
THEOREM CalmPageShowsPrefix == Spec => []PageShowsPrefix
<1>1. Inv => PageShowsPrefix
  <2> SUFFICES ASSUME Inv, calm, UnderWay = 0
               PROVE  LET found == Matching(filter)
                      IN  /\ items = SubSeq(found, 1, Len(items))
                          /\ Len(items) < Len(found) => hasMore
                          /\ total = Len(rows)
    BY DEF PageShowsPrefix
  <2>1. lists = {} /\ deletes = {} /\ saves = {}
    BY NothingUnderWay DEF Inv
  <2>2. CalmIdle
    BY <2>1 DEF Inv, CalmInv, CalmListing, CalmDeleting, CalmSaving
  <2> QED BY <2>2 DEF CalmIdle, Shows
<1> QED BY <1>1, InitInv, StepInv, PTL DEF Spec
=============================================================================
