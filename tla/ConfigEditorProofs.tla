------------------------- MODULE ConfigEditorProofs -------------------------
(***************************************************************************)
(* Theorems about ConfigEditor, for any pages, loads, keys, texts and rows *)
(* and any number of edits.                                                *)
(***************************************************************************)
EXTENDS ConfigEditor, TLAPS, FiniteSetTheorems, SequenceTheorems

-----------------------------------------------------------------------------
(* What Picked gives: the elements at the positions I, each once and in     *)
(* their order.                                                             *)

LEMMA RankGrows ==
  ASSUME NEW n \in Nat, NEW I \in SUBSET (1..n)
  PROVE  /\ IsFiniteSet(I) /\ Cardinality(I) \in Nat
         /\ \A i \in I : Rank(i, I) \in 1..Cardinality(I)
         /\ \A i, j \in I : i < j => Rank(i, I) < Rank(j, I)
<1> DEFINE upTo(i) == {k \in I : k <= i}
<1>1. IsFiniteSet(I) /\ Cardinality(I) \in Nat
  <2>1. IsFiniteSet(1..n)
    BY FS_Interval
  <2>2. IsFiniteSet(I)
    BY <2>1, FS_Subset
  <2> QED BY <2>2, FS_CardinalityType
<1>2. ASSUME NEW i \in I
      PROVE  /\ IsFiniteSet(upTo(i)) /\ Cardinality(upTo(i)) \in Nat
             /\ Cardinality(upTo(i)) <= Cardinality(I)
  <2>1. upTo(i) \in SUBSET I
    OBVIOUS
  <2> HIDE DEF upTo
  <2> QED BY <1>1, <2>1, FS_Subset, FS_CardinalityType
<1>3. ASSUME NEW i \in I PROVE Cardinality(upTo(i)) # 0
  <2>1. i \in upTo(i)
    OBVIOUS
  <2> QED BY <1>2, <2>1, FS_EmptySet
<1>4. ASSUME NEW i \in I, NEW j \in I, i < j
      PROVE  Cardinality(upTo(i)) < Cardinality(upTo(j))
  <2>1. upTo(i) \subseteq upTo(j) /\ j \in upTo(j) /\ j \notin upTo(i)
    <3>1. \A k \in I : k \in Int
      OBVIOUS
    <3>2. \A k \in I : k <= i => k <= j
      BY <1>4, <3>1
    <3>3. j <= j /\ ~(j <= i)
      BY <1>4, <3>1
    <3> QED BY <3>2, <3>3
  <2>2. upTo(i) # upTo(j)
    BY <2>1
  <2>3. /\ Cardinality(upTo(i)) <= Cardinality(upTo(j))
        /\ Cardinality(upTo(i)) # Cardinality(upTo(j))
    BY <1>2, <2>1, <2>2, FS_Subset
  <2> QED BY <1>2, <2>3
<1>5. \A i \in I : Rank(i, I) = Cardinality(upTo(i))
  BY DEF Rank
<1> HIDE DEF upTo
<1> QED BY <1>1, <1>2, <1>3, <1>4, <1>5

LEMMA RankReaches ==
  ASSUME NEW n \in Nat, NEW I \in SUBSET (1..n), NEW r \in 1..Cardinality(I)
  PROVE  \E i \in I : Rank(i, I) = r
<1> DEFINE T == 1..Cardinality(I)
           f == [i \in I |-> Rank(i, I)]
<1>1. /\ Cardinality(I) \in Nat /\ f \in [I -> T]
      /\ \A i, j \in I : i < j => f[i] < f[j]
  BY RankGrows
<1>2. f \in Injection(I, T)
  <2> SUFFICES ASSUME NEW i \in I, NEW j \in I, f[i] = f[j] PROVE i = j
    BY <1>1 DEF Injection, IsInjective
  <2>1. ~(i < j) /\ ~(j < i)
    <3>1. f[i] \in Nat /\ f[j] \in Nat
      BY <1>1
    <3> QED BY <1>1, <3>1
  <2> QED BY <2>1
<1>3. IsFiniteSet(T) /\ Cardinality(T) = Cardinality(I)
  BY <1>1, FS_Interval
<1>4. f \in Surjection(I, T)
  BY <1>2, <1>3, FS_Injection
<1> QED BY <1>4 DEF Surjection

LEMMA PickedProperties ==
  ASSUME NEW S, NEW s \in Seq(S), NEW I \in SUBSET DOMAIN s
  PROVE  /\ Picked(s, I) \in Seq(S) /\ Len(Picked(s, I)) = Cardinality(I)
         /\ Cardinality(I) \in Nat
         /\ \A i \in I : /\ Rank(i, I) \in 1..Cardinality(I)
                         /\ Picked(s, I)[Rank(i, I)] = s[i]
         /\ \A i, j \in I : i < j => Rank(i, I) < Rank(j, I)
         /\ \A r \in 1..Cardinality(I) :
              \E i \in I : Rank(i, I) = r /\ Picked(s, I)[r] = s[i]
<1> DEFINE N == Cardinality(I)
           at(r) == CHOOSE i \in I : Rank(i, I) = r
<1>1. Len(s) \in Nat /\ I \in SUBSET (1..Len(s)) /\ s \in [1..Len(s) -> S]
  BY LenProperties
<1>2. /\ N \in Nat /\ \A i \in I : Rank(i, I) \in 1..N
      /\ \A i, j \in I : i < j => Rank(i, I) < Rank(j, I)
  BY <1>1, RankGrows
<1>3. \A r \in 1..N : at(r) \in I /\ Rank(at(r), I) = r
  BY <1>1, RankReaches
<1>4. \A i \in I : at(Rank(i, I)) = i
  <2> SUFFICES ASSUME NEW i \in I, NEW j \in I, Rank(i, I) = Rank(j, I)
               PROVE  i = j
    BY <1>2, <1>3
  <2>1. Rank(i, I) \in Int /\ ~(i < j) /\ ~(j < i)
    BY <1>2
  <2> QED BY <1>1, <2>1
<1> HIDE DEF N, at
<1>5. Picked(s, I) = [r \in 1..N |-> s[at(r)]]
  BY DEF Picked, N, at
<1>6. Picked(s, I) \in [1..N -> S] /\ \A r \in 1..N : Picked(s, I)[r] = s[at(r)]
  BY <1>1, <1>3, <1>5
<1>7. Picked(s, I) \in Seq(S) /\ Len(Picked(s, I)) = N
  <2>1. Picked(s, I) \in Seq(S)
    BY <1>2, <1>6, SeqDef
  <2>2. Len(Picked(s, I)) \in Nat /\ 1..Len(Picked(s, I)) = 1..N
    BY <1>6, <2>1, LenProperties
  <2> QED BY <1>2, <2>1, <2>2
<1>8. \A i \in I : /\ Rank(i, I) \in 1..N
                  /\ Picked(s, I)[Rank(i, I)] = s[i]
  BY <1>2, <1>4, <1>6
<1>9. \A r \in 1..N : \E i \in I : Rank(i, I) = r /\ Picked(s, I)[r] = s[i]
  BY <1>3, <1>6
<1> QED BY <1>2, <1>7, <1>8, <1>9 DEF N

\* A finite set of positions that is not empty has a last one.
LEMMA LastPosition ==
  ASSUME NEW n \in Nat, NEW I \in SUBSET (1..n), I # {}
  PROVE  \E i \in I : \A j \in I : j <= i
<1>1. Cardinality(I) \in Nat /\ \A i \in I : Rank(i, I) \in 1..Cardinality(I)
  BY RankGrows
<1>2. Cardinality(I) \in 1..Cardinality(I)
  <2>1. PICK i \in I : TRUE
    OBVIOUS
  <2>2. Rank(i, I) \in 1..Cardinality(I)
    BY <1>1, <2>1
  <2> QED BY <1>1, <2>2
<1>3. PICK i \in I : Rank(i, I) = Cardinality(I)
  BY <1>2, RankReaches
<1>4. ASSUME NEW j \in I PROVE j <= i
  <2>1. ~(Rank(i, I) < Rank(j, I))
    BY <1>1, <1>3
  <2>2. ~(i < j)
    BY <2>1, RankGrows
  <2> QED BY <2>2
<1> QED BY <1>4

-----------------------------------------------------------------------------
(* What a save sends. *)

\* The inputs of the form: every key shown, with what is shown for it.
LEMMA ExistingProperties ==
  ASSUME TypeOK, NEW p \in Page
  PROVE  /\ Existing(p) \in Seq(Pair)
         /\ \A n \in 1..Len(Existing(p)) :
              LET e == Existing(p)[n] IN
              shown[p][e.key] # nil /\ e.value = shown[p][e.key]
         /\ \A k \in Key : shown[p][k] # nil =>
              \E n \in 1..Len(Existing(p)) : Existing(p)[n].key = k
<1> DEFINE I == {i \in DOMAIN KeyOrder : HasInput(p, KeyOrder[i])}
           inputs == Picked(KeyOrder, I)
           E == Existing(p)
<1>1. /\ KeyOrder \in Seq(Key) /\ DOMAIN KeyOrder = 1..Len(KeyOrder)
      /\ I \in SUBSET DOMAIN KeyOrder
  BY KeyAssumption, LenProperties
<1>2. /\ inputs \in Seq(Key) /\ Len(inputs) = Cardinality(I)
      /\ \A i \in I : /\ Rank(i, I) \in 1..Len(inputs)
                      /\ inputs[Rank(i, I)] = KeyOrder[i]
      /\ \A n \in 1..Len(inputs) : \E i \in I : inputs[n] = KeyOrder[i]
  BY <1>1, PickedProperties
<1>3. Len(inputs) \in Nat /\ inputs \in [1..Len(inputs) -> Key]
  BY <1>2, LenProperties
<1>4. \A n \in 1..Len(inputs) : inputs[n] \in Key /\ shown[p][inputs[n]] # nil
  BY <1>2, <1>3 DEF HasInput
<1>5. \A k \in Key : shown[p][k] # nil =>
        \E n \in 1..Len(inputs) : inputs[n] = k
  <2> SUFFICES ASSUME NEW k \in Key, shown[p][k] # nil
               PROVE  \E n \in 1..Len(inputs) : inputs[n] = k
    OBVIOUS
  <2>1. PICK i \in 1..Len(KeyOrder) : KeyOrder[i] = k
    BY KeyAssumption
  <2>2. i \in I
    BY <1>1, <2>1 DEF HasInput
  <2> QED BY <1>2, <2>1, <2>2
<1>6. E = [n \in 1..Len(inputs) |->
             [key |-> inputs[n], value |-> shown[p][inputs[n]]]]
  BY DEF Existing
<1> HIDE DEF E, inputs
<1>7. shown[p] \in [Key -> Value \cup {nil}]
  BY DEF TypeOK
<1>8. E \in [1..Len(inputs) -> Pair]
  BY <1>4, <1>6, <1>7 DEF Pair
<1>9. E \in Seq(Pair) /\ Len(E) = Len(inputs)
  <2>1. E \in Seq(Pair)
    BY <1>3, <1>8, SeqDef
  <2>2. Len(E) \in Nat /\ 1..Len(E) = 1..Len(inputs)
    BY <1>8, <2>1, LenProperties
  <2> QED BY <1>3, <2>1, <2>2
<1>10. \A n \in 1..Len(E) : /\ E[n].key = inputs[n]
                            /\ E[n].value = shown[p][inputs[n]]
  BY <1>6, <1>9
<1>11. \A n \in 1..Len(E) : /\ shown[p][E[n].key] # nil
                            /\ E[n].value = shown[p][E[n].key]
  BY <1>4, <1>9, <1>10
<1>12. \A k \in Key : shown[p][k] # nil => \E n \in 1..Len(E) : E[n].key = k
  BY <1>5, <1>9, <1>10
<1> QED BY <1>9, <1>11, <1>12 DEF E

\* The added rows with a key, the last one for a key after the others.
LEMMA ChosenProperties ==
  ASSUME TypeOK, NEW p \in Page
  PROVE  /\ Chosen(p) \in Seq(Pair)
         /\ \A n \in 1..Len(Chosen(p)) :
              \E i \in DOMAIN rows[p] : Chosen(p)[n] = rows[p][i]
         /\ \A i \in DOMAIN rows[p] :
              /\ rows[p][i].key # nil
              /\ \A j \in DOMAIN rows[p] :
                   rows[p][j].key = rows[p][i].key => j <= i
              => \E n \in 1..Len(Chosen(p)) :
                   /\ Chosen(p)[n] = rows[p][i]
                   /\ \A m \in n+1..Len(Chosen(p)) :
                        Chosen(p)[m].key # rows[p][i].key
<1> DEFINE R == rows[p]
           I == {i \in DOMAIN R : R[i].key # nil}
           C == Picked(R, I)
<1>1. R \in Seq(Row) /\ I \in SUBSET DOMAIN R /\ DOMAIN R = 1..Len(R)
  BY LenProperties DEF TypeOK
<1>2. /\ C \in Seq(Row) /\ Len(C) = Cardinality(I) /\ Len(C) \in Nat
      /\ \A i \in I : Rank(i, I) \in 1..Len(C) /\ C[Rank(i, I)] = R[i]
      /\ \A i, j \in I : i < j => Rank(i, I) < Rank(j, I)
      /\ \A n \in 1..Len(C) : \E i \in I : Rank(i, I) = n /\ C[n] = R[i]
  <2>1. /\ C \in Seq(Row) /\ Len(C) = Cardinality(I) /\ Len(C) \in Nat
        /\ \A i \in I : /\ Rank(i, I) \in 1..Cardinality(I)
                        /\ C[Rank(i, I)] = R[i]
    BY <1>1, PickedProperties
  <2>2. \A i, j \in I : i < j => Rank(i, I) < Rank(j, I)
    BY <1>1, PickedProperties
  <2>3. \A n \in 1..Cardinality(I) : \E i \in I : Rank(i, I) = n /\ C[n] = R[i]
    BY <1>1, PickedProperties
  <2> HIDE DEF C, I
  <2> QED BY <2>1, <2>2, <2>3
<1> HIDE DEF C
<1>3. C \in Seq(Pair)
  <2>1. C \in [1..Len(C) -> Row]
    BY <1>2, LenProperties
  <2>2. \A n \in 1..Len(C) : C[n] \in Row /\ C[n].key # nil
    BY <1>2, <2>1
  <2>3. \A n \in 1..Len(C) : C[n] \in Pair
    BY <2>2 DEF Row, Pair
  <2> QED BY <1>2, <2>1, <2>3, SeqDef
<1>4. \A n \in 1..Len(C) : \E i \in DOMAIN R : C[n] = R[i]
  BY <1>2
<1>5. ASSUME NEW i \in DOMAIN R, R[i].key # nil,
             \A j \in DOMAIN R : R[j].key = R[i].key => j <= i
      PROVE  \E n \in 1..Len(C) :
               /\ C[n] = R[i]
               /\ \A m \in n+1..Len(C) : C[m].key # R[i].key
  <2>1. i \in I
    BY <1>5
  <2> DEFINE n == Rank(i, I)
  <2>2. n \in 1..Len(C) /\ C[n] = R[i]
    BY <1>2, <2>1
  <2>3. ASSUME NEW m \in n+1..Len(C), C[m].key = R[i].key PROVE FALSE
    <3>1. m \in 1..Len(C) /\ n < m
      BY <2>2
    <3>2. PICK j \in I : Rank(j, I) = m /\ C[m] = R[j]
      BY <1>2, <3>1
    <3>3. j <= i
      BY <1>5, <2>3, <3>2
    <3>4. j # i
      BY <2>2, <3>1, <3>2
    <3>5. j < i
      BY <1>1, <3>3, <3>4
    <3>6. m < n
      BY <1>2, <2>1, <3>2, <3>5
    <3> QED BY <2>2, <3>1, <3>6
  <2> QED BY <2>2, <2>3
<1>6. C = Chosen(p)
  BY DEF C, Chosen
<1> QED BY <1>3, <1>4, <1>5, <1>6

\* Among the first n pairs of s there is one that sets k to v, and none after
\* it sets k to anything else.
LastIs(s, n, k, v) ==
    \E i \in 1..n :
        /\ s[i].key = k
        /\ s[i].value = v
        /\ \A j \in i+1..n : s[j].key = k => s[j].value = v

\* A save sends what is shown, nothing else, and for each key last what the
\* administrator sees for it last.
LEMMA PairsProperties ==
  ASSUME TypeOK, NEW p \in Page
  PROVE  /\ Pairs(p) \in Seq(Pair)
         /\ \A n \in 1..Len(Pairs(p)) :
              LET e == Pairs(p)[n] IN
              \/ shown[p][e.key] # nil /\ e.value = shown[p][e.key]
              \/ \E i \in DOMAIN rows[p] : e = rows[p][i]
         /\ \A k \in Key :
              /\ Wanted(p, k) \in Value \cup {nil}
              /\ Wanted(p, k) # nil =>
                   LastIs(Pairs(p), Len(Pairs(p)), k, Wanted(p, k))
<1> DEFINE R == rows[p]
           E == Existing(p)
           C == Chosen(p)
           P == E \o C
<1>1. /\ R \in Seq(Row) /\ R \in [1..Len(R) -> Row] /\ DOMAIN R = 1..Len(R)
      /\ Len(R) \in Nat /\ shown[p] \in [Key -> Value \cup {nil}]
  BY LenProperties DEF TypeOK
<1>2. /\ E \in Seq(Pair)
      /\ \A n \in 1..Len(E) :
           /\ shown[p][E[n].key] # nil
           /\ E[n].value = shown[p][E[n].key]
      /\ \A k \in Key : shown[p][k] # nil => \E n \in 1..Len(E) : E[n].key = k
  BY ExistingProperties
<1>3. /\ C \in Seq(Pair)
      /\ \A n \in 1..Len(C) : \E i \in DOMAIN R : C[n] = R[i]
  BY ChosenProperties
<1>4. ASSUME NEW i \in DOMAIN R, R[i].key # nil,
             \A j \in DOMAIN R : R[j].key = R[i].key => j <= i
      PROVE  \E n \in 1..Len(C) :
               /\ C[n] = R[i]
               /\ \A m \in n+1..Len(C) : C[m].key # R[i].key
  BY <1>4, ChosenProperties
<1>5. P = Pairs(p)
  BY DEF Pairs
<1> HIDE DEF R, E, C
<1>6. Len(E) \in Nat /\ Len(C) \in Nat
  BY <1>2, <1>3, LenProperties
<1>7. /\ P \in Seq(Pair) /\ Len(P) = Len(E) + Len(C)
      /\ \A n \in 1..Len(E) + Len(C) :
           P[n] = IF n <= Len(E) THEN E[n] ELSE C[n - Len(E)]
  BY <1>2, <1>3, ConcatProperties
<1> HIDE DEF P
<1>8. \A n \in 1..Len(E) : n \in 1..Len(P) /\ P[n] = E[n]
  BY <1>6, <1>7
<1>9. \A n \in 1..Len(C) : Len(E) + n \in 1..Len(P) /\ P[Len(E) + n] = C[n]
  <2> SUFFICES ASSUME NEW n \in 1..Len(C)
               PROVE  Len(E) + n \in 1..Len(P) /\ P[Len(E) + n] = C[n]
    OBVIOUS
  <2>1. /\ Len(E) + n \in 1..Len(E) + Len(C) /\ ~(Len(E) + n <= Len(E))
        /\ (Len(E) + n) - Len(E) = n
    BY <1>6
  <2>2. P[Len(E) + n] = C[(Len(E) + n) - Len(E)]
    BY <1>7, <2>1
  <2> QED BY <1>7, <2>1, <2>2
<1>10. \A m \in 1..Len(P) : \/ m \in 1..Len(E) /\ P[m] = E[m]
                            \/ m - Len(E) \in 1..Len(C) /\ P[m] = C[m - Len(E)]
  BY <1>6, <1>7
<1>11. ASSUME NEW n \in 1..Len(P)
       PROVE  \/ shown[p][P[n].key] # nil /\ P[n].value = shown[p][P[n].key]
              \/ \E i \in DOMAIN R : P[n] = R[i]
  <2>1. CASE n \in 1..Len(E) /\ P[n] = E[n]
    BY <1>2, <2>1
  <2>2. CASE n - Len(E) \in 1..Len(C) /\ P[n] = C[n - Len(E)]
    BY <1>3, <2>2
  <2> QED BY <1>10, <2>1, <2>2
<1>12. ASSUME NEW k \in Key
       PROVE  /\ Wanted(p, k) \in Value \cup {nil}
              /\ Wanted(p, k) # nil => LastIs(P, Len(P), k, Wanted(p, k))
  <2> DEFINE new == {i \in DOMAIN R : R[i].key = k}
  <2>1. CASE new = {}
    <3>1. Wanted(p, k) = shown[p][k]
      BY <2>1 DEF Wanted, R
    <3>2. ASSUME shown[p][k] # nil
          PROVE  LastIs(P, Len(P), k, shown[p][k])
      <4>1. PICK n \in 1..Len(E) : E[n].key = k
        BY <1>2, <3>2
      <4>2. n \in 1..Len(P) /\ P[n].key = k /\ P[n].value = shown[p][k]
        BY <1>2, <1>8, <4>1
      <4>3. ASSUME NEW m \in 1..Len(P), P[m].key = k
            PROVE  P[m].value = shown[p][k]
        BY <1>2, <1>3, <1>10, <2>1, <4>3
      <4>4. \A m \in n+1..Len(P) : m \in 1..Len(P)
        BY <4>2
      <4> QED BY <4>2, <4>3, <4>4 DEF LastIs
    <3> QED BY <1>1, <3>1, <3>2
  <2>2. CASE new # {}
    <3> DEFINE i == CHOOSE i \in new : \A j \in new : j <= i
    <3>1. new \in SUBSET (1..Len(R))
      BY <1>1
    <3>2. \E x \in new : \A j \in new : j <= x
      BY <1>1, <2>2, <3>1, LastPosition
    <3>3. i \in new /\ \A j \in new : j <= i
      BY <3>2
    <3>4. Wanted(p, k) = R[i].value
      BY <2>2 DEF Wanted, R
    <3> HIDE DEF i
    <3>5. i \in DOMAIN R /\ R[i].key = k /\ k # nil
      BY <3>3, KeyAssumption
    <3>6. R[i].value \in Value
      BY <1>1, <3>5 DEF Row
    <3>7. PICK n \in 1..Len(C) : /\ C[n] = R[i]
                                 /\ \A m \in n+1..Len(C) : C[m].key # k
      BY <1>4, <3>3, <3>5
    <3>8. /\ Len(E) + n \in 1..Len(P)
          /\ P[Len(E) + n].key = k /\ P[Len(E) + n].value = R[i].value
      BY <1>9, <3>5, <3>7
    <3>9. ASSUME NEW m \in (Len(E) + n)+1..Len(P) PROVE P[m].key # k
      <4>1. m \in 1..Len(P) /\ m - Len(E) \in n+1..Len(C)
        BY <1>6, <1>7, <3>7
      <4>2. P[m] = C[m - Len(E)]
        BY <1>6, <1>7, <4>1
      <4> QED BY <3>7, <4>1, <4>2
    <3>10. LastIs(P, Len(P), k, R[i].value)
      BY <3>8, <3>9 DEF LastIs
    <3> QED BY <3>4, <3>6, <3>10
  <2> QED BY <2>1, <2>2
<1> QED BY <1>5, <1>7, <1>11, <1>12 DEF R

-----------------------------------------------------------------------------
(* Types. *)

LEMMA FormType ==
  ASSUME NEW f \in [Key -> Value \cup {nil}]
  PROVE  /\ Forms(f) \subseteq [Key -> Value \cup {nil}]
         /\ (\A k \in Key : f[k] \notin Altered) => Forms(f) = {f}
BY DEF Forms

LEMMA NoneType ==
  None \in [Key -> Value \cup {nil}] /\ \A k \in Key : None[k] = nil
BY DEF None

LEMMA TypeInit == Init => TypeOK
<1> SUFFICES ASSUME Init PROVE TypeOK
  OBVIOUS
<1>1. /\ table \in [Key -> Value \cup {nil}]
      /\ meant \in [Key -> SUBSET Value] /\ edits \in 0..MaxEdit
  BY ValueAssumption DEF Init
<1>2. load \in [Page -> [Load -> {"idle", "reading", "answered"}]]
  BY DEF Init
<1>3. /\ pos \in [Page -> [Load -> Nat \ {0}]]
      /\ read \in [Page -> [Load -> [Key -> Value \cup {nil}]]]
  BY NoneType DEF Init
<1>4. /\ shown \in [Page -> [Key -> Value \cup {nil}]]
      /\ wanted \in [Page -> [Key -> Value \cup {nil}]]
      /\ written \in [Page -> [Key -> Value \cup {nil}]]
  BY NoneType DEF Init
<1>5. rows \in [Page -> Seq(Row)] /\ pairs \in [Page -> Seq(Pair)]
  <2>1. <<>> \in Seq(Row) /\ <<>> \in Seq(Pair)
    BY EmptySeq
  <2> QED BY <2>1 DEF Init
<1>6. save \in [Page -> {"idle", "writing", "ok"}] /\ next \in [Page -> Nat \ {0}]
  BY DEF Init
<1> QED BY <1>1, <1>2, <1>3, <1>4, <1>5, <1>6 DEF TypeOK

\* A load ends.
LEMMA LoadEndsType ==
  ASSUME TypeOK, NEW p \in Page, NEW l \in Load, LoadEnds(p, l)
  PROVE  /\ load' \in [Page -> [Load -> {"idle", "reading", "answered"}]]
         /\ pos' \in [Page -> [Load -> Nat \ {0}]]
         /\ read' \in [Page -> [Load -> [Key -> Value \cup {nil}]]]
<1>1. /\ load' = [load EXCEPT ![p][l] = "idle"]
      /\ pos' = [pos EXCEPT ![p][l] = 1]
      /\ read' = [read EXCEPT ![p][l] = None]
  BY DEF LoadEnds
<1>2. load' \in [Page -> [Load -> {"idle", "reading", "answered"}]]
  BY <1>1 DEF TypeOK
<1>3. pos' \in [Page -> [Load -> Nat \ {0}]]
  BY <1>1 DEF TypeOK
<1>4. read' \in [Page -> [Load -> [Key -> Value \cup {nil}]]]
  BY <1>1, NoneType DEF TypeOK
<1> QED BY <1>2, <1>3, <1>4

LEMMA LoadType ==
  ASSUME TypeOK, NEW p \in Page, NEW l \in Load,
         \/ Get(p, l)
         \/ GetConfigAnswers(p, l)
         \/ LoadFail(p, l)
         \/ LoadDone(p, l)
  PROVE  TypeOK'
<1> USE DEF page, loading, saving, typed
<1>1. CASE Get(p, l)
  <2>1. pos[p][l] \in 1..Len(KeyOrder) /\ KeyOrder \in Seq(Key)
    BY <1>1, KeyAssumption DEF Get, TypeOK
  <2>2. KeyOrder[pos[p][l]] \in Key
    BY <2>1, ElementOfSeq
  <2>3. read' \in [Page -> [Load -> [Key -> Value \cup {nil}]]]
    BY <1>1, <2>2 DEF Get, TypeOK
  <2>4. pos' \in [Page -> [Load -> Nat \ {0}]]
    BY <1>1 DEF Get, TypeOK
  <2> QED BY <1>1, <2>3, <2>4 DEF Get, TypeOK
<1>2. CASE GetConfigAnswers(p, l)
  <2>1. load' \in [Page -> [Load -> {"idle", "reading", "answered"}]]
    BY <1>2 DEF GetConfigAnswers, TypeOK
  <2> QED BY <1>2, <2>1 DEF GetConfigAnswers, TypeOK
<1>3. CASE LoadFail(p, l)
  BY <1>3, LoadEndsType DEF LoadFail, TypeOK
<1>4. CASE LoadDone(p, l)
  <2>1. read[p][l] \in [Key -> Value \cup {nil}]
    BY DEF TypeOK
  <2>2. shown' \in [Page -> [Key -> Value \cup {nil}]]
    <3>1. Forms(read[p][l]) \subseteq [Key -> Value \cup {nil}]
      BY <2>1, FormType
    <3>2. PICK form \in [Key -> Value \cup {nil}] : shown' = [shown EXCEPT ![p] = form]
      BY <1>4, <3>1 DEF LoadDone
    <3> QED BY <3>2 DEF TypeOK
  <2>3. rows' \in [Page -> Seq(Row)]
    BY <1>4, EmptySeq DEF LoadDone, TypeOK
  <2> QED BY <1>4, <2>2, <2>3, LoadEndsType DEF LoadDone, TypeOK
<1> QED BY <1>1, <1>2, <1>3, <1>4

LEMMA EditType ==
  ASSUME TypeOK, NEW p \in Page,
         \/ \E k \in Key, v \in Value : TypeValue(p, k, v)
         \/ AddConfig(p)
         \/ \E i \in 1..MaxRow, k \in Key : ChooseKey(p, i, k)
         \/ \E i \in 1..MaxRow, v \in Value : TypeNewValue(p, i, v)
  PROVE  TypeOK'
<1> USE DEF page, loading, saving, typed
<1>1. ASSUME Edits PROVE edits' \in 0..MaxEdit
  BY <1>1, ValueAssumption DEF Edits, TypeOK
<1>2. ASSUME NEW k \in Key, NEW v \in Value, TypeValue(p, k, v) PROVE TypeOK'
  <2>1. shown' \in [Page -> [Key -> Value \cup {nil}]]
    BY <1>2 DEF TypeValue, TypeOK
  <2>2. meant' \in [Key -> SUBSET Value]
    BY <1>2 DEF TypeValue, TypeOK
  <2> QED BY <1>1, <1>2, <2>1, <2>2 DEF TypeValue, TypeOK
\* A row is added or changed.
<1>3. ASSUME NEW R \in Seq(Row), rows' = [rows EXCEPT ![p] = R],
             edits' \in 0..MaxEdit, meant' \in [Key -> SUBSET Value],
             UNCHANGED <<shown, table, loading, saving>>
      PROVE  TypeOK'
  <2>1. rows' \in [Page -> Seq(Row)]
    BY <1>3 DEF TypeOK
  <2> QED BY <1>3, <2>1 DEF TypeOK
<1>4. CASE AddConfig(p)
  <2> DEFINE r == [key |-> nil, value |-> blank]
  <2>1. r \in Row
    BY ValueAssumption DEF Row
  <2> HIDE DEF r
  <2>2. Append(rows[p], r) \in Seq(Row)
    BY <2>1, AppendProperties DEF TypeOK
  <2>3. rows' = [rows EXCEPT ![p] = Append(rows[p], r)]
    BY <1>4 DEF AddConfig, r
  <2> QED BY <1>1, <1>3, <1>4, <2>2, <2>3 DEF AddConfig, TypeOK
<1>5. ASSUME NEW i, NEW r \in Row, i \in DOMAIN rows[p],
             rows' = [rows EXCEPT ![p][i] = r]
      PROVE  \E R \in Seq(Row) : rows' = [rows EXCEPT ![p] = R]
  <2>1. rows[p] \in Seq(Row) /\ i \in 1..Len(rows[p])
    BY <1>5, LenProperties DEF TypeOK
  <2>2. [rows[p] EXCEPT ![i] = r] \in Seq(Row)
    BY <2>1, ExceptSeq
  <2>3. rows' = [rows EXCEPT ![p] = [rows[p] EXCEPT ![i] = r]]
    BY <1>5
  <2> QED BY <2>2, <2>3
<1>6. ASSUME NEW i \in 1..MaxRow, NEW k \in Key, ChooseKey(p, i, k)
      PROVE  TypeOK'
  <2>1. [key |-> k, value |-> blank] \in Row
    BY ValueAssumption DEF Row
  <2>2. \E R \in Seq(Row) : rows' = [rows EXCEPT ![p] = R]
    BY <1>5, <1>6, <2>1 DEF ChooseKey
  <2>3. meant' \in [Key -> SUBSET Value]
    BY <1>6, ValueAssumption DEF ChooseKey, TypeOK
  <2> QED BY <1>1, <1>3, <1>6, <2>2, <2>3 DEF ChooseKey
<1>7. ASSUME NEW i \in 1..MaxRow, NEW v \in Value, TypeNewValue(p, i, v)
      PROVE  TypeOK'
  <2>1. rows[p][i] \in Row
    BY <1>7, LenProperties, ElementOfSeq DEF TypeNewValue, TypeOK
  <2>2. [key |-> rows[p][i].key, value |-> v] \in Row
    BY <2>1 DEF Row
  <2>3. \E R \in Seq(Row) : rows' = [rows EXCEPT ![p] = R]
    BY <1>5, <1>7, <2>2 DEF TypeNewValue
  <2>4. meant' \in [Key -> SUBSET Value]
    BY <1>7 DEF TypeNewValue, TypeOK
  <2> QED BY <1>1, <1>3, <1>7, <2>3, <2>4 DEF TypeNewValue
<1> QED BY <1>2, <1>4, <1>6, <1>7

\* A save ends.
LEMMA SaveEndsType ==
  ASSUME TypeOK, NEW p \in Page, SaveEnds(p)
  PROVE  /\ save' \in [Page -> {"idle", "writing", "ok"}]
         /\ pairs' \in [Page -> Seq(Pair)]
         /\ next' \in [Page -> Nat \ {0}]
         /\ wanted' \in [Page -> [Key -> Value \cup {nil}]]
         /\ written' \in [Page -> [Key -> Value \cup {nil}]]
<1>1. save' \in [Page -> {"idle", "writing", "ok"}]
  BY DEF SaveEnds, TypeOK
<1>2. pairs' \in [Page -> Seq(Pair)]
  BY EmptySeq DEF SaveEnds, TypeOK
<1>3. next' \in [Page -> Nat \ {0}]
  BY DEF SaveEnds, TypeOK
<1>4. /\ wanted' \in [Page -> [Key -> Value \cup {nil}]]
      /\ written' \in [Page -> [Key -> Value \cup {nil}]]
  BY NoneType DEF SaveEnds, TypeOK
<1> QED BY <1>1, <1>2, <1>3, <1>4

LEMMA SaveType ==
  ASSUME TypeOK, NEW p \in Page,
         \/ SaveConfig(p)
         \/ Set(p)
         \/ UpdateAnswers(p)
         \/ UpdateFail(p)
         \/ \E l \in Load : SaveDone(p, l)
  PROVE  TypeOK'
<1> USE DEF page, loading, saving, typed
<1>1. CASE SaveConfig(p)
  <2>1. pairs' \in [Page -> Seq(Pair)]
    BY <1>1, PairsProperties DEF SaveConfig, TypeOK
  <2>2. [k \in Key |-> Wanted(p, k)] \in [Key -> Value \cup {nil}]
    BY PairsProperties
  <2>3. wanted' \in [Page -> [Key -> Value \cup {nil}]]
    BY <1>1, <2>2 DEF SaveConfig, TypeOK
  <2>4. written' \in [Page -> [Key -> Value \cup {nil}]]
    BY <1>1, NoneType DEF SaveConfig, TypeOK
  <2>5. save' \in [Page -> {"idle", "writing", "ok"}] /\ next' \in [Page -> Nat \ {0}]
    BY <1>1 DEF SaveConfig, TypeOK
  <2> QED BY <1>1, <2>1, <2>3, <2>4, <2>5 DEF SaveConfig, TypeOK
<1>2. CASE Set(p)
  <2> DEFINE kv == pairs[p][next[p]]
  <2>1. next[p] \in 1..Len(pairs[p]) /\ pairs[p] \in Seq(Pair)
    BY <1>2 DEF Set, TypeOK
  <2>2. kv \in Pair
    BY <2>1, ElementOfSeq
  <2>3. kv.key \in Key /\ kv.value \in Value
    BY <2>2 DEF Pair
  <2> HIDE DEF kv
  <2>4. /\ table' = [table EXCEPT ![kv.key] = kv.value]
        /\ written' = [written EXCEPT ![p][kv.key] = kv.value]
        /\ next' = [next EXCEPT ![p] = @ + 1]
    BY <1>2 DEF Set, kv
  <2>5. table' \in [Key -> Value \cup {nil}]
    BY <2>3, <2>4 DEF TypeOK
  <2>6. written' \in [Page -> [Key -> Value \cup {nil}]]
    BY <2>3, <2>4 DEF TypeOK
  <2>7. next' \in [Page -> Nat \ {0}]
    BY <2>4 DEF TypeOK
  <2> QED BY <1>2, <2>5, <2>6, <2>7 DEF Set, TypeOK
<1>3. CASE UpdateAnswers(p)
  <2>1. save' \in [Page -> {"idle", "writing", "ok"}]
    BY <1>3 DEF UpdateAnswers, TypeOK
  <2> QED BY <1>3, <2>1 DEF UpdateAnswers, TypeOK
<1>4. CASE UpdateFail(p)
  BY <1>4, SaveEndsType DEF UpdateFail, TypeOK
<1>5. ASSUME NEW l \in Load, SaveDone(p, l) PROVE TypeOK'
  <2>1. load' \in [Page -> [Load -> {"idle", "reading", "answered"}]]
    BY <1>5 DEF SaveDone, TypeOK
  <2> QED BY <1>5, <2>1, SaveEndsType DEF SaveDone, TypeOK
<1> QED BY <1>1, <1>2, <1>3, <1>4, <1>5

LEMMA TypeStep == TypeOK /\ [Next]_vars => TypeOK'
<1> SUFFICES ASSUME TypeOK, [Next]_vars PROVE TypeOK'
  OBVIOUS
<1>1. CASE Next
  BY <1>1, LoadType, EditType, SaveType DEF Next
<1>2. CASE UNCHANGED vars
  BY <1>2 DEF vars, TypeOK, page, loading, saving, typed
<1> QED BY <1>1, <1>2

\* Every variable keeps its type.
THEOREM TypeCorrect == Spec => []TypeOK
BY TypeInit, TypeStep, PTL DEF Spec

-----------------------------------------------------------------------------
(* ValueOfItsOwn: not only the table, also what loads have read, what pages  *)
(* show, the rows and the pairs of saves under way have values of their own. *)

OwnValues(f, m) == \A k \in Key : f[k] # nil => f[k] \in m[k]
OwnPairs(s, m) == \A i \in DOMAIN s : s[i].key # nil => s[i].value \in m[s[i].key]

OwnInv ==
    /\ OwnValues(table, meant)
    /\ \A p \in Page : /\ \A l \in Load : OwnValues(read[p][l], meant)
                       /\ OwnValues(shown[p], meant)
                       /\ OwnPairs(rows[p], meant)
                       /\ OwnPairs(pairs[p], meant)

\* Nobody has set a text the form alters.
Plain == \A k \in Key : meant[k] \cap Altered = {}

\* A value stays a key's own while others are typed.
LEMMA OwnStays ==
  ASSUME NEW m, NEW m2, \A k \in Key : m[k] \subseteq m2[k]
  PROVE  /\ \A f : OwnValues(f, m) => OwnValues(f, m2)
         /\ \A s \in Seq(Row) : OwnPairs(s, m) => OwnPairs(s, m2)
         /\ \A s \in Seq(Pair) : OwnPairs(s, m) => OwnPairs(s, m2)
<1>2. ASSUME NEW s, \A i \in DOMAIN s : s[i].key \in Key \cup {nil},
             OwnPairs(s, m)
      PROVE  OwnPairs(s, m2)
  BY <1>2 DEF OwnPairs
<1>3. ASSUME NEW s \in Seq(Row) PROVE \A i \in DOMAIN s : s[i].key \in Key \cup {nil}
  <2>1. \A i \in DOMAIN s : s[i] \in Row
    BY LenProperties, ElementOfSeq
  <2> QED BY <2>1 DEF Row
<1>4. ASSUME NEW s \in Seq(Pair) PROVE \A i \in DOMAIN s : s[i].key \in Key \cup {nil}
  <2>1. \A i \in DOMAIN s : s[i] \in Pair
    BY LenProperties, ElementOfSeq
  <2> QED BY <2>1 DEF Pair
<1>5. \A f : OwnValues(f, m) => OwnValues(f, m2)
  BY DEF OwnValues
<1> QED BY <1>2, <1>3, <1>4, <1>5

LEMMA OwnInit == Init => OwnInv
<1> SUFFICES ASSUME Init PROVE OwnInv
  OBVIOUS
<1>1. OwnValues(table, meant)
  BY DEF Init, OwnValues
<1>2. OwnValues(None, meant) /\ OwnPairs(<<>>, meant)
  BY NoneType DEF OwnValues, OwnPairs
<1> QED BY <1>1, <1>2 DEF Init, OwnInv

\* Steps of a load: what it reads is in the table, what it shows it has read.
LEMMA OwnLoad ==
  ASSUME TypeOK, OwnInv, Plain, NEW p \in Page, NEW l \in Load,
         \/ Get(p, l)
         \/ GetConfigAnswers(p, l)
         \/ LoadFail(p, l)
         \/ LoadDone(p, l)
  PROVE  OwnInv'
<1> USE DEF page, loading, saving, typed
<1>1. /\ UNCHANGED <<table, pairs, meant>>
      /\ OwnValues(None, meant)
  <2>1. OwnValues(None, meant)
    BY NoneType DEF OwnValues
  <2> QED BY <2>1 DEF Get, GetConfigAnswers, LoadFail, LoadDone
<1>2. ASSUME LoadEnds(p, l)
      PROVE  \A q \in Page, h \in Load : OwnValues(read'[q][h], meant)
  <2>1. \A q \in Page, h \in Load : read'[q][h] = read[q][h] \/ read'[q][h] = None
    BY <1>2 DEF LoadEnds, TypeOK
  <2> QED BY <1>1, <2>1 DEF OwnInv
<1>3. CASE Get(p, l)
  <2> DEFINE k == KeyOrder[pos[p][l]]
  <2>1. \A q \in Page, h \in Load, x \in Key :
          read'[q][h][x] = read[q][h][x] \/ read'[q][h][x] = table[x]
    BY <1>3 DEF Get, TypeOK
  <2>2. \A q \in Page, h \in Load : OwnValues(read'[q][h], meant)
    BY <2>1 DEF OwnInv, OwnValues
  <2> QED BY <1>1, <1>3, <2>2 DEF Get, OwnInv
<1>4. CASE GetConfigAnswers(p, l)
  BY <1>1, <1>4 DEF GetConfigAnswers, OwnInv
<1>5. CASE LoadFail(p, l)
  BY <1>1, <1>2, <1>5 DEF LoadFail, OwnInv
<1>6. CASE LoadDone(p, l)
  <2> DEFINE f == read[p][l]
  <2>1. OwnValues(f, meant) /\ f \in [Key -> Value \cup {nil}]
    BY DEF OwnInv, TypeOK
  <2>0. \A k \in Key : f[k] \notin Altered
    BY <2>1, KeyAssumption DEF OwnValues, Plain
  <2>a. Forms(f) = {f}
    BY <2>0, <2>1, FormType
  <2>2. \A q \in Page : /\ shown'[q] = shown[q] \/ shown'[q] = f
                        /\ rows'[q] = rows[q] \/ rows'[q] = <<>>
    BY <1>6, <2>a DEF LoadDone, TypeOK
  <2> HIDE DEF f
  <2>3. \A q \in Page : OwnValues(shown'[q], meant)
    BY <2>1, <2>2 DEF OwnInv
  <2>4. \A q \in Page : OwnPairs(rows'[q], meant)
    <3>1. OwnPairs(<<>>, meant)
      BY DEF OwnPairs
    <3> QED BY <2>2, <3>1 DEF OwnInv
  <2>5. \A q \in Page, h \in Load : OwnValues(read'[q][h], meant)
    BY <1>2, <1>6 DEF LoadDone
  <2> QED BY <1>1, <2>3, <2>4, <2>5 DEF OwnInv
<1> QED BY <1>3, <1>4, <1>5, <1>6

\* What is typed is meant for the key it is typed for.
LEMMA OwnEdit ==
  ASSUME TypeOK, TypeOK', OwnInv, NEW p \in Page,
         \/ \E k \in Key, v \in Value : TypeValue(p, k, v)
         \/ AddConfig(p)
         \/ \E i \in 1..MaxRow, k \in Key : ChooseKey(p, i, k)
         \/ \E i \in 1..MaxRow, v \in Value : TypeNewValue(p, i, v)
  PROVE  OwnInv'
<1> USE DEF page, loading, saving, typed
\* It is enough that values only become meant, and to look at this page.
<1>1. ASSUME \A k \in Key : meant[k] \subseteq meant'[k],
             UNCHANGED <<table, read, pairs>>,
             \A q \in Page \ {p} : shown'[q] = shown[q] /\ rows'[q] = rows[q],
             OwnValues(shown'[p], meant'), OwnPairs(rows'[p], meant')
      PROVE  OwnInv'
  <2>1. OwnValues(table', meant')
    BY <1>1, OwnStays DEF OwnInv
  <2>2. ASSUME NEW q \in Page
        PROVE  /\ \A l \in Load : OwnValues(read'[q][l], meant')
               /\ OwnValues(shown'[q], meant')
               /\ OwnPairs(rows'[q], meant')
               /\ OwnPairs(pairs'[q], meant')
    <3>1. rows[q] \in Seq(Row) /\ pairs[q] \in Seq(Pair)
      BY DEF TypeOK
    <3>2. /\ \A l \in Load : OwnValues(read[q][l], meant')
          /\ OwnValues(shown[q], meant')
          /\ OwnPairs(rows[q], meant')
          /\ OwnPairs(pairs[q], meant')
      BY <1>1, <3>1, OwnStays DEF OwnInv
    <3> QED BY <1>1, <3>2
  <2> QED BY <2>1, <2>2 DEF OwnInv
<1>2. /\ rows[p] \in Seq(Row) /\ DOMAIN rows[p] = 1..Len(rows[p])
      /\ \A i \in DOMAIN rows[p] : rows[p][i] \in Row
  BY LenProperties, ElementOfSeq DEF TypeOK
<1>3. ASSUME NEW k \in Key, NEW v \in Value, TypeValue(p, k, v) PROVE OwnInv'
  <2>1. \A x \in Key : meant[x] \subseteq meant'[x]
    BY <1>3 DEF TypeValue, TypeOK
  <2>2. v \in meant'[k]
    BY <1>3 DEF TypeValue, TypeOK
  <2>3. OwnValues(shown[p], meant') /\ OwnPairs(rows[p], meant')
    BY <1>2, <2>1, OwnStays DEF OwnInv
  <2>4. \A x \in Key : shown'[p][x] = IF x = k THEN v ELSE shown[p][x]
    BY <1>3 DEF TypeValue, TypeOK
  <2>5. v \in meant'[k]
    BY <2>2
  <2>6. OwnValues(shown'[p], meant')
    BY <2>3, <2>4, <2>5 DEF OwnValues
  <2>7. UNCHANGED <<table, read, pairs, rows>>
    BY <1>3 DEF TypeValue
  <2>8. \A q \in Page \ {p} : shown'[q] = shown[q] /\ rows'[q] = rows[q]
    BY <1>3 DEF TypeValue, TypeOK
  <2> QED BY <1>1, <2>1, <2>3, <2>6, <2>7, <2>8
<1>4. CASE AddConfig(p)
  <2> DEFINE r == [key |-> nil, value |-> blank]
  <2>1. r \in Row /\ r.key = nil
    BY ValueAssumption DEF Row
  <2> HIDE DEF r
  <2>2. /\ UNCHANGED <<table, read, pairs, shown, meant>>
        /\ rows' = [rows EXCEPT ![p] = Append(rows[p], r)]
    BY <1>4 DEF AddConfig, r
  <2>3. rows'[p] = Append(rows[p], r) /\ \A q \in Page \ {p} : rows'[q] = rows[q]
    BY <2>2 DEF TypeOK
  <2>4. /\ DOMAIN rows'[p] = 1..Len(rows[p]) + 1 /\ Len(rows[p]) \in Nat
        /\ rows'[p][Len(rows[p]) + 1] = r
        /\ \A i \in 1..Len(rows[p]) : rows'[p][i] = rows[p][i]
    <3>1. Append(rows[p], r) \in Seq(Row)
      BY <1>2, <2>1, AppendProperties
    <3> QED BY <1>2, <2>1, <2>3, <3>1, AppendProperties, LenProperties
  <2>5. OwnPairs(rows'[p], meant')
    BY <1>2, <2>1, <2>2, <2>4 DEF OwnPairs, OwnInv
  <2> QED BY <1>1, <2>2, <2>3, <2>5 DEF OwnInv
\* One row gets a key and a value meant for it.
<1>5. ASSUME NEW i \in DOMAIN rows[p], NEW r \in Row,
             rows' = [rows EXCEPT ![p][i] = r],
             \A k \in Key : meant[k] \subseteq meant'[k],
             r.key # nil => r.value \in meant'[r.key],
             UNCHANGED <<shown, table, loading, saving>>
      PROVE  OwnInv'
  <2>1. /\ DOMAIN rows'[p] = DOMAIN rows[p]
        /\ \A j \in DOMAIN rows[p] : rows'[p][j] = IF j = i THEN r ELSE rows[p][j]
        /\ \A q \in Page \ {p} : rows'[q] = rows[q]
    BY <1>5 DEF TypeOK
  <2>2. OwnValues(shown[p], meant') /\ OwnPairs(rows[p], meant')
    BY <1>2, <1>5, OwnStays DEF OwnInv
  <2>3. r.key # nil => r.value \in meant'[r.key]
    BY <1>5
  <2>4. OwnPairs(rows'[p], meant')
    BY <2>1, <2>2, <2>3 DEF OwnPairs
  <2> QED BY <1>1, <1>5, <2>1, <2>2, <2>4
<1>6. ASSUME NEW i \in 1..MaxRow, NEW k \in Key, ChooseKey(p, i, k)
      PROVE  OwnInv'
  <2> DEFINE r == [key |-> k, value |-> blank]
  <2>1. r \in Row /\ r.key = k /\ r.value = blank
    BY ValueAssumption DEF Row
  <2>2. i \in DOMAIN rows[p] /\ rows' = [rows EXCEPT ![p][i] = r]
    BY <1>6 DEF ChooseKey
  <2>3. meant' = [meant EXCEPT ![k] = @ \cup {blank}]
    BY <1>6 DEF ChooseKey
  <2>4. blank \in meant'[k] /\ \A x \in Key : meant[x] \subseteq meant'[x]
    BY <2>3 DEF TypeOK
  <2>5. UNCHANGED <<shown, table, loading, saving>>
    BY <1>6 DEF ChooseKey
  <2> HIDE DEF r
  <2> QED BY <1>5, <2>1, <2>2, <2>4, <2>5
<1>7. ASSUME NEW i \in 1..MaxRow, NEW v \in Value, TypeNewValue(p, i, v)
      PROVE  OwnInv'
  <2> DEFINE r == [key |-> rows[p][i].key, value |-> v]
  <2>1. i \in DOMAIN rows[p] /\ rows' = [rows EXCEPT ![p][i] = r]
    BY <1>7 DEF TypeNewValue
  <2>2. r \in Row /\ r.key \in Key \cup {nil} /\ r.value = v
    BY <1>2, <2>1 DEF Row
  <2>3. meant' = [k \in Key |-> IF k = r.key THEN meant[k] \cup {v} ELSE meant[k]]
    BY <1>7 DEF TypeNewValue
  <2> HIDE DEF r
  <2>4. /\ r.key # nil => v \in meant'[r.key]
        /\ \A k \in Key : meant[k] \subseteq meant'[k]
    BY <2>2, <2>3
  <2>5. UNCHANGED <<shown, table, loading, saving>>
    BY <1>7 DEF TypeNewValue
  <2> QED BY <1>5, <2>1, <2>2, <2>4, <2>5
<1> QED BY <1>3, <1>4, <1>6, <1>7

\* A save sends what is shown, and writes what it sent.
LEMMA OwnSave ==
  ASSUME TypeOK, OwnInv, NEW p \in Page,
         \/ SaveConfig(p)
         \/ Set(p)
         \/ UpdateAnswers(p)
         \/ UpdateFail(p)
         \/ \E l \in Load : SaveDone(p, l)
  PROVE  OwnInv'
<1> USE DEF page, loading, saving, typed
<1>1. UNCHANGED <<read, shown, rows, meant>>
  BY DEF SaveConfig, Set, UpdateAnswers, UpdateFail, SaveDone
<1>2. CASE SaveConfig(p)
  <2>1. pairs' = [pairs EXCEPT ![p] = Pairs(p)] /\ table' = table
    BY <1>2 DEF SaveConfig
  <2>2. /\ DOMAIN Pairs(p) = 1..Len(Pairs(p))
        /\ \A n \in DOMAIN Pairs(p) : Pairs(p)[n] \in Pair
    BY PairsProperties, LenProperties, ElementOfSeq
  <2>3. OwnPairs(Pairs(p), meant)
    <3> SUFFICES ASSUME NEW n \in DOMAIN Pairs(p)
                 PROVE  Pairs(p)[n].value \in meant[Pairs(p)[n].key]
      BY DEF OwnPairs
    <3> DEFINE e == Pairs(p)[n]
    <3>1. e.key \in Key /\ e.key # nil
      BY <2>2, KeyAssumption DEF Pair
    <3>2. \/ shown[p][e.key] # nil /\ e.value = shown[p][e.key]
          \/ \E i \in DOMAIN rows[p] : e = rows[p][i]
      BY <2>2, PairsProperties
    <3> HIDE DEF e
    <3>3. e.value \in meant[e.key]
      BY <3>1, <3>2 DEF OwnInv, OwnValues, OwnPairs
    <3> QED BY <3>3 DEF e
  <2>4. \A q \in Page : OwnPairs(pairs'[q], meant)
    BY <2>1, <2>3 DEF OwnInv, TypeOK
  <2> QED BY <1>1, <2>1, <2>4 DEF OwnInv
<1>3. CASE Set(p)
  <2> DEFINE kv == pairs[p][next[p]]
  <2>1. next[p] \in DOMAIN pairs[p] /\ pairs[p] \in Seq(Pair)
    BY <1>3, LenProperties DEF Set, TypeOK
  <2>2. kv \in Pair
    BY <2>1, LenProperties, ElementOfSeq
  <2>3. kv.key \in Key /\ kv.key # nil
    BY <2>2, KeyAssumption DEF Pair
  <2>4. kv.value \in meant[kv.key]
    BY <2>1, <2>3 DEF OwnInv, OwnPairs
  <2>5. table' = [table EXCEPT ![kv.key] = kv.value] /\ pairs' = pairs
    BY <1>3 DEF Set
  <2> HIDE DEF kv
  <2>6. OwnValues(table', meant)
    BY <2>3, <2>4, <2>5 DEF OwnInv, OwnValues, TypeOK
  <2> QED BY <1>1, <2>5, <2>6 DEF OwnInv
<1>4. CASE UpdateAnswers(p)
  BY <1>1, <1>4 DEF UpdateAnswers, OwnInv
<1>5. CASE UpdateFail(p) \/ \E l \in Load : SaveDone(p, l)
  <2>1. pairs' = [pairs EXCEPT ![p] = <<>>] /\ table' = table
    BY <1>5 DEF UpdateFail, SaveDone, SaveEnds
  <2>2. OwnPairs(<<>>, meant)
    BY DEF OwnPairs
  <2>3. \A q \in Page : OwnPairs(pairs'[q], meant)
    BY <2>1, <2>2 DEF OwnInv, TypeOK
  <2> QED BY <1>1, <2>1, <2>3 DEF OwnInv
<1> QED BY <1>2, <1>3, <1>4, <1>5

LEMMA OwnStep == TypeOK /\ OwnInv /\ Plain /\ [Next]_vars => OwnInv'
<1> SUFFICES ASSUME TypeOK, OwnInv, Plain, [Next]_vars PROVE OwnInv'
  OBVIOUS
<1>1. CASE Next
  BY <1>1, TypeStep, OwnLoad, OwnEdit, OwnSave DEF Next
<1>2. CASE UNCHANGED vars
  BY <1>2 DEF vars, OwnInv, page, loading, saving, typed
<1> QED BY <1>1, <1>2

\* What was meant once stays so.
LEMMA PlainBefore == TypeOK /\ [Next]_vars /\ Plain' => Plain
<1> SUFFICES ASSUME TypeOK, [Next]_vars, Plain' PROVE Plain
  OBVIOUS
<1> USE DEF page, loading, saving, typed
<1>1. \A k \in Key : meant[k] \subseteq meant'[k]
  <2>1. CASE UNCHANGED meant
    BY <2>1
  <2>2. ASSUME NEW p \in Page, NEW k \in Key, NEW v \in Value, TypeValue(p, k, v)
        PROVE  \A x \in Key : meant[x] \subseteq meant'[x]
    BY <2>2 DEF TypeValue, TypeOK
  <2>3. ASSUME NEW p \in Page, NEW i \in 1..MaxRow, NEW k \in Key, ChooseKey(p, i, k)
        PROVE  \A x \in Key : meant[x] \subseteq meant'[x]
    BY <2>3 DEF ChooseKey, TypeOK
  <2>4. ASSUME NEW p \in Page, NEW i \in 1..MaxRow, NEW v \in Value, TypeNewValue(p, i, v)
        PROVE  \A x \in Key : meant[x] \subseteq meant'[x]
    BY <2>4 DEF TypeNewValue, TypeOK
  <2>5. \/ UNCHANGED meant
        \/ \E p \in Page, k \in Key, v \in Value : TypeValue(p, k, v)
        \/ \E p \in Page, i \in 1..MaxRow, k \in Key : ChooseKey(p, i, k)
        \/ \E p \in Page, i \in 1..MaxRow, v \in Value : TypeNewValue(p, i, v)
    BY DEF Next, vars, Get, GetConfigAnswers, LoadFail, LoadDone, SaveDone, AddConfig,
           SaveConfig, Set, UpdateAnswers, UpdateFail
  <2> QED BY <2>1, <2>2, <2>3, <2>4, <2>5
<1> QED BY <1>1 DEF Plain

\* No key ever gets another key's value, however the loads, saves and
\* keystrokes of however many pages overlap, as long as nobody sets a text
\* that the form alters.
THEOREM NoForeignValue == Spec => []ValueOfItsOwn
<1> DEFINE Own == Plain => OwnInv
<1>1. TypeOK /\ Own => ValueOfItsOwn
  BY DEF OwnInv, OwnValues, Plain, ValueOfItsOwn
<1>2. Init => Own
  BY OwnInit
<1>3. TypeOK /\ Own /\ [Next]_vars => Own'
  BY OwnStep, PlainBefore
<1> HIDE DEF Own
<1> QED BY TypeInit, TypeStep, <1>1, <1>2, <1>3, PTL DEF Spec

-----------------------------------------------------------------------------
(* SuccessMeansSet: the pairs of a save mean what was wanted, and those that *)
(* have been written so far have had their effect.                           *)

\* What has been written is what the first n pairs of s set.
Carried(f, s, n) == \A k \in Key, v \in Value : LastIs(s, n, k, v) => f[k] = v

SaveInv ==
    \A p \in Page :
        /\ save[p] # "idle" =>
             /\ \A k \in Key : wanted[p][k] # nil =>
                  LastIs(pairs[p], Len(pairs[p]), k, wanted[p][k])
             /\ Carried(written[p], pairs[p], next[p] - 1)
        /\ save[p] = "writing" => next[p] <= Len(pairs[p]) + 1
        /\ save[p] = "ok" => next[p] = Len(pairs[p]) + 1

\* One more pair is written.
LEMMA CarriedStep ==
  ASSUME NEW s \in Seq(Pair), NEW n \in 1..Len(s),
         NEW f \in [Key -> Value \cup {nil}], Carried(f, s, n - 1)
  PROVE  Carried([f EXCEPT ![s[n].key] = s[n].value], s, n)
<1> DEFINE g == [f EXCEPT ![s[n].key] = s[n].value]
<1>1. s[n] \in Pair /\ s[n].key \in Key /\ n \in Nat
  <2>1. s[n] \in Pair
    BY ElementOfSeq
  <2> QED BY <2>1, LenProperties DEF Pair
<1> SUFFICES ASSUME NEW k \in Key, NEW v \in Value, LastIs(s, n, k, v)
             PROVE  g[k] = v
  BY DEF Carried
<1>2. PICK i \in 1..n : /\ s[i].key = k
                        /\ s[i].value = v
                        /\ \A j \in i+1..n : s[j].key = k => s[j].value = v
  BY DEF LastIs
<1>3. CASE s[n].key = k
  <2>1. s[n].value = v
    <3>1. i = n \/ n \in i+1..n
      BY <1>1
    <3> QED BY <1>2, <1>3, <3>1
  <2> QED BY <1>1, <1>3, <2>1
<1>4. CASE s[n].key # k
  <2>1. i \in 1..n-1 /\ \A j \in i+1..n-1 : j \in i+1..n
    <3>1. i # n
      BY <1>2, <1>4
    <3> QED BY <1>1, <3>1
  <2>2. LastIs(s, n - 1, k, v)
    BY <1>2, <2>1 DEF LastIs
  <2>3. f[k] = v
    BY <2>2 DEF Carried
  <2> QED BY <1>1, <1>4, <2>3
<1> QED BY <1>3, <1>4

LEMMA SaveInit == Init => SaveInv
BY DEF Init, SaveInv

LEMMA SaveStep == TypeOK /\ SaveInv /\ [Next]_vars => SaveInv'
<1> SUFFICES ASSUME TypeOK, SaveInv, [Next]_vars PROVE SaveInv'
  OBVIOUS
<1> DEFINE Good(q) ==
      /\ save[q] # "idle" =>
           /\ \A k \in Key : wanted[q][k] # nil =>
                LastIs(pairs[q], Len(pairs[q]), k, wanted[q][k])
           /\ Carried(written[q], pairs[q], next[q] - 1)
      /\ save[q] = "writing" => next[q] <= Len(pairs[q]) + 1
      /\ save[q] = "ok" => next[q] = Len(pairs[q]) + 1
<1>1. \A q \in Page : Good(q)
  BY DEF SaveInv
<1>2. ASSUME \A q \in Page : Good(q)' PROVE SaveInv'
  BY <1>2 DEF SaveInv
\* No page touches the save of another.
<1>3. ASSUME NEW q \in Page, save'[q] = save[q], pairs'[q] = pairs[q],
             next'[q] = next[q], wanted'[q] = wanted[q], written'[q] = written[q]
      PROVE  Good(q)'
  BY <1>1, <1>3
<1>4. ASSUME UNCHANGED saving PROVE SaveInv'
  BY <1>2, <1>3, <1>4 DEF saving
<1>5. ASSUME NEW p \in Page, SaveConfig(p) PROVE SaveInv'
  <2>1. /\ save'[p] = "writing" /\ pairs'[p] = Pairs(p) /\ next'[p] = 1
        /\ wanted'[p] = [k \in Key |-> Wanted(p, k)]
    BY <1>5 DEF SaveConfig, TypeOK
  <2>2. \A k \in Key : wanted'[p][k] # nil =>
          LastIs(pairs'[p], Len(pairs'[p]), k, wanted'[p][k])
    BY <2>1, PairsProperties
  <2>3. Carried(written'[p], pairs'[p], next'[p] - 1)
    BY <2>1 DEF Carried, LastIs
  <2>4. next'[p] <= Len(pairs'[p]) + 1
    BY <2>1, PairsProperties, LenProperties
  <2>5. Good(p)'
    BY <2>1, <2>2, <2>3, <2>4
  <2>6. \A q \in Page \ {p} : Good(q)'
    BY <1>3, <1>5 DEF SaveConfig, TypeOK
  <2> QED BY <1>2, <2>5, <2>6
<1>6. ASSUME NEW p \in Page, Set(p) PROVE SaveInv'
  <2> DEFINE n == next[p]
             kv == pairs[p][n]
  <2>1. /\ save[p] = "writing" /\ n \in 1..Len(pairs[p]) /\ pairs[p] \in Seq(Pair)
        /\ written[p] \in [Key -> Value \cup {nil}]
        /\ UNCHANGED <<save, pairs, wanted>>
    BY <1>6 DEF Set, TypeOK
  <2>2. next'[p] = n + 1 /\ written' = [written EXCEPT ![p][kv.key] = kv.value]
    BY <1>6 DEF Set, TypeOK
  <2>3. written'[p] = [written[p] EXCEPT ![kv.key] = kv.value]
    BY <2>2 DEF TypeOK
  <2>4. Carried(written[p], pairs[p], n - 1)
    BY <1>1, <2>1
  <2>5. Carried(written'[p], pairs[p], n)
    BY <2>1, <2>3, <2>4, CarriedStep
  <2>6. next'[p] - 1 = n /\ next'[p] <= Len(pairs[p]) + 1
    BY <2>1, <2>2, LenProperties
  <2>7. Good(p)'
    BY <1>1, <2>1, <2>5, <2>6
  <2>8. \A q \in Page \ {p} : Good(q)'
    BY <1>3, <1>6 DEF Set, TypeOK
  <2> QED BY <1>2, <2>7, <2>8
<1>7. ASSUME NEW p \in Page, UpdateAnswers(p) PROVE SaveInv'
  <2>1. /\ save[p] = "writing" /\ next[p] > Len(pairs[p]) /\ save'[p] = "ok"
        /\ UNCHANGED <<pairs, next, wanted, written>>
    BY <1>7 DEF UpdateAnswers, TypeOK
  <2>2. next[p] \in Nat /\ Len(pairs[p]) \in Nat
    BY LenProperties DEF TypeOK
  <2>3. Good(p)'
    BY <1>1, <2>1, <2>2
  <2>4. \A q \in Page \ {p} : Good(q)'
    BY <1>3, <1>7 DEF UpdateAnswers, TypeOK
  <2> QED BY <1>2, <2>3, <2>4
<1>8. ASSUME NEW p \in Page, UpdateFail(p) \/ \E l \in Load : SaveDone(p, l)
      PROVE  SaveInv'
  <2>1. SaveEnds(p)
    BY <1>8 DEF UpdateFail, SaveDone
  <2>2. Good(p)'
    BY <2>1 DEF SaveEnds, TypeOK
  <2>3. \A q \in Page \ {p} : Good(q)'
    BY <1>3, <2>1 DEF SaveEnds, TypeOK
  <2> QED BY <1>2, <2>2, <2>3
<1>9. ASSUME NEW p \in Page, NEW l \in Load,
             \/ Get(p, l)
             \/ GetConfigAnswers(p, l)
             \/ LoadFail(p, l)
             \/ LoadDone(p, l)
      PROVE  SaveInv'
  BY <1>4, <1>9 DEF Get, GetConfigAnswers, LoadFail, LoadDone
<1>10. ASSUME NEW p \in Page,
              \/ \E k \in Key, v \in Value : TypeValue(p, k, v)
              \/ AddConfig(p)
              \/ \E i \in 1..MaxRow, k \in Key : ChooseKey(p, i, k)
              \/ \E i \in 1..MaxRow, v \in Value : TypeNewValue(p, i, v)
       PROVE  SaveInv'
  BY <1>4, <1>10 DEF TypeValue, AddConfig, ChooseKey, TypeNewValue
<1>11. CASE UNCHANGED vars
  BY <1>4, <1>11 DEF vars
<1> QED BY <1>5, <1>6, <1>7, <1>8, <1>9, <1>10, <1>11 DEF Next

\* A save that is answered with success has written all that its form showed
\* when it was sent, for each key what was shown for it last.
THEOREM SuccessIsComplete == Spec => []SuccessMeansSet
<1>1. TypeOK /\ SaveInv => SuccessMeansSet
  <2> SUFFICES ASSUME TypeOK, SaveInv, NEW p \in Page, save[p] = "ok",
                      NEW k \in Key, wanted[p][k] # nil
               PROVE  written[p][k] = wanted[p][k]
    BY DEF SuccessMeansSet
  <2>1. Len(pairs[p]) \in Nat /\ next[p] - 1 = Len(pairs[p])
    BY LenProperties DEF TypeOK, SaveInv
  <2>2. /\ LastIs(pairs[p], Len(pairs[p]), k, wanted[p][k])
        /\ Carried(written[p], pairs[p], Len(pairs[p]))
    BY <2>1 DEF SaveInv
  <2>3. wanted[p][k] \in Value
    BY DEF TypeOK
  <2> QED BY <2>2, <2>3 DEF Carried
<1> QED BY TypeInit, TypeStep, SaveInit, SaveStep, <1>1, PTL DEF Spec
=============================================================================
