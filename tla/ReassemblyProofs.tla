-------------------------- MODULE ReassemblyProofs --------------------------
(***************************************************************************)
(* Proofs about Reassembly, for every set of datagrams of any size, every  *)
(* MTU that fragments can meet and every limit: what is handed over is     *)
(* intact, the byte budget is exact, a complete datagram is delivered, and *)
(* none outlives its time.                                                 *)
(***************************************************************************)
EXTENDS Reassembly, FiniteSetTheorems, WellFoundedInduction, TLAPS

-----------------------------------------------------------------------------
(***************************************************************************)
(* Sums.  Held and the bytes of an entry are folds in an order that CHOOSE *)
(* picks; a sum of weights is the number of units in it, whatever the      *)
(* order.                                                                  *)
(***************************************************************************)

\* A set of natural numbers has a least element.
LEMMA LeastNat ==
  ASSUME NEW B, B \subseteq Nat, NEW n \in B
  PROVE  \E m \in B : \A k \in B : m <= k
<1>1. PICK m \in B : \A k \in B : ~(<<k, m>> \in OpToRel(<, Nat))
  BY NatLessThanWellFounded, WFMin, Zenon
<1>2. \A k \in B : ~(k < m)
  BY Zenon, <1>1 DEF OpToRel
<1> QED BY <1>2

\* The weights w of the elements of s, as a set with one element per unit.
Units(w, s) == UNION {{x} \X (1..w[x]) : x \in s}

\* Taking an element out of a finite set takes its units.
LEMMA UnitsOf ==
  ASSUME NEW S, IsFiniteSet(S), NEW w, \A x \in S : w[x] \in Nat, NEW s \in SUBSET S
  PROVE  /\ IsFiniteSet(Units(w, s)) /\ Cardinality(Units(w, s)) \in Nat
         /\ s = {} => Cardinality(Units(w, s)) = 0
         /\ \A x \in s : Cardinality(Units(w, s)) = Cardinality(Units(w, s \ {x})) + w[x]
<1>1. ASSUME NEW x \in S
      PROVE  IsFiniteSet({x} \X (1..w[x])) /\ Cardinality({x} \X (1..w[x])) = w[x]
  <2>1. IsFiniteSet(1..w[x]) /\ Cardinality(1..w[x]) = w[x]
    <3>1. w[x] \in Nat /\ w[x] \in Int /\ 1 \in Int
      OBVIOUS
    <3>2. /\ IsFiniteSet(1..w[x])
          /\ Cardinality(1..w[x]) = IF 1 > w[x] THEN 0 ELSE w[x] - 1 + 1
      BY <3>1, FS_Interval, Zenon
    <3> QED BY <3>1, <3>2
  <2>2. IsFiniteSet({x}) /\ Cardinality({x}) = 1
    BY Zenon, FS_Singleton
  <2>3. /\ IsFiniteSet({x} \X (1..w[x]))
        /\ Cardinality({x} \X (1..w[x])) = Cardinality({x}) * Cardinality(1..w[x])
    BY <2>1, <2>2, FS_Product, Zenon
  <2> QED BY <2>1, <2>2, <2>3
<1>2. ASSUME NEW t \in SUBSET S PROVE IsFiniteSet(Units(w, t))
  <2> DEFINE P == {{x} \X (1..w[x]) : x \in t}
             f == [x \in t |-> {x} \X (1..w[x])]
  <2>1. IsFiniteSet(t)
    BY Zenon, FS_Subset
  <2>2. f \in Surjection(t, P)
    BY Zenon DEF Surjection
  <2>3. IsFiniteSet(P)
    BY <2>1, <2>2, FS_Surjection, Zenon
  <2>4. \A T \in P : IsFiniteSet(T)
    BY Zenon, <1>1
  <2> QED BY Zenon, <2>3, <2>4, FS_UNION DEF Units
<1>3. ASSUME NEW x \in s
      PROVE  Cardinality(Units(w, s)) = Cardinality(Units(w, s \ {x})) + w[x]
  <2> DEFINE A == Units(w, s \ {x})
             B == {x} \X (1..w[x])
  <2>1. Units(w, s) = A \cup B /\ A \cap B = {}
    BY DEF Units
  <2>2. IsFiniteSet(A) /\ IsFiniteSet(B) /\ Cardinality(B) = w[x]
    BY Zenon, <1>1, <1>2
  <2>3. Cardinality(A \cup B) = Cardinality(A) + Cardinality(B) - Cardinality(A \cap B)
    BY Zenon, <2>2, FS_Union
  <2>4. Cardinality({}) = 0 /\ Cardinality(A) \in Nat
    <3>1. Cardinality({}) = 0
      BY FS_EmptySet, Zenon
    <3> QED BY <2>2, <3>1, FS_CardinalityType, Zenon
  <2>5. w[x] \in Nat /\ Cardinality(A \cap B) = 0
    BY <2>1, <2>4, Zenon
  <2> HIDE DEF A, B
  <2>6. Cardinality(A \cup B) = Cardinality(A) + w[x]
    BY <2>2, <2>3, <2>4, <2>5
  <2> QED BY Zenon, <2>1, <2>6 DEF A
<1>4. s = {} => Units(w, s) = {}
  BY Zenon DEF Units
<1> QED BY Zenon, <1>2, <1>3, <1>4, FS_EmptySet, FS_CardinalityType

\* The recursion of a fold that adds up the weights w.
IsFold(iter, w, S) ==
  iter = [s \in SUBSET S |->
            IF s = {} THEN 0
            ELSE iter[s \ {CHOOSE x \in s : TRUE}] + w[CHOOSE x \in s : TRUE]]

\* It has one solution: the number of units.
LEMMA FoldUnique ==
  ASSUME NEW S, IsFiniteSet(S), NEW w, \A x \in S : w[x] \in Nat,
         NEW iter, IsFold(iter, w, S)
  PROVE  \A s \in SUBSET S : iter[s] = Cardinality(Units(w, s))
<1>0. \A s \in SUBSET S :
        iter[s] = IF s = {} THEN 0
                  ELSE iter[s \ {CHOOSE x \in s : TRUE}] + w[CHOOSE x \in s : TRUE]
  BY Zenon DEF IsFold
<1> DEFINE Bad == {n \in Nat : \E s \in SUBSET S : Cardinality(s) = n
                                                   /\ iter[s] # Cardinality(Units(w, s))}
<1>1. SUFFICES ASSUME NEW s0 \in SUBSET S, iter[s0] # Cardinality(Units(w, s0)) PROVE FALSE
  OBVIOUS
<1>2. \A s \in SUBSET S : IsFiniteSet(s) /\ Cardinality(s) \in Nat
  BY FS_Subset, FS_CardinalityType, Zenon
<1>3. Cardinality(s0) \in Bad
  BY Zenon, <1>1, <1>2
<1>4. PICK n \in Bad : \A k \in Bad : n <= k
  <2>1. Bad \subseteq Nat
    OBVIOUS
  <2> HIDE DEF Bad
  <2> QED BY Zenon, <1>3, <2>1, LeastNat
<1>5. PICK s \in SUBSET S : Cardinality(s) = n /\ iter[s] # Cardinality(Units(w, s))
  BY Zenon, <1>4
<1>6. CASE s = {}
  <2>1. Cardinality(Units(w, s)) = 0
    BY Zenon, <1>6, UnitsOf
  <2> QED BY Zenon, <1>0, <1>5, <1>6, <2>1
<1>7. CASE s # {}
  <2> DEFINE x == CHOOSE x \in s : TRUE
             t == s \ {x}
  <2>1. x \in s
    BY Zenon, <1>7
  <2>2. iter[s] = iter[t] + w[x]
    BY Zenon, <1>0, <1>7
  <2> HIDE DEF x
  <2>3. Cardinality(Units(w, s)) = Cardinality(Units(w, t)) + w[x]
    BY <2>1, UnitsOf
  <2>4. t \in SUBSET S /\ Cardinality(t) = Cardinality(s) - 1 /\ Cardinality(t) \in Nat
    <3>1. IsFiniteSet(s) /\ IsFiniteSet(t)
      BY Zenon, <1>2
    <3>2. Cardinality(t) = IF x \in s THEN Cardinality(s) - 1 ELSE Cardinality(s)
      BY <3>1, FS_RemoveElement, Zenon
    <3> QED BY Zenon, <1>2, <2>1, <3>1, <3>2
  <2>5. iter[t] # Cardinality(Units(w, t))
    BY Zenon, <1>5, <2>2, <2>3
  <2> HIDE DEF t
  <2>6. Cardinality(t) \in Bad
    BY Zenon, <2>4, <2>5
  <2>7. n <= Cardinality(t)
    BY Zenon, <1>4, <2>6
  <2> QED BY <1>2, <1>5, <2>4, <2>7
<1> QED BY Zenon, <1>6, <1>7

\* Such a fold exists, so CHOOSE finds it.
LEMMA FoldExists ==
  ASSUME NEW S, IsFiniteSet(S), NEW w, \A x \in S : w[x] \in Nat
  PROVE  \E iter : IsFold(iter, w, S)
<1> DEFINE f == [s \in SUBSET S |-> Cardinality(Units(w, s))]
<1>1. ASSUME NEW s \in SUBSET S
      PROVE  f[s] = IF s = {} THEN 0
                    ELSE f[s \ {CHOOSE x \in s : TRUE}] + w[CHOOSE x \in s : TRUE]
  <2>1. CASE s = {}
    BY Zenon, <2>1, UnitsOf
  <2>2. CASE s # {}
    <3> DEFINE x == CHOOSE x \in s : TRUE
    <3>1. x \in s
      BY Zenon, <2>2
    <3> HIDE DEF x
    <3>2. Cardinality(Units(w, s)) = Cardinality(Units(w, s \ {x})) + w[x]
      BY <3>1, UnitsOf
    <3>3. s \ {x} \in SUBSET S
      OBVIOUS
    <3>4. f[s] = f[s \ {x}] + w[x]
      BY Zenon, <3>2, <3>3
    <3> QED BY Zenon, <2>2, <3>4 DEF x
  <2> QED BY Zenon, <2>1, <2>2
<1>2. f = [s \in SUBSET S |->
             IF s = {} THEN 0
             ELSE f[s \ {CHOOSE x \in s : TRUE}] + w[CHOOSE x \in s : TRUE]]
  <2>1. f = [s \in SUBSET S |-> f[s]]
    OBVIOUS
  <2> HIDE DEF f
  <2> QED BY Zenon, <1>1, <2>1
<1> HIDE DEF f
<1> QED BY Zenon, <1>2 DEF IsFold

\* The weights that the two folds add up.
Weight(T) == [k \in DOMAIN T |-> T[k].bytes]
PieceWeight(frags) == [u \in DOMAIN frags |-> Bytes(frags[u])]

\* Held counts the bytes of the entries.
LEMMA HeldIs ==
  ASSUME NEW T, IsFiniteSet(DOMAIN T), \A k \in DOMAIN T : T[k].bytes \in Nat
  PROVE  Held(T) = Cardinality(Units(Weight(T), DOMAIN T))
<1> DEFINE S == DOMAIN T
           w == Weight(T)
           P(iter) == iter = [s \in SUBSET S |->
                                IF s = {} THEN 0
                                ELSE iter[s \ {CHOOSE x \in s : TRUE}]
                                       + T[CHOOSE x \in s : TRUE].bytes]
           it == CHOOSE iter : P(iter)
<1>1. Held(T) = it[S]
  BY Zenon DEF Held, FoldFunctionOnSet, MapThenFoldSet
<1>2. \A x \in S : w[x] \in Nat /\ w[x] = T[x].bytes
  BY Zenon DEF Weight
<1>3. ASSUME NEW s \in SUBSET S, s # {}
      PROVE  w[CHOOSE x \in s : TRUE] = T[CHOOSE x \in s : TRUE].bytes
  BY Zenon, <1>2, <1>3
<1> HIDE DEF w
<1>4. \A g : IsFold(g, w, S) <=> P(g)
  <2> TAKE g
  <2>1. [s \in SUBSET S |-> IF s = {} THEN 0
                            ELSE g[s \ {CHOOSE x \in s : TRUE}] + w[CHOOSE x \in s : TRUE]]
        = [s \in SUBSET S |-> IF s = {} THEN 0
                              ELSE g[s \ {CHOOSE x \in s : TRUE}] + T[CHOOSE x \in s : TRUE].bytes]
    BY <1>3
  <2> QED BY <2>1, Zenon DEF IsFold
<1>5. IsFiniteSet(S) /\ S \in SUBSET S /\ \A x \in S : w[x] \in Nat
  BY Zenon, <1>2
<1> HIDE DEF P, S
<1>6. IsFold(it, w, S)
  <2>1. PICK g : IsFold(g, w, S)
    BY <1>5, FoldExists, Zenon
  <2>2. P(g)
    BY <1>4, <2>1, Zenon
  <2>3. P(it)
    BY <2>2, Zenon
  <2> QED BY <1>4, <2>3, Zenon
<1> HIDE DEF it
<1>7. it[S] = Cardinality(Units(w, S))
  <2>1. \A s \in SUBSET S : it[s] = Cardinality(Units(w, s))
    BY <1>5, <1>6, FoldUnique
  <2> QED BY <1>5, <2>1, Zenon
<1> QED BY Zenon, <1>1, <1>7 DEF w, S

\* The bytes of an entry, as BufferExact adds them up.
Sum(frags) == FoldFunctionOnSet(LAMBDA p, n : n + Bytes(p), 0, frags, DOMAIN frags)

\* The sum of an entry's pieces is the number of their units.
LEMMA SumIs ==
  ASSUME NEW T, IsFiniteSet(DOMAIN T), \A k \in DOMAIN T : Bytes(T[k]) \in Nat
  PROVE  Sum(T) = Cardinality(Units(PieceWeight(T), DOMAIN T))
<1> DEFINE S == DOMAIN T
           w == PieceWeight(T)
           P(iter) == iter = [s \in SUBSET S |->
                                IF s = {} THEN 0
                                ELSE iter[s \ {CHOOSE x \in s : TRUE}]
                                       + Bytes(T[CHOOSE x \in s : TRUE])]
           it == CHOOSE iter : P(iter)
<1>1. Sum(T) = it[S]
  BY Zenon DEF Sum, FoldFunctionOnSet, MapThenFoldSet
<1>2. \A x \in S : w[x] \in Nat /\ w[x] = Bytes(T[x])
  BY Zenon DEF PieceWeight
<1>3. ASSUME NEW s \in SUBSET S, s # {}
      PROVE  w[CHOOSE x \in s : TRUE] = Bytes(T[CHOOSE x \in s : TRUE])
  BY Zenon, <1>2, <1>3
<1> HIDE DEF w
<1>4. \A g : IsFold(g, w, S) <=> P(g)
  <2> TAKE g
  <2>1. [s \in SUBSET S |-> IF s = {} THEN 0
                            ELSE g[s \ {CHOOSE x \in s : TRUE}] + w[CHOOSE x \in s : TRUE]]
        = [s \in SUBSET S |-> IF s = {} THEN 0
                              ELSE g[s \ {CHOOSE x \in s : TRUE}] + Bytes(T[CHOOSE x \in s : TRUE])]
    BY <1>3
  <2> QED BY <2>1, Zenon DEF IsFold
<1>5. IsFiniteSet(S) /\ S \in SUBSET S /\ \A x \in S : w[x] \in Nat
  BY Zenon, <1>2
<1> HIDE DEF P, S
<1>6. IsFold(it, w, S)
  <2>1. PICK g : IsFold(g, w, S)
    BY <1>5, FoldExists, Zenon
  <2>2. P(g)
    BY <1>4, <2>1, Zenon
  <2>3. P(it)
    BY <2>2, Zenon
  <2> QED BY <1>4, <2>3, Zenon
<1> HIDE DEF it
<1>7. it[S] = Cardinality(Units(w, S))
  <2>1. \A s \in SUBSET S : it[s] = Cardinality(Units(w, s))
    BY <1>5, <1>6, FoldUnique
  <2> QED BY <1>5, <2>1, Zenon
<1> QED BY Zenon, <1>1, <1>7 DEF w, S

\* A table whose bytes can be added up.
Countable(T) == IsFiniteSet(DOMAIN T) /\ \A k \in DOMAIN T : T[k].bytes \in Nat

\* Units depend on the weights of the set's own elements only, and disjoint
\* sets have disjoint units.
LEMMA UnitsSplit ==
  ASSUME NEW S, IsFiniteSet(S), NEW w, \A x \in S : w[x] \in Nat,
         NEW A, NEW B, A \cup B = S, A \cap B = {}
  PROVE  Cardinality(Units(w, S)) = Cardinality(Units(w, A)) + Cardinality(Units(w, B))
<1> DEFINE a == Units(w, A)
           b == Units(w, B)
<1>1. Units(w, S) = a \cup b /\ a \cap b = {}
  BY DEF Units
<1>2. A \in SUBSET S /\ B \in SUBSET S
  OBVIOUS
<1>3. IsFiniteSet(a) /\ IsFiniteSet(b) /\ Cardinality(a) \in Nat /\ Cardinality(b) \in Nat
  BY Zenon, <1>2, UnitsOf
<1>4. Cardinality(a \cup b) = Cardinality(a) + Cardinality(b) - Cardinality(a \cap b)
  BY <1>3, FS_Union, Zenon
<1>5. Cardinality(a \cap b) = 0
  BY <1>1, FS_EmptySet, Zenon
<1> HIDE DEF a, b
<1>6. Cardinality(a \cup b) = Cardinality(a) + Cardinality(b)
  BY <1>3, <1>4, <1>5
<1> QED BY Zenon, <1>1, <1>6 DEF a, b

\* Units depend on the weights of the set's own members only.
LEMMA UnitsSame ==
  ASSUME NEW s, NEW w, NEW v, \A x \in s : w[x] = v[x]
  PROVE  Units(w, s) = Units(v, s)
  BY Zenon DEF Units

\* The bytes of a table split with its keys.
LEMMA HeldSplit ==
  ASSUME NEW T, Countable(T), NEW A, NEW B, A \cup B = DOMAIN T, A \cap B = {}
  PROVE  /\ Countable(Restrict(T, A)) /\ Countable(Restrict(T, B))
         /\ Held(T) \in Nat /\ Held(Restrict(T, A)) \in Nat /\ Held(Restrict(T, B)) \in Nat
         /\ Held(T) = Held(Restrict(T, A)) + Held(Restrict(T, B))
<1>1. ASSUME NEW C \in SUBSET DOMAIN T
      PROVE  /\ Countable(Restrict(T, C)) /\ Held(Restrict(T, C)) \in Nat
             /\ Held(Restrict(T, C)) = Cardinality(Units(Weight(T), C))
  <2> DEFINE R == Restrict(T, C)
  <2>1. DOMAIN R = C /\ \A x \in C : R[x] = T[x]
    BY Zenon DEF Restrict
  <2>2. IsFiniteSet(C)
    BY Zenon, FS_Subset DEF Countable
  <2>3. \A k \in C : T[k].bytes \in Nat
    BY Zenon DEF Countable
  <2> HIDE DEF R
  <2>4. IsFiniteSet(DOMAIN R) /\ \A k \in DOMAIN R : R[k].bytes \in Nat
    BY Zenon, <2>1, <2>2, <2>3
  <2>5. Held(R) = Cardinality(Units(Weight(R), C))
    BY Zenon, <2>1, <2>4, HeldIs
  <2>6. \A x \in C : Weight(R)[x] = Weight(T)[x] /\ Weight(R)[x] \in Nat
    BY Zenon, <2>1, <2>3 DEF Weight
  <2>7. Units(Weight(R), C) = Units(Weight(T), C)
    BY Zenon, <2>6, UnitsSame
  <2>8. Cardinality(Units(Weight(R), C)) \in Nat
    BY Zenon, <2>2, <2>6, UnitsOf
  <2> QED BY Zenon, <2>4, <2>5, <2>7, <2>8 DEF R, Countable
<1>2. Held(T) = Cardinality(Units(Weight(T), DOMAIN T))
  BY Zenon, HeldIs DEF Countable
<1>3. /\ IsFiniteSet(DOMAIN T) /\ \A x \in DOMAIN T : Weight(T)[x] \in Nat
      /\ A \in SUBSET DOMAIN T /\ B \in SUBSET DOMAIN T
  BY Zenon DEF Countable, Weight
<1>4. Cardinality(Units(Weight(T), DOMAIN T)) =
        Cardinality(Units(Weight(T), A)) + Cardinality(Units(Weight(T), B))
  <2> DEFINE w == Weight(T)
  <2> HIDE DEF w
  <2>1. IsFiniteSet(DOMAIN T) /\ \A x \in DOMAIN T : w[x] \in Nat
    BY Zenon, <1>3 DEF w
  <2>2. Cardinality(Units(w, DOMAIN T)) = Cardinality(Units(w, A)) + Cardinality(Units(w, B))
    BY <2>1, UnitsSplit
  <2> QED BY Zenon, <2>2 DEF w
<1> QED BY Zenon, <1>1, <1>2, <1>3, <1>4

\* Releasing the entries of the keys K keeps the byte count exact.
LEMMA Released ==
  ASSUME NEW T, Countable(T), NEW K
  PROVE  /\ Countable(Without(T, K)) /\ Held(Without(T, K)) \in Nat
         /\ BytesWithout(T, Held(T), K) = Held(Without(T, K))
         /\ Held(Without(T, K)) <= Held(T) /\ Held(T) \in Nat
<1> DEFINE A == DOMAIN T \ K
           B == K \cap DOMAIN T
           a == Held(Restrict(T, A))
           b == Held(Restrict(T, B))
           n == Held(T)
<1>1. A \cup B = DOMAIN T /\ A \cap B = {}
  OBVIOUS
<1>2. /\ Countable(Restrict(T, A)) /\ n \in Nat /\ a \in Nat /\ b \in Nat /\ n = a + b
  <2> HIDE DEF A, B
  <2> QED BY Zenon, <1>1, HeldSplit
<1>3. BytesWithout(T, n, K) = Max({0, n - b}) /\ Without(T, K) = Restrict(T, A)
  BY Zenon DEF BytesWithout, Without
<1> HIDE DEF n, a, b
<1>4. Max({0, n - b}) = a
  <2>1. n - b = a
    BY <1>2
  <2>2. a \in {0, n - b} /\ \A y \in {0, n - b} : a >= y
    BY <1>2, <2>1
  <2>3. \A x \in {0, n - b} : (\A y \in {0, n - b} : x >= y) => x = a
    BY <1>2, <2>1
  <2> QED BY Zenon, <2>2, <2>3 DEF Max
<1>5. a <= n
  BY <1>2
<1> QED BY Zenon, <1>2, <1>3, <1>4, <1>5 DEF n, a

Adds(T, k, e) ==
  /\ Countable(Put(T, k, e))
  /\ Held(Put(T, k, e)) = Held(Without(T, {k})) + e.bytes
  /\ k \notin DOMAIN T => Held(Without(T, {k})) = Held(T)
  /\ k \in DOMAIN T => Held(T) = Held(Without(T, {k})) + T[k].bytes
  /\ Without(Put(T, k, e), {k}) = Without(T, {k})

\* Putting an entry in, in place of the one there was or as a new one, adds
\* its bytes.
LEMMA HeldPut ==
  ASSUME NEW T, Countable(T), NEW k, NEW e, e.bytes \in Nat
  PROVE  Adds(T, k, e)
<1>1. ASSUME NEW F, Countable(F), NEW x \in DOMAIN F
      PROVE  Held(F) = Held(Without(F, {x})) + F[x].bytes
  <2> DEFINE A == DOMAIN F \ {x}
             R == Restrict(F, {x})
  <2>1. A \cup {x} = DOMAIN F /\ A \cap {x} = {}
    OBVIOUS
  <2>2. Held(F) = Held(Restrict(F, A)) + Held(R) /\ Countable(R)
    <3> HIDE DEF A
    <3> QED BY Zenon, <1>1, <2>1, HeldSplit
  <2>3. Held(R) = F[x].bytes
    <3>1. DOMAIN R = {x} /\ R[x] = F[x]
      BY Zenon DEF Restrict
    <3> HIDE DEF R
    <3>2. /\ Held(R) = Cardinality(Units(Weight(R), {x}))
          /\ IsFiniteSet({x}) /\ Weight(R)[x] \in Nat /\ Weight(R)[x] = F[x].bytes
      BY Zenon, <2>2, <3>1, HeldIs, FS_Singleton DEF Countable, Weight
    <3> DEFINE w == Weight(R)
    <3> HIDE DEF w
    <3>3. /\ Cardinality(Units(w, {x})) = Cardinality(Units(w, {x} \ {x})) + w[x]
          /\ Cardinality(Units(w, {x} \ {x})) = 0
      <4>1. IsFiniteSet({x}) /\ \A y \in {x} : w[y] \in Nat
        BY Zenon, <3>2 DEF w
      <4>2. {x} \in SUBSET {x} /\ {x} \ {x} \in SUBSET {x} /\ {x} \ {x} = {}
        OBVIOUS
      <4> QED BY <4>1, <4>2, UnitsOf
    <3> QED BY <3>2, <3>3 DEF w
  <2> QED BY Zenon, <2>2, <2>3 DEF Without
<1> DEFINE P == Put(T, k, e)
<1>2. /\ DOMAIN P = DOMAIN T \cup {k} /\ P[k] = e
      /\ \A x \in DOMAIN T : x # k => P[x] = T[x]
  BY Zenon DEF Put
<1>3. Countable(P)
  <2>1. IsFiniteSet(DOMAIN T \cup {k})
    BY Zenon, FS_AddElement DEF Countable
  <2> HIDE DEF P
  <2> QED BY Zenon, <1>2, <2>1 DEF Countable
<1>4. Without(P, {k}) = Without(T, {k})
  <2> HIDE DEF P
  <2>1. DOMAIN P \ {k} = DOMAIN T \ {k}
    BY Zenon, <1>2
  <2> QED BY Zenon, <1>2, <2>1 DEF Without, Restrict
<1> HIDE DEF P
<1>5. Held(P) = Held(Without(T, {k})) + e.bytes
  <2>1. k \in DOMAIN P
    BY Zenon, <1>2
  <2>2. Held(P) = Held(Without(P, {k})) + P[k].bytes
    BY Zenon, <1>1, <1>3, <2>1
  <2> QED BY Zenon, <1>2, <1>4, <2>2
<1>6. k \notin DOMAIN T => Held(Without(T, {k})) = Held(T)
  <2> SUFFICES ASSUME k \notin DOMAIN T PROVE Held(Without(T, {k})) = Held(T)
    OBVIOUS
  <2> DEFINE A == DOMAIN T
             R == Restrict(T, {})
  <2>1. DOMAIN T \ {k} = A /\ A \cup {} = DOMAIN T /\ A \cap {} = {}
    OBVIOUS
  <2>2. Held(T) = Held(Restrict(T, A)) + Held(R) /\ Countable(R) /\ Held(Restrict(T, A)) \in Nat
    <3> HIDE DEF A
    <3> QED BY Zenon, <2>1, HeldSplit
  <2>3. Held(R) = 0
    <3>1. DOMAIN R = {} /\ IsFiniteSet({})
      BY Zenon, FS_EmptySet DEF Restrict
    <3> HIDE DEF R
    <3>2. Held(R) = Cardinality(Units(Weight(R), {}))
      BY Zenon, <2>2, <3>1, HeldIs DEF Countable
    <3>3. Units(Weight(R), {}) = {}
      BY Zenon DEF Units
    <3> QED BY <3>2, <3>3, FS_EmptySet, Zenon
  <2> QED BY <2>1, <2>2, <2>3 DEF Without
<1> QED BY Zenon, <1>1, <1>3, <1>4, <1>5, <1>6 DEF P, Adds
-----------------------------------------------------------------------------
(***************************************************************************)
(* Fragments.                                                              *)
(***************************************************************************)
Count(d) == FragmentCount(Size[d], Mtu)

\* Division rounds down; multiplication is monotone.
LEMMA DivIs ==
  ASSUME NEW a \in Int, NEW b \in Nat, b > 0
  PROVE  a \div b \in Int /\ b * (a \div b) <= a /\ a < b * (a \div b) + b
  OBVIOUS

\* Multiplying by a natural number keeps the order of integers, with a gap.
LEMMA TimesMono ==
  ASSUME NEW a \in Nat, NEW x \in Int, NEW y \in Int, x < y
  PROVE  /\ x * a \in Int /\ y * a \in Int
         /\ x * a + a <= y * a /\ (x + 1) * a = x * a + a
<1>1. x * a \in Int /\ y * a \in Int /\ (y - x) * a = y * a - x * a /\ (x + 1) * a = x * a + a
  OBVIOUS
<1>2. \A z \in Int : z >= 1 => z * a >= a
  OBVIOUS
<1>3. (y - x) * a >= a
  BY <1>2
<1> QED BY <1>1, <1>3

\* The bytes per fragment are a positive number of units, and the fragments
\* but the last are full.
LEMMA CountIs ==
  ASSUME NEW d \in Dgram
  PROVE  /\ PerFrag(Mtu) \in Nat /\ (Mtu - 48) \div 8 \in Nat /\ (Mtu - 48) \div 8 >= 1
         /\ PerFrag(Mtu) = ((Mtu - 48) \div 8) * 8
         /\ Count(d) \in Nat /\ Count(d) >= 1 /\ DOMAIN Frags(d) = 1..Count(d)
         /\ Size[d] \in Nat /\ (Count(d) - 1) * PerFrag(Mtu) < Size[d]
         /\ Size[d] <= Count(d) * PerFrag(Mtu)
<1> DEFINE U == (Mtu - 48) \div 8
           P == PerFrag(Mtu)
           N == Count(d)
           s == Size[d]
<1>1. Mtu \in Nat /\ Mtu >= 56 /\ s \in Nat /\ s > 0
  BY ReassemblyConstants
<1>2. U \in Nat /\ U >= 1
  BY <1>1
<1>3. P = U * 8
  BY <1>1 DEF PerFrag, Unit, FixedHeader, FragHeader
<1>4. P \in Nat /\ P > 0
  <2> HIDE DEF U, P
  <2> QED BY <1>2, <1>3
<1>5. N = (s + P - 1) \div P
  BY Zenon DEF Count, FragmentCount
<1> HIDE DEF U, P, N, s
<1>6. N \in Int /\ P * N <= s + P - 1 /\ s + P - 1 < P * N + P
  <2> DEFINE a == s + P - 1
  <2>1. a \in Int
    BY <1>1, <1>4
  <2> HIDE DEF a
  <2>2. a \div P \in Int /\ P * (a \div P) <= a /\ a < P * (a \div P) + P
    BY Zenon, <1>4, <2>1, DivIs
  <2> QED BY Zenon, <1>5, <2>2 DEF a
<1>7. P * N = N * P /\ (N - 1) * P = N * P - P /\ N * P \in Int
  BY <1>4, <1>6
<1>8. (N - 1) * P < s /\ s <= N * P
  <2> DEFINE Q == N * P
  <2>1. Q \in Int /\ (N - 1) * P = Q - P /\ Q <= s + P - 1 /\ s + P - 1 < Q + P
    BY Zenon, <1>6, <1>7
  <2> HIDE DEF Q
  <2>2. Q - P < s /\ s <= Q
    BY <1>1, <1>4, <2>1
  <2> QED BY Zenon, <2>1, <2>2 DEF Q
<1>9. N >= 1
  <2>1. \A x \in Int : x <= 0 => x * P <= 0
    BY <1>4
  <2> QED BY <1>1, <1>6, <1>7, <1>8, <2>1
<1>10. DOMAIN Frags(d) = 1..N
  BY Zenon DEF Frags, fragmentIPv6Packet, Count, N
<1> QED
  BY <1>1, <1>2, <1>3, <1>4, <1>6, <1>8, <1>9, <1>10 DEF U, P, N, s

\* What a fragment holds, and how it meets the others.
LEMMA FragIs ==
  ASSUME NEW d \in Dgram, NEW i \in 1..Count(d)
  PROVE  LET f == Frags(d)[i]
         IN  /\ f.units \in Nat /\ f.more \in BOOLEAN
             /\ f.piece.of = d /\ f.piece.from = f.units * 8
             /\ f.piece.from \in Nat /\ f.piece.to \in Nat
             /\ f.piece.from < f.piece.to /\ f.piece.to <= Size[d]
             /\ i = 1 => f.units = 0
             /\ i < Count(d) => f.more /\ f.piece.to = Frags(d)[i + 1].piece.from
             /\ i = Count(d) => ~f.more /\ f.piece.to = Size[d]
             /\ \A j \in 1..Count(d) : i < j => f.units < Frags(d)[j].units
<1> DEFINE U == (Mtu - 48) \div 8
           P == PerFrag(Mtu)
           N == Count(d)
           s == Size[d]
<1>1. /\ P \in Nat /\ U \in Nat /\ U >= 1 /\ P = U * 8 /\ N \in Nat /\ N >= 1
      /\ s \in Nat /\ (N - 1) * P < s /\ s <= N * P
  BY Zenon, CountIs
<1>2. ASSUME NEW j \in 1..N
      PROVE  Frags(d)[j] = Fragment(d, j, s, Mtu)
  BY Zenon DEF Frags, fragmentIPv6Packet, Count
<1> HIDE DEF U, P, N, s
<1>3. ASSUME NEW j \in 1..N
      PROVE  /\ (j - 1) * U \in Nat /\ (j - 1) * P \in Nat /\ (j - 1) * P = ((j - 1) * U) * 8
             /\ ((j - 1) * P) \div 8 = (j - 1) * U
             /\ (j - 1) * P < s /\ (j - 1) * P + P = j * P
             /\ j < N => (j - 1) * P + P < s
             /\ j = N => (j - 1) * P + P >= s
  <2>1. j \in Nat /\ j >= 1 /\ j <= N
    BY <1>1
  <2>2. (j - 1) * U \in Nat
    BY <1>1, <2>1
  <2>3. (j - 1) * P = ((j - 1) * U) * 8
    BY <1>1, <2>1
  <2>4. (j - 1) * P \in Nat /\ ((j - 1) * P) \div 8 = (j - 1) * U
    <3> DEFINE A == (j - 1) * U
               B == (j - 1) * P
    <3>1. A \in Nat /\ B = A * 8
      BY Zenon, <2>2, <2>3
    <3> HIDE DEF A, B
    <3>2. B \in Nat /\ B \div 8 = A
      BY <3>1
    <3> QED BY Zenon, <3>2 DEF A, B
  <2>5. ((j - 1) + 1) * P = (j - 1) * P + P /\ (j - 1) + 1 = j
    BY <1>1, <2>1
  <2>6. CASE j < N
    <3>1. (j - 1) * P + P <= (N - 1) * P /\ (N - 1) * P \in Int
      <4>1. j - 1 \in Int /\ N - 1 \in Int /\ j - 1 < N - 1
        BY <1>1, <2>1, <2>6
      <4> QED BY Zenon, <1>1, <4>1, TimesMono
    <3> DEFINE B == (j - 1) * P
               C == (N - 1) * P
    <3>2. B \in Nat /\ C \in Int /\ B + P <= C /\ C < s
      BY Zenon, <1>1, <2>4, <3>1
    <3> HIDE DEF B, C
    <3>3. B < s /\ B + P < s
      BY <1>1, <3>2
    <3> QED BY <2>2, <2>3, <2>4, <2>5, <2>6, <3>3 DEF B
  <2>7. CASE j = N
    BY <1>1, <2>2, <2>3, <2>4, <2>5, <2>7
  <2> QED BY <1>1, <2>1, <2>6, <2>7
<1>4. ASSUME NEW j \in 1..N
      PROVE  /\ Frags(d)[j].units = (j - 1) * U /\ Frags(d)[j].more = (j < N)
             /\ Frags(d)[j].piece.of = d /\ Frags(d)[j].piece.from = (j - 1) * P
             /\ Frags(d)[j].piece.to = IF j < N THEN j * P ELSE s
  <2> DEFINE B == (j - 1) * P
             M == Min({B + P, s})
  <2>1. B \in Nat /\ B + P = j * P /\ (j < N => B + P < s) /\ (j = N => B + P >= s)
    BY Zenon, <1>3
  <2>2. M = IF j < N THEN B + P ELSE s
    <3> HIDE DEF B
    <3> DEFINE m == IF j < N THEN B + P ELSE s
    <3>1. m \in {B + P, s} /\ \A y \in {B + P, s} : m <= y
      BY <1>1, <2>1
    <3>2. \A x \in {B + P, s} : (\A y \in {B + P, s} : x <= y) => x = m
      BY <1>1, <2>1
    <3> HIDE DEF m
    <3>3. M = m
      BY Zenon, <3>1, <3>2 DEF Min
    <3> QED BY Zenon, <3>3 DEF m
  <2>3. (M < s) = (j < N)
    <3> HIDE DEF B
    <3> QED BY <1>1, <2>1, <2>2
  <2>4. Fragment(d, j, s, Mtu) =
          [units |-> B \div 8, more |-> M < s, piece |-> [of |-> d, from |-> B, to |-> M]]
    BY Zenon DEF Fragment, P, Unit
  <2>5. M = IF j < N THEN j * P ELSE s
    BY Zenon, <2>1, <2>2
  <2>6. B \div 8 = (j - 1) * U
    BY Zenon, <1>3
  <2> DEFINE f == Frags(d)[j]
             v == B \div 8
  <2> HIDE DEF M, B, f, v
  <2>7. f = [units |-> v, more |-> M < s, piece |-> [of |-> d, from |-> B, to |-> M]]
    BY Zenon, <1>2, <2>4 DEF f, v
  <2>8. /\ f.units = v /\ f.more = (M < s) /\ f.piece.of = d /\ f.piece.from = B
        /\ f.piece.to = M
    BY <2>7, Zenon
  <2> QED BY <2>3, <2>5, <2>6, <2>8, Zenon DEF f, v, B
<1>5. i \in 1..N /\ i \in Nat /\ i >= 1 /\ i <= N
  BY <1>1 DEF N
<1>6. ASSUME NEW j \in 1..N, i < j PROVE (i - 1) * U < (j - 1) * U
  <2>1. i - 1 \in Int /\ j - 1 \in Int /\ i - 1 < j - 1
    BY <1>1, <1>5, <1>6
  <2>2. (i - 1) * U + U <= (j - 1) * U /\ (i - 1) * U \in Int /\ (j - 1) * U \in Int
    BY Zenon, <1>1, <2>1, TimesMono
  <2> QED BY <1>1, <2>2
<1>7. i < N => i + 1 \in 1..N /\ (i + 1) - 1 = i
  BY <1>1, <1>5
<1>8. (i - 1) * P < (IF i < N THEN i * P ELSE s) /\ (IF i < N THEN i * P ELSE s) <= s
      /\ (IF i < N THEN i * P ELSE s) \in Nat
  <2> DEFINE B == (i - 1) * P
             C == i * P
  <2>1. B \in Nat /\ B < s /\ C = B + P /\ (i < N => B + P < s) /\ P > 0
    BY <1>1, <1>3, <1>5
  <2> HIDE DEF B, C
  <2>2. B < (IF i < N THEN C ELSE s) /\ (IF i < N THEN C ELSE s) <= s
        /\ (IF i < N THEN C ELSE s) \in Nat
    BY <1>1, <2>1
  <2> QED BY Zenon, <2>2 DEF B, C
<1>9. i = 1 => (i - 1) * U = 0
  BY <1>1
<1> DEFINE f == Frags(d)[i]
<1>10. /\ f.units = (i - 1) * U /\ f.more = (i < N) /\ f.piece.of = d
       /\ f.piece.from = (i - 1) * P /\ f.piece.to = IF i < N THEN i * P ELSE s
  BY <1>4, <1>5, Zenon
<1>11. i < N => Frags(d)[i + 1].piece.from = i * P
  BY <1>4, <1>7, Zenon
<1>12. \A j \in 1..N : Frags(d)[j].units = (j - 1) * U
  BY <1>4, Zenon
<1>13. (i - 1) * U \in Nat /\ (i - 1) * P \in Nat /\ (i - 1) * P = ((i - 1) * U) * 8
  BY Zenon, <1>3, <1>5
<1> HIDE DEF f
<1>14. /\ f.units \in Nat /\ f.more \in BOOLEAN
       /\ f.piece.of = d /\ f.piece.from = f.units * 8
       /\ f.piece.from \in Nat /\ f.piece.to \in Nat
       /\ f.piece.from < f.piece.to /\ f.piece.to <= s
  BY <1>8, <1>10, <1>13
<1>15. /\ i = 1 => f.units = 0
       /\ i < N => f.more /\ f.piece.to = Frags(d)[i + 1].piece.from
       /\ i = N => ~f.more /\ f.piece.to = s
  <2>1. i = N => ~(i < N)
    BY <1>1
  <2> QED BY <1>9, <1>10, <1>11, <2>1, Zenon
<1>16. \A j \in 1..N : i < j => f.units < Frags(d)[j].units
  BY Zenon, <1>6, <1>10, <1>12
<1> QED BY Zenon, <1>14, <1>15, <1>16 DEF f, N, s
-----------------------------------------------------------------------------
(***************************************************************************)
(* Entries.  An entry holds genuine fragments of its datagram, counts      *)
(* their bytes and knows whether the last one is among them; it never      *)
(* holds the first fragment of anything but an Echo Request.               *)
(***************************************************************************)
Genuine(d, frags) ==
  \A u \in DOMAIN frags :
    \E i \in 1..Count(d) : u = Frags(d)[i].units /\ frags[u] = Frags(d)[i].piece

IsEntry(e) ==
  e = [createdAt |-> e.createdAt, frags |-> e.frags, bytes |-> e.bytes, haveLast |-> e.haveLast]

Buffers(d, e) ==
  /\ IsEntry(e)
  /\ e.createdAt \in Int /\ e.bytes \in Nat /\ e.haveLast \in BOOLEAN
  /\ IsFiniteSet(DOMAIN e.frags) /\ Genuine(d, e.frags)
  /\ e.bytes = Sum(e.frags)
  /\ e.haveLast <=> Frags(d)[Count(d)].units \in DOMAIN e.frags
  /\ 0 \in DOMAIN e.frags => d \in Echo

\* The pieces of an entry are not empty.
LEMMA GenuineBytes ==
  ASSUME NEW d \in Dgram, NEW frags, Genuine(d, frags), NEW u \in DOMAIN frags
  PROVE  /\ u \in Nat /\ Bytes(frags[u]) \in Nat /\ Bytes(frags[u]) > 0
         /\ u * 8 + Bytes(frags[u]) = frags[u].to
<1>1. PICK i \in 1..Count(d) : u = Frags(d)[i].units /\ frags[u] = Frags(d)[i].piece
  BY Zenon DEF Genuine
<1> DEFINE f == Frags(d)[i]
<1>2. /\ f.units \in Nat /\ f.piece.from = f.units * 8 /\ f.piece.from \in Nat
      /\ f.piece.to \in Nat /\ f.piece.from < f.piece.to
  BY FragIs
<1> HIDE DEF f
<1> QED BY <1>1, <1>2 DEF Bytes, f

\* A new entry is empty.
LEMMA FreshBuffers ==
  ASSUME NEW d \in Dgram, now \in Int
  PROVE  Buffers(d, Fresh) /\ DOMAIN Fresh.frags = {} /\ Fresh.bytes = 0 /\ Fresh.createdAt = now
<1> DEFINE e == Fresh
<1>1. /\ e = [createdAt |-> now, frags |-> NoEntries, bytes |-> 0, haveLast |-> FALSE]
      /\ e.createdAt = now /\ e.frags = NoEntries /\ e.bytes = 0 /\ e.haveLast = FALSE
  BY Zenon DEF Fresh
<1>2. DOMAIN NoEntries = {}
  BY Zenon DEF NoEntries
<1>3. Sum(NoEntries) = 0
  <2>1. IsFiniteSet({})
    BY Zenon, FS_EmptySet
  <2>2. Sum(NoEntries) = Cardinality(Units(PieceWeight(NoEntries), {}))
    BY Zenon, <1>2, <2>1, SumIs
  <2>3. Units(PieceWeight(NoEntries), {}) = {}
    BY Zenon DEF Units
  <2> QED BY <2>2, <2>3, FS_EmptySet, Zenon
<1>4. IsFiniteSet(DOMAIN e.frags)
  BY Zenon, <1>1, <1>2, FS_EmptySet
<1> HIDE DEF e
<1>5. Buffers(d, e)
  BY Zenon, <1>1, <1>2, <1>3, <1>4 DEF Buffers, Genuine, IsEntry
<1> QED BY Zenon, <1>1, <1>2, <1>5 DEF e

\* The fields of an entry into which a fragment has been stored.
LEMMA StoredIs ==
  ASSUME NEW e, NEW f, IsEntry(e)
  PROVE  /\ IsEntry(Stored(e, f))
         /\ Stored(e, f).createdAt = e.createdAt
         /\ Stored(e, f).bytes = e.bytes + Bytes(f.piece)
         /\ Stored(e, f).haveLast = (e.haveLast \/ ~f.more)
         /\ Stored(e, f).frags = [u \in DOMAIN e.frags \cup {f.units} |->
                                   IF u = f.units THEN f.piece ELSE e.frags[u]]
<1> DEFINE F == [u \in DOMAIN e.frags \cup {f.units} |->
                   IF u = f.units THEN f.piece ELSE e.frags[u]]
           b == e.bytes + Bytes(f.piece)
           h == e.haveLast \/ ~f.more
<1>1. Stored(e, f) = [createdAt |-> e.createdAt, frags |-> F, bytes |-> b, haveLast |-> h]
  <2>1. Stored(e, f) = [e EXCEPT !.frags = F, !.bytes = b, !.haveLast = h]
    BY Zenon DEF Stored
  <2> HIDE DEF F, b, h
  <2> QED BY Zenon, <2>1 DEF IsEntry
<1> HIDE DEF F, b, h
<1>2. LET s == Stored(e, f)
      IN  /\ IsEntry(s)
          /\ s.createdAt = e.createdAt /\ s.bytes = b /\ s.haveLast = h /\ s.frags = F
  BY <1>1 DEF IsEntry
<1> QED BY Zenon, <1>2 DEF F, b, h

\* A fragment that overlaps none of an entry's is new to it, and storing it
\* keeps the entry's books.
LEMMA StoredBuffers ==
  ASSUME NEW d \in Dgram, NEW e, Buffers(d, e), NEW i \in 1..Count(d),
         ~Overlaps(e.frags, Frags(d)[i]), Frags(d)[i].units = 0 => d \in Echo
  PROVE  LET f == Frags(d)[i]
             s == Stored(e, f)
         IN  /\ Buffers(d, s)
             /\ f.units \notin DOMAIN e.frags
             /\ DOMAIN s.frags = DOMAIN e.frags \cup {f.units}
             /\ s.createdAt = e.createdAt /\ s.bytes = e.bytes + Bytes(f.piece)
             /\ Bytes(f.piece) \in Nat
             /\ Cardinality(DOMAIN s.frags) = Cardinality(DOMAIN e.frags) + 1
             /\ Cardinality(DOMAIN e.frags) \in Nat
<1> DEFINE f == Frags(d)[i]
           s == Stored(e, f)
           b == Bytes(f.piece)
<1>1. /\ IsEntry(s)
      /\ s.createdAt = e.createdAt /\ s.bytes = e.bytes + b
      /\ s.haveLast = (e.haveLast \/ ~f.more)
      /\ s.frags = [u \in DOMAIN e.frags \cup {f.units} |->
                      IF u = f.units THEN f.piece ELSE e.frags[u]]
  <2>1. IsEntry(e)
    BY Zenon DEF Buffers
  <2> HIDE DEF f
  <2> QED BY <2>1, StoredIs
<1>2. f.units \in Nat /\ b \in Nat /\ b > 0 /\ f.piece.of = d
  <2>1. /\ f.units \in Nat /\ f.piece.of = d /\ f.piece.from \in Nat /\ f.piece.to \in Nat
        /\ f.piece.from < f.piece.to
    BY Zenon, FragIs
  <2> HIDE DEF f
  <2> QED BY <2>1 DEF Bytes
<1>3. /\ e.createdAt \in Int /\ e.bytes \in Nat /\ e.haveLast \in BOOLEAN
      /\ IsFiniteSet(DOMAIN e.frags) /\ Genuine(d, e.frags) /\ e.bytes = Sum(e.frags)
      /\ e.haveLast <=> Frags(d)[Count(d)].units \in DOMAIN e.frags
      /\ 0 \in DOMAIN e.frags => d \in Echo
  BY Zenon DEF Buffers
<1>4. f.units \notin DOMAIN e.frags
  <2> SUFFICES ASSUME f.units \in DOMAIN e.frags PROVE FALSE
    OBVIOUS
  <2> DEFINE u == f.units
             c == Bytes(e.frags[u])
  <2>1. c \in Nat /\ c > 0
    BY Zenon, <1>3, GenuineBytes
  <2>2. u * 8 < u * 8 + c /\ u * 8 < u * 8 + b
    <3> HIDE DEF c, u, b
    <3> QED BY <1>2, <2>1 DEF u
  <2>3. Overlaps(e.frags, f)
    BY Zenon, <2>2 DEF Overlaps, Unit
  <2> QED BY Zenon, <2>3
<1>5. Genuine(d, s.frags)
  <2> SUFFICES ASSUME NEW u \in DOMAIN s.frags
               PROVE  \E j \in 1..Count(d) : u = Frags(d)[j].units /\ s.frags[u] = Frags(d)[j].piece
    BY Zenon DEF Genuine
  <2> HIDE DEF s
  <2>1. CASE u = f.units
    BY Zenon, <1>1, <2>1
  <2>2. CASE u # f.units
    <3>1. u \in DOMAIN e.frags /\ s.frags[u] = e.frags[u]
      BY Zenon, <1>1, <2>2
    <3> QED BY <1>3, <3>1 DEF Genuine
  <2> QED BY Zenon, <2>1, <2>2
<1>6. DOMAIN s.frags = DOMAIN e.frags \cup {f.units}
  <2> HIDE DEF s, f
  <2> QED BY Zenon, <1>1
<1>7. /\ IsFiniteSet(DOMAIN s.frags) /\ Cardinality(DOMAIN e.frags) \in Nat
      /\ Cardinality(DOMAIN s.frags) = Cardinality(DOMAIN e.frags) + 1
  <2> HIDE DEF s, f
  <2>1. /\ IsFiniteSet(DOMAIN e.frags \cup {f.units})
        /\ Cardinality(DOMAIN e.frags \cup {f.units}) =
             IF f.units \in DOMAIN e.frags THEN Cardinality(DOMAIN e.frags)
             ELSE Cardinality(DOMAIN e.frags) + 1
    BY <1>3, FS_AddElement, Zenon
  <2> QED BY Zenon, <1>3, <1>4, <1>6, <2>1, FS_CardinalityType
<1>8. s.bytes = Sum(s.frags)
  <2> DEFINE D == DOMAIN e.frags
             w == PieceWeight(e.frags)
             v == PieceWeight(s.frags)
  <2> HIDE DEF s, f
  <2>1. \A u \in D : Bytes(e.frags[u]) \in Nat
    BY Zenon, <1>3, GenuineBytes
  <2>2. \A u \in DOMAIN s.frags : Bytes(s.frags[u]) \in Nat
    BY Zenon, <1>5, GenuineBytes
  <2>3. Sum(e.frags) = Cardinality(Units(w, D)) /\ Sum(s.frags) = Cardinality(Units(v, DOMAIN s.frags))
    BY Zenon, <1>3, <1>7, <2>1, <2>2, SumIs
  <2>4. v[f.units] = b /\ \A u \in D : w[u] = v[u]
    BY Zenon, <1>1, <1>4, <1>6 DEF PieceWeight
  <2>5. Units(w, D) = Units(v, D)
    BY Zenon, <2>4, UnitsSame
  <2>6. \A u \in DOMAIN s.frags : v[u] \in Nat
    BY Zenon, <2>2 DEF PieceWeight
  <2> HIDE DEF v, w, D
  <2>7. Cardinality(Units(v, DOMAIN s.frags)) = Cardinality(Units(v, DOMAIN s.frags \ {f.units})) + v[f.units]
    <3>1. DOMAIN s.frags \in SUBSET DOMAIN s.frags /\ f.units \in DOMAIN s.frags
      BY Zenon, <1>6
    <3> QED BY <1>7, <2>6, <3>1, UnitsOf
  <2>8. DOMAIN s.frags \ {f.units} = D
    BY Zenon, <1>4, <1>6 DEF D
  <2> QED BY ZenonT(60), <1>1, <1>3, <2>3, <2>4, <2>5, <2>7, <2>8
<1>9. s.haveLast <=> Frags(d)[Count(d)].units \in DOMAIN s.frags
  <2>1. f.more <=> i # Count(d)
    <3>1. Count(d) \in Nat
      BY Zenon, CountIs
    <3>2. i < Count(d) \/ i = Count(d)
      BY <3>1
    <3> QED BY Zenon, <3>1, <3>2, FragIs
  <2>2. f.units = Frags(d)[Count(d)].units => i = Count(d)
    <3>1. Count(d) \in Nat /\ Count(d) >= 1 /\ Count(d) \in 1..Count(d)
      BY CountIs
    <3>2. i < Count(d) => f.units < Frags(d)[Count(d)].units
      BY Zenon, <3>1, FragIs
    <3>3. Frags(d)[Count(d)].units \in Nat
      BY Zenon, <3>1, FragIs
    <3> HIDE DEF f
    <3> QED BY <1>2, <3>1, <3>2, <3>3
  <2>3. i = Count(d) => f.units = Frags(d)[Count(d)].units
    OBVIOUS
  <2>4. s.haveLast <=> e.haveLast \/ ~f.more
    BY <1>1, Zenon
  <2>5. Frags(d)[Count(d)].units \in DOMAIN s.frags <=>
          Frags(d)[Count(d)].units \in DOMAIN e.frags \/ f.units = Frags(d)[Count(d)].units
    BY Zenon, <1>6
  <2> HIDE DEF s, f
  <2> QED BY <1>3, <2>1, <2>2, <2>3, <2>4, <2>5, Zenon
<1>10. 0 \in DOMAIN s.frags => d \in Echo
  BY Zenon, <1>3, <1>6
<1>11. s.bytes \in Nat /\ s.haveLast \in BOOLEAN
  <2>1. s.bytes \in Nat
    <3> HIDE DEF s, b
    <3> QED BY <1>1, <1>2, <1>3
  <2>2. (e.haveLast \/ ~f.more) \in BOOLEAN
    OBVIOUS
  <2> HIDE DEF s, f
  <2> QED BY <1>1, <2>1, <2>2, Zenon
<1> HIDE DEF s, f, b
<1>12. Buffers(d, s)
  <2>1. s.createdAt \in Int
    BY Zenon, <1>1, <1>3
  <2> QED BY <1>1, <1>5, <1>7, <1>8, <1>9, <1>10, <1>11, <2>1, Zenon DEF Buffers
<1> QED BY Zenon, <1>1, <1>2, <1>4, <1>6, <1>7, <1>12 DEF s, f, b
-----------------------------------------------------------------------------
(***************************************************************************)
(* The table: exact bytes, limits, and no complete datagram left behind.   *)
(***************************************************************************)
TableOK(T, n) ==
  /\ DOMAIN T \subseteq Dgram
  /\ \A d \in DOMAIN T : /\ Buffers(d, T[d])
                         /\ Cardinality(DOMAIN T[d].frags) <= MaxFragments
                         /\ T[d].haveLast => contiguousLen(T[d].frags) < 0
  /\ n = Held(T) /\ n <= MaxBytes
  /\ Cardinality(DOMAIN T) <= MaxReassemblies

TableInv == now \in Int /\ TableOK(entries, bufByte)

\* A table in order can be counted.
LEMMA TableCountable ==
  ASSUME NEW T, NEW n, TableOK(T, n)
  PROVE  Countable(T) /\ n \in Nat /\ Cardinality(DOMAIN T) \in Nat
<1>1. IsFiniteSet(DOMAIN T)
  BY Zenon, ReassemblyConstants, FS_Subset DEF TableOK
<1>2. Countable(T)
  BY Zenon, <1>1 DEF TableOK, Countable, Buffers
<1>3. Held(T) \in Nat
  BY Zenon, <1>2, Released
<1> QED BY Zenon, <1>1, <1>2, <1>3, FS_CardinalityType DEF TableOK

\* Releasing entries keeps the table in order.
LEMMA WithoutOK ==
  ASSUME NEW T, NEW n, TableOK(T, n), NEW K
  PROVE  /\ TableOK(Without(T, K), BytesWithout(T, n, K))
         /\ BytesWithout(T, n, K) = Held(Without(T, K))
         /\ DOMAIN Without(T, K) = DOMAIN T \ K
         /\ \A d \in DOMAIN T \ K : Without(T, K)[d] = T[d]
<1> DEFINE W == Without(T, K)
<1>1. DOMAIN W = DOMAIN T \ K /\ \A d \in DOMAIN T \ K : W[d] = T[d]
  BY Zenon DEF Without, Restrict
<1>2. Countable(T) /\ n = Held(T) /\ n \in Nat
  BY Zenon, TableCountable DEF TableOK
<1>3. Held(W) \in Nat /\ BytesWithout(T, n, K) = Held(W) /\ Held(W) <= n
  BY Zenon, <1>2, Released
<1>4. Cardinality(DOMAIN T \ K) <= Cardinality(DOMAIN T) /\ Cardinality(DOMAIN T \ K) \in Nat
      /\ Cardinality(DOMAIN T) \in Nat
  <2>1. IsFiniteSet(DOMAIN T) /\ DOMAIN T \ K \in SUBSET DOMAIN T
    BY Zenon, <1>2 DEF Countable
  <2> QED BY Zenon, <2>1, FS_Subset, FS_CardinalityType
<1> HIDE DEF W
<1>5. TableOK(W, Held(W))
  <2>1. DOMAIN W \subseteq Dgram
    BY Zenon, <1>1 DEF TableOK
  <2>2. \A d \in DOMAIN W : /\ Buffers(d, W[d]) /\ Cardinality(DOMAIN W[d].frags) <= MaxFragments
                            /\ W[d].haveLast => contiguousLen(W[d].frags) < 0
    BY Zenon, <1>1 DEF TableOK
  <2>3. Held(W) <= MaxBytes
    BY <1>2, <1>3, ReassemblyConstants DEF TableOK
  <2>4. Cardinality(DOMAIN W) <= MaxReassemblies
    BY <1>1, <1>4, ReassemblyConstants DEF TableOK
  <2> QED BY Zenon, <2>1, <2>2, <2>3, <2>4 DEF TableOK
<1> QED BY Zenon, <1>1, <1>3, <1>5 DEF W

Grows(T, n, d, s, b) ==
  /\ Held(Put(T, d, s)) = n + b
  /\ BytesWithout(Put(T, d, s), n + b, {d}) = Held(Without(T, {d}))

\* Storing an entry of b bytes more than it had adds b to the bytes held;
\* handing it over at once leaves what the other entries hold.
LEMMA PutHeld ==
  ASSUME NEW T, NEW n, TableOK(T, n), NEW d, NEW s, NEW b \in Nat, s.bytes \in Nat,
         s.bytes = b + (IF d \in DOMAIN T THEN T[d].bytes ELSE 0)
  PROVE  Grows(T, n, d, s, b)
<1> DEFINE P == Put(T, d, s)
           w == Held(Without(T, {d}))
           h == Held(T)
<1>1. Countable(T) /\ h = n /\ n \in Nat
  BY Zenon, TableCountable DEF TableOK
<1>0. Countable(T) /\ s.bytes \in Nat
  BY Zenon, <1>1
<1>2. /\ Countable(P) /\ Held(P) = w + s.bytes
      /\ d \notin DOMAIN T => w = h
      /\ d \in DOMAIN T => h = w + T[d].bytes
      /\ Without(P, {d}) = Without(T, {d})
  <2>1. Adds(T, d, s)
    BY Zenon, <1>0, HeldPut
  <2> QED BY Zenon, <2>1 DEF Adds
<1>3. w \in Nat
  BY Zenon, <1>1, Released
<1>4. d \in DOMAIN T => T[d].bytes \in Nat
  BY Zenon, <1>1 DEF Countable
<1>5. BytesWithout(P, Held(P), {d}) = Held(Without(P, {d}))
  BY Zenon, <1>2, Released
<1> HIDE DEF P, w, h
<1>6. Held(P) = n + b
  <2>1. CASE d \in DOMAIN T
    BY <1>1, <1>2, <1>3, <1>4, <2>1
  <2>2. CASE d \notin DOMAIN T
    BY <1>1, <1>2, <1>3, <2>2
  <2> QED BY Zenon, <2>1, <2>2
<1>7. BytesWithout(P, n + b, {d}) = Held(Without(T, {d}))
  BY Zenon, <1>2, <1>5, <1>6
<1> QED BY Zenon, <1>6, <1>7 DEF P, Grows

\* Storing an incomplete entry within the limits does, too.
LEMMA PutOK ==
  ASSUME NEW T, NEW n, TableOK(T, n), NEW d \in Dgram, NEW s, NEW b \in Nat,
         Buffers(d, s), Cardinality(DOMAIN s.frags) <= MaxFragments,
         s.haveLast => contiguousLen(s.frags) < 0,
         s.bytes = b + (IF d \in DOMAIN T THEN T[d].bytes ELSE 0),
         n + b <= MaxBytes, d \in DOMAIN T \/ Cardinality(DOMAIN T) < MaxReassemblies
  PROVE  /\ TableOK(Put(T, d, s), n + b)
         /\ BytesWithout(Put(T, d, s), n + b, {d}) = Held(Without(T, {d}))
         /\ DOMAIN Put(T, d, s) = DOMAIN T \cup {d} /\ Put(T, d, s)[d] = s
         /\ \A k \in DOMAIN T : k # d => Put(T, d, s)[k] = T[k]
<1> DEFINE P == Put(T, d, s)
<1>1. DOMAIN P = DOMAIN T \cup {d} /\ P[d] = s /\ \A k \in DOMAIN T : k # d => P[k] = T[k]
  BY Zenon DEF Put
<1>2. Countable(T) /\ n = Held(T) /\ n \in Nat /\ s.bytes \in Nat /\ Cardinality(DOMAIN T) \in Nat
  BY Zenon, TableCountable DEF TableOK, Buffers
<1>6. Held(P) = n + b /\ BytesWithout(P, n + b, {d}) = Held(Without(T, {d}))
  <2>1. Grows(T, n, d, s, b)
    BY Zenon, <1>2, PutHeld
  <2> QED BY Zenon, <2>1 DEF Grows
<1> HIDE DEF P
<1>7. Cardinality(DOMAIN P) <= MaxReassemblies
  <2>1. CASE d \in DOMAIN T
    <3>1. DOMAIN P = DOMAIN T
      BY ZenonT(60), <1>1, <2>1
    <3> QED BY Zenon, <3>1 DEF TableOK
  <2>2. CASE d \notin DOMAIN T
    <3>1. IsFiniteSet(DOMAIN T)
      BY Zenon, <1>2 DEF Countable
    <3>2. Cardinality(DOMAIN T \cup {d}) =
            IF d \in DOMAIN T THEN Cardinality(DOMAIN T) ELSE Cardinality(DOMAIN T) + 1
      BY <3>1, FS_AddElement, Zenon
    <3> QED BY <1>1, <1>2, <2>2, <3>2, ReassemblyConstants
  <2> QED BY Zenon, <2>1, <2>2
<1>9. ASSUME NEW k \in DOMAIN P
      PROVE  /\ Buffers(k, P[k]) /\ Cardinality(DOMAIN P[k].frags) <= MaxFragments
             /\ P[k].haveLast => contiguousLen(P[k].frags) < 0
  <2>1. CASE k = d
    BY Zenon, <1>1, <2>1
  <2>2. CASE k # d
    BY Zenon, <1>1, <2>2 DEF TableOK
  <2> QED BY Zenon, <2>1, <2>2
<1>10. DOMAIN P \subseteq Dgram
  BY Zenon, <1>1 DEF TableOK
<1>11. TableOK(P, n + b)
  BY Zenon, <1>6, <1>7, <1>9, <1>10 DEF TableOK
<1> QED BY Zenon, <1>1, <1>6, <1>11 DEF P

\* The table as add finds it, the entry it works on, and the three outcomes.
Live == Without(entries, Outdated)
Entry(d) == IF d \in DOMAIN Live THEN Live[d] ELSE Fresh

Sheds(d) ==
  /\ entries' \in {Live, Without(Live, {d})}
  /\ shed' = shed \cup Outdated \cup {d} /\ pdu' = << >> /\ done' = done

Stores(d, f) ==
  /\ entries' = Put(Live, d, Stored(Entry(d), f))
  /\ shed' = shed \cup Outdated /\ pdu' = << >> /\ done' = done

Completes(d, f) ==
  /\ Stored(Entry(d), f).haveLast /\ ~(contiguousLen(Stored(Entry(d), f).frags) < 0)
  /\ entries' = Without(Live, {d})
  /\ shed' = shed \cup Outdated /\ pdu' = Assembled(Stored(Entry(d), f).frags)
  /\ done' = done \cup {d}

\* add keeps the table in order and has one of these outcomes.
LEMMA AddIs ==
  ASSUME TableInv, NEW d \in Dgram, NEW i \in 1..Count(d), Add(d, Frags(d)[i]),
         Frags(d)[i].units = 0 => d \in Echo
  PROVE  /\ TableOK(entries', bufByte')
         /\ TableOK(Live, Held(Live)) /\ Buffers(d, Entry(d))
         /\ DOMAIN Live = DOMAIN entries \ Outdated
         /\ \A k \in DOMAIN Live : Live[k] = entries[k]
         /\ \/ Sheds(d)
            \/ /\ Stores(d, Frags(d)[i]) \/ Completes(d, Frags(d)[i])
               /\ ~Overlaps(Entry(d).frags, Frags(d)[i])
<1> DEFINE f == Frags(d)[i]
           T == Live
           n == Held(Live)
           e == Entry(d)
           s == Stored(e, f)
           b == Bytes(f.piece)
           full == d \notin DOMAIN T /\ Cardinality(DOMAIN T) >= MaxReassemblies
           total == IF s.haveLast THEN contiguousLen(s.frags) ELSE -1
<1>1. /\ TableOK(T, n) /\ BytesWithout(entries, bufByte, Outdated) = n
      /\ DOMAIN T = DOMAIN entries \ Outdated /\ \A k \in DOMAIN T : T[k] = entries[k]
  BY WithoutOK DEF Live, TableInv
<1>2. Buffers(d, e) /\ e.bytes = (IF d \in DOMAIN T THEN T[d].bytes ELSE 0)
  <2>1. CASE d \in DOMAIN T
    BY Zenon, <1>1, <2>1 DEF Entry, TableOK
  <2>2. CASE d \notin DOMAIN T
    BY Zenon, <2>2, FreshBuffers DEF Entry, TableInv
  <2> QED BY Zenon, <2>1, <2>2
<1>3. \/ /\ n + b > MaxBytes \/ full
         /\ Keep(T, n)
         /\ shed' = shed \cup Outdated \cup {d} /\ pdu' = << >> /\ done' = done
      \/ /\ ~(n + b > MaxBytes) /\ ~full
         /\ Overlaps(e.frags, f) \/ Cardinality(DOMAIN e.frags) >= MaxFragments
         /\ Keep(Without(T, {d}), BytesWithout(T, n, {d}))
         /\ shed' = shed \cup Outdated \cup {d} /\ pdu' = << >> /\ done' = done
      \/ /\ ~(n + b > MaxBytes) /\ ~full
         /\ ~Overlaps(e.frags, f) /\ Cardinality(DOMAIN e.frags) < MaxFragments
         /\ IF total < 0
            THEN Keep(Put(T, d, s), n + b) /\ pdu' = << >> /\ done' = done
            ELSE /\ Keep(Without(T, {d}), BytesWithout(Put(T, d, s), n + b, {d}))
                 /\ pdu' = Assembled(s.frags) /\ done' = done \cup {d}
         /\ shed' = shed \cup Outdated
  BY <1>1, Zenon DEF Add, OverBudget, Live, Entry
<1> HIDE DEF f, T, n, e, s, b
<1>4. CASE Keep(T, n) /\ shed' = shed \cup Outdated \cup {d} /\ pdu' = << >> /\ done' = done
  <2>1. TableOK(entries', bufByte') /\ Sheds(d)
    BY Zenon, <1>1, <1>4 DEF Keep, Sheds, T
  <2> QED BY Zenon, <1>1, <1>2, <2>1 DEF T, n, e
<1>5. CASE /\ Keep(Without(T, {d}), BytesWithout(T, n, {d}))
           /\ shed' = shed \cup Outdated \cup {d} /\ pdu' = << >> /\ done' = done
  <2>1. TableOK(Without(T, {d}), BytesWithout(T, n, {d}))
    BY ZenonT(60), <1>1, WithoutOK
  <2>2. TableOK(entries', bufByte') /\ Sheds(d)
    BY Zenon, <1>5, <2>1 DEF Keep, Sheds, T
  <2> QED BY Zenon, <1>1, <1>2, <2>2 DEF T, n, e
<1>6. CASE /\ ~(n + b > MaxBytes) /\ ~full
           /\ ~Overlaps(e.frags, f) /\ Cardinality(DOMAIN e.frags) < MaxFragments
           /\ IF total < 0
              THEN Keep(Put(T, d, s), n + b) /\ pdu' = << >> /\ done' = done
              ELSE /\ Keep(Without(T, {d}), BytesWithout(Put(T, d, s), n + b, {d}))
                   /\ pdu' = Assembled(s.frags) /\ done' = done \cup {d}
           /\ shed' = shed \cup Outdated
  <2>1. /\ Buffers(d, s) /\ s.bytes = e.bytes + b /\ b \in Nat
        /\ Cardinality(DOMAIN s.frags) = Cardinality(DOMAIN e.frags) + 1
        /\ Cardinality(DOMAIN e.frags) \in Nat
    <3>1. ~Overlaps(e.frags, Frags(d)[i])
      BY Zenon, <1>6 DEF f
    <3> QED BY <1>2, <3>1, StoredBuffers DEF s, f, b
  <2>2. Cardinality(DOMAIN s.frags) <= MaxFragments /\ MaxReassemblies \in Nat
    BY <1>6, <2>1, ReassemblyConstants
  <2>3. /\ e.bytes \in Nat /\ s.bytes \in Nat /\ Cardinality(DOMAIN T) \in Nat
        /\ s.bytes = b + (IF d \in DOMAIN T THEN T[d].bytes ELSE 0)
    <3>1. e.bytes \in Nat /\ s.bytes \in Nat /\ Cardinality(DOMAIN T) \in Nat
      BY Zenon, <1>1, <1>2, <2>1, TableCountable DEF Buffers
    <3>2. s.bytes = b + e.bytes
      BY <2>1, <3>1
    <3> QED BY Zenon, <1>2, <3>1, <3>2
  <2>4. d \in DOMAIN T \/ Cardinality(DOMAIN T) < MaxReassemblies
    BY <1>6, <2>2, <2>3
  <2>5. CASE total < 0
    <3>1. s.haveLast => contiguousLen(s.frags) < 0
      BY Zenon, <2>5
    <3>2. TableOK(Put(T, d, s), n + b)
      <4>1. n + b <= MaxBytes
        <5>1. n \in Nat
          BY Zenon, <1>1, TableCountable
        <5> QED BY <1>6, <2>1, <5>1, ReassemblyConstants
      <4> QED BY <1>1, <2>1, <2>2, <2>3, <2>4, <3>1, <4>1, PutOK, ZenonT(60)
    <3>3. entries' = Put(T, d, s) /\ bufByte' = n + b /\ pdu' = << >> /\ done' = done
      BY Zenon, <1>6, <2>5 DEF Keep
    <3>4. Stores(d, f) /\ TableOK(entries', bufByte')
      BY Zenon, <1>6, <3>2, <3>3 DEF Stores, T, s, e
    <3> QED BY Zenon, <1>1, <1>2, <1>6, <3>4 DEF T, n, e, f
  <2>6. CASE ~(total < 0)
    <3>1. s.haveLast /\ ~(contiguousLen(s.frags) < 0)
      BY <2>6
    <3>2. /\ entries' = Without(T, {d}) /\ bufByte' = BytesWithout(Put(T, d, s), n + b, {d})
          /\ pdu' = Assembled(s.frags) /\ done' = done \cup {d}
      BY Zenon, <1>6, <2>6 DEF Keep
    <3>3. /\ TableOK(Without(T, {d}), Held(Without(T, {d})))
      BY ZenonT(60), <1>1, WithoutOK
    <3>4. BytesWithout(Put(T, d, s), n + b, {d}) = Held(Without(T, {d}))
      <4>1. Grows(T, n, d, s, b)
        BY Zenon, <1>1, <2>1, <2>3, PutHeld
      <4> QED BY Zenon, <4>1 DEF Grows
    <3>5. Completes(d, f) /\ TableOK(entries', bufByte')
      BY Zenon, <1>6, <3>1, <3>2, <3>3, <3>4 DEF Completes, T, s, e
    <3> QED BY Zenon, <1>1, <1>2, <1>6, <3>5 DEF T, n, e, f
  <2> QED BY Zenon, <2>5, <2>6
<1> QED BY Zenon, <1>3, <1>4, <1>5, <1>6

\* The network's side: what is left to deliver of every fragment.
LeftOK ==
  /\ DOMAIN left = Dgram
  /\ \A d \in Dgram : DOMAIN left[d] = 1..Count(d) /\ \A i \in 1..Count(d) : left[d][i] \in Int

\* A table without entries is in order.
LEMMA EmptyOK == TableOK(NoEntries, 0)
<1>1. DOMAIN NoEntries = {}
  BY Zenon DEF NoEntries
<1>2. Countable(NoEntries)
  BY Zenon, <1>1, FS_EmptySet DEF Countable
<1>3. Held(NoEntries) = Cardinality(Units(Weight(NoEntries), {}))
  BY Zenon, <1>1, <1>2, HeldIs DEF Countable
<1>4. Units(Weight(NoEntries), {}) = {}
  BY Zenon DEF Units
<1>5. Held(NoEntries) = 0
  BY <1>3, <1>4, FS_EmptySet, Zenon
<1>6. Cardinality(DOMAIN NoEntries) = 0
  BY <1>1, FS_EmptySet, Zenon
<1> QED BY <1>1, <1>5, <1>6, ReassemblyConstants DEF TableOK

\* The fragments of a datagram are numbered from 1.
LEMMA FragDomain == \A d : DOMAIN Frags(d) = 1..Count(d)
BY Zenon DEF Frags, fragmentIPv6Packet, Count

\* A delivery counts down one fragment and leaves the others alone.
LEMMA LeftStep ==
  ASSUME LeftOK, NEW d \in Dgram, NEW i \in 1..Count(d),
         left' = [left EXCEPT ![d][i] = @ - 1]
  PROVE  /\ LeftOK' /\ left'[d][i] = left[d][i] - 1
         /\ \A k \in Dgram : \A j \in 1..Count(k) : k # d \/ j # i => left'[k][j] = left[k][j]
<1>1. DOMAIN left' = Dgram
  BY Zenon DEF LeftOK
<1>2. \A k \in Dgram : k # d => left'[k] = left[k]
  BY Zenon DEF LeftOK
<1>3. left'[d] = [left[d] EXCEPT ![i] = @ - 1]
  BY Zenon DEF LeftOK
<1>4. DOMAIN left'[d] = 1..Count(d) /\ left'[d][i] = left[d][i] - 1
      /\ \A j \in 1..Count(d) : j # i => left'[d][j] = left[d][j]
  BY Zenon, <1>3 DEF LeftOK
<1>5. ASSUME NEW k \in Dgram
      PROVE  DOMAIN left'[k] = 1..Count(k) /\ \A j \in 1..Count(k) : left'[k][j] \in Int
  <2>1. CASE k = d
    <3>1. ASSUME NEW j \in 1..Count(d) PROVE left'[d][j] \in Int
      <4>1. left[d][j] \in Int /\ left[d][i] \in Int
        BY Zenon DEF LeftOK
      <4>2. CASE j = i
        BY <1>4, <4>1, <4>2
      <4>3. CASE j # i
        BY Zenon, <1>4, <4>1, <4>3
      <4> QED BY Zenon, <4>2, <4>3
    <3> QED BY Zenon, <1>4, <2>1, <3>1
  <2>2. CASE k # d
    BY Zenon, <1>2, <2>2 DEF LeftOK
  <2> QED BY Zenon, <2>1, <2>2
<1>6. LeftOK'
  BY Zenon, <1>1, <1>5 DEF LeftOK
<1>7. ASSUME NEW k \in Dgram, NEW j \in 1..Count(k), k # d \/ j # i
      PROVE  left'[k][j] = left[k][j]
  BY Zenon, <1>2, <1>4, <1>7
<1> QED BY Zenon, <1>4, <1>6, <1>7

\* The table is empty and every fragment still to come at first.
LEMMA TableInit == Init => TableInv /\ LeftOK
<1> SUFFICES ASSUME Init PROVE TableInv /\ LeftOK
  OBVIOUS
<1>1. TableInv
  BY EmptyOK DEF Init, TableInv
<1>2. LeftOK
  <2>1. DOMAIN left = Dgram /\ \A d \in Dgram : left[d] = [i \in DOMAIN Frags(d) |-> Copies]
    BY Zenon DEF Init
  <2>2. ASSUME NEW d \in Dgram
        PROVE  DOMAIN left[d] = 1..Count(d) /\ \A i \in 1..Count(d) : left[d][i] \in Int
    <3>1. left[d] = [i \in 1..Count(d) |-> Copies]
      BY Zenon, <2>1, FragDomain
    <3> QED BY <3>1, ReassemblyConstants
  <2> QED BY Zenon, <2>1, <2>2 DEF LeftOK
<1> QED BY Zenon, <1>1, <1>2

\* Cancelling a reassembly keeps the other entries and the budget exact.
LEMMA CancelOK ==
  ASSUME TableInv, NEW d, Cancel(d)
  PROVE  TableOK(entries', bufByte') /\ DOMAIN entries' = DOMAIN entries \ {d}
         /\ \A k \in DOMAIN entries' : entries'[k] = entries[k]
<1>1. entries' = Without(entries, {d}) /\ bufByte' = BytesWithout(entries, bufByte, {d})
  BY Zenon DEF Cancel, Keep
<1> QED BY <1>1, WithoutOK DEF TableInv

\* Every step keeps the table in order.
LEMMA TableStep == TableInv /\ LeftOK /\ [Next]_vars => TableInv' /\ LeftOK'
<1> SUFFICES ASSUME TableInv, LeftOK, [Next]_vars PROVE TableInv' /\ LeftOK'
  OBVIOUS
<1>1. ASSUME NEW d \in Dgram, Malformed(d) PROVE TableInv' /\ LeftOK'
  <2>1. Cancel(d) /\ now' = now /\ left' = left
    BY Zenon, <1>1 DEF Malformed
  <2>2. TableInv'
    BY Zenon, <2>1, CancelOK DEF TableInv
  <2> QED BY Zenon, <2>1, <2>2 DEF LeftOK
<1>2. ASSUME NEW d \in Dgram, NEW i \in DOMAIN Frags(d), Deliver(d, i) PROVE TableInv' /\ LeftOK'
  <2>1. i \in 1..Count(d) /\ now' = now /\ left' = [left EXCEPT ![d][i] = @ - 1]
    BY Zenon, <1>2, FragDomain DEF Deliver
  <2>2. LeftOK'
    BY Zenon, <2>1, LeftStep
  <2>3. CASE Frags(d)[i].units = 0 /\ d \notin Echo
    <3>1. Cancel(d)
      BY Zenon, <1>2, <2>3 DEF Deliver
    <3> QED BY Zenon, <2>1, <2>2, <3>1, CancelOK DEF TableInv
  <2>4. CASE ~(Frags(d)[i].units = 0 /\ d \notin Echo)
    <3>1. Add(d, Frags(d)[i]) /\ (Frags(d)[i].units = 0 => d \in Echo)
      BY Zenon, <1>2, <2>4 DEF Deliver
    <3>2. TableOK(entries', bufByte')
      BY Zenon, <2>1, <3>1, AddIs
    <3> QED BY Zenon, <2>1, <2>2, <3>2 DEF TableInv
  <2> QED BY Zenon, <2>3, <2>4
<1>3. CASE Advance
  BY <1>3 DEF Advance, TableInv, LeftOK
<1>4. CASE UNCHANGED vars
  BY Zenon, <1>4 DEF vars, TableInv, LeftOK
<1> QED BY Zenon, <1>1, <1>2, <1>3, <1>4 DEF Next

\* The reassembly table of reasm.go accounts for its bytes exactly, in the
\* table and in every entry, stays within its three limits, and never keeps
\* a datagram that is complete, for any datagrams, sizes, MTU and limits and
\* any order, loss and duplication of the fragments.
THEOREM BufferAlwaysExact == Spec => []BufferExact
<1>1. TableInv => BufferExact
  <2> SUFFICES ASSUME TableInv PROVE BufferExact
    OBVIOUS
  <2>1. ASSUME NEW k \in DOMAIN entries
        PROVE  /\ Cardinality(DOMAIN entries[k].frags) <= MaxFragments
               /\ entries[k].bytes = Sum(entries[k].frags)
               /\ entries[k].haveLast => contiguousLen(entries[k].frags) < 0
    BY Zenon DEF TableInv, TableOK, Buffers
  <2> QED BY <2>1, Zenon DEF TableInv, TableOK, BufferExact, Sum
<1> QED BY <1>1, TableInit, TableStep, PTL DEF Spec

\* After the arrival of a fragment of an Echo Request, no entry of the table
\* is older than maxReasmAge: expireLocked runs before anything else in add.
THEOREM OldEntriesExpire == Spec => Expires
<1>1. TableInv /\ LeftOK /\ [Next]_vars =>
        [\A d \in Dgram : \A i \in DOMAIN Frags(d) :
           left'[d][i] < left[d][i] /\ d \in Echo =>
             \A k \in DOMAIN entries' : entries'[k].createdAt >= now - MaxAge]_vars
  <2> SUFFICES ASSUME TableInv, LeftOK, Next,
                      NEW d \in Dgram, NEW i \in DOMAIN Frags(d),
                      left'[d][i] < left[d][i], d \in Echo,
                      NEW k \in DOMAIN entries'
               PROVE  entries'[k].createdAt >= now - MaxAge
    BY Zenon DEF vars
  <2>1. i \in 1..Count(d) /\ left[d][i] \in Int
    BY Zenon, FragDomain DEF LeftOK
  <2>2. left' # left
    BY <2>1
  <2>3. PICK c \in Dgram : \E j \in DOMAIN Frags(c) : Deliver(c, j)
    BY Zenon, <2>2 DEF Next, Malformed, Advance
  <2>4. PICK j \in DOMAIN Frags(c) : Deliver(c, j)
    BY Zenon, <2>3
  <2>5. j \in 1..Count(c)
    BY Zenon, FragDomain
  <2>6. c = d
    BY <2>1, <2>4, <2>5, LeftStep DEF Deliver
  <2>7. Add(c, Frags(c)[j]) /\ (Frags(c)[j].units = 0 => c \in Echo)
    BY Zenon, <2>4, <2>6 DEF Deliver
  <2>8. /\ TableOK(Live, Held(Live)) /\ Buffers(c, Entry(c))
        /\ DOMAIN Live = DOMAIN entries \ Outdated
        /\ \A x \in DOMAIN Live : Live[x] = entries[x]
        /\ \/ Sheds(c)
           \/ /\ Stores(c, Frags(c)[j]) \/ Completes(c, Frags(c)[j])
              /\ ~Overlaps(Entry(c).frags, Frags(c)[j])
    BY Zenon, <2>5, <2>7, AddIs
  <2>9. now \in Int /\ MaxAge \in Nat
    BY Zenon, ReassemblyConstants DEF TableInv
  <2>10. ASSUME NEW x \in DOMAIN Live PROVE Live[x].createdAt >= now - MaxAge
    <3>1. Live[x].createdAt \in Int
      BY Zenon, <2>8 DEF TableOK, Buffers
    <3>2. ~(Live[x].createdAt < now - MaxAge)
      BY Zenon, <2>8 DEF Outdated
    <3> QED BY <2>9, <3>1, <3>2
  <2>11. CASE Sheds(c) \/ Completes(c, Frags(c)[j])
    <3>1. entries' = Live \/ entries' = Without(Live, {c})
      BY Zenon, <2>11 DEF Sheds, Completes
    <3>2. DOMAIN Without(Live, {c}) = DOMAIN Live \ {c}
          /\ \A x \in DOMAIN Live \ {c} : Without(Live, {c})[x] = Live[x]
      BY ZenonT(60), <2>8, WithoutOK
    <3>3. k \in DOMAIN Live /\ entries'[k] = Live[k]
      BY Zenon, <3>1, <3>2
    <3> QED BY Zenon, <2>10, <3>3
  <2>12. CASE Stores(c, Frags(c)[j]) /\ ~Overlaps(Entry(c).frags, Frags(c)[j])
    <3> DEFINE s == Stored(Entry(c), Frags(c)[j])
    <3>1. s.createdAt = Entry(c).createdAt
      BY <2>5, <2>7, <2>8, <2>12, StoredBuffers
    <3>2. Entry(c).createdAt >= now - MaxAge
      <4>1. CASE c \in DOMAIN Live
        BY Zenon, <2>10, <4>1 DEF Entry
      <4>2. CASE c \notin DOMAIN Live
        <5>1. Entry(c).createdAt = now
          BY Zenon, <4>2 DEF Entry, Fresh
        <5> QED BY <2>9, <5>1
      <4> QED BY Zenon, <4>1, <4>2
    <3> HIDE DEF s
    <3>3. entries' = Put(Live, c, s)
      BY Zenon, <2>12 DEF Stores, s
    <3>4. (k = c /\ entries'[k] = s) \/ (k \in DOMAIN Live /\ entries'[k] = Live[k])
      <4>1. DOMAIN Put(Live, c, s) = DOMAIN Live \cup {c} /\ Put(Live, c, s)[c] = s
            /\ \A x \in DOMAIN Live : x # c => Put(Live, c, s)[x] = Live[x]
        BY Zenon DEF Put
      <4>2. k \in DOMAIN Put(Live, c, s) /\ entries'[k] = Put(Live, c, s)[k]
        BY ONLY Zenon, <3>3, k \in DOMAIN entries'
      <4>3. CASE k = c
        BY Zenon, <4>1, <4>2, <4>3
      <4>4. CASE k # c
        BY Zenon, <4>1, <4>2, <4>4
      <4> QED BY Zenon, <4>3, <4>4
    <3> QED BY Zenon, <2>10, <3>1, <3>2, <3>4
  <2> QED BY Zenon, <2>8, <2>11, <2>12
<1> QED BY <1>1, TableInit, TableStep, PTL DEF Spec, Expires
-----------------------------------------------------------------------------
(***************************************************************************)
(* contiguousLen.  Its walk is a recursion on the offset; for the pieces   *)
(* of one datagram with the last among them, it reaches the end exactly    *)
(* when every fragment is there.                                           *)
(***************************************************************************)
IsWalk(g, frags, end) ==
  g = [at \in 0..(2 * end) |->
         IF at >= end THEN end
         ELSE IF at \div Unit \notin DOMAIN frags \/ Bytes(frags[at \div Unit]) = 0 THEN -1
         ELSE g[at + Bytes(frags[at \div Unit])]]

\* contiguousLen is where a walk from 0 ends.
LEMMA LenIs ==
  ASSUME NEW frags
  PROVE  contiguousLen(frags) =
           (CHOOSE g : IsWalk(g, frags, Max({u * Unit + Bytes(frags[u]) : u \in DOMAIN frags})))[0]
BY Zenon DEF contiguousLen, IsWalk

\* There is at most one walk.
LEMMA SameWalk ==
  ASSUME NEW frags, NEW end \in Nat, NEW g, NEW h, IsWalk(g, frags, end), IsWalk(h, frags, end),
         \A u \in DOMAIN frags : Bytes(frags[u]) \in Nat /\ Bytes(frags[u]) <= end
  PROVE  g[0] = h[0]
<1> DEFINE stuck(at) == at \div Unit \notin DOMAIN frags \/ Bytes(frags[at \div Unit]) = 0
           to(at) == at + Bytes(frags[at \div Unit])
<1>1. ASSUME NEW at \in 0..(2 * end)
      PROVE  /\ g[at] = IF at >= end THEN end ELSE IF stuck(at) THEN -1 ELSE g[to(at)]
             /\ h[at] = IF at >= end THEN end ELSE IF stuck(at) THEN -1 ELSE h[to(at)]
  BY Zenon DEF IsWalk
<1> DEFINE B == {n \in 0..(2 * end) : g[2 * end - n] # h[2 * end - n]}
<1> SUFFICES ASSUME g[0] # h[0] PROVE FALSE
  OBVIOUS
<1>2. 2 * end \in B /\ B \subseteq Nat
  OBVIOUS
<1>3. PICK m \in B : \A k \in B : m <= k
  <2> HIDE DEF B
  <2> QED BY ZenonT(60), <1>2, LeastNat
<1> DEFINE at == 2 * end - m
<1>4. at \in 0..(2 * end) /\ g[at] # h[at] /\ m \in Nat /\ m = 2 * end - at
  BY <1>2, <1>3
<1>5. \A x \in 0..(2 * end) : x > at => g[x] = h[x]
  <2> SUFFICES ASSUME NEW x \in 0..(2 * end), x > at, g[x] # h[x] PROVE FALSE
    OBVIOUS
  <2>1. 2 * end - (2 * end - x) = x /\ 2 * end - x \in 0..(2 * end)
    OBVIOUS
  <2>2. 2 * end - x \in B
    BY Zenon, <2>1
  <2> QED BY <1>3, <1>4, <2>2
<1> HIDE DEF at, B, stuck, to
<1>6. ~(at >= end) /\ ~stuck(at) /\ g[to(at)] # h[to(at)]
  BY Zenon, <1>1, <1>4
<1>7. to(at) \in 0..(2 * end) /\ to(at) > at
  BY <1>4, <1>6 DEF stuck, to
<1> QED BY Zenon, <1>5, <1>6, <1>7

\* The fragments from offset u on are all there.
Rest(d, frags, u) ==
  \A j \in 1..Count(d) : u <= Frags(d)[j].units => Frags(d)[j].units \in DOMAIN frags

Whole(d, frags) == \A j \in 1..Count(d) : Frags(d)[j].units \in DOMAIN frags

\* Where a walk stands and where it goes next, at a fragment that is there.
LEMMA WalkOn ==
  ASSUME NEW d \in Dgram, NEW frags, Genuine(d, frags),
         Frags(d)[Count(d)].units \in DOMAIN frags,
         NEW at \in Nat, at < Size[d], at \div 8 \in DOMAIN frags
  PROVE  LET to == at + Bytes(frags[at \div 8])
         IN  /\ to \in Nat /\ to > at /\ Bytes(frags[at \div 8]) > 0 /\ to <= 2 * Size[d]
             /\ to >= Size[d] => Rest(d, frags, at \div 8)
             /\ to < Size[d] => ((to \div 8 \in DOMAIN frags /\ Rest(d, frags, to \div 8))
                                   <=> Rest(d, frags, at \div 8))
<1> DEFINE u == at \div 8
           N == Count(d)
           b == Bytes(frags[u])
           to == at + b
<1>1. PICK i \in 1..N : u = Frags(d)[i].units /\ frags[u] = Frags(d)[i].piece
  BY Zenon DEF Genuine
<1>2. N \in Nat /\ N >= 1 /\ Size[d] \in Nat
  BY Zenon, CountIs
<1> DEFINE F(j) == Frags(d)[j]
<1>3. ASSUME NEW j \in 1..N
      PROVE  /\ F(j).units \in Nat /\ F(j).piece.from = F(j).units * 8
             /\ F(j).piece.from \in Nat /\ F(j).piece.to \in Nat
             /\ F(j).piece.from < F(j).piece.to /\ F(j).piece.to <= Size[d]
             /\ j < N => F(j).piece.to = F(j + 1).piece.from
             /\ j = N => F(j).piece.to = Size[d]
             /\ \A k \in 1..N : j < k => F(j).units < F(k).units
  BY FragIs
<1>4. u \in Nat /\ 8 * u <= at /\ at < 8 * u + 8
  BY DivIs
<1> HIDE DEF u, F, N
<1>5. b = F(i).piece.to - F(i).units * 8 /\ b \in Nat /\ b > 0 /\ b <= Size[d] /\ u = F(i).units
  BY <1>1, <1>2, <1>3 DEF Bytes, F
<1>6. \A j \in 1..N : u <= F(j).units <=> i <= j
  <2> SUFFICES ASSUME NEW j \in 1..N PROVE u <= F(j).units <=> i <= j
    OBVIOUS
  <2>1. F(j).units \in Nat /\ u \in Nat /\ j \in Int /\ i \in Int
    BY <1>2, <1>3, <1>4
  <2>2. i < j => u < F(j).units
    BY Zenon, <1>3, <1>5
  <2>3. j < i => F(j).units < u
    BY Zenon, <1>3, <1>5
  <2>4. i = j => u = F(j).units
    BY Zenon, <1>5
  <2> QED BY <2>1, <2>2, <2>3, <2>4
<1>7. F(i).units \in DOMAIN frags /\ F(N).units \in DOMAIN frags
  BY Zenon, <1>5 DEF u, F, N
<1>8. Rest(d, frags, u) <=> \A j \in 1..N : i <= j => F(j).units \in DOMAIN frags
  BY Zenon, <1>6 DEF Rest, F, N
<1>9. CASE i = N
  <2>1. to >= Size[d]
    BY <1>2, <1>3, <1>4, <1>5, <1>9
  <2>2. \A j \in 1..N : i <= j => j = i
    BY <1>2, <1>9
  <2>3. Rest(d, frags, u)
    BY Zenon, <1>7, <1>8, <2>2
  <2>4. to \in Nat /\ to > at /\ b > 0 /\ to <= 2 * Size[d]
    BY <1>2, <1>5
  <2>5. ~(to < Size[d])
    BY <1>2, <2>1, <2>4
  <2> QED BY Zenon, <2>3, <2>4, <2>5 DEF u
<1>10. CASE i < N
  <2>1. i + 1 \in 1..N
    BY <1>2, <1>10
  <2> DEFINE v == F(i + 1).units
  <2>2. v \in Nat /\ F(i).piece.to = v * 8
    BY Zenon, <1>3, <1>10, <2>1
  <2>3. to = at + v * 8 - u * 8
    BY Zenon, <1>4, <1>5, <2>2
  <2>4. to \div 8 = v /\ to \in Nat /\ to > at /\ b > 0 /\ to <= 2 * Size[d]
    <3> HIDE DEF v, to, b
    <3>1. to \in Nat /\ to > at /\ b > 0 /\ to <= 2 * Size[d]
      BY <1>2, <1>5 DEF to
    <3>2. 8 * v <= to /\ to < 8 * v + 8
      BY <1>4, <2>2, <2>3
    <3> QED BY <2>2, <3>1, <3>2
  <2>5. \A j \in 1..N : v <= F(j).units <=> i + 1 <= j
    <3> SUFFICES ASSUME NEW j \in 1..N PROVE v <= F(j).units <=> i + 1 <= j
      OBVIOUS
    <3>1. F(j).units \in Nat /\ j \in Int /\ i \in Int
      BY <1>2, <1>3
    <3>2. i + 1 < j => v < F(j).units
      BY Zenon, <1>3, <2>1
    <3>3. j < i + 1 => F(j).units < v
      BY Zenon, <1>3, <2>1
    <3> HIDE DEF v
    <3>4. i + 1 = j => v = F(j).units
      BY Zenon DEF v
    <3> QED BY <2>2, <3>1, <3>2, <3>3, <3>4
  <2>6. Rest(d, frags, v) <=> \A j \in 1..N : i + 1 <= j => F(j).units \in DOMAIN frags
    BY Zenon, <2>5 DEF Rest, F, N
  <2>7. Rest(d, frags, v) <=> Rest(d, frags, u)
    <3>1. \A j \in 1..N : i <= j <=> j = i \/ i + 1 <= j
      BY <1>2
    <3> QED BY Zenon, <1>7, <1>8, <2>6, <3>1
  <2>8. Rest(d, frags, v) => v \in DOMAIN frags
    BY <2>1, <2>6
  <2>9. to >= Size[d] => Rest(d, frags, u)
    <3> SUFFICES ASSUME to >= Size[d] PROVE \A j \in 1..N : i <= j => F(j).units \in DOMAIN frags
      BY Zenon, <1>8
    <3>1. ~(i + 1 < N)
      <4> SUFFICES ASSUME i + 1 < N PROVE FALSE
        OBVIOUS
      <4>1. N \in 1..N /\ i + 1 < N
        BY <1>2
      <4>2. v < F(N).units /\ F(N).units \in Nat
        BY Zenon, <1>3, <2>1, <4>1
      <4>3. F(N).units * 8 < Size[d]
        BY Zenon, <1>2, <1>3, <4>1
      <4> HIDE DEF v, to
      <4> QED BY <1>2, <1>4, <2>2, <2>3, <4>2, <4>3
    <3>2. \A j \in 1..N : i <= j => j = i \/ j = N
      BY <1>2, <2>1, <3>1
    <3> QED BY Zenon, <1>7, <3>2
  <2> HIDE DEF v, to
  <2> QED BY Zenon, <2>4, <2>7, <2>8, <2>9 DEF u, to
<1> QED BY <1>2, <1>9, <1>10

\* A walk over the pieces of a datagram with the last among them reaches its
\* end if the datagram is whole, and fails otherwise.
LEMMA ContiguousIs ==
  ASSUME NEW d \in Dgram, NEW frags, Genuine(d, frags),
         Frags(d)[Count(d)].units \in DOMAIN frags
  PROVE  contiguousLen(frags) = IF Whole(d, frags) THEN Size[d] ELSE -1
<1> DEFINE N == Count(d)
           end == Size[d]
           S == {u * Unit + Bytes(frags[u]) : u \in DOMAIN frags}
<1>1. N \in Nat /\ N >= 1 /\ N \in 1..N /\ end \in Nat /\ end > 0
  <2>1. Mtu \in Nat /\ Mtu >= 56 /\ 40 + Size[d] > Mtu
    BY Zenon, ReassemblyConstants
  <2>2. Count(d) \in Nat /\ Count(d) >= 1 /\ Size[d] \in Nat
    BY Zenon, CountIs
  <2> QED BY <2>1, <2>2
<1>2. ASSUME NEW u \in DOMAIN frags
      PROVE  /\ u \in Nat /\ Bytes(frags[u]) \in Nat /\ Bytes(frags[u]) <= end
             /\ u * Unit + Bytes(frags[u]) <= end /\ u * Unit + Bytes(frags[u]) \in Nat
  <2>1. PICK i \in 1..N : u = Frags(d)[i].units /\ frags[u] = Frags(d)[i].piece
    BY Zenon DEF Genuine
  <2>2. frags[u].to \in Nat /\ frags[u].to <= end
    BY <2>1, FragIs
  <2>3. u \in Nat /\ Bytes(frags[u]) \in Nat /\ u * 8 + Bytes(frags[u]) = frags[u].to
    BY Zenon, GenuineBytes
  <2> HIDE DEF end
  <2> QED BY <1>1, <2>2, <2>3 DEF Unit
<1>3. end \in S
  <2>1. Frags(d)[N].units \in DOMAIN frags
    OBVIOUS
  <2>2. PICK i \in 1..N : Frags(d)[N].units = Frags(d)[i].units
                          /\ frags[Frags(d)[N].units] = Frags(d)[i].piece
    BY Zenon, <2>1 DEF Genuine
  <2>3. i = N
    <3>1. i < N => Frags(d)[i].units < Frags(d)[N].units
      BY Zenon, <1>1, FragIs
    <3>2. Frags(d)[i].units \in Nat
      BY Zenon, FragIs
    <3> QED BY <1>1, <2>2, <3>1, <3>2
  <2>4. frags[Frags(d)[N].units].to = end
    BY <1>1, <2>2, <2>3, FragIs
  <2> DEFINE x == Frags(d)[N].units
  <2>5. x * 8 + Bytes(frags[x]) = end
    <3> HIDE DEF x
    <3> QED BY Zenon, <2>1, <2>4, GenuineBytes DEF x
  <2> QED BY Zenon, <2>1, <2>5 DEF Unit
<1>4. Max(S) = end
  <2>1. \A y \in S : y \in Nat /\ y <= end
    BY Zenon, <1>2
  <2> HIDE DEF S, end
  <2> DEFINE m == CHOOSE x \in S : \A y \in S : x >= y
  <2>2. \E x \in S : \A y \in S : x >= y
    BY Zenon, <1>1, <1>3, <2>1
  <2>3. m \in S /\ \A y \in S : m >= y
    BY <2>2, Zenon
  <2>4. Max(S) = m
    BY Zenon DEF Max
  <2> HIDE DEF m
  <2> QED BY <1>1, <1>3, <2>1, <2>3, <2>4
<1> DEFINE G == [at \in 0..(2 * end) |->
                   IF at >= end THEN end
                   ELSE IF at \div Unit \in DOMAIN frags /\ Rest(d, frags, at \div Unit) THEN end
                   ELSE -1]
<1>5. IsWalk(G, frags, end)
  <2>1. ASSUME NEW at \in 0..(2 * end)
        PROVE  G[at] = IF at >= end THEN end
                       ELSE IF at \div Unit \notin DOMAIN frags \/ Bytes(frags[at \div Unit]) = 0 THEN -1
                       ELSE G[at + Bytes(frags[at \div Unit])]
    <3>1. CASE at >= end
      BY Zenon, <3>1
    <3>2. CASE ~(at >= end) /\ at \div Unit \notin DOMAIN frags
      BY Zenon, <3>2
    <3>3. CASE ~(at >= end) /\ at \div Unit \in DOMAIN frags
      <4> DEFINE to == at + Bytes(frags[at \div Unit])
      <4>1. at \in Nat /\ at < end /\ at \div 8 \in DOMAIN frags
        BY <1>1, <3>3 DEF Unit
      <4>2. /\ to \in Nat /\ Bytes(frags[at \div Unit]) > 0 /\ to <= 2 * end
            /\ to >= end => Rest(d, frags, at \div Unit)
            /\ to < end => ((to \div Unit \in DOMAIN frags /\ Rest(d, frags, to \div Unit))
                              <=> Rest(d, frags, at \div Unit))
        BY Zenon, <4>1, WalkOn DEF Unit
      <4>3. G[at] = IF Rest(d, frags, at \div Unit) THEN end ELSE -1
        BY Zenon, <3>3
      <4> HIDE DEF to
      <4>4. to \in 0..(2 * end) /\ (to >= end \/ to < end)
        BY <1>1, <4>2
      <4>5. G[to] = IF Rest(d, frags, at \div Unit) THEN end ELSE -1
        <5>1. G[to] = IF to >= end THEN end
                      ELSE IF to \div Unit \in DOMAIN frags /\ Rest(d, frags, to \div Unit) THEN end
                      ELSE -1
          BY Zenon, <4>4
        <5> HIDE DEF G
        <5> QED BY Zenon, <4>2, <4>4, <5>1
      <4> HIDE DEF G
      <4>6. ~(Bytes(frags[at \div Unit]) = 0)
        BY <4>2
      <4> QED BY Zenon, <3>3, <4>3, <4>5, <4>6 DEF to
    <3> QED BY Zenon, <3>1, <3>2, <3>3
  <2>2. G = [at \in 0..(2 * end) |-> G[at]]
    OBVIOUS
  <2> HIDE DEF G
  <2> QED BY Zenon, <2>1, <2>2 DEF IsWalk
<1> DEFINE w == CHOOSE g : IsWalk(g, frags, end)
<1>6. IsWalk(w, frags, end)
  <2> HIDE DEF G
  <2> QED BY <1>5, Zenon
<1>7. contiguousLen(frags) = w[0]
  BY Zenon, <1>4, LenIs
<1>8. w[0] = G[0]
  <2> HIDE DEF G, w, end
  <2> QED BY Zenon, <1>1, <1>2, <1>5, <1>6, SameWalk
<1>9. G[0] = IF 0 \div Unit \in DOMAIN frags /\ Rest(d, frags, 0 \div Unit) THEN end ELSE -1
  BY <1>1
<1>10. (0 \div Unit \in DOMAIN frags /\ Rest(d, frags, 0 \div Unit)) <=> Whole(d, frags)
  <2>1. 0 \div Unit = 0
    BY DEF Unit
  <2>2. \A j \in 1..N : 0 <= Frags(d)[j].units
    BY FragIs
  <2>3. 1 \in 1..N /\ Frags(d)[1].units = 0
    BY <1>1, FragIs
  <2> QED BY Zenon, <2>1, <2>2, <2>3 DEF Rest, Whole
<1> HIDE DEF G
<1> QED BY Zenon, <1>7, <1>8, <1>9, <1>10
-----------------------------------------------------------------------------
(***************************************************************************)
(* What is handed over, and that it is.                                    *)
(***************************************************************************)

\* A set numbered from 1 to n has n elements.
LEMMA Numbered ==
  ASSUME NEW S, NEW n \in Nat, NEW h \in [1..n -> S],
         \A i, j \in 1..n : h[i] = h[j] => i = j, \A x \in S : \E i \in 1..n : h[i] = x
  PROVE  Cardinality(S) = n
<1>1. h \in Bijection(1..n, S)
  BY Zenon DEF Bijection, Injection, Surjection, IsInjective
<1>2. ExistsBijection(1..n, S)
  BY Zenon, <1>1 DEF ExistsBijection
<1> QED BY Zenon, <1>2, FS_CountingElements

Pieces(d) == [i \in 1..Count(d) |-> Frags(d)[i].piece]

\* The pieces of a whole datagram are put together in order.
LEMMA AssembledIs ==
  ASSUME NEW d \in Dgram, NEW frags, Genuine(d, frags), Whole(d, frags)
  PROVE  Assembled(frags) = Pieces(d)
<1> DEFINE N == Count(d)
           un(i) == Frags(d)[i].units
           S == DOMAIN frags
           below(u) == {v \in S : v < u}
<1>1. N \in Nat /\ N >= 1
  BY Zenon, CountIs
<1>2. ASSUME NEW i \in 1..N
      PROVE  un(i) \in Nat /\ un(i) \in S /\ \A j \in 1..N : i < j => un(i) < un(j)
  BY Zenon, FragIs DEF Whole
<1>3. \A x \in S : \E i \in 1..N : x = un(i) /\ frags[x] = Frags(d)[i].piece
  BY Zenon DEF Genuine
<1> HIDE DEF N, S, un
<1>4. \A i, j \in 1..N : (un(i) < un(j) <=> i < j) /\ (un(i) = un(j) => i = j)
  <2> SUFFICES ASSUME NEW i \in 1..N, NEW j \in 1..N
               PROVE  (un(i) < un(j) <=> i < j) /\ (un(i) = un(j) => i = j)
    OBVIOUS
  <2>1. un(i) \in Nat /\ un(j) \in Nat /\ i \in Int /\ j \in Int
    BY <1>1, <1>2
  <2>2. (i < j => un(i) < un(j)) /\ (j < i => un(j) < un(i))
    BY Zenon, <1>2
  <2>3. i = j => un(i) = un(j)
    OBVIOUS
  <2> QED BY <2>1, <2>2, <2>3
<1>5. Cardinality(S) = N
  <2> DEFINE h == [i \in 1..N |-> un(i)]
  <2>1. h \in [1..N -> S]
    BY Zenon, <1>2
  <2>2. \A i, j \in 1..N : h[i] = h[j] => i = j
    BY Zenon, <1>4
  <2>3. \A x \in S : \E i \in 1..N : h[i] = x
    BY Zenon, <1>3
  <2> HIDE DEF h
  <2> QED BY <1>1, <2>1, <2>2, <2>3, Numbered
<1>6. ASSUME NEW i \in 1..N PROVE Cardinality(below(un(i))) = i - 1
  <2> DEFINE B == below(un(i))
             h == [j \in 1..(i - 1) |-> un(j)]
  <2>1. i - 1 \in Nat /\ 1..(i - 1) \subseteq 1..N /\ \A j \in 1..N : j < i <=> j \in 1..(i - 1)
    BY <1>1
  <2>2. h \in [1..(i - 1) -> B]
    <3>1. ASSUME NEW j \in 1..(i - 1) PROVE un(j) \in B
      BY Zenon, <1>2, <1>4, <2>1
    <3> QED BY Zenon, <3>1
  <2>3. \A j, k \in 1..(i - 1) : h[j] = h[k] => j = k
    BY Zenon, <1>4, <2>1
  <2>4. ASSUME NEW x \in B PROVE \E j \in 1..(i - 1) : h[j] = x
    <3>1. PICK j \in 1..N : x = un(j)
      BY Zenon, <1>3
    <3>2. j \in 1..(i - 1)
      BY Zenon, <1>4, <2>1, <3>1
    <3> QED BY Zenon, <3>1, <3>2
  <2> HIDE DEF h, B
  <2>5. Cardinality(B) = i - 1
    BY <2>1, <2>2, <2>3, <2>4, Numbered
  <2> QED BY Zenon, <2>5 DEF B
<1> DEFINE nth(i) == CHOOSE u \in S : Cardinality(below(u)) = i - 1
<1>7. ASSUME NEW i \in 1..N PROVE nth(i) = un(i)
  <2> HIDE DEF below
  <2>1. un(i) \in S /\ Cardinality(below(un(i))) = i - 1
    BY Zenon, <1>2, <1>6
  <2>2. nth(i) \in S /\ Cardinality(below(nth(i))) = i - 1
    BY <2>1, Zenon
  <2> HIDE DEF nth
  <2>3. PICK j \in 1..N : nth(i) = un(j)
    BY Zenon, <1>3, <2>2
  <2>4. Cardinality(below(un(j))) = j - 1
    BY Zenon, <1>6
  <2>5. j - 1 = i - 1
    BY Zenon, <2>2, <2>3, <2>4
  <2>6. j = i
    BY <1>1, <2>5
  <2> QED BY Zenon, <2>3, <2>6
<1>8. ASSUME NEW i \in 1..N PROVE frags[un(i)] = Frags(d)[i].piece
  <2>1. PICK j \in 1..N : un(i) = un(j) /\ frags[un(i)] = Frags(d)[j].piece
    BY Zenon, <1>2, <1>3
  <2>2. i = j
    BY Zenon, <1>4, <2>1
  <2> QED BY Zenon, <2>1, <2>2
<1>9. Assembled(frags) = [i \in 1..Cardinality(S) |-> frags[nth(i)]]
  BY Zenon DEF Assembled, S
<1> HIDE DEF nth
<1>10. Assembled(frags) = [i \in 1..N |-> frags[nth(i)]]
  BY Zenon, <1>5, <1>9
<1> QED BY Zenon, <1>7, <1>8, <1>10 DEF Pieces, N

\* What add completes is the whole of an Echo Request.
LEMMA CompletesIs ==
  ASSUME NEW d \in Dgram, NEW e, Buffers(d, e), NEW i \in 1..Count(d),
         ~Overlaps(e.frags, Frags(d)[i]), Frags(d)[i].units = 0 => d \in Echo,
         Stored(e, Frags(d)[i]).haveLast, ~(contiguousLen(Stored(e, Frags(d)[i]).frags) < 0)
  PROVE  d \in Echo /\ Assembled(Stored(e, Frags(d)[i]).frags) = Pieces(d)
<1> DEFINE s == Stored(e, Frags(d)[i])
<1>1. Buffers(d, s)
  BY Zenon, StoredBuffers
<1> HIDE DEF s
<1>2. Genuine(d, s.frags) /\ Frags(d)[Count(d)].units \in DOMAIN s.frags
      /\ (0 \in DOMAIN s.frags => d \in Echo)
  BY Zenon, <1>1 DEF Buffers, s
<1>3. contiguousLen(s.frags) = IF Whole(d, s.frags) THEN Size[d] ELSE -1
  BY Zenon, <1>2, ContiguousIs
<1>4. ~(contiguousLen(s.frags) < 0)
  BY Zenon DEF s
<1>5. Whole(d, s.frags)
  BY <1>3, <1>4
<1>6. 1 \in 1..Count(d) /\ Frags(d)[1].units = 0
  BY CountIs, FragIs
<1>7. d \in Echo
  BY Zenon, <1>2, <1>5, <1>6 DEF Whole
<1>8. Assembled(s.frags) = Pieces(d)
  BY Zenon, <1>2, <1>5, AssembledIs
<1> QED BY Zenon, <1>7, <1>8 DEF s

\* A whole Echo Request is intact.
LEMMA PiecesIntact ==
  ASSUME NEW d \in Echo
  PROVE  LET p == Pieces(d)
         IN  /\ p[1].from = 0 /\ p[Len(p)].to = Size[d]
             /\ \A i \in 1..Len(p) : p[i].of = d /\ Bytes(p[i]) > 0
             /\ \A i \in 1..(Len(p) - 1) : p[i].to = p[i + 1].from
<1> DEFINE p == Pieces(d)
           N == Count(d)
<1>1. d \in Dgram /\ N \in Nat /\ N >= 1 /\ 1 \in 1..N /\ N \in 1..N
  BY CountIs, ReassemblyConstants
<1>2. Len(p) = N /\ \A i \in 1..N : p[i] = Frags(d)[i].piece
  BY <1>1 DEF Pieces
<1>3. ASSUME NEW i \in 1..N
      PROVE  LET f == Frags(d)[i].piece
             IN  /\ f.of = d /\ f.from \in Nat /\ f.to \in Nat /\ f.from < f.to
                 /\ i = 1 => f.from = 0
                 /\ i < N => f.to = Frags(d)[i + 1].piece.from
                 /\ i = N => f.to = Size[d]
  BY <1>1, FragIs
<1> HIDE DEF p, N
<1>4. p[1].from = 0 /\ p[N].to = Size[d]
  BY <1>1, <1>2, <1>3
<1>5. ASSUME NEW i \in 1..N PROVE p[i].of = d /\ Bytes(p[i]) > 0
  BY <1>2, <1>3 DEF Bytes
<1>6. ASSUME NEW i \in 1..(N - 1) PROVE p[i].to = p[i + 1].from
  <2>1. i \in 1..N /\ i + 1 \in 1..N /\ i < N
    BY <1>1
  <2> QED BY Zenon, <1>2, <1>3, <2>1
<1> QED BY Zenon, <1>2, <1>4, <1>5, <1>6 DEF p

\* A step hands over nothing, or the pieces of an Echo Request.
LEMMA HandedOver ==
  ASSUME TableInv, LeftOK, Next
  PROVE  pdu' = << >> \/ \E d \in Echo : pdu' = Pieces(d)
<1>1. ASSUME NEW d \in Dgram, Malformed(d) PROVE pdu' = << >>
  BY Zenon, <1>1 DEF Malformed, Cancel
<1>2. ASSUME NEW d \in Dgram, NEW i \in DOMAIN Frags(d), Deliver(d, i)
      PROVE  pdu' = << >> \/ \E k \in Echo : pdu' = Pieces(k)
  <2>1. i \in 1..Count(d)
    BY Zenon, <1>2, FragDomain
  <2>2. CASE Frags(d)[i].units = 0 /\ d \notin Echo
    BY Zenon, <1>2, <2>2 DEF Deliver, Cancel
  <2>3. CASE ~(Frags(d)[i].units = 0 /\ d \notin Echo)
    <3>1. Add(d, Frags(d)[i]) /\ (Frags(d)[i].units = 0 => d \in Echo)
      BY Zenon, <1>2, <2>3 DEF Deliver
    <3>2. /\ Buffers(d, Entry(d))
          /\ \/ Sheds(d)
             \/ /\ Stores(d, Frags(d)[i]) \/ Completes(d, Frags(d)[i])
                /\ ~Overlaps(Entry(d).frags, Frags(d)[i])
      BY Zenon, <2>1, <3>1, AddIs
    <3>3. CASE Sheds(d) \/ Stores(d, Frags(d)[i])
      BY Zenon, <3>3 DEF Sheds, Stores
    <3>4. CASE Completes(d, Frags(d)[i]) /\ ~Overlaps(Entry(d).frags, Frags(d)[i])
      <4>1. d \in Echo /\ Assembled(Stored(Entry(d), Frags(d)[i]).frags) = Pieces(d)
        BY Zenon, <2>1, <3>1, <3>2, <3>4, CompletesIs DEF Completes
      <4> QED BY Zenon, <3>4, <4>1 DEF Completes
    <3> QED BY Zenon, <3>2, <3>3, <3>4
  <2> QED BY Zenon, <2>2, <2>3
<1>3. CASE Advance
  BY Zenon, <1>3 DEF Advance
<1> QED BY Zenon, <1>1, <1>2, <1>3 DEF Next

\* Whatever the order, loss and duplication of the fragments, what the
\* reassembly of reasm.go hands to handleEchoRequest is one whole datagram:
\* every byte of one Echo Request, once and in order.
THEOREM AlwaysIntact == Spec => []ReassembledIntact
<1>1. Init => ReassembledIntact
  BY Zenon DEF Init, ReassembledIntact
<1>2. TableInv /\ LeftOK /\ ReassembledIntact /\ [Next]_vars => ReassembledIntact'
  <2> SUFFICES ASSUME TableInv, LeftOK, ReassembledIntact, [Next]_vars PROVE ReassembledIntact'
    OBVIOUS
  <2>1. CASE Next
    <3>1. CASE pdu' = << >>
      BY Zenon, <3>1 DEF ReassembledIntact
    <3>2. CASE \E d \in Echo : pdu' = Pieces(d)
      <4>1. PICK d \in Echo : pdu' = Pieces(d)
        BY Zenon, <3>2
      <4>2. LET p == Pieces(d)
            IN  /\ p[1].from = 0 /\ p[Len(p)].to = Size[d]
                /\ \A i \in 1..Len(p) : p[i].of = d /\ Bytes(p[i]) > 0
                /\ \A i \in 1..(Len(p) - 1) : p[i].to = p[i + 1].from
        BY Zenon, PiecesIntact
      <4> QED BY <4>1, <4>2, Zenon DEF ReassembledIntact, Bytes
    <3> QED BY Zenon, <2>1, <3>1, <3>2, HandedOver
  <2>2. CASE UNCHANGED vars
    BY Zenon, <2>2 DEF vars, ReassembledIntact
  <2> QED BY Zenon, <2>1, <2>2
<1> QED BY <1>1, <1>2, TableInit, TableStep, PTL DEF Spec

\* Of an Echo Request that is neither handed over nor shed, every fragment
\* that arrived is in the table.
Track ==
  \A d \in Echo \ (shed \cup done) : \A i \in 1..Count(d) :
    left[d][i] < Copies => d \in DOMAIN entries /\ Frags(d)[i].units \in DOMAIN entries[d].frags

\* add keeps track of the fragments it is given.
LEMMA AddTracks ==
  ASSUME TableInv, LeftOK, Track, NEW c \in Dgram, NEW i \in 1..Count(c), Add(c, Frags(c)[i]),
         Frags(c)[i].units = 0 => c \in Echo, left' = [left EXCEPT ![c][i] = @ - 1]
  PROVE  Track'
<1> SUFFICES ASSUME NEW d \in Echo \ (shed' \cup done'), NEW j \in 1..Count(d), left'[d][j] < Copies
             PROVE  d \in DOMAIN entries' /\ Frags(d)[j].units \in DOMAIN entries'[d].frags
  BY Zenon DEF Track
<1>1. d \in Dgram /\ d \in Echo
  BY Zenon, ReassemblyConstants
<1>2. /\ TableOK(Live, Held(Live)) /\ Buffers(c, Entry(c))
      /\ DOMAIN Live = DOMAIN entries \ Outdated
      /\ \A x \in DOMAIN Live : Live[x] = entries[x]
      /\ \/ Sheds(c)
         \/ /\ Stores(c, Frags(c)[i]) \/ Completes(c, Frags(c)[i])
            /\ ~Overlaps(Entry(c).frags, Frags(c)[i])
  BY Zenon, AddIs
<1>3. d \notin shed /\ d \notin Outdated /\ d \notin done
  BY Zenon, <1>2 DEF Sheds, Stores, Completes
<1>4. left[d][j] < Copies => d \in DOMAIN Live /\ Frags(d)[j].units \in DOMAIN Live[d].frags
  BY Zenon, <1>1, <1>2, <1>3 DEF Track
<1>5. d # c \/ j # i => left'[d][j] = left[d][j]
  BY <1>1, LeftStep
<1>6. DOMAIN Without(Live, {c}) = DOMAIN Live \ {c}
      /\ \A x \in DOMAIN Live \ {c} : Without(Live, {c})[x] = Live[x]
  BY ZenonT(60), <1>2, WithoutOK
<1>7. CASE Sheds(c) \/ Completes(c, Frags(c)[i])
  <2>1. d # c /\ (entries' = Live \/ entries' = Without(Live, {c}))
    BY Zenon, <1>7 DEF Sheds, Completes
  <2>2. d \in DOMAIN Live /\ Frags(d)[j].units \in DOMAIN Live[d].frags
    BY Zenon, <1>4, <1>5, <2>1
  <2>3. d \in DOMAIN entries' /\ entries'[d] = Live[d]
    BY Zenon, <1>6, <2>1, <2>2
  <2> QED BY Zenon, <2>2, <2>3
<1>8. CASE Stores(c, Frags(c)[i]) /\ ~Overlaps(Entry(c).frags, Frags(c)[i])
  <2> DEFINE s == Stored(Entry(c), Frags(c)[i])
  <2>1. DOMAIN s.frags = DOMAIN Entry(c).frags \cup {Frags(c)[i].units}
    BY <1>2, <1>8, StoredBuffers
  <2> HIDE DEF s
  <2>2. entries' = Put(Live, c, s)
    BY Zenon, <1>8 DEF Stores, s
  <2>3. DOMAIN Put(Live, c, s) = DOMAIN Live \cup {c} /\ Put(Live, c, s)[c] = s
        /\ \A x \in DOMAIN Live : x # c => Put(Live, c, s)[x] = Live[x]
    BY Zenon DEF Put
  <2>4. CASE d # c
    <3>1. d \in DOMAIN Live /\ Frags(d)[j].units \in DOMAIN Live[d].frags
      BY Zenon, <1>4, <1>5, <2>4
    <3> QED BY Zenon, <2>2, <2>3, <2>4, <3>1
  <2>5. CASE d = c /\ j # i
    <3>1. d \in DOMAIN Live /\ Frags(d)[j].units \in DOMAIN Live[d].frags
      BY Zenon, <1>4, <1>5, <2>5
    <3>2. Entry(c) = Live[d]
      BY Zenon, <2>5, <3>1 DEF Entry
    <3>3. Frags(d)[j].units \in DOMAIN s.frags
      BY Zenon, <2>1, <3>1, <3>2
    <3> QED BY Zenon, <2>2, <2>3, <2>5, <3>3
  <2>6. CASE d = c /\ j = i
    <3>1. Frags(d)[j].units \in DOMAIN s.frags
      BY Zenon, <2>1, <2>6
    <3> QED BY Zenon, <2>2, <2>3, <2>6, <3>1
  <2> QED BY Zenon, <2>4, <2>5, <2>6
<1> QED BY Zenon, <1>2, <1>7, <1>8

\* Cancelling the entry of a datagram loses track of no other.
LEMMA CancelTracks ==
  ASSUME TableInv, Track, NEW c, Cancel(c),
         \A d \in Echo : \A i \in 1..Count(d) : d # c => left'[d][i] = left[d][i]
  PROVE  Track'
<1> SUFFICES ASSUME NEW d \in Echo \ (shed' \cup done'), NEW j \in 1..Count(d), left'[d][j] < Copies
             PROVE  d \in DOMAIN entries' /\ Frags(d)[j].units \in DOMAIN entries'[d].frags
  BY Zenon DEF Track
<1>1. shed' = shed \cup {c} /\ done' = done
  BY Zenon DEF Cancel
<1>2. d # c /\ d \in Echo \ (shed \cup done) /\ left[d][j] < Copies
  BY Zenon, <1>1
<1>3. d \in DOMAIN entries /\ Frags(d)[j].units \in DOMAIN entries[d].frags
  BY Zenon, <1>2 DEF Track
<1>4. DOMAIN entries' = DOMAIN entries \ {c} /\ \A k \in DOMAIN entries' : entries'[k] = entries[k]
  BY Zenon, CancelOK
<1> QED BY Zenon, <1>2, <1>3, <1>4

\* An Echo Request all of whose fragments arrived, none of them shed at a
\* limit, expired or repeated, was handed over: reassembly does not miss the
\* moment a datagram is complete, whatever order the fragments came in.
THEOREM CompleteIsDelivered == Spec => []CompleteDelivered
<1>1. Init => Track
  <2> SUFFICES ASSUME Init, NEW d \in Echo, NEW i \in 1..Count(d) PROVE ~(left[d][i] < Copies)
    BY Zenon DEF Track
  <2>1. d \in Dgram /\ Copies \in Nat
    BY Zenon, ReassemblyConstants
  <2>2. left[d] = [j \in DOMAIN Frags(d) |-> Copies] /\ i \in DOMAIN Frags(d)
    BY <2>1, FragDomain, Zenon DEF Init
  <2>3. left[d][i] = Copies
    BY Zenon, <2>2
  <2> QED BY <2>1, <2>3
<1>2. TableInv /\ LeftOK /\ Track /\ [Next]_vars => Track'
  <2> SUFFICES ASSUME TableInv, LeftOK, Track, [Next]_vars PROVE Track'
    OBVIOUS
  <2>1. ASSUME NEW d \in Dgram, Malformed(d) PROVE Track'
    <3>1. Cancel(d) /\ left' = left
      BY Zenon, <2>1 DEF Malformed
    <3> QED BY Zenon, <3>1, CancelTracks
  <2>2. ASSUME NEW d \in Dgram, NEW i \in DOMAIN Frags(d), Deliver(d, i) PROVE Track'
    <3>1. i \in 1..Count(d) /\ left' = [left EXCEPT ![d][i] = @ - 1]
      BY Zenon, <2>2, FragDomain DEF Deliver
    <3>2. CASE Frags(d)[i].units = 0 /\ d \notin Echo
      <4>1. Cancel(d)
        BY Zenon, <2>2, <3>2 DEF Deliver
      <4>2. \A k \in Echo : \A j \in 1..Count(k) : k # d => left'[k][j] = left[k][j]
        BY Zenon, <3>1, LeftStep, ReassemblyConstants
      <4> QED BY Zenon, <4>1, <4>2, CancelTracks
    <3>3. CASE ~(Frags(d)[i].units = 0 /\ d \notin Echo)
      <4>1. Add(d, Frags(d)[i]) /\ (Frags(d)[i].units = 0 => d \in Echo)
        BY Zenon, <2>2, <3>3 DEF Deliver
      <4> QED BY ZenonT(60), <3>1, <4>1, AddTracks
    <3> QED BY Zenon, <3>2, <3>3
  <2>3. CASE Advance
    BY Zenon, <2>3 DEF Advance, Track
  <2>4. CASE UNCHANGED vars
    BY Zenon, <2>4 DEF vars, Track
  <2> QED BY Zenon, <2>1, <2>2, <2>3, <2>4 DEF Next
<1>3. TableInv /\ Track => CompleteDelivered
  <2> SUFFICES ASSUME TableInv, Track, NEW d \in Echo, d \notin shed, d \notin done,
                      \A i \in DOMAIN Frags(d) : left[d][i] < Copies
               PROVE  FALSE
    BY Zenon DEF CompleteDelivered
  <2>1. d \in Dgram
    BY Zenon, ReassemblyConstants
  <2>2. \A i \in 1..Count(d) : d \in DOMAIN entries /\ Frags(d)[i].units \in DOMAIN entries[d].frags
    BY ZenonT(60), FragDomain DEF Track
  <2>3. Count(d) \in 1..Count(d) /\ Size[d] \in Nat
    BY <2>1, CountIs
  <2>4. d \in DOMAIN entries
    BY Zenon, <2>2, <2>3
  <2> DEFINE e == entries[d]
  <2>5. Whole(d, e.frags) /\ Frags(d)[Count(d)].units \in DOMAIN e.frags
    BY Zenon, <2>2, <2>3 DEF Whole
  <2>6. Buffers(d, e) /\ (e.haveLast => contiguousLen(e.frags) < 0)
    BY Zenon, <2>4 DEF TableInv, TableOK
  <2> HIDE DEF e
  <2>7. Genuine(d, e.frags) /\ contiguousLen(e.frags) < 0
    BY Zenon, <2>5, <2>6 DEF Buffers
  <2>8. contiguousLen(e.frags) = Size[d]
    BY Zenon, <2>1, <2>5, <2>7, ContiguousIs
  <2> QED BY <2>3, <2>7, <2>8
<1> QED BY <1>1, <1>2, <1>3, TableInit, TableStep, PTL DEF Spec
=============================================================================
