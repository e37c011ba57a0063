---------------------------- MODULE SumTheorems ----------------------------
(***************************************************************************)
(* What the sums of the models add up to: MapThenSumSet of FiniteSetsExt   *)
(* is a recursion over the subsets of a finite set, and the facts about it *)
(* that the proofs cite.  Induction is by the least counterexample.        *)
(***************************************************************************)
EXTENDS Integers, FiniteSetsExt, FiniteSetTheorems, NaturalsInduction, WellFoundedInduction, TLAPS

\* A set of numbers that is not empty has a least one.
LEMMA LeastNumber ==
  ASSUME NEW T \in SUBSET Nat, T # {}
  PROVE  \E x \in T : \A y \in T : x <= y
<1> DEFINE R == OpToRel(<, Nat)
<1>1. IsWellFoundedOn(R, Nat)
  BY NatLessThanWellFounded
<1> HIDE DEF R
<1>2. PICK x \in T : \A y \in T : ~ (<<y, x>> \in R)
  BY <1>1, WFMin
<1>3. \A y \in T : ~ (y < x)
  BY <1>2 DEF R, OpToRel
<1>4. QED
  BY <1>2, <1>3

\* Among subsets of a finite set there is one that has no other among them
\* with one element less: induction over finite sets, for a set of subsets.
LEMMA LeastSubset ==
  ASSUME NEW S, IsFiniteSet(S), NEW B \in SUBSET SUBSET S, B # {}
  PROVE  \E s \in B : \A x \in s : s \ {x} \notin B
<1> DEFINE T == {Cardinality(s) : s \in B}
<1>1. \A s \in SUBSET S : IsFiniteSet(s) /\ Cardinality(s) \in Nat
  BY FS_Subset, FS_CardinalityType
<1>2. T \in SUBSET Nat /\ T # {}
  <2>1. \A s \in B : Cardinality(s) \in Nat
    BY <1>1
  <2> QED BY <2>1
<1>3. PICK n \in T : \A m \in T : n <= m
  <2> HIDE DEF T
  <2> QED BY <1>2, LeastNumber
<1>4. PICK s \in B : Cardinality(s) = n
  BY <1>3
<1>5. ASSUME NEW x \in s, s \ {x} \in B PROVE FALSE
  <2>1. IsFiniteSet(s) /\ Cardinality(s) \in Nat
    BY <1>1
  <2>2. Cardinality(s \ {x}) = Cardinality(s) - 1
    BY <2>1, <1>5, FS_RemoveElement
  <2>3. n <= Cardinality(s \ {x})
    BY <1>3, <1>5
  <2> QED BY <1>4, <2>1, <2>2, <2>3
<1> QED BY <1>5

\* What MapThenSumSet picks from a set, and the function it defines.
Picked(s) == CHOOSE x \in s : TRUE

IsSumOver(it, f, S) ==
  it = [s \in SUBSET S |-> IF s = {} THEN 0 ELSE f[Picked(s)] + it[s \ {Picked(s)}]]

SumOver(f, S) == MapThenSumSet(LAMBDA x : f[x], S)

LEMMA PickedIn == ASSUME NEW s, s # {} PROVE Picked(s) \in s
BY DEF Picked

\* Two of them agree where both are defined.
LEMMA SumUnique ==
  ASSUME NEW S, IsFiniteSet(S), NEW T, NEW f, NEW g, NEW it, NEW jt, IsSumOver(it, f, S), IsSumOver(jt, g, T),
         NEW s, s \subseteq S, s \subseteq T, \A x \in s : f[x] = g[x]
  PROVE  it[s] = jt[s]
<1> DEFINE B == {t \in SUBSET s : it[t] # jt[t]}
<1>1. IsFiniteSet(s)
  BY FS_Subset
<1>2. SUFFICES ASSUME B # {} PROVE FALSE
  OBVIOUS
<1>3. PICK t \in B : \A x \in t : t \ {x} \notin B
  <2>1. B \in SUBSET SUBSET s
    OBVIOUS
  <2> HIDE DEF B
  <2> QED BY <1>1, <1>2, <2>1, LeastSubset
<1>4. t \in SUBSET S /\ t \in SUBSET T
  <2>1. t \subseteq s
    OBVIOUS
  <2> QED BY <2>1
<1>5. it[t] = IF t = {} THEN 0 ELSE f[Picked(t)] + it[t \ {Picked(t)}]
  BY <1>4 DEF IsSumOver
<1>6. jt[t] = IF t = {} THEN 0 ELSE g[Picked(t)] + jt[t \ {Picked(t)}]
  BY <1>4 DEF IsSumOver
<1>7. t # {}
  BY <1>3, <1>5, <1>6
<1>8. Picked(t) \in t
  BY <1>7, PickedIn
<1>9. it[t \ {Picked(t)}] = jt[t \ {Picked(t)}]
  BY <1>3, <1>8
<1>10. f[Picked(t)] = g[Picked(t)]
  BY <1>8
<1> QED BY <1>3, <1>5, <1>6, <1>9, <1>10

LEMMA SumExists ==
  ASSUME NEW S, IsFiniteSet(S), NEW f
  PROVE  \E it : IsSumOver(it, f, S)
<1> DEFINE B == {t \in SUBSET S : ~ \E it : IsSumOver(it, f, t)}
<1>1. SUFFICES ASSUME B # {} PROVE FALSE
  OBVIOUS
<1>2. PICK t \in B : \A x \in t : t \ {x} \notin B
  <2>1. B \in SUBSET SUBSET S
    OBVIOUS
  <2> HIDE DEF B
  <2> QED BY <1>1, <2>1, LeastSubset
<1>3. \A s \in SUBSET S : IsFiniteSet(s)
  BY FS_Subset
<1> DEFINE V(s) == CHOOSE v : \E h : IsSumOver(h, f, s) /\ v = h[s]
           G == [s \in SUBSET t |-> IF s = {} THEN 0 ELSE f[Picked(s)] + V(s \ {Picked(s)})]
\* A subset of t with an element less has a sum.
<1>4. ASSUME NEW s \in SUBSET t, s # t
      PROVE  \E h : IsSumOver(h, f, s) /\ V(s) = h[s]
  <2>1. PICK x \in t : x \notin s
    BY <1>4
  <2>2. PICK k : IsSumOver(k, f, t \ {x})
    BY <1>2, <2>1
  <2> DEFINE h == [u \in SUBSET s |-> k[u]]
  <2>3. \A u \in SUBSET s : u \in SUBSET (t \ {x})
    BY <2>1
  <2>4. IsSumOver(h, f, s)
    <3>1. ASSUME NEW u \in SUBSET s
          PROVE  h[u] = IF u = {} THEN 0 ELSE f[Picked(u)] + h[u \ {Picked(u)}]
      <4>1. k[u] = IF u = {} THEN 0 ELSE f[Picked(u)] + k[u \ {Picked(u)}]
        BY <2>2, <2>3 DEF IsSumOver
      <4>2. u \ {Picked(u)} \in SUBSET s
        OBVIOUS
      <4> QED BY <4>1, <4>2
    <3>2. h = [u \in SUBSET s |-> h[u]]
      OBVIOUS
    <3> HIDE DEF h
    <3> QED BY <3>1, <3>2 DEF IsSumOver
  <2> HIDE DEF h
  <2> QED BY <2>4
<1> HIDE DEF V
<1>5. ASSUME NEW s \in SUBSET t
      PROVE  G[s] = IF s = {} THEN 0 ELSE f[Picked(s)] + G[s \ {Picked(s)}]
  <2>1. CASE s = {}
    BY <2>1
  <2>2. CASE s # {}
    <3> DEFINE r == s \ {Picked(s)}
    <3>1. r \in SUBSET t /\ r # t
      BY <2>2, PickedIn
    <3>2. PICK h : IsSumOver(h, f, r) /\ V(r) = h[r]
      BY <1>4, <3>1
    <3>3. h[r] = IF r = {} THEN 0 ELSE f[Picked(r)] + h[r \ {Picked(r)}]
      <4> HIDE DEF r
      <4> QED BY <3>2 DEF IsSumOver
    <3>4. ASSUME r # {} PROVE h[r \ {Picked(r)}] = V(r \ {Picked(r)})
      <4> DEFINE q == r \ {Picked(r)}
      <4>1. q \in SUBSET t /\ q # t /\ q \in SUBSET r /\ r \in SUBSET S
        BY <3>1, <3>4, PickedIn
      <4>2. PICK k : IsSumOver(k, f, q) /\ V(q) = k[q]
        BY <1>4, <4>1
      <4>3. IsFiniteSet(r)
        BY <1>3, <4>1
      <4> HIDE DEF r, q
      <4>4. h[q] = k[q]
        BY <3>2, <4>1, <4>2, <4>3, SumUnique
      <4> QED BY <4>2, <4>4 DEF q
    <3>5. G[r] = IF r = {} THEN 0 ELSE f[Picked(r)] + V(r \ {Picked(r)})
      BY <3>1
    <3>6. G[s] = f[Picked(s)] + V(r)
      BY <2>2
    <3> HIDE DEF r, G
    <3>7. G[r] = V(r)
      BY <3>2, <3>3, <3>4, <3>5
    <3> QED BY <2>2, <3>6, <3>7 DEF r
  <2> QED BY <2>1, <2>2
<1>6. IsSumOver(G, f, t)
  <2>1. G = [s \in SUBSET t |-> G[s]]
    OBVIOUS
  <2> HIDE DEF G
  <2> QED BY <1>5, <2>1 DEF IsSumOver
<1> HIDE DEF G
<1> QED BY <1>2, <1>6

LEMMA SumIs ==
  ASSUME NEW S, IsFiniteSet(S), NEW f
  PROVE  \E it : IsSumOver(it, f, S) /\ SumOver(f, S) = it[S]
<1> DEFINE P(it) == it = [s \in SUBSET S |-> IF s = {} THEN 0
                            ELSE LET x == CHOOSE x \in s : TRUE IN f[x] + it[s \ {x}]]
           it0 == CHOOSE it : P(it)
<1>1. SumOver(f, S) = it0[S]
  BY DEF SumOver, MapThenSumSet, MapThenFoldSet
<1>2. ASSUME NEW h PROVE P(h) <=> IsSumOver(h, f, S)
  BY DEF IsSumOver, Picked
<1>3. PICK g : IsSumOver(g, f, S)
  BY SumExists
<1>4. P(g) BY <1>2, <1>3
<1>5. P(it0) BY <1>4
<1> HIDE DEF P
<1> QED BY <1>1, <1>2, <1>5

\* The first-order facts all others follow from.
LEMMA SumEmpty == ASSUME NEW f PROVE SumOver(f, {}) = 0
<1>1. IsFiniteSet({})
  BY FS_EmptySet
<1>2. PICK it : IsSumOver(it, f, {}) /\ SumOver(f, {}) = it[{}]
  BY <1>1, SumIs
<1> QED BY <1>2 DEF IsSumOver

\* Functions that agree on a set have the same sum.
LEMMA SumSame ==
  ASSUME NEW S, IsFiniteSet(S), NEW f, NEW g, \A x \in S : f[x] = g[x]
  PROVE  SumOver(f, S) = SumOver(g, S)
<1>1. PICK it : IsSumOver(it, f, S) /\ SumOver(f, S) = it[S]
  BY SumIs
<1>2. PICK jt : IsSumOver(jt, g, S) /\ SumOver(g, S) = jt[S]
  BY SumIs
<1>3. it[S] = jt[S]
  BY <1>1, <1>2, SumUnique
<1> QED BY <1>1, <1>2, <1>3

LEMMA SumPicked ==
  ASSUME NEW S, IsFiniteSet(S), S # {}, NEW f
  PROVE  Picked(S) \in S /\ SumOver(f, S) = f[Picked(S)] + SumOver(f, S \ {Picked(S)})
<1>1. Picked(S) \in S
  BY PickedIn
<1> DEFINE T == S \ {Picked(S)}
<1>2. IsFiniteSet(T) /\ T \in SUBSET S
  BY FS_Subset
<1>3. PICK it : IsSumOver(it, f, S) /\ SumOver(f, S) = it[S]
  BY SumIs
<1>4. PICK jt : IsSumOver(jt, f, T) /\ SumOver(f, T) = jt[T]
  BY <1>2, SumIs
<1>5. it[T] = jt[T]
  <2> HIDE DEF T
  <2> QED BY <1>2, <1>3, <1>4, SumUnique
<1>6. it[S] = f[Picked(S)] + it[T]
  BY <1>3 DEF IsSumOver
<1> QED BY <1>1, <1>3, <1>4, <1>5, <1>6

\* Sums of natural numbers.
Counts(f, S) == \A x \in S : f[x] \in Nat

LEMMA SumNat ==
  ASSUME NEW S, IsFiniteSet(S), NEW f, Counts(f, S)
  PROVE  SumOver(f, S) \in Nat
<1> DEFINE B == {t \in SUBSET S : SumOver(f, t) \notin Nat}
<1>1. SUFFICES ASSUME B # {} PROVE FALSE
  OBVIOUS
<1>2. PICK t \in B : \A x \in t : t \ {x} \notin B
  <2>1. B \in SUBSET SUBSET S
    OBVIOUS
  <2> HIDE DEF B
  <2> QED BY <1>1, <2>1, LeastSubset
<1>3. IsFiniteSet(t) /\ t \subseteq S /\ SumOver(f, t) \notin Nat
  BY FS_Subset
<1>4. t # {}
  BY <1>3, SumEmpty
<1>5. Picked(t) \in t /\ SumOver(f, t) = f[Picked(t)] + SumOver(f, t \ {Picked(t)})
  BY <1>3, <1>4, SumPicked
<1>6. SumOver(f, t \ {Picked(t)}) \in Nat
  BY <1>2, <1>3, <1>5
<1> QED BY <1>3, <1>5, <1>6 DEF Counts

\* Any element may be counted first.
LEMMA SumRemove ==
  ASSUME NEW S, IsFiniteSet(S), NEW f, Counts(f, S), NEW e \in S
  PROVE  SumOver(f, S) = f[e] + SumOver(f, S \ {e})
<1> DEFINE B == {t \in SUBSET S : \E x \in t : SumOver(f, t) # f[x] + SumOver(f, t \ {x})}
<1>1. SUFFICES ASSUME B # {} PROVE FALSE
  OBVIOUS
<1>2. PICK t \in B : \A x \in t : t \ {x} \notin B
  <2>1. B \in SUBSET SUBSET S
    OBVIOUS
  <2> HIDE DEF B
  <2> QED BY <1>1, <2>1, LeastSubset
<1>3. t \subseteq S /\ \E x \in t : SumOver(f, t) # f[x] + SumOver(f, t \ {x})
  OBVIOUS
<1>4. PICK x \in t : SumOver(f, t) # f[x] + SumOver(f, t \ {x})
  BY <1>3
<1>5. PICK p : p = Picked(t)
  OBVIOUS
<1>6. IsFiniteSet(t) /\ IsFiniteSet(t \ {x}) /\ IsFiniteSet(t \ {p}) /\ IsFiniteSet((t \ {p}) \ {x})
  <2>1. \A u \in SUBSET S : IsFiniteSet(u)
    BY FS_Subset
  <2> QED BY <1>3, <2>1
<1>7. p \in t /\ SumOver(f, t) = f[p] + SumOver(f, t \ {p})
  BY <1>4, <1>5, <1>6, SumPicked
<1>8. p # x
  BY <1>4, <1>7
<1>9. SumOver(f, t \ {p}) = f[x] + SumOver(f, (t \ {p}) \ {x})
  <2>1. t \ {p} \notin B /\ t \ {p} \in SUBSET S
    BY <1>2, <1>3, <1>7
  <2> QED BY <1>8, <2>1
<1>10. SumOver(f, t \ {x}) = f[p] + SumOver(f, (t \ {x}) \ {p})
  <2>1. t \ {x} \notin B /\ t \ {x} \in SUBSET S
    BY <1>2, <1>3
  <2> QED BY <1>7, <1>8, <2>1
<1>11. (t \ {x}) \ {p} = (t \ {p}) \ {x}
  OBVIOUS
<1>12. SumOver(f, (t \ {p}) \ {x}) \in Nat /\ f[x] \in Nat /\ f[p] \in Nat
  <2>1. \A u \in SUBSET t : Counts(f, u)
    BY <1>3 DEF Counts
  <2>2. Counts(f, (t \ {p}) \ {x})
    BY <2>1
  <2>3. SumOver(f, (t \ {p}) \ {x}) \in Nat
    BY <1>6, <2>2, SumNat
  <2> QED BY <1>3, <1>7, <2>3 DEF Counts
<1> QED BY <1>4, <1>7, <1>9, <1>10, <1>11, <1>12

LEMMA SumAdd ==
  ASSUME NEW S, IsFiniteSet(S), NEW f, Counts(f, S), NEW e, e \notin S, f[e] \in Nat
  PROVE  SumOver(f, S \cup {e}) = f[e] + SumOver(f, S)
<1>1. IsFiniteSet(S \cup {e}) /\ Counts(f, S \cup {e})
  BY FS_AddElement DEF Counts
<1>2. (S \cup {e}) \ {e} = S
  OBVIOUS
<1> QED BY <1>1, <1>2, SumRemove

\* Less in each place is less together.
LEMMA SumMonotone ==
  ASSUME NEW S, IsFiniteSet(S), NEW f, NEW g, Counts(f, S), Counts(g, S),
         \A x \in S : f[x] <= g[x]
  PROVE  SumOver(f, S) <= SumOver(g, S)
<1> DEFINE B == {t \in SUBSET S : ~ (SumOver(f, t) <= SumOver(g, t))}
<1>1. SUFFICES ASSUME B # {} PROVE FALSE
  OBVIOUS
<1>2. PICK t \in B : \A x \in t : t \ {x} \notin B
  <2>1. B \in SUBSET SUBSET S
    OBVIOUS
  <2> HIDE DEF B
  <2> QED BY <1>1, <2>1, LeastSubset
<1>3. t \subseteq S /\ ~ (SumOver(f, t) <= SumOver(g, t))
  OBVIOUS
<1>4. t # {}
  BY <1>3, SumEmpty
<1>5. PICK x : x \in t
  BY <1>4
<1>6. IsFiniteSet(t) /\ IsFiniteSet(t \ {x}) /\ Counts(f, t) /\ Counts(g, t)
      /\ Counts(f, t \ {x}) /\ Counts(g, t \ {x})
  <2>1. \A u \in SUBSET S : IsFiniteSet(u) /\ Counts(f, u) /\ Counts(g, u)
    BY FS_Subset DEF Counts
  <2> QED BY <1>3, <2>1
<1>7. SumOver(f, t) = f[x] + SumOver(f, t \ {x}) /\ SumOver(g, t) = g[x] + SumOver(g, t \ {x})
  BY <1>5, <1>6, SumRemove
<1>8. SumOver(f, t \ {x}) <= SumOver(g, t \ {x})
  BY <1>2, <1>3, <1>5
<1>9. SumOver(f, t \ {x}) \in Nat /\ SumOver(g, t \ {x}) \in Nat
  BY <1>6, SumNat
<1> QED BY <1>3, <1>5, <1>7, <1>8, <1>9 DEF Counts

\* One place is no more than all of them, so all of them are more than none
\* exactly if one of them is.
LEMMA SumAtLeast ==
  ASSUME NEW S, IsFiniteSet(S), NEW f, Counts(f, S), NEW e \in S
  PROVE  f[e] <= SumOver(f, S)
<1>1. IsFiniteSet(S \ {e}) /\ Counts(f, S \ {e})
  BY FS_RemoveElement DEF Counts
<1>2. SumOver(f, S) = f[e] + SumOver(f, S \ {e})
  BY SumRemove
<1>3. SumOver(f, S \ {e}) \in Nat
  BY <1>1, SumNat
<1> QED BY <1>2, <1>3 DEF Counts

LEMMA SumZero ==
  ASSUME NEW S, IsFiniteSet(S), NEW f, \A x \in S : f[x] = 0
  PROVE  SumOver(f, S) = 0
<1> DEFINE g == [x \in S |-> 0]
           B == {t \in SUBSET S : SumOver(f, t) # 0}
<1>1. SUFFICES ASSUME B # {} PROVE FALSE
  OBVIOUS
<1>2. PICK t \in B : \A x \in t : t \ {x} \notin B
  <2>1. B \in SUBSET SUBSET S
    OBVIOUS
  <2> HIDE DEF B
  <2> QED BY <1>1, <2>1, LeastSubset
<1>3. t \subseteq S /\ SumOver(f, t) # 0 /\ IsFiniteSet(t)
  BY FS_Subset
<1>4. t # {}
  BY <1>3, SumEmpty
<1>5. Picked(t) \in t /\ SumOver(f, t) = f[Picked(t)] + SumOver(f, t \ {Picked(t)})
  BY <1>3, <1>4, SumPicked
<1>6. SumOver(f, t \ {Picked(t)}) = 0
  BY <1>2, <1>3, <1>5
<1> QED BY <1>3, <1>5, <1>6

\* Two sets with nothing in common are counted one after the other.
LEMMA SumJoin ==
  ASSUME NEW S, IsFiniteSet(S), NEW T, IsFiniteSet(T), S \cap T = {},
         NEW f, Counts(f, S), Counts(f, T)
  PROVE  SumOver(f, S \cup T) = SumOver(f, S) + SumOver(f, T)
<1> DEFINE B == {t \in SUBSET T : SumOver(f, S \cup t) # SumOver(f, S) + SumOver(f, t)}
<1>1. SUFFICES ASSUME B # {} PROVE FALSE
  OBVIOUS
<1>2. PICK t \in B : \A x \in t : t \ {x} \notin B
  <2>1. B \in SUBSET SUBSET T
    OBVIOUS
  <2> HIDE DEF B
  <2> QED BY <1>1, <2>1, LeastSubset
<1>3. IsFiniteSet(t) /\ t \subseteq T /\ IsFiniteSet(S \cup t)
  <2>1. IsFiniteSet(t) /\ t \subseteq T
    BY FS_Subset
  <2> QED BY <2>1, FS_Union
<1>4. SumOver(f, S) \in Nat
  BY SumNat
<1>5. t # {}
  <2>1. S \cup {} = S
    OBVIOUS
  <2> QED BY <1>2, <1>4, <2>1, SumEmpty
<1>6. PICK e \in t : TRUE
  BY <1>5
<1>7. Counts(f, t) /\ Counts(f, S \cup t)
  BY <1>3 DEF Counts
<1>8. (S \cup t) \ {e} = S \cup (t \ {e})
  BY <1>3, <1>6
<1>9. SumOver(f, S \cup t) = f[e] + SumOver(f, S \cup (t \ {e}))
  BY <1>3, <1>6, <1>7, <1>8, SumRemove
<1>10. SumOver(f, t) = f[e] + SumOver(f, t \ {e})
  BY <1>3, <1>6, <1>7, SumRemove
<1>11. SumOver(f, S \cup (t \ {e})) = SumOver(f, S) + SumOver(f, t \ {e})
  BY <1>2, <1>3, <1>6
<1>12. SumOver(f, t \ {e}) \in Nat /\ f[e] \in Nat
  <2>1. IsFiniteSet(t \ {e}) /\ Counts(f, t \ {e})
    BY <1>3, <1>7, FS_RemoveElement DEF Counts
  <2> QED BY <1>6, <1>7, <2>1, SumNat DEF Counts
<1> QED BY <1>2, <1>4, <1>9, <1>10, <1>11, <1>12

\* A family of finite sets, no two of which have anything in common.
Parts(P, I) ==
  /\ \A i \in I : IsFiniteSet(P[i])
  /\ \A i, j \in I : i # j => P[i] \cap P[j] = {}

AllOf(P, I) == UNION {P[i] : i \in I}

\* The sums of the parts add up to the sum of all.
LEMMA SumOfSums ==
  ASSUME NEW I, IsFiniteSet(I), NEW P, Parts(P, I), NEW f, Counts(f, AllOf(P, I)),
         NEW g, \A i \in I : g[i] = SumOver(f, P[i])
  PROVE  IsFiniteSet(AllOf(P, I)) /\ SumOver(g, I) = SumOver(f, AllOf(P, I))
<1> DEFINE Good(t) == IsFiniteSet(AllOf(P, t)) /\ SumOver(g, t) = SumOver(f, AllOf(P, t))
           B == {t \in SUBSET I : ~ Good(t)}
<1>1. SUFFICES ASSUME B # {} PROVE FALSE
  OBVIOUS
<1>2. PICK t \in B : \A x \in t : t \ {x} \notin B
  <2>1. B \in SUBSET SUBSET I
    OBVIOUS
  <2> HIDE DEF B
  <2> QED BY <1>1, <2>1, LeastSubset
<1>3. IsFiniteSet(t) /\ t \subseteq I
  BY FS_Subset
<1>4. t # {}
  <2>1. AllOf(P, {}) = {}
    BY DEF AllOf
  <2>2. Good({})
    BY <2>1, SumEmpty, FS_EmptySet
  <2> QED BY <1>2, <2>2
<1>5. PICK e \in t : TRUE
  BY <1>4
<1> DEFINE r == t \ {e}
<1>6. Good(r)
  BY <1>2, <1>3, <1>5
<1>7. /\ AllOf(P, t) = AllOf(P, r) \cup P[e] /\ AllOf(P, r) \cap P[e] = {}
      /\ IsFiniteSet(P[e]) /\ IsFiniteSet(r)
  <2>1. \A i \in r : P[i] \cap P[e] = {}
    BY <1>3, <1>5 DEF Parts
  <2>2. IsFiniteSet(P[e]) /\ IsFiniteSet(r)
    BY <1>3, <1>5, FS_RemoveElement DEF Parts
  <2>3. AllOf(P, t) = AllOf(P, r) \cup P[e]
    BY <1>5 DEF AllOf
  <2>4. AllOf(P, r) \cap P[e] = {}
    BY <2>1 DEF AllOf
  <2> QED BY <2>2, <2>3, <2>4
<1>8. /\ \A i \in t : P[i] \subseteq AllOf(P, I)
      /\ AllOf(P, r) \subseteq AllOf(P, I)
  BY <1>3 DEF AllOf
<1>9. Counts(f, AllOf(P, r)) /\ Counts(f, P[e]) /\ Counts(g, t)
  <2>1. Counts(f, AllOf(P, r)) /\ \A i \in t : Counts(f, P[i])
    BY <1>8 DEF Counts
  <2>2. \A i \in t : g[i] \in Nat
    BY <1>3, <2>1, SumNat DEF Parts
  <2> QED BY <1>5, <2>1, <2>2 DEF Counts
<1>10. SumOver(g, t) = g[e] + SumOver(g, r)
  BY <1>3, <1>5, <1>9, SumRemove
<1>11. SumOver(f, AllOf(P, t)) = SumOver(f, AllOf(P, r)) + SumOver(f, P[e])
  <2> HIDE DEF r
  <2> QED BY <1>6, <1>7, <1>9, SumJoin
<1>12. SumOver(f, AllOf(P, r)) \in Nat /\ SumOver(f, P[e]) \in Nat
  <2> HIDE DEF r
  <2> QED BY <1>6, <1>7, <1>9, SumNat
<1>13. IsFiniteSet(AllOf(P, t))
  <2>1. IsFiniteSet(AllOf(P, r)) /\ IsFiniteSet(P[e])
    BY <1>6, <1>7
  <2>2. IsFiniteSet(AllOf(P, r) \cup P[e])
    <3> HIDE DEF r
    <3> QED BY <2>1, FS_Union
  <2> QED BY <1>7, <2>2
<1>14. g[e] = SumOver(f, P[e])
  BY <1>3, <1>5
<1>15. Good(t)
  <2> HIDE DEF r
  <2>1. SumOver(g, r) = SumOver(f, AllOf(P, r))
    BY <1>6
  <2> QED BY <1>10, <1>11, <1>12, <1>13, <1>14, <2>1
<1> QED BY <1>2, <1>15

\* A single element is its own sum.
LEMMA SumOne ==
  ASSUME NEW f, NEW e, f[e] \in Nat
  PROVE  SumOver(f, {e}) = f[e]
<1>1. IsFiniteSet({}) /\ Counts(f, {}) /\ {} \cup {e} = {e}
  BY FS_EmptySet DEF Counts
<1>2. SumOver(f, {} \cup {e}) = f[e] + SumOver(f, {})
  BY <1>1, SumAdd
<1> QED BY <1>1, <1>2, SumEmpty
=============================================================================
