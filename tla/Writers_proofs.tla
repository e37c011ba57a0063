--------------------------- MODULE Writers_proofs ---------------------------
(***************************************************************************)
(* What the three writers keep, for any number of processes, users, sub-   *)
(* reddits, nodes and detections: the runs of the precalculation (that the *)
(* graph invents nothing, that a run that is alone, full or incremental,   *)
(* covers what it was to find), the storing of the communities (that the   *)
(* tables agree on a weight, that an undisturbed store is exact) and the   *)
(* threads that a crawl stores.                                            *)
(***************************************************************************)
EXTENDS WritersMC, SumTheorems

RunType == [pc : PCs, start : Times, since : Times \cup {Never},
            counted : Nat, full : BOOLEAN, fetched : [Entities -> Nat],
            disturbed : BOOLEAN]

-----------------------------------------------------------------------------
(* The counts of posts and comments.                                       *)

Counted(u)    == [s \in Subs |-> Cardinality(items[<<u, s>>])]
Since(u, t)   == [s \in Subs |-> Cardinality(Newer(items[<<u, s>>], t))]
DueIn(u, b, t) == [s \in Subs |-> Cardinality({x \in items[<<u, s>>] : x > b /\ x <= t})]

\* The three operators of the model that add up are sums.
CountsAreSums ==
  \A u, t : /\ Total(u) = SumOver(Counted(u), Subs)
            /\ Recent(u, t) = SumOver(Since(u, t), Subs)
            /\ \A b : Due(u, b, t) = SumOver(DueIn(u, b, t), Subs)

LEMMA CountsAddUp == CountsAreSums
<1>0. IsFiniteSet(Subs)
  BY PrecalcAssumption
<1>s. \A s \in SUBSET Subs : s # {} => Picked(s) \in Subs
  BY DEF Picked
<1>1. ASSUME NEW u PROVE Total(u) = SumOver(Counted(u), Subs)
  <2> DEFINE P(it) == it = [s \in SUBSET Subs |-> IF s = {} THEN 0
                              ELSE LET x == CHOOSE x \in s : TRUE
                                   IN  Cardinality(items[<<u, x>>]) + it[s \ {x}]]
             it0 == CHOOSE it : P(it)
  <2>1. Total(u) = it0[Subs]
    BY DEF Total, MapThenSumSet, MapThenFoldSet
  <2>2. ASSUME NEW h PROVE P(h) <=> IsSumOver(h, Counted(u), Subs)
    BY <1>s DEF IsSumOver, Picked, Counted
  <2>3. PICK g : IsSumOver(g, Counted(u), Subs) /\ SumOver(Counted(u), Subs) = g[Subs]
    BY <1>0, SumIs
  <2>4. P(g) BY <2>2, <2>3
  <2>5. P(it0) BY <2>4
  <2> HIDE DEF P
  <2>6. it0[Subs] = g[Subs]
    <3> HIDE DEF it0
    <3>1. IsSumOver(it0, Counted(u), Subs)
      BY <2>2, <2>5
    <3> QED BY <1>0, <2>3, <3>1, SumUnique
  <2> QED BY <2>1, <2>3, <2>6
<1>2. ASSUME NEW u, NEW t PROVE Recent(u, t) = SumOver(Since(u, t), Subs)
  <2> DEFINE P(it) == it = [s \in SUBSET Subs |-> IF s = {} THEN 0
                              ELSE LET x == CHOOSE x \in s : TRUE
                                   IN  Cardinality(Newer(items[<<u, x>>], t)) + it[s \ {x}]]
             it0 == CHOOSE it : P(it)
  <2>1. Recent(u, t) = it0[Subs]
    BY DEF Recent, MapThenSumSet, MapThenFoldSet
  <2>2. ASSUME NEW h PROVE P(h) <=> IsSumOver(h, Since(u, t), Subs)
    BY <1>s DEF IsSumOver, Picked, Since
  <2>3. PICK g : IsSumOver(g, Since(u, t), Subs) /\ SumOver(Since(u, t), Subs) = g[Subs]
    BY <1>0, SumIs
  <2>4. P(g) BY <2>2, <2>3
  <2>5. P(it0) BY <2>4
  <2> HIDE DEF P
  <2>6. it0[Subs] = g[Subs]
    <3> HIDE DEF it0
    <3>1. IsSumOver(it0, Since(u, t), Subs)
      BY <2>2, <2>5
    <3> QED BY <1>0, <2>3, <3>1, SumUnique
  <2> QED BY <2>1, <2>3, <2>6
<1>3. ASSUME NEW u, NEW b, NEW t PROVE Due(u, b, t) = SumOver(DueIn(u, b, t), Subs)
  <2> DEFINE P(it) == it = [s \in SUBSET Subs |-> IF s = {} THEN 0
                              ELSE LET x == CHOOSE x \in s : TRUE
                                   IN  Cardinality({y \in items[<<u, x>>] : y > b /\ y <= t}) + it[s \ {x}]]
             it0 == CHOOSE it : P(it)
  <2>1. Due(u, b, t) = it0[Subs]
    BY DEF Due, MapThenSumSet, MapThenFoldSet
  <2>2. ASSUME NEW h PROVE P(h) <=> IsSumOver(h, DueIn(u, b, t), Subs)
    BY <1>s DEF IsSumOver, Picked, DueIn
  <2>3. PICK g : IsSumOver(g, DueIn(u, b, t), Subs) /\ SumOver(DueIn(u, b, t), Subs) = g[Subs]
    BY <1>0, SumIs
  <2>4. P(g) BY <2>2, <2>3
  <2>5. P(it0) BY <2>4
  <2> HIDE DEF P
  <2>6. it0[Subs] = g[Subs]
    <3> HIDE DEF it0
    <3>1. IsSumOver(it0, DueIn(u, b, t), Subs)
      BY <2>2, <2>5
    <3> QED BY <1>0, <2>3, <3>1, SumUnique
  <2> QED BY <2>1, <2>3, <2>6
<1> QED BY <1>1, <1>2, <1>3 DEF CountsAreSums

LEMMA FiniteTimes == \A T \in SUBSET Times : IsFiniteSet(T) /\ Cardinality(T) \in Nat
<1>1. IsFiniteSet(Times)
  BY PrecalcAssumption, FS_Interval DEF Times
<1> QED BY <1>1, FS_Subset, FS_CardinalityType

\* What is read of them: numbers, the recent and the older ones are among all,
\* and there are some exactly if there is one.
ItemsTyped == items \in [Users \X Subs -> SUBSET Times]

CountsFit ==
  \A u \in Users :
    /\ Total(u) \in Nat
    /\ \A s \in Subs : items[<<u, s>>] # {} => Total(u) # 0
    /\ \A t : /\ Recent(u, t) \in Nat /\ Recent(u, t) <= Total(u)
              /\ \A s \in Subs : Newer(items[<<u, s>>], t) # {} => Recent(u, t) # 0
    /\ \A b, t : /\ Due(u, b, t) \in Nat /\ Due(u, b, t) <= Total(u) /\ Due(u, b, t) <= Recent(u, b)
                 /\ \A s \in Subs : {x \in items[<<u, s>>] : x > b /\ x <= t} # {} => Due(u, b, t) # 0

LEMMA CountsHold == ItemsTyped => CountsFit
<1> SUFFICES ASSUME ItemsTyped, NEW u \in Users
             PROVE  /\ Total(u) \in Nat
                    /\ \A s \in Subs : items[<<u, s>>] # {} => Total(u) # 0
                    /\ \A t : /\ Recent(u, t) \in Nat /\ Recent(u, t) <= Total(u)
                              /\ \A s \in Subs : Newer(items[<<u, s>>], t) # {} => Recent(u, t) # 0
                    /\ \A b, t :
                         /\ Due(u, b, t) \in Nat /\ Due(u, b, t) <= Total(u) /\ Due(u, b, t) <= Recent(u, b)
                         /\ \A s \in Subs : {x \in items[<<u, s>>] : x > b /\ x <= t} # {} => Due(u, b, t) # 0
  BY DEF CountsFit
<1>0. IsFiniteSet(Subs)
  BY PrecalcAssumption
<1>1. \A s \in Subs : items[<<u, s>>] \in SUBSET Times
  BY DEF ItemsTyped
<1>2. \A s \in Subs : IsFiniteSet(items[<<u, s>>]) /\ Cardinality(items[<<u, s>>]) \in Nat
  BY <1>1, FiniteTimes
<1>3. \A s \in Subs : \A T \in SUBSET items[<<u, s>>] :
         Cardinality(T) \in Nat /\ Cardinality(T) <= Cardinality(items[<<u, s>>])
         /\ (T # {} => Cardinality(T) # 0)
  <2> SUFFICES ASSUME NEW s \in Subs, NEW T \in SUBSET items[<<u, s>>]
               PROVE  Cardinality(T) \in Nat /\ Cardinality(T) <= Cardinality(items[<<u, s>>])
                      /\ (T # {} => Cardinality(T) # 0)
    OBVIOUS
  <2>1. IsFiniteSet(T) /\ Cardinality(T) <= Cardinality(items[<<u, s>>])
    BY <1>2, FS_Subset
  <2> QED BY <2>1, FS_CardinalityType, FS_EmptySet
<1>4. Counts(Counted(u), Subs) /\ \A s \in Subs : items[<<u, s>>] # {} => Counted(u)[s] # 0
  BY <1>3 DEF Counts, Counted
<1>5. Total(u) = SumOver(Counted(u), Subs)
  BY CountsAddUp DEF CountsAreSums
<1>6. Total(u) \in Nat
  BY <1>0, <1>4, <1>5, SumNat
<1>7. \A s \in Subs : items[<<u, s>>] # {} => Total(u) # 0
  BY <1>0, <1>4, <1>5, <1>6, SumAtLeast DEF Counts
<1>8. ASSUME NEW t
      PROVE  /\ Recent(u, t) \in Nat /\ Recent(u, t) <= Total(u)
             /\ \A s \in Subs : Newer(items[<<u, s>>], t) # {} => Recent(u, t) # 0
  <2>1. Recent(u, t) = SumOver(Since(u, t), Subs)
    BY CountsAddUp DEF CountsAreSums
  <2>2. \A s \in Subs : Newer(items[<<u, s>>], t) \in SUBSET items[<<u, s>>]
    BY DEF Newer
  <2>3. /\ Counts(Since(u, t), Subs)
        /\ \A s \in Subs : /\ Since(u, t)[s] <= Counted(u)[s]
                           /\ Newer(items[<<u, s>>], t) # {} => Since(u, t)[s] # 0
    BY <1>3, <2>2 DEF Counts, Since, Counted
  <2>4. SumOver(Since(u, t), Subs) <= SumOver(Counted(u), Subs)
    BY <1>0, <1>4, <2>3, SumMonotone
  <2>5. Recent(u, t) \in Nat
    BY <1>0, <2>1, <2>3, SumNat
  <2>6. \A s \in Subs : Newer(items[<<u, s>>], t) # {} => Recent(u, t) # 0
    BY <1>0, <2>1, <2>3, <2>5, SumAtLeast DEF Counts
  <2> QED BY <1>5, <2>1, <2>4, <2>5, <2>6
<1>9. ASSUME NEW b, NEW t
      PROVE  /\ Due(u, b, t) \in Nat /\ Due(u, b, t) <= Total(u) /\ Due(u, b, t) <= Recent(u, b)
             /\ \A s \in Subs : {x \in items[<<u, s>>] : x > b /\ x <= t} # {} => Due(u, b, t) # 0
  <2>1. Due(u, b, t) = SumOver(DueIn(u, b, t), Subs) /\ Recent(u, b) = SumOver(Since(u, b), Subs)
    BY CountsAddUp DEF CountsAreSums
  <2>2. \A s \in Subs : /\ {x \in items[<<u, s>>] : x > b /\ x <= t} \in SUBSET items[<<u, s>>]
                        /\ Newer(items[<<u, s>>], b) \in SUBSET items[<<u, s>>]
                        /\ {x \in items[<<u, s>>] : x > b /\ x <= t} \in SUBSET Newer(items[<<u, s>>], b)
    BY DEF Newer
  <2>3. /\ Counts(DueIn(u, b, t), Subs)
        /\ \A s \in Subs : /\ DueIn(u, b, t)[s] <= Counted(u)[s]
                           /\ {x \in items[<<u, s>>] : x > b /\ x <= t} # {} => DueIn(u, b, t)[s] # 0
    BY <1>3, <2>2 DEF Counts, DueIn, Counted
  <2>4. SumOver(DueIn(u, b, t), Subs) <= SumOver(Counted(u), Subs)
    BY <1>0, <1>4, <2>3, SumMonotone
  <2>5. Due(u, b, t) \in Nat
    BY <1>0, <2>1, <2>3, SumNat
  <2>6. \A s \in Subs : {x \in items[<<u, s>>] : x > b /\ x <= t} # {} => Due(u, b, t) # 0
    BY <1>0, <2>1, <2>3, <2>5, SumAtLeast DEF Counts
  <2>7. Counts(Since(u, b), Subs) /\ \A s \in Subs : DueIn(u, b, t)[s] <= Since(u, b)[s]
    <3>1. \A s \in Subs : IsFiniteSet(Newer(items[<<u, s>>], b))
      BY <1>2, <2>2, FS_Subset
    <3>2. \A s \in Subs : Cardinality({x \in items[<<u, s>>] : x > b /\ x <= t})
                              <= Cardinality(Newer(items[<<u, s>>], b))
      BY <2>2, <3>1, FS_Subset
    <3>3. \A s \in Subs : Cardinality(Newer(items[<<u, s>>], b)) \in Nat
      BY <3>1, FS_CardinalityType
    <3> QED BY <3>2, <3>3 DEF Counts, Since, DueIn
  <2>8. SumOver(DueIn(u, b, t), Subs) <= SumOver(Since(u, b), Subs)
    BY <1>0, <2>3, <2>7, SumMonotone
  <2> QED BY <1>5, <2>1, <2>4, <2>5, <2>6, <2>8
<1> QED BY <1>6, <1>7, <1>8, <1>9

-----------------------------------------------------------------------------
(* The source tables.                                                      *)

SourceTyped ==
  /\ now \in Times /\ ItemsTyped
  /\ profile \in [Users -> Times] /\ row \in [Subs -> Times]

\* Writes are numbered, none is newer than the last, and what is posted in a
\* subreddit has a row for it.
SourceDated ==
  /\ \A us \in Users \X Subs : items[us] \subseteq 1 .. now /\ (items[us] # {} => row[us[2]] # 0)
  /\ \A s \in Subs : row[s] <= now
  /\ \A u \in Users : profile[u] <= now

\* What a write leaves: as many posts and comments or more, none of them older
\* than it was, and rows that stay or are the newest.
Grows ==
  /\ now' = now + 1
  /\ \A us \in Users \X Subs :
       /\ Cardinality(items[us]) <= Cardinality(items'[us])
       /\ \A x \in items'[us] : x \in items[us] \/ x = now + 1
       /\ items[us] # {} => items'[us] # {}
  /\ \A s \in Subs : row'[s] \in {row[s], now + 1}

LEMMA OneMore ==
  ASSUME NEW T \in SUBSET Times, NEW x, x \notin T
  PROVE  Cardinality(T) <= Cardinality(T \cup {x})
<1>1. IsFiniteSet(T) /\ Cardinality(T) \in Nat
  BY FiniteTimes
<1> QED BY <1>1, FS_AddElement

LEMMA OneForAnother ==
  ASSUME NEW T \in SUBSET Times, NEW x, x \notin T, NEW t \in T
  PROVE  Cardinality(T) <= Cardinality((T \ {t}) \cup {x})
<1>1. IsFiniteSet(T) /\ Cardinality(T) \in Nat
  BY FiniteTimes
<1>2. IsFiniteSet(T \ {t}) /\ Cardinality(T \ {t}) = Cardinality(T) - 1
  BY <1>1, FS_RemoveElement
<1>3. Cardinality((T \ {t}) \cup {x}) = Cardinality(T)
  <2>1. PICK U : U = T \ {t}
    OBVIOUS
  <2>2. x \notin U
    BY <2>1
  <2>3. Cardinality(U \cup {x}) = Cardinality(U) + 1
    BY <1>2, <2>1, <2>2, FS_AddElement
  <2> QED BY <1>1, <1>2, <2>1, <2>3
<1> QED BY <1>1, <1>3

LEMMA CrawlGrows ==
  ASSUME SourceTyped, SourceDated, Crawl
  PROVE  /\ SourceTyped' /\ SourceDated' /\ Grows
         /\ UNCHANGED <<graph, rels, state, run, faults>>
<1>1. /\ UNCHANGED <<graph, rels, state, run, faults>>
      /\ now' = now + 1 /\ now < MaxTime
  BY DEF Crawl, Store, Touch, UpdateProfile, UpdateSub, Written
<1>2. /\ now \in Nat /\ MaxTime \in Nat /\ now + 1 \in Times /\ now' \in Times
      /\ 1 .. now \subseteq 1 .. now' /\ now + 1 \in 1 .. now'
  BY <1>1, PrecalcAssumption DEF SourceTyped, Times
<1>3. \A us \in Users \X Subs : now + 1 \notin items[us]
  BY <1>2 DEF SourceDated
<1>4. CASE \E u \in Users, s \in Subs : Store(u, s)
  <2>1. PICK u \in Users, s \in Subs : Store(u, s)
    BY <1>4
  <2>2. /\ items' = [items EXCEPT ![<<u, s>>] = @ \cup {now + 1}]
        /\ profile' = [profile EXCEPT ![u] = IF @ = 0 THEN now + 1 ELSE @]
        /\ row' = [row EXCEPT ![s] = IF @ = 0 THEN now + 1 ELSE @]
    BY <2>1 DEF Store
  <2>3. ItemsTyped' /\ \A us \in Users \X Subs : items'[us] = items[us] \/ (items'[us] = items[us] \cup {now + 1} /\ us = <<u, s>>)
    <3>1. items \in [Users \X Subs -> SUBSET Times]
      BY DEF SourceTyped, ItemsTyped
    <3>2. PICK T : T = items[<<u, s>>] \cup {now + 1}
      OBVIOUS
    <3>3. T \in SUBSET Times
      BY <1>2, <3>1, <3>2
    <3>4. items' = [items EXCEPT ![<<u, s>>] = T]
      BY <2>2, <3>2
    <3>5. items' \in [Users \X Subs -> SUBSET Times]
      BY <3>1, <3>3, <3>4
    <3>6. ItemsTyped'
      BY <3>5 DEF ItemsTyped
    <3>7. \A us \in Users \X Subs : items'[us] = items[us] \/ (items'[us] = T /\ us = <<u, s>>)
      BY <3>1, <3>4
    <3> QED BY <3>2, <3>6, <3>7
  <2>4. profile' \in [Users -> Times] /\ row' \in [Subs -> Times]
    BY <1>2, <2>2 DEF SourceTyped
  <2>5. /\ \A q \in Subs : row'[q] \in {row[q], now + 1} /\ (row[q] # 0 => row'[q] # 0)
        /\ row'[s] # 0
    BY <1>2, <2>2 DEF SourceTyped
  <2>6. \A q \in Users : profile'[q] \in {profile[q], now + 1}
    BY <1>2, <2>2 DEF SourceTyped
  <2>7. \A us \in Users \X Subs : items'[us] \subseteq 1 .. now' /\ (items'[us] # {} => row'[us[2]] # 0)
    <3> SUFFICES ASSUME NEW us \in Users \X Subs
                 PROVE  items'[us] \subseteq 1 .. now' /\ (items'[us] # {} => row'[us[2]] # 0)
      OBVIOUS
    <3>1. items[us] \subseteq 1 .. now /\ (items[us] # {} => row[us[2]] # 0) /\ us[2] \in Subs
      BY DEF SourceDated
    <3> QED BY <1>2, <2>3, <2>5, <3>1
  <2>8. SourceDated'
    <3>1. \A q \in Subs : row[q] \in Nat /\ row[q] <= now
      BY DEF SourceTyped, SourceDated, Times
    <3>2. \A q \in Users : profile[q] \in Nat /\ profile[q] <= now
      BY DEF SourceTyped, SourceDated, Times
    <3>3. \A q \in Subs : row'[q] <= now'
      BY <1>1, <1>2, <2>5, <3>1
    <3>4. \A q \in Users : profile'[q] <= now'
      BY <1>1, <1>2, <2>6, <3>2
    <3> QED BY <2>7, <3>3, <3>4 DEF SourceDated
  <2>9. \A us \in Users \X Subs : /\ Cardinality(items[us]) <= Cardinality(items'[us])
                                  /\ \A x \in items'[us] : x \in items[us] \/ x = now + 1
                                  /\ items[us] # {} => items'[us] # {}
    <3> SUFFICES ASSUME NEW us \in Users \X Subs
                 PROVE /\ Cardinality(items[us]) <= Cardinality(items'[us])
                       /\ \A x \in items'[us] : x \in items[us] \/ x = now + 1
                       /\ items[us] # {} => items'[us] # {}
      OBVIOUS
    <3>1. items[us] \in SUBSET Times /\ now + 1 \notin items[us]
      BY <1>3 DEF SourceTyped, ItemsTyped
    <3>2. Cardinality(items[us]) \in Nat
      BY <3>1, FiniteTimes
    <3>3. Cardinality(items[us]) <= Cardinality(items[us] \cup {now + 1})
      BY <3>1, OneMore
    <3>4. CASE items'[us] = items[us]
      BY <3>2, <3>4
    <3>5. CASE items'[us] = items[us] \cup {now + 1}
      <4>1. PICK T : T = items[us]
        OBVIOUS
      <4> QED BY <3>3, <3>5, <4>1
    <3> QED BY <2>3, <3>4, <3>5
  <2> QED BY <1>1, <1>2, <2>3, <2>4, <2>5, <2>8, <2>9 DEF SourceTyped, Grows
<1>5. CASE \E u \in Users, s \in Subs : Touch(u, s)
  <2>1. PICK u \in Users, s \in Subs : Touch(u, s)
    BY <1>5
  <2>2. PICK t \in items[<<u, s>>] :
          /\ items' = [items EXCEPT ![<<u, s>>] = (@ \ {t}) \cup {now + 1}]
          /\ profile' = profile /\ row' = row
    BY <2>1 DEF Touch
  <2>3. ItemsTyped' /\ \A us \in Users \X Subs : items'[us] = items[us] \/ (items'[us] = (items[us] \ {t}) \cup {now + 1} /\ us = <<u, s>>)
    <3>1. items \in [Users \X Subs -> SUBSET Times]
      BY DEF SourceTyped, ItemsTyped
    <3>2. PICK T : T = (items[<<u, s>>] \ {t}) \cup {now + 1}
      OBVIOUS
    <3>3. T \in SUBSET Times
      BY <1>2, <3>1, <3>2
    <3>4. items' = [items EXCEPT ![<<u, s>>] = T]
      BY <2>2, <3>2
    <3>5. items' \in [Users \X Subs -> SUBSET Times]
      BY <3>1, <3>3, <3>4
    <3>6. ItemsTyped'
      BY <3>5 DEF ItemsTyped
    <3>7. \A us \in Users \X Subs : items'[us] = items[us] \/ (items'[us] = T /\ us = <<u, s>>)
      BY <3>1, <3>4
    <3> QED BY <3>2, <3>6, <3>7
  <2>7. \A us \in Users \X Subs : items'[us] \subseteq 1 .. now' /\ (items'[us] # {} => row'[us[2]] # 0)
    <3> SUFFICES ASSUME NEW us \in Users \X Subs
                 PROVE  items'[us] \subseteq 1 .. now' /\ (items'[us] # {} => row'[us[2]] # 0)
      OBVIOUS
    <3>1. items[us] \subseteq 1 .. now /\ (items[us] # {} => row[us[2]] # 0) /\ us[2] \in Subs
      BY DEF SourceDated
    <3>2. us = <<u, s>> => items[us] # {}
      BY <2>2
    <3> QED BY <1>2, <2>2, <2>3, <3>1, <3>2
  <2>8. SourceDated'
    <3>1. \A q \in Subs : row[q] \in Nat /\ row[q] <= now
      BY DEF SourceTyped, SourceDated, Times
    <3>2. \A q \in Users : profile[q] \in Nat /\ profile[q] <= now
      BY DEF SourceTyped, SourceDated, Times
    <3>3. (\A q \in Subs : row'[q] <= now') /\ \A q \in Users : profile'[q] <= now'
      BY <1>1, <1>2, <2>2, <3>1, <3>2
    <3> QED BY <2>7, <3>3 DEF SourceDated
  <2>9. \A us \in Users \X Subs : /\ Cardinality(items[us]) <= Cardinality(items'[us])
                                  /\ \A x \in items'[us] : x \in items[us] \/ x = now + 1
                                  /\ items[us] # {} => items'[us] # {}
    <3> SUFFICES ASSUME NEW us \in Users \X Subs
                 PROVE /\ Cardinality(items[us]) <= Cardinality(items'[us])
                       /\ \A x \in items'[us] : x \in items[us] \/ x = now + 1
                       /\ items[us] # {} => items'[us] # {}
      OBVIOUS
    <3>1. items[us] \in SUBSET Times /\ now + 1 \notin items[us]
      BY <1>3 DEF SourceTyped, ItemsTyped
    <3>2. Cardinality(items[us]) \in Nat
      BY <3>1, FiniteTimes
    <3>3. t \in items[us] => Cardinality(items[us]) <= Cardinality((items[us] \ {t}) \cup {now + 1})
      BY <3>1, OneForAnother
    <3>4. CASE items'[us] = items[us]
      BY <3>2, <3>4
    <3>5. CASE items'[us] = (items[us] \ {t}) \cup {now + 1} /\ t \in items[us]
      <4>1. PICK T : T = items[us]
        OBVIOUS
      <4>2. PICK U : U = (T \ {t}) \cup {now + 1}
        OBVIOUS
      <4>3. Cardinality(T) <= Cardinality(U) /\ items'[us] = U
        BY <3>3, <3>5, <4>1, <4>2
      <4>4. U # {} /\ \A x \in U : x \in T \/ x = now + 1
        BY <4>2
      <4> QED BY <4>1, <4>3, <4>4
    <3> QED BY <2>2, <2>3, <3>4, <3>5
  <2> QED BY <1>1, <1>2, <2>2, <2>3, <2>8, <2>9 DEF SourceTyped, Grows
<1>6. CASE UNCHANGED items /\ /\ profile' \in [Users -> Times]
                              /\ row' \in [Subs -> Times]
                              /\ \A q \in Users : profile'[q] \in {profile[q], now + 1}
                              /\ \A q \in Subs : row'[q] \in {row[q], now + 1}
  <2>1. \A q \in Subs : row[q] \in Nat /\ row[q] <= now
    BY DEF SourceTyped, SourceDated, Times
  <2>2. \A q \in Users : profile[q] \in Nat /\ profile[q] <= now
    BY DEF SourceTyped, SourceDated, Times
  <2>3. \A q \in Subs : row'[q] <= now' /\ (row[q] # 0 => row'[q] # 0)
    BY <1>1, <1>2, <1>6, <2>1
  <2>4. \A q \in Users : profile'[q] <= now'
    BY <1>1, <1>2, <1>6, <2>2
  <2>5. \A us \in Users \X Subs : items'[us] \subseteq 1 .. now' /\ (items'[us] # {} => row'[us[2]] # 0)
    <3> SUFFICES ASSUME NEW us \in Users \X Subs
                 PROVE  items'[us] \subseteq 1 .. now' /\ (items'[us] # {} => row'[us[2]] # 0)
      OBVIOUS
    <3>1. items[us] \subseteq 1 .. now /\ (items[us] # {} => row[us[2]] # 0) /\ us[2] \in Subs
      BY DEF SourceDated
    <3> QED BY <1>2, <1>6, <2>3, <3>1
  <2>6. \A us \in Users \X Subs : Cardinality(items[us]) <= Cardinality(items'[us])
    <3>1. \A us \in Users \X Subs : Cardinality(items[us]) \in Nat
      BY FiniteTimes DEF SourceTyped, ItemsTyped
    <3> QED BY <1>6, <3>1
  <2>7. SourceDated'
    BY <2>3, <2>4, <2>5 DEF SourceDated
  <2> QED BY <1>1, <1>2, <1>6, <2>6, <2>7 DEF SourceTyped, ItemsTyped, Grows
<1>7. ASSUME NEW u \in Users, UpdateProfile(u)
      PROVE  UNCHANGED items /\ /\ profile' \in [Users -> Times]
                                /\ row' \in [Subs -> Times]
                                /\ \A q \in Users : profile'[q] \in {profile[q], now + 1}
                                /\ \A q \in Subs : row'[q] \in {row[q], now + 1}
  BY <1>2, <1>7 DEF UpdateProfile, SourceTyped
<1>8. ASSUME NEW s \in Subs, UpdateSub(s)
      PROVE  UNCHANGED items /\ /\ profile' \in [Users -> Times]
                                /\ row' \in [Subs -> Times]
                                /\ \A q \in Users : profile'[q] \in {profile[q], now + 1}
                                /\ \A q \in Subs : row'[q] \in {row[q], now + 1}
  BY <1>2, <1>8 DEF UpdateSub, SourceTyped
<1> QED BY <1>4, <1>5, <1>6, <1>7, <1>8 DEF Crawl

\* More is counted, and less of it old.
LEMMA GrowingCounts ==
  ASSUME SourceTyped, SourceTyped', Grows, NEW u \in Users
  PROVE  /\ Total(u) <= Total(u)'
         /\ \A b : \A t \in Int : t <= now => Due(u, b, t)' <= Due(u, b, t)
<1>0. IsFiniteSet(Subs) /\ CountsAreSums' /\ CountsAreSums
  <2>1. CountsAreSums'
    BY CountsAddUp, PTL
  <2> QED BY <2>1, CountsAddUp, PrecalcAssumption
<1>1. \A s \in Subs : /\ items[<<u, s>>] \in SUBSET Times /\ items'[<<u, s>>] \in SUBSET Times
                      /\ Cardinality(items[<<u, s>>]) <= Cardinality(items'[<<u, s>>])
  BY DEF SourceTyped, ItemsTyped, Grows
<1>2. Total(u) <= Total(u)'
  <2>1. \A s \in Subs : Cardinality(items[<<u, s>>]) \in Nat /\ Cardinality(items'[<<u, s>>]) \in Nat
    BY <1>1, FiniteTimes
  <2>2. Counts(Counted(u), Subs) /\ Counts(Counted(u)', Subs) /\ \A s \in Subs : Counted(u)[s] <= Counted(u)'[s]
    BY <1>1, <2>1 DEF Counts, Counted
  <2>3. SumOver(Counted(u), Subs) <= SumOver(Counted(u)', Subs)
    BY <1>0, <2>2, SumMonotone
  <2> QED BY <1>0, <2>3 DEF CountsAreSums
<1>3. ASSUME NEW b, NEW t \in Int, t <= now PROVE Due(u, b, t)' <= Due(u, b, t)
  <2>1. now \in Int
    BY DEF SourceTyped, Times
  <2>2. \A s \in Subs : {x \in items'[<<u, s>>] : x > b /\ x <= t} \in SUBSET {x \in items[<<u, s>>] : x > b /\ x <= t}
    <3> SUFFICES ASSUME NEW s \in Subs, NEW x \in items'[<<u, s>>], x > b, x <= t
                 PROVE  x \in items[<<u, s>>]
      OBVIOUS
    <3> QED BY <1>3, <2>1 DEF Grows
  <2>3. \A s \in Subs : /\ DueIn(u, b, t)[s] \in Nat /\ DueIn(u, b, t)'[s] \in Nat
                        /\ DueIn(u, b, t)'[s] <= DueIn(u, b, t)[s]
    <3> SUFFICES ASSUME NEW s \in Subs
                 PROVE  /\ DueIn(u, b, t)[s] \in Nat /\ DueIn(u, b, t)'[s] \in Nat
                        /\ DueIn(u, b, t)'[s] <= DueIn(u, b, t)[s]
      OBVIOUS
    <3>1. IsFiniteSet({x \in items[<<u, s>>] : x > b /\ x <= t})
      BY <1>1, FiniteTimes
    <3>2. /\ Cardinality({x \in items'[<<u, s>>] : x > b /\ x <= t}) <= Cardinality({x \in items[<<u, s>>] : x > b /\ x <= t})
          /\ IsFiniteSet({x \in items'[<<u, s>>] : x > b /\ x <= t})
      BY <2>2, <3>1, FS_Subset
    <3>3. Cardinality({x \in items'[<<u, s>>] : x > b /\ x <= t}) \in Nat /\ Cardinality({x \in items[<<u, s>>] : x > b /\ x <= t}) \in Nat
      BY <3>1, <3>2, FS_CardinalityType
    <3> QED BY <3>2, <3>3 DEF DueIn
  <2>4. Counts(DueIn(u, b, t), Subs) /\ Counts(DueIn(u, b, t)', Subs)
    BY <2>3 DEF Counts
  <2>5. SumOver(DueIn(u, b, t)', Subs) <= SumOver(DueIn(u, b, t), Subs)
    BY <1>0, <2>3, <2>4, SumMonotone
  <2>6. Due(u, b, t)' = SumOver(DueIn(u, b, t)', Subs) /\ Due(u, b, t) = SumOver(DueIn(u, b, t), Subs)
    BY <1>0 DEF CountsAreSums
  <2> QED BY <2>5, <2>6
<1> QED BY <1>2, <1>3

-----------------------------------------------------------------------------
(* What each step does to the runs.                                        *)

RunsTyped == run \in [Procs -> RunType]

\* A run that another one's step leaves alone, or disturbs (D).
SameBut(q, D) ==
  /\ run'[q].pc = run[q].pc /\ run'[q].start = run[q].start
  /\ run'[q].since = run[q].since /\ run'[q].full = run[q].full
  /\ run'[q].fetched = run[q].fetched
  /\ run[q].pc # "idle" /\ ~run'[q].disturbed => ~run[q].disturbed /\ ~D

\* The step of p, to r, and whether it disturbs the others.
Moves(p, r, D) ==
  /\ RunsTyped' /\ run'[p] = r
  /\ \A q \in Procs \ {p} : SameBut(q, D)

LEMMA NoRunTyped == NoRun \in RunType
<1>1. 0 \in Times /\ Nothing \in [Entities -> Nat] /\ "idle" \in PCs
  BY PrecalcAssumption DEF Times, Nothing, PCs
<1> QED BY <1>1 DEF NoRun, RunType

LEMMA DisturbTyped ==
  ASSUME RunsTyped
  PROVE  /\ Disturb \in [Procs -> RunType]
         /\ \A q \in Procs :
              /\ Disturb[q].pc = run[q].pc /\ Disturb[q].start = run[q].start
              /\ Disturb[q].since = run[q].since /\ Disturb[q].full = run[q].full
              /\ Disturb[q].fetched = run[q].fetched
              /\ run[q].pc # "idle" => Disturb[q].disturbed
<1>1. ASSUME NEW q \in Procs
      PROVE  /\ Disturb[q] \in RunType
             /\ Disturb[q].pc = run[q].pc /\ Disturb[q].start = run[q].start
             /\ Disturb[q].since = run[q].since /\ Disturb[q].full = run[q].full
             /\ Disturb[q].fetched = run[q].fetched
             /\ run[q].pc # "idle" => Disturb[q].disturbed
  <2>1. PICK r \in RunType : r = run[q]
    BY DEF RunsTyped
  <2>2. Disturb[q] = IF r.pc = "idle" THEN r ELSE [r EXCEPT !.disturbed = TRUE]
    BY <2>1 DEF Disturb, Idle
  <2>3. CASE r.pc = "idle"
    BY <2>1, <2>2, <2>3
  <2>4. CASE r.pc # "idle"
    <3>1. PICK v \in RunType : v = [r EXCEPT !.disturbed = TRUE]
      BY DEF RunType
    <3>2. v.pc = r.pc /\ v.start = r.start /\ v.since = r.since /\ v.full = r.full
          /\ v.fetched = r.fetched /\ v.disturbed
      BY <3>1 DEF RunType
    <3> QED BY <2>1, <2>2, <2>4, <3>1, <3>2
  <2> QED BY <2>3, <2>4
<1>2. Disturb = [q \in Procs |-> Disturb[q]]
  BY DEF Disturb
<1> QED BY <1>1, <1>2

LEMMA DisturbIs ==
  ASSUME RunsTyped, run' = Disturb
  PROVE  RunsTyped' /\ \A q \in Procs : SameBut(q, TRUE)
BY DisturbTyped DEF RunsTyped, SameBut

LEMMA MovesDisturbing ==
  ASSUME RunsTyped, NEW p \in Procs, NEW r \in RunType, run' = [Disturb EXCEPT ![p] = r]
  PROVE  Moves(p, r, TRUE)
<1>1. PICK f \in [Procs -> RunType] : f = Disturb
  BY DisturbTyped
<1>2. run' \in [Procs -> RunType] /\ run'[p] = r /\ \A q \in Procs \ {p} : run'[q] = f[q]
  BY <1>1
<1> QED BY <1>1, <1>2, DisturbTyped DEF Moves, SameBut, RunsTyped

LEMMA MovesAlone ==
  ASSUME RunsTyped, NEW p \in Procs, NEW r \in RunType, run' = [run EXCEPT ![p] = r]
  PROVE  Moves(p, r, FALSE)
<1>1. run' \in [Procs -> RunType] /\ run'[p] = r /\ \A q \in Procs \ {p} : run'[q] = run[q]
  BY DEF RunsTyped
<1> QED BY <1>1 DEF Moves, SameBut, RunsTyped

\* A run at pc "to" that is otherwise the one p had, unless disturbed now (D).
GoesTo(p, to, D) ==
  \E r \in RunType :
    /\ r.pc = to /\ r.start = run[p].start /\ r.since = run[p].since
    /\ r.full = run[p].full /\ r.fetched = run[p].fetched
    /\ ~r.disturbed => ~run[p].disturbed /\ ~D
    /\ Moves(p, r, D)

LEMMA GotoIs ==
  ASSUME RunsTyped, NEW p \in Procs, NEW from, NEW to \in PCs, Goto(p, from, to)
  PROVE  run[p].pc = from /\ GoesTo(p, to, FALSE)
<1>1. PICK o \in RunType : o = run[p]
  BY DEF RunsTyped
<1>2. PICK r \in RunType : r = [o EXCEPT !.pc = to]
  BY DEF RunType
<1>3. r.pc = to /\ r.start = o.start /\ r.since = o.since /\ r.full = o.full
      /\ r.fetched = o.fetched /\ r.disturbed = o.disturbed
  BY <1>2 DEF RunType
<1>4. run' = [run EXCEPT ![p] = r]
  BY <1>1, <1>2 DEF Goto
<1>5. Moves(p, r, FALSE)
  BY <1>4, MovesAlone
<1> QED BY <1>1, <1>3, <1>5 DEF GoesTo, Goto

LEMMA GotoInsertedIs ==
  ASSUME RunsTyped, NEW p \in Procs, NEW from, NEW to \in PCs, NEW S, NEW T,
         from # "idle", GotoInserted(p, from, to, S, T)
  PROVE  /\ run[p].pc = from
         /\ (T = S /\ GoesTo(p, to, FALSE)) \/ GoesTo(p, to, TRUE)
<1>1. CASE T = S /\ run' = [run EXCEPT ![p].pc = to]
  BY <1>1, GotoIs DEF GotoInserted, Goto
<1>2. CASE run' = [Disturb EXCEPT ![p].pc = to]
  <2>1. PICK f \in [Procs -> RunType] : f = Disturb
    BY DisturbTyped
  <2>2. PICK o \in RunType : o = f[p]
    BY <2>1
  <2>3. PICK r \in RunType : r = [o EXCEPT !.pc = to]
    BY DEF RunType
  <2>4. r.pc = to /\ r.start = o.start /\ r.since = o.since /\ r.full = o.full
        /\ r.fetched = o.fetched /\ r.disturbed = o.disturbed
    BY <2>3 DEF RunType
  <2>5. run' = [Disturb EXCEPT ![p] = r]
    BY <1>2, <2>1, <2>2, <2>3
  <2>6. Moves(p, r, TRUE)
    BY <2>5, MovesDisturbing
  <2>7. o.start = run[p].start /\ o.since = run[p].since /\ o.full = run[p].full
        /\ o.fetched = run[p].fetched /\ (run[p].pc # "idle" => o.disturbed)
    BY <2>1, <2>2, DisturbTyped
  <2>8. run[p].pc # "idle"
    BY DEF GotoInserted
  <2> QED BY <2>4, <2>6, <2>7, <2>8 DEF GoesTo, GotoInserted
<1> QED BY <1>1, <1>2 DEF GotoInserted

StartRun(p, flag) ==
  \E r \in RunType :
    /\ Idle(p) /\ r.start = now /\ r.fetched = Nothing
    /\ ~r.disturbed => \A q \in Procs : Idle(q)
    /\ \/ r.pc = "clear" /\ r.full /\ r.since = Never
       \/ r.pc = "count" /\ ~r.full /\ r.since = last /\ last # Never
    /\ Moves(p, r, TRUE)

LEMMA StartIs ==
  ASSUME TypeOK, NEW p \in Procs, NEW flag, Start(p, flag)
  PROVE  StartRun(p, flag) /\ UNCHANGED <<source, graph, rels, state>> /\ faults' \in 0 .. MaxFaults
<1>0. RunsTyped /\ now \in Times
  BY DEF TypeOK, RunsTyped, RunType
<1>1. PICK D \in BOOLEAN : D = \E q \in Procs : ~Idle(q)
  OBVIOUS
<1>b. PICK b : b = [NoRun EXCEPT !.start = now, !.disturbed = D]
  OBVIOUS
<1>2. b \in RunType /\ b.start = now /\ b.disturbed = D /\ b.fetched = Nothing
      /\ ~b.full /\ b.since = Never
  BY <1>0, <1>b, NoRunTyped DEF NoRun, RunType
<1>3. PICK r :
        /\ run' = [Disturb EXCEPT ![p] = r]
        /\ \/ r = [b EXCEPT !.pc = "clear", !.full = TRUE]
           \/ r = [b EXCEPT !.pc = "count", !.since = last, !.counted = counted] /\ last # Never
  BY <1>1, <1>b DEF Start
<1>4. /\ r \in RunType /\ r.start = now /\ r.fetched = Nothing /\ r.disturbed = D
      /\ \/ r.pc = "clear" /\ r.full /\ r.since = Never
         \/ r.pc = "count" /\ ~r.full /\ r.since = last /\ last # Never
  <2>1. "clear" \in PCs /\ "count" \in PCs /\ TRUE \in BOOLEAN /\ last \in Times \cup {Never} /\ counted \in Nat
    BY DEF PCs, TypeOK
  <2>2. CASE r = [b EXCEPT !.pc = "clear", !.full = TRUE]
    BY <1>2, <2>1, <2>2 DEF RunType
  <2>3. CASE r = [b EXCEPT !.pc = "count", !.since = last, !.counted = counted] /\ last # Never
    BY <1>2, <2>1, <2>3 DEF RunType
  <2> QED BY <1>3, <2>2, <2>3
<1>5. Moves(p, r, TRUE)
  BY <1>0, <1>3, <1>4, MovesDisturbing
<1>6. faults' \in 0 .. MaxFaults
  BY PrecalcAssumption DEF Start, Fault, NoFault, TypeOK
<1>7. ~r.disturbed => \A q \in Procs : Idle(q)
  BY <1>1, <1>4
<1> QED BY <1>4, <1>5, <1>6, <1>7 DEF Start, StartRun

CountRun(p) ==
  \E r \in RunType :
    /\ run[p].pc = "count" /\ r.start = run[p].start /\ r.fetched = run[p].fetched
    /\ r.disturbed = run[p].disturbed
    /\ \/ r.pc = "clear" /\ r.full /\ r.since = Never
       \/ r.pc = "fetchUsers" /\ r.full = run[p].full /\ r.since = run[p].since
    /\ Moves(p, r, FALSE)

LEMMA CountIs ==
  ASSUME TypeOK, NEW p \in Procs, Count(p)
  PROVE  CountRun(p) /\ UNCHANGED <<source, graph, rels, state>> /\ faults' \in 0 .. MaxFaults
<1>0. RunsTyped
  BY DEF TypeOK, RunsTyped, RunType
<1>1. PICK o \in RunType : o = run[p]
  BY <1>0 DEF RunsTyped
<1>2. PICK r :
        /\ run' = [run EXCEPT ![p] = r]
        /\ \/ r = [o EXCEPT !.pc = "clear", !.full = TRUE, !.since = Never, !.counted = 0]
           \/ r = [o EXCEPT !.pc = "fetchUsers", !.counted = 0]
  <2>1. PICK full \in BOOLEAN :
          run' = [run EXCEPT ![p] =
                 IF full THEN [@ EXCEPT !.pc = "clear", !.full = TRUE, !.since = Never, !.counted = 0]
                 ELSE [@ EXCEPT !.pc = "fetchUsers", !.counted = 0]]
    BY DEF Count
  <2>2. CASE full
    BY <1>1, <2>1, <2>2
  <2>3. CASE ~full
    BY <1>1, <2>1, <2>3
  <2> QED BY <2>2, <2>3
<1>3. /\ r \in RunType /\ r.start = o.start /\ r.fetched = o.fetched /\ r.disturbed = o.disturbed
      /\ \/ r.pc = "clear" /\ r.full /\ r.since = Never
         \/ r.pc = "fetchUsers" /\ r.full = o.full /\ r.since = o.since
  <2>1. "clear" \in PCs /\ "fetchUsers" \in PCs /\ TRUE \in BOOLEAN /\ 0 \in Nat /\ Never \in Times \cup {Never}
    BY DEF PCs
  <2>2. CASE r = [o EXCEPT !.pc = "clear", !.full = TRUE, !.since = Never, !.counted = 0]
    BY <2>1, <2>2 DEF RunType
  <2>3. CASE r = [o EXCEPT !.pc = "fetchUsers", !.counted = 0]
    BY <2>1, <2>3 DEF RunType
  <2> QED BY <1>2, <2>2, <2>3
<1>4. Moves(p, r, FALSE)
  BY <1>0, <1>2, <1>3, MovesAlone
<1>5. faults' \in 0 .. MaxFaults
  BY PrecalcAssumption DEF Count, Fault, NoFault, TypeOK
<1> QED BY <1>1, <1>3, <1>4, <1>5 DEF Count, CountRun

\* The run p fetched what f gives.
FetchRun(p, from, to, f) ==
  \E r \in RunType :
    /\ run[p].pc = from /\ r.pc = to /\ r.start = run[p].start /\ r.since = run[p].since
    /\ r.full = run[p].full /\ r.disturbed = run[p].disturbed /\ r.fetched = f
    /\ Moves(p, r, FALSE)

LEMMA FetchedIs ==
  ASSUME RunsTyped, NEW p \in Procs, NEW from, NEW to \in PCs, NEW f \in [Entities -> Nat],
         run[p].pc = from, run' = [run EXCEPT ![p].pc = to, ![p].fetched = f]
  PROVE  FetchRun(p, from, to, f)
<1>1. PICK o \in RunType : o = run[p]
  BY DEF RunsTyped
<1>2. PICK r \in RunType : r = [o EXCEPT !.pc = to, !.fetched = f]
  BY DEF RunType
<1>3. r.pc = to /\ r.start = o.start /\ r.since = o.since /\ r.full = o.full
      /\ r.fetched = f /\ r.disturbed = o.disturbed
  BY <1>2 DEF RunType
<1>4. run' = [run EXCEPT ![p] = r]
  BY <1>1, <1>2
<1>5. Moves(p, r, FALSE)
  BY <1>4, MovesAlone
<1> QED BY <1>1, <1>3, <1>5 DEF FetchRun

LEMMA FetchUsersIs ==
  ASSUME TypeOK, NEW p \in Procs, FetchUsers(p)
  PROVE  /\ \E f \in [Entities -> Nat] :
              /\ FetchRun(p, "fetchUsers", "fetchSubs", f)
              /\ \A u \in Users : f[u] = FetchedUser(u, run[p].full, run[p].since)
              /\ \A s \in Subs : f[s] = 0
         /\ UNCHANGED <<source, graph, rels, state, faults>>
<1>0. RunsTyped /\ ItemsTyped
  BY DEF TypeOK, RunsTyped, RunType, ItemsTyped
<1> DEFINE g == [e \in Entities |->
                   IF e \in Users THEN FetchedUser(e, run[p].full, run[p].since) ELSE 0]
<1>1. \A u \in Users : FetchedUser(u, run[p].full, run[p].since) \in Nat
  BY <1>0, CountsHold DEF CountsFit, FetchedUser
<1>2. g \in [Entities -> Nat]
  BY <1>1
<1>3. (\A u \in Users : g[u] = FetchedUser(u, run[p].full, run[p].since)) /\ \A s \in Subs : g[s] = 0
  BY PrecalcAssumption DEF Entities
<1>4. run' = [run EXCEPT ![p].pc = "fetchSubs", ![p].fetched = g] /\ run[p].pc = "fetchUsers"
  BY DEF FetchUsers
<1> HIDE DEF g
<1>5. FetchRun(p, "fetchUsers", "fetchSubs", g)
  BY <1>0, <1>2, <1>4, FetchedIs DEF PCs
<1> QED BY <1>2, <1>3, <1>5 DEF FetchUsers

LEMMA FetchSubsIs ==
  ASSUME TypeOK, NEW p \in Procs, FetchSubs(p)
  PROVE  /\ \E f \in [Entities -> Nat] :
              /\ FetchRun(p, "fetchSubs", "upsert", f)
              /\ \A u \in Users : f[u] = run[p].fetched[u]
              /\ \A s \in Subs : f[s] = FetchedSub(s, run[p].full, run[p].since)
         /\ UNCHANGED <<source, graph, rels, state, faults>>
<1>0. RunsTyped /\ row \in [Subs -> Nat]
  BY DEF TypeOK, RunsTyped, RunType, Times
<1> DEFINE g == [e \in Entities |->
                   IF e \in Subs THEN FetchedSub(e, run[p].full, run[p].since) ELSE run[p].fetched[e]]
<1>1. \A s \in Subs : FetchedSub(s, run[p].full, run[p].since) \in Nat
  BY <1>0 DEF FetchedSub
<1>2. g \in [Entities -> Nat]
  <2>1. run[p].fetched \in [Entities -> Nat]
    BY <1>0 DEF RunsTyped, RunType
  <2> QED BY <1>1, <2>1
<1>3. (\A u \in Users : g[u] = run[p].fetched[u]) /\ \A s \in Subs : g[s] = FetchedSub(s, run[p].full, run[p].since)
  BY PrecalcAssumption DEF Entities
<1>4. run' = [run EXCEPT ![p].pc = "upsert", ![p].fetched = g] /\ run[p].pc = "fetchSubs"
  BY DEF FetchSubs
<1> HIDE DEF g
<1>5. FetchRun(p, "fetchSubs", "upsert", g)
  BY <1>0, <1>2, <1>4, FetchedIs DEF PCs
<1> QED BY <1>2, <1>3, <1>5 DEF FetchSubs

UpsertRun(p) ==
  \E r \in RunType :
    /\ run[p].pc = "upsert" /\ r.pc = "clearActivity" /\ r.start = run[p].start
    /\ r.full = run[p].full /\ r.disturbed = run[p].disturbed /\ r.since = run[p].since
    /\ r.fetched = Nothing
    /\ Moves(p, r, FALSE)

LEMMA UpsertIs ==
  ASSUME TypeOK, NEW p \in Procs, Upsert(p)
  PROVE  /\ UpsertRun(p) /\ nodes' \in [Entities -> Nat]
         /\ \A e \in Entities : nodes'[e] = IF run[p].fetched[e] # 0 THEN run[p].fetched[e] ELSE nodes[e]
         /\ UNCHANGED <<links, source, rels, state, faults>>
<1>0. RunsTyped
  BY DEF TypeOK, RunsTyped, RunType
<1>1. PICK o \in RunType : o = run[p]
  BY <1>0 DEF RunsTyped
<1>2. PICK r : r = [o EXCEPT !.pc = "clearActivity", !.fetched = Nothing]
  OBVIOUS
<1>3. Nothing \in [Entities -> Nat] /\ "clearActivity" \in PCs
  BY DEF Nothing, PCs
<1>4. r \in RunType /\ r.pc = "clearActivity" /\ r.start = o.start /\ r.full = o.full
      /\ r.disturbed = o.disturbed /\ r.since = o.since /\ r.fetched = Nothing
  BY <1>2, <1>3 DEF RunType
<1>5. run' = [run EXCEPT ![p] = r] /\ run[p].pc = "upsert"
  BY <1>1, <1>2 DEF Upsert
<1>6. Moves(p, r, FALSE)
  BY <1>0, <1>4, <1>5, MovesAlone
<1>7. nodes' \in [Entities -> Nat] /\ \A e \in Entities : nodes'[e] = IF run[p].fetched[e] # 0 THEN run[p].fetched[e] ELSE nodes[e]
  <2>1. run[p].fetched \in [Entities -> Nat] /\ nodes \in [Entities -> Nat]
    BY DEF TypeOK
  <2>2. nodes' = [e \in Entities |-> IF run[p].fetched[e] # 0 THEN run[p].fetched[e] ELSE nodes[e]]
    BY DEF Upsert
  <2> QED BY <2>1, <2>2
<1> QED BY <1>1, <1>4, <1>5, <1>6, <1>7 DEF Upsert, UpsertRun

\* A run that ends or fails, and what is left of it.
EndsAs(p, pc, D) ==
  \E r \in RunType :
    /\ r.pc = pc /\ r.since = Never /\ r.fetched = Nothing /\ r.start = 0
    /\ pc = "deferred" => r.disturbed
    /\ Moves(p, r, D)

LEMMA FailIs ==
  ASSUME TypeOK, NEW p \in Procs, Fail(p)
  PROVE  /\ EndsAs(p, "deferred", TRUE)
         /\ run[p].pc \in {"clear", "fetchUsers", "fetchSubs", "upsert", "clearActivity",
                           "buildActivity", "relate", "link"}
         /\ UNCHANGED <<source, graph, rels, state>> /\ faults' \in 0 .. MaxFaults
<1>0. RunsTyped
  BY DEF TypeOK, RunsTyped, RunType
<1>1. PICK r : r = [NoRun EXCEPT !.pc = "deferred", !.disturbed = TRUE]
  OBVIOUS
<1>2. /\ r \in RunType /\ r.pc = "deferred" /\ r.disturbed
      /\ r.since = Never /\ r.fetched = Nothing /\ r.start = 0
  <2>1. "deferred" \in PCs
    BY DEF PCs
  <2> QED BY <1>1, <2>1, NoRunTyped DEF NoRun, RunType
<1>3. run' = [Disturb EXCEPT ![p] = r]
  BY <1>1 DEF Fail
<1>4. Moves(p, r, TRUE)
  BY <1>0, <1>2, <1>3, MovesDisturbing
<1>5. faults' \in 0 .. MaxFaults
  BY PrecalcAssumption DEF Fail, Fault, NoFault, TypeOK
<1> QED BY <1>2, <1>4, <1>5 DEF Fail, EndsAs

LEMMA DeferredIs ==
  ASSUME TypeOK, NEW p \in Procs, Deferred(p)
  PROVE  /\ EndsAs(p, "idle", FALSE) /\ run[p].pc = "deferred"
         /\ last' \in {last, now} /\ counted' \in Nat /\ faults' \in 0 .. MaxFaults
         /\ UNCHANGED <<source, graph, rels>>
<1>0. RunsTyped
  BY DEF TypeOK, RunsTyped, RunType
<1>1. NoRun.pc = "idle" /\ NoRun.since = Never /\ NoRun.fetched = Nothing
      /\ NoRun.start = 0
  BY DEF NoRun
<1>2. Moves(p, NoRun, FALSE)
  BY <1>0, NoRunTyped, MovesAlone DEF Deferred
<1>3. last' \in {last, now} /\ counted' \in Nat /\ faults' \in 0 .. MaxFaults
  BY PrecalcAssumption DEF Deferred, SetState, state, Fault, NoFault, TypeOK
<1> QED BY <1>1, <1>2, <1>3, NoRunTyped DEF Deferred, EndsAs

LEMMA CrashIs ==
  ASSUME TypeOK, NEW p \in Procs, Crash(p)
  PROVE  /\ EndsAs(p, "idle", TRUE) /\ ~Idle(p)
         /\ UNCHANGED <<source, graph, rels, state>> /\ faults' \in 0 .. MaxFaults
<1>0. RunsTyped
  BY DEF TypeOK, RunsTyped, RunType
<1>1. NoRun.pc = "idle" /\ NoRun.since = Never /\ NoRun.fetched = Nothing
      /\ NoRun.start = 0
  BY DEF NoRun
<1>2. Moves(p, NoRun, TRUE)
  BY <1>0, NoRunTyped, MovesDisturbing DEF Crash
<1>3. faults' \in 0 .. MaxFaults
  BY PrecalcAssumption DEF Crash, Fault, NoFault, TypeOK
<1> QED BY <1>1, <1>2, <1>3, NoRunTyped DEF Crash, EndsAs

-----------------------------------------------------------------------------
(* Types, and that the graph invents nothing.                              *)

RunsDated == last <= now /\ \A p \in Procs : run[p].start <= now /\ run[p].since <= now

KInv == TypeOK /\ SourceDated /\ RunsDated /\ GraphIsGrounded

LEMMA SameCounts ==
  ASSUME UNCHANGED items
  PROVE  \A u, t : /\ Total(u)' = Total(u) /\ Recent(u, t)' = Recent(u, t)
                   /\ \A b : Due(u, b, t)' = Due(u, b, t)
<1> SUFFICES ASSUME NEW u, NEW t, NEW b
             PROVE  /\ Total(u)' = Total(u) /\ Recent(u, t)' = Recent(u, t)
                    /\ Due(u, b, t)' = Due(u, b, t)
  OBVIOUS
<1>1. CountsAreSums'
  BY CountsAddUp, PTL
<1>2. Counted(u)' = Counted(u) /\ Since(u, t)' = Since(u, t) /\ DueIn(u, b, t)' = DueIn(u, b, t)
  BY DEF Counted, Since, DueIn
<1>3. /\ Total(u)' = SumOver(Counted(u)', Subs)
      /\ Recent(u, t)' = SumOver(Since(u, t)', Subs)
      /\ Due(u, b, t)' = SumOver(DueIn(u, b, t)', Subs)
  BY <1>1 DEF CountsAreSums
<1>4. /\ Total(u) = SumOver(Counted(u), Subs)
      /\ Recent(u, t) = SumOver(Since(u, t), Subs)
      /\ Due(u, b, t) = SumOver(DueIn(u, b, t), Subs)
  BY CountsAddUp DEF CountsAreSums
<1> QED BY <1>2, <1>3, <1>4

LEMMA TypedParts ==
  ASSUME TypeOK
  PROVE  /\ SourceTyped /\ RunsTyped /\ now \in Nat /\ row \in [Subs -> Nat]
         /\ nodes \in [Entities -> Nat]
         /\ \A p \in Procs : run[p] \in RunType /\ run[p].fetched \in [Entities -> Nat]
                             /\ run[p].start \in Nat /\ run[p].since \in Int
BY DEF TypeOK, SourceTyped, ItemsTyped, RunsTyped, RunType, Times, Never

\* A pair of the source is one of entities.
LEMMA PairsTyped ==
  /\ Posted \subseteq Users \X Subs /\ CoOccurring(Posted) \subseteq Subs \X Subs
  /\ Posted \cup CoOccurring(Posted) \subseteq Entities \X Entities
<1>1. Posted \subseteq Users \X Subs
  BY DEF Posted
<1>2. CoOccurring(Posted) \subseteq Subs \X Subs
  BY DEF CoOccurring
<1>3. Users \X Subs \subseteq Entities \X Entities /\ Subs \X Subs \subseteq Entities \X Entities
  BY DEF Entities
<1> QED BY <1>1, <1>2, <1>3

LEMMA OtherStepKeeps ==
  ASSUME KInv, UNCHANGED source, RunsTyped',
         \A p \in Procs : run'[p].start <= now /\ run'[p].since <= now,
         nodes' \in [Entities -> Nat],
         \A e \in Entities : nodes'[e] \in {nodes[e], 0} \/ \E p \in Procs : nodes'[e] = run[p].fetched[e],
         \A p \in Procs : \/ run'[p].fetched \in {run[p].fetched, Nothing}
                          \/ /\ \A u \in Users : run'[p].fetched[u] <= Total(u)
                             /\ \A s \in Subs : run'[p].fetched[s] <= row[s],
         links' \subseteq Posted \cup CoOccurring(Posted), activity' \subseteq Posted,
         related' \subseteq CoOccurring(Posted),
         last' \in Times \cup {Never}, last' <= now, counted' \in Nat,
         faults' \in 0 .. MaxFaults
  PROVE  KInv'
<1>0. TypeOK /\ SourceTyped /\ UNCHANGED items /\ row' = row /\ now' = now /\ profile' = profile
  BY TypedParts DEF KInv, source
<1>1. TypeOK'
  <2>1. SourceTyped'
    BY <1>0 DEF SourceTyped, ItemsTyped
  <2>2. links' \subseteq Entities \X Entities /\ activity' \subseteq Users \X Subs /\ related' \subseteq Subs \X Subs
    <3>1. Posted \cup CoOccurring(Posted) \subseteq Entities \X Entities
      BY PairsTyped
    <3>2. Posted \subseteq Users \X Subs /\ CoOccurring(Posted) \subseteq Subs \X Subs
      BY PairsTyped
    <3> QED BY <3>1, <3>2
  <2>3. run' \in [Procs -> [pc : PCs, start : Times, since : Times \cup {Never},
                        counted : Nat, full : BOOLEAN, fetched : [Entities -> Nat],
                        disturbed : BOOLEAN]]
    BY DEF RunsTyped, RunType
  <2> QED BY <2>1, <2>2, <2>3 DEF TypeOK, SourceTyped, ItemsTyped
<1>2. SourceDated' /\ RunsDated'
  BY <1>0 DEF KInv, SourceDated, RunsDated
<1>3. UsersGrounded'
  <2> SUFFICES ASSUME NEW u \in Users
               PROVE  /\ nodes'[u] <= Total(u)'
                      /\ \A p \in Procs : run'[p].fetched[u] <= Total(u)'
    BY DEF UsersGrounded
  <2>1. Total(u)' = Total(u) /\ Total(u) \in Nat /\ u \in Entities
    BY <1>0, SameCounts, CountsHold DEF CountsFit, SourceTyped, Entities
  <2>2. nodes[u] <= Total(u) /\ \A p \in Procs : run[p].fetched[u] <= Total(u)
    BY DEF KInv, GraphIsGrounded, UsersGrounded
  <2>3. Nothing[u] = 0
    BY <2>1 DEF Nothing
  <2>4. nodes'[u] <= Total(u)
    BY <2>1, <2>2
  <2>5. \A p \in Procs : run'[p].fetched[u] <= Total(u)
    BY <2>1, <2>2, <2>3
  <2> QED BY <2>1, <2>4, <2>5
<1>4. SubsGrounded'
  <2> SUFFICES ASSUME NEW s \in Subs
               PROVE  /\ nodes'[s] <= row'[s]
                      /\ \A p \in Procs : run'[p].fetched[s] <= row'[s]
    BY DEF SubsGrounded
  <2>1. row[s] \in Nat /\ s \in Entities
    BY <1>0, TypedParts DEF Entities
  <2>2. nodes[s] <= row[s] /\ \A p \in Procs : run[p].fetched[s] <= row[s]
    BY DEF KInv, GraphIsGrounded, SubsGrounded
  <2>3. Nothing[s] = 0
    BY <2>1 DEF Nothing
  <2>4. nodes'[s] <= row[s]
    BY <2>1, <2>2
  <2>5. \A p \in Procs : run'[p].fetched[s] <= row[s]
    BY <2>1, <2>2, <2>3
  <2> QED BY <1>0, <2>4, <2>5
<1>5. PairsGrounded'
  <2>1. Posted' = Posted
    BY <1>0 DEF Posted
  <2> QED BY <2>1 DEF PairsGrounded, CoOccurring
<1> QED BY <1>1, <1>2, <1>3, <1>4, <1>5 DEF KInv, GraphIsGrounded

\* The step of a run that writes no table, or of nothing at all.
LEMMA QuietKeeps ==
  ASSUME KInv, UNCHANGED <<source, graph, rels>>, RunsTyped',
         \A p \in Procs : run'[p].start <= now /\ run'[p].since <= now,
         \A p \in Procs : \/ run'[p].fetched \in {run[p].fetched, Nothing}
                          \/ /\ \A u \in Users : run'[p].fetched[u] <= Total(u)
                             /\ \A s \in Subs : run'[p].fetched[s] <= row[s],
         last' \in Times \cup {Never}, last' <= now, counted' \in Nat,
         faults' \in 0 .. MaxFaults
  PROVE  KInv'
<1>1. /\ nodes' \in [Entities -> Nat] /\ \A e \in Entities : nodes'[e] \in {nodes[e], 0}
      /\ links' \subseteq Posted \cup CoOccurring(Posted) /\ activity' \subseteq Posted
      /\ related' \subseteq CoOccurring(Posted) /\ UNCHANGED source
  BY DEF KInv, TypeOK, GraphIsGrounded, PairsGrounded, graph, rels
<1> QED BY <1>1, OtherStepKeeps

LEMMA MovesDated ==
  ASSUME KInv, NEW p \in Procs, NEW r \in RunType, NEW S, Moves(p, r, S),
         r.start <= now, r.since <= now
  PROVE  RunsTyped' /\ \A q \in Procs : run'[q].start <= now /\ run'[q].since <= now
BY DEF KInv, RunsDated, Moves, SameBut

LEMMA MovesFetched ==
  ASSUME NEW p \in Procs, NEW r, NEW S, Moves(p, r, S), r.fetched \in {run[p].fetched, Nothing}
  PROVE  \A q \in Procs : run'[q].fetched \in {run[q].fetched, Nothing}
BY DEF Moves, SameBut

LEMMA KeptState ==
  ASSUME KInv
  PROVE  /\ last \in Times \cup {Never} /\ last <= now /\ counted \in Nat
         /\ faults \in 0 .. MaxFaults
         /\ now \in Times /\ now \in Nat /\ Never <= now /\ 0 <= now
         /\ \A p \in Procs : run[p].start <= now /\ run[p].since <= now
BY TypedParts DEF KInv, TypeOK, RunsDated, Never

LEMMA CrawlKeeps == ASSUME KInv, Crawl PROVE KInv'
<1>0. TypeOK /\ SourceTyped /\ SourceDated /\ RunsTyped
  BY TypedParts DEF KInv
<1>1. /\ SourceTyped' /\ SourceDated' /\ Grows
      /\ UNCHANGED <<graph, rels, state, run, faults>>
  BY <1>0, CrawlGrows
<1>2. RunsTyped' /\ run' = run
  BY <1>0, <1>1 DEF RunsTyped
<1>3. now \in Nat /\ now' = now + 1
  BY <1>1, KeptState DEF Grows
<1>4. TypeOK'
  <2>1. run' \in [Procs -> [pc : PCs, start : Times, since : Times \cup {Never},
                        counted : Nat, full : BOOLEAN, fetched : [Entities -> Nat],
                        disturbed : BOOLEAN]]
    BY <1>2 DEF RunsTyped, RunType
  <2> QED BY <1>0, <1>1, <2>1 DEF TypeOK, SourceTyped, ItemsTyped, graph, rels, state
<1>5. RunsDated'
  <2>1. last \in Int /\ last <= now /\ last' = last
    BY <1>0, <1>1, KeptState DEF state, Times, Never
  <2>2. \A q \in Procs : run[q].start \in Int /\ run[q].since \in Int
    BY <1>0, TypedParts
  <2>3. \A q \in Procs : run[q].start <= now /\ run[q].since <= now
    BY KeptState
  <2>4. \A q \in Procs : run'[q].start = run[q].start /\ run'[q].since = run[q].since
    BY <1>2
  <2>5. \A q \in Procs : run'[q].start <= now' /\ run'[q].since <= now'
    BY <1>3, <2>2, <2>3, <2>4
  <2> QED BY <1>3, <2>1, <2>5 DEF RunsDated
<1>6. UsersGrounded'
  <2> SUFFICES ASSUME NEW u \in Users
               PROVE  /\ nodes'[u] <= Total(u)'
                      /\ \A p \in Procs : run'[p].fetched[u] <= Total(u)'
    BY DEF UsersGrounded
  <2>1. Total(u) <= Total(u)'
    BY <1>0, <1>1, GrowingCounts
  <2>2. Total(u) \in Nat /\ Total(u)' \in Nat
    <3>1. (ItemsTyped => CountsFit)'
      BY CountsHold, PTL
    <3> QED BY <1>0, <1>1, <3>1, CountsHold DEF SourceTyped, CountsFit
  <2>3. u \in Entities /\ nodes[u] \in Nat /\ \A p \in Procs : run[p].fetched[u] \in Nat
    BY <1>0, TypedParts DEF Entities
  <2>4. nodes[u] <= Total(u) /\ \A p \in Procs : run[p].fetched[u] <= Total(u)
    BY DEF KInv, GraphIsGrounded, UsersGrounded
  <2>5. nodes' = nodes /\ \A p \in Procs : run'[p].fetched = run[p].fetched
    BY <1>1, <1>2 DEF graph
  <2> QED BY <2>1, <2>2, <2>3, <2>4, <2>5
<1>7. SubsGrounded'
  <2> SUFFICES ASSUME NEW s \in Subs
               PROVE  /\ nodes'[s] <= row'[s]
                      /\ \A p \in Procs : run'[p].fetched[s] <= row'[s]
    BY DEF SubsGrounded
  <2>1. row[s] \in Nat /\ row[s] <= now /\ row'[s] \in {row[s], now + 1}
    BY <1>0, <1>1, TypedParts DEF SourceDated, Grows
  <2>3. s \in Entities /\ nodes[s] \in Nat /\ \A p \in Procs : run[p].fetched[s] \in Nat
    BY <1>0, TypedParts DEF Entities
  <2>4. nodes[s] <= row[s] /\ \A p \in Procs : run[p].fetched[s] <= row[s]
    BY DEF KInv, GraphIsGrounded, SubsGrounded
  <2>5. nodes' = nodes /\ \A p \in Procs : run'[p].fetched = run[p].fetched
    BY <1>1, <1>2 DEF graph
  <2> QED BY <1>3, <2>1, <2>3, <2>4, <2>5
<1>8. PairsGrounded'
  <2>1. Posted \subseteq Posted'
    BY <1>1 DEF Grows, Posted
  <2>2. CoOccurring(Posted) \subseteq CoOccurring(Posted)'
    BY <2>1 DEF CoOccurring
  <2> QED BY <1>1, <2>1, <2>2 DEF KInv, GraphIsGrounded, PairsGrounded, graph, rels
<1> QED BY <1>1, <1>4, <1>5, <1>6, <1>7, <1>8 DEF KInv, GraphIsGrounded

LEMMA FaultTyped == ASSUME TypeOK, Fault \/ NoFault PROVE faults' \in 0 .. MaxFaults
BY PrecalcAssumption DEF TypeOK, Fault, NoFault

LEMMA CleanupKeeps == ASSUME KInv, CleanupOrphanGraphNodes PROVE KInv'
<1>0. TypeOK /\ RunsTyped
  BY TypedParts DEF KInv
<1>1. RunsTyped' /\ \A q \in Procs : SameBut(q, TRUE)
  BY <1>0, DisturbIs DEF CleanupOrphanGraphNodes
<1>2. nodes' \in [Entities -> Nat] /\ \A e \in Entities : nodes'[e] \in {nodes[e], 0}
  <2>1. PICK S : nodes' = [e \in Entities |-> IF e \in S THEN 0 ELSE nodes[e]]
    BY DEF CleanupOrphanGraphNodes
  <2> QED BY <1>0, <2>1, TypedParts
<1>3. faults' \in 0 .. MaxFaults
  BY <1>0, FaultTyped DEF CleanupOrphanGraphNodes
<1>4. \A q \in Procs : /\ run'[q].start <= now /\ run'[q].since <= now
                       /\ run'[q].fetched \in {run[q].fetched, Nothing}
  BY <1>1, KeptState DEF SameBut
<1>5. /\ UNCHANGED source /\ links' = links /\ activity' = activity /\ related' = related
      /\ last' = last /\ counted' = counted
  BY DEF CleanupOrphanGraphNodes, rels, state
<1>6. /\ links' \subseteq Posted \cup CoOccurring(Posted) /\ activity' \subseteq Posted
      /\ related' \subseteq CoOccurring(Posted)
  BY <1>5 DEF KInv, GraphIsGrounded, PairsGrounded
<1>7. last' \in Times \cup {Never} /\ last' <= now /\ counted' \in Nat
  BY <1>5, KeptState
<1> QED BY <1>1, <1>2, <1>3, <1>4, <1>5, <1>6, <1>7, OtherStepKeeps

LEMMA GoesToDated ==
  ASSUME KInv, NEW p \in Procs, NEW to, NEW S, GoesTo(p, to, S)
  PROVE  /\ RunsTyped' /\ \A q \in Procs : run'[q].start <= now /\ run'[q].since <= now
         /\ \A q \in Procs : run'[q].fetched \in {run[q].fetched, Nothing}
<1>1. PICK r \in RunType :
        /\ r.start = run[p].start /\ r.since = run[p].since /\ r.fetched = run[p].fetched
        /\ Moves(p, r, S)
  BY DEF GoesTo
<1>2. r.start <= now /\ r.since <= now
  BY <1>1, KeptState
<1> QED BY <1>1, <1>2, MovesDated, MovesFetched

LEMMA RunStepKeeps == ASSUME KInv, NEW p \in Procs, RunStep(p) PROVE KInv'
<1>0. TypeOK /\ RunsTyped
  BY TypedParts DEF KInv
<1>k. /\ last \in Times \cup {Never} /\ last <= now /\ counted \in Nat
      /\ faults \in 0 .. MaxFaults /\ Never <= now /\ 0 <= now
      /\ \A q \in Procs : run[q].start <= now /\ run[q].since <= now
  BY KeptState
<1>g. /\ links \subseteq Posted \cup CoOccurring(Posted) /\ activity \subseteq Posted
      /\ related \subseteq CoOccurring(Posted) /\ nodes \in [Entities -> Nat]
  BY <1>0, TypedParts DEF KInv, GraphIsGrounded, PairsGrounded
<1>1. CASE Count(p)
  <2>1. CountRun(p) /\ UNCHANGED <<source, graph, rels, state>> /\ faults' \in 0 .. MaxFaults
    BY <1>0, <1>1, CountIs
  <2>2. PICK r \in RunType : /\ r.start = run[p].start /\ r.fetched = run[p].fetched
                             /\ r.since \in {Never, run[p].since} /\ Moves(p, r, FALSE)
    BY <2>1 DEF CountRun
  <2>3. r.start <= now /\ r.since <= now
    BY <1>k, <2>2
  <2>4. /\ RunsTyped' /\ \A q \in Procs : run'[q].start <= now /\ run'[q].since <= now
        /\ \A q \in Procs : run'[q].fetched \in {run[q].fetched, Nothing}
    BY <2>2, <2>3, MovesDated, MovesFetched
  <2> QED BY <1>k, <2>1, <2>4, QuietKeeps DEF state
<1>2. CASE Clear(p)
  <2>1. GoesTo(p, "fetchUsers", FALSE)
    BY <1>0, <1>2, GotoIs DEF Clear, PCs
  <2>2. /\ RunsTyped' /\ \A q \in Procs : run'[q].start <= now /\ run'[q].since <= now
        /\ \A q \in Procs : run'[q].fetched \in {run[q].fetched, Nothing}
    BY <2>1, GoesToDated
  <2>3. nodes' \in [Entities -> Nat] /\ \A e \in Entities : nodes'[e] \in {nodes[e], 0}
    BY <1>2 DEF Clear, Nothing
  <2>4. UNCHANGED <<source, activity, related, last, counted, faults>> /\ links' = {}
    BY <1>2 DEF Clear, rels, state
  <2> QED BY <1>k, <1>g, <2>2, <2>3, <2>4, OtherStepKeeps
<1>3. CASE FetchUsers(p)
  <2>1. PICK f \in [Entities -> Nat] :
              /\ FetchRun(p, "fetchUsers", "fetchSubs", f)
              /\ \A u \in Users : f[u] = FetchedUser(u, run[p].full, run[p].since)
              /\ \A s \in Subs : f[s] = 0
    BY <1>0, <1>3, FetchUsersIs
  <2>2. PICK r \in RunType : /\ r.start = run[p].start /\ r.since = run[p].since
                             /\ r.fetched = f /\ Moves(p, r, FALSE)
    BY <2>1 DEF FetchRun
  <2>3. r.start <= now /\ r.since <= now
    BY <1>k, <2>2
  <2>4. RunsTyped' /\ \A q \in Procs : run'[q].start <= now /\ run'[q].since <= now
    BY <2>2, <2>3, MovesDated
  <2>5. (\A u \in Users : f[u] <= Total(u)) /\ \A s \in Subs : f[s] <= row[s]
    <3>1. \A u \in Users : /\ Total(u) \in Nat
                           /\ \A t : Recent(u, t) \in Nat /\ Recent(u, t) <= Total(u)
      BY <1>0, CountsHold, TypedParts DEF CountsFit, SourceTyped
    <3>2. \A s \in Subs : row[s] \in Nat
      BY <1>0, TypedParts
    <3> QED BY <2>1, <3>1, <3>2 DEF FetchedUser
  <2>6. \A q \in Procs : \/ run'[q].fetched \in {run[q].fetched, Nothing}
                         \/ /\ \A u \in Users : run'[q].fetched[u] <= Total(u)
                            /\ \A s \in Subs : run'[q].fetched[s] <= row[s]
    BY <2>2, <2>5 DEF Moves, SameBut
  <2> QED BY <1>k, <1>3, <2>4, <2>6, QuietKeeps DEF FetchUsers, state
<1>4. CASE FetchSubs(p)
  <2>1. PICK f \in [Entities -> Nat] :
              /\ FetchRun(p, "fetchSubs", "upsert", f)
              /\ \A u \in Users : f[u] = run[p].fetched[u]
              /\ \A s \in Subs : f[s] = FetchedSub(s, run[p].full, run[p].since)
    BY <1>0, <1>4, FetchSubsIs
  <2>2. PICK r \in RunType : /\ r.start = run[p].start /\ r.since = run[p].since
                             /\ r.fetched = f /\ Moves(p, r, FALSE)
    BY <2>1 DEF FetchRun
  <2>3. r.start <= now /\ r.since <= now
    BY <1>k, <2>2
  <2>4. RunsTyped' /\ \A q \in Procs : run'[q].start <= now /\ run'[q].since <= now
    BY <2>2, <2>3, MovesDated
  <2>5. (\A u \in Users : f[u] <= Total(u)) /\ \A s \in Subs : f[s] <= row[s]
    <3>1. \A u \in Users : run[p].fetched[u] <= Total(u)
      BY DEF KInv, GraphIsGrounded, UsersGrounded
    <3>2. \A s \in Subs : row[s] \in Nat
      BY <1>0, TypedParts
    <3> QED BY <2>1, <3>1, <3>2 DEF FetchedSub
  <2>6. \A q \in Procs : \/ run'[q].fetched \in {run[q].fetched, Nothing}
                         \/ /\ \A u \in Users : run'[q].fetched[u] <= Total(u)
                            /\ \A s \in Subs : run'[q].fetched[s] <= row[s]
    BY <2>2, <2>5 DEF Moves, SameBut
  <2> QED BY <1>k, <1>4, <2>4, <2>6, QuietKeeps DEF FetchSubs, state
<1>5. CASE Upsert(p)
  <2>1. /\ UpsertRun(p) /\ nodes' \in [Entities -> Nat]
        /\ \A e \in Entities : nodes'[e] = IF run[p].fetched[e] # 0 THEN run[p].fetched[e] ELSE nodes[e]
        /\ UNCHANGED <<links, source, rels, state, faults>>
    BY <1>0, <1>5, UpsertIs
  <2>2. PICK r \in RunType : /\ r.start = run[p].start /\ r.fetched = Nothing
                             /\ r.since = run[p].since /\ Moves(p, r, FALSE)
    BY <2>1 DEF UpsertRun
  <2>3. r.start <= now /\ r.since <= now
    BY <1>k, <2>2
  <2>4. /\ RunsTyped' /\ \A q \in Procs : run'[q].start <= now /\ run'[q].since <= now
        /\ \A q \in Procs : run'[q].fetched \in {run[q].fetched, Nothing}
    BY <2>2, <2>3, MovesDated, MovesFetched
  <2>5. \A e \in Entities : nodes'[e] \in {nodes[e], 0} \/ \E q \in Procs : nodes'[e] = run[q].fetched[e]
    BY <2>1
  <2>6. UNCHANGED <<source, links, activity, related, last, counted, faults>>
    BY <2>1 DEF rels, state
  <2> QED BY <1>k, <1>g, <2>1, <2>4, <2>5, <2>6, OtherStepKeeps
<1>6. CASE ClearActivity(p)
  <2>1. GoesTo(p, "buildActivity", FALSE)
    BY <1>0, <1>6, GotoIs DEF ClearActivity, PCs
  <2>2. /\ RunsTyped' /\ \A q \in Procs : run'[q].start <= now /\ run'[q].since <= now
        /\ \A q \in Procs : run'[q].fetched \in {run[q].fetched, Nothing}
    BY <2>1, GoesToDated
  <2>3. UNCHANGED <<source, nodes, links, related, last, counted, faults>> /\ activity' = {}
    BY <1>6 DEF ClearActivity, graph, state
  <2>4. nodes' \in [Entities -> Nat] /\ \A e \in Entities : nodes'[e] \in {nodes[e], 0}
    BY <1>g, <2>3
  <2> QED BY <1>k, <1>g, <2>2, <2>3, <2>4, OtherStepKeeps
<1>7. CASE BuildActivity(p) \/ Relate(p) \/ Link(p)
  <2>1. \E to \in PCs : \E S : GoesTo(p, to, S)
    <3>1. CASE BuildActivity(p)
      BY <1>0, <3>1, GotoInsertedIs DEF BuildActivity, PCs
    <3>2. CASE Relate(p)
      BY <1>0, <3>2, GotoInsertedIs DEF Relate, PCs
    <3>3. CASE Link(p)
      BY <1>0, <3>3, GotoInsertedIs DEF Link, PCs
    <3> QED BY <1>7, <3>1, <3>2, <3>3
  <2>2. /\ RunsTyped' /\ \A q \in Procs : run'[q].start <= now /\ run'[q].since <= now
        /\ \A q \in Procs : run'[q].fetched \in {run[q].fetched, Nothing}
    BY <2>1, GoesToDated
  <2>3. UNCHANGED <<source, nodes, last, counted>> /\ faults' \in 0 .. MaxFaults
    BY <1>0, <1>7, FaultTyped DEF BuildActivity, Relate, Link, GotoInserted, graph, state
  <2>4. nodes' \in [Entities -> Nat] /\ \A e \in Entities : nodes'[e] \in {nodes[e], 0}
    BY <1>g, <2>3
  <2>5. CoOccurring(activity) \subseteq CoOccurring(Posted)
    BY <1>g DEF CoOccurring
  <2>6. /\ links' \subseteq Posted \cup CoOccurring(Posted) /\ activity' \subseteq Posted
        /\ related' \subseteq CoOccurring(Posted)
    <3>1. CASE BuildActivity(p)
      BY <1>g, <3>1 DEF BuildActivity, graph
    <3>2. CASE Relate(p)
      BY <1>g, <2>5, <3>2 DEF Relate, graph
    <3>3. CASE Link(p)
      BY <1>g, <3>3 DEF Link, Linkable, rels
    <3> QED BY <1>7, <3>1, <3>2, <3>3
  <2> QED BY <1>k, <2>2, <2>3, <2>4, <2>6, OtherStepKeeps
<1>8. CASE Finish(p)
  <2>1. GoesTo(p, "deferred", FALSE)
    BY <1>0, <1>8, GotoIs DEF Finish, PCs
  <2>2. /\ RunsTyped' /\ \A q \in Procs : run'[q].start <= now /\ run'[q].since <= now
        /\ \A q \in Procs : run'[q].fetched \in {run[q].fetched, Nothing}
    BY <2>1, GoesToDated
  <2>3. UNCHANGED <<source, graph, rels>> /\ faults' \in 0 .. MaxFaults
    BY <1>0, <1>8, FaultTyped DEF Finish, SetState
  <2>4. last' \in {last, run[p].start} /\ counted' \in Nat
    <3>1. IsFiniteSet(Entities) /\ IsFiniteSet(Entities \X Entities)
      BY PrecalcAssumption, FS_Union, FS_Product DEF Entities
    <3>2. Cardinality({e \in Entities : nodes[e] # 0}) \in Nat
      BY <3>1, FS_Subset, FS_CardinalityType
    <3>3. links \subseteq Entities \X Entities
      BY <1>0 DEF TypeOK
    <3>4. Cardinality(links) \in Nat
      BY <3>1, <3>3, FS_Subset, FS_CardinalityType
    <3> QED BY <1>k, <1>8, <3>2, <3>4 DEF Finish, SetState, state
  <2>5. run[p].start \in Times
    BY <1>0 DEF RunsTyped, RunType
  <2> QED BY <1>k, <2>2, <2>3, <2>4, <2>5, QuietKeeps
<1>9. CASE Deferred(p)
  <2>1. /\ EndsAs(p, "idle", FALSE)
        /\ last' \in {last, now} /\ counted' \in Nat /\ faults' \in 0 .. MaxFaults
        /\ UNCHANGED <<source, graph, rels>>
    BY <1>0, <1>9, DeferredIs
  <2>2. PICK r \in RunType : r.start = 0 /\ r.since = Never /\ r.fetched = Nothing /\ Moves(p, r, FALSE)
    BY <2>1 DEF EndsAs
  <2>3. r.start <= now /\ r.since <= now
    BY <1>k, <2>2
  <2>4. /\ RunsTyped' /\ \A q \in Procs : run'[q].start <= now /\ run'[q].since <= now
        /\ \A q \in Procs : run'[q].fetched \in {run[q].fetched, Nothing}
    BY <2>2, <2>3, MovesDated, MovesFetched
  <2>5. now \in Times /\ now <= now
    BY KeptState
  <2> QED BY <1>k, <2>1, <2>4, <2>5, QuietKeeps
<1> QED BY <1>1, <1>2, <1>3, <1>4, <1>5, <1>6, <1>7, <1>8, <1>9 DEF RunStep

LEMMA StartKeeps == ASSUME KInv, NEW p \in Procs, NEW flag, Start(p, flag) PROVE KInv'
<1>0. TypeOK /\ RunsTyped
  BY TypedParts DEF KInv
<1>k. /\ last \in Times \cup {Never} /\ last <= now /\ counted \in Nat
      /\ Never <= now /\ now <= now
  BY KeptState
<1>1. StartRun(p, flag) /\ UNCHANGED <<source, graph, rels, state>> /\ faults' \in 0 .. MaxFaults
  BY <1>0, StartIs
<1>2. PICK r \in RunType : /\ r.start = now /\ r.fetched = Nothing
                           /\ r.since \in {Never, last} /\ Moves(p, r, TRUE)
  BY <1>1 DEF StartRun
<1>3. r.start <= now /\ r.since <= now
  BY <1>k, <1>2
<1>4. /\ RunsTyped' /\ \A q \in Procs : run'[q].start <= now /\ run'[q].since <= now
      /\ \A q \in Procs : run'[q].fetched \in {run[q].fetched, Nothing}
  BY <1>2, <1>3, MovesDated, MovesFetched
<1> QED BY <1>k, <1>1, <1>4, QuietKeeps DEF state

LEMMA EndKeeps == ASSUME KInv, NEW p \in Procs, Fail(p) \/ Crash(p) PROVE KInv'
<1>0. TypeOK /\ RunsTyped
  BY TypedParts DEF KInv
<1>k. /\ last \in Times \cup {Never} /\ last <= now /\ counted \in Nat
      /\ Never <= now /\ 0 <= now
  BY KeptState
<1>1. /\ \E pc, D : EndsAs(p, pc, D)
      /\ UNCHANGED <<source, graph, rels, state>> /\ faults' \in 0 .. MaxFaults
  BY <1>0, FailIs, CrashIs
<1>2. PICK r \in RunType : \E T : /\ r.start = 0 /\ r.since = Never /\ r.fetched = Nothing
                                  /\ Moves(p, r, T)
  BY <1>1 DEF EndsAs
<1>3. r.start <= now /\ r.since <= now
  BY <1>k, <1>2
<1>4. /\ RunsTyped' /\ \A q \in Procs : run'[q].start <= now /\ run'[q].since <= now
      /\ \A q \in Procs : run'[q].fetched \in {run[q].fetched, Nothing}
  BY <1>2, <1>3, MovesDated, MovesFetched
<1> QED BY <1>k, <1>1, <1>4, QuietKeeps DEF state

LEMMA InitKInv == Init => KInv
<1> SUFFICES ASSUME Init PROVE KInv
  OBVIOUS
<1>1. 0 \in Times /\ 0 \in 0 .. MaxFaults
  BY PrecalcAssumption DEF Times
<1>2. RunsTyped /\ \A p \in Procs : run[p].fetched = Nothing /\ run[p].start = 0 /\ run[p].since = Never
  <2>1. NoRun.fetched = Nothing /\ NoRun.start = 0 /\ NoRun.since = Never
    BY DEF NoRun
  <2> QED BY <2>1, NoRunTyped DEF Init, RunsTyped
<1>3. SourceTyped /\ SourceDated
  BY <1>1 DEF Init, SourceTyped, ItemsTyped, SourceDated
<1>4. nodes = Nothing /\ Nothing \in [Entities -> Nat] /\ \A e \in Entities : Nothing[e] = 0
  BY DEF Init, Nothing
<1>5. TypeOK
  <2>1. run \in [Procs -> [pc : PCs, start : Times, since : Times \cup {Never},
                        counted : Nat, full : BOOLEAN, fetched : [Entities -> Nat],
                        disturbed : BOOLEAN]]
    BY <1>2 DEF RunsTyped, RunType
  <2> QED BY <1>1, <1>3, <1>4, <2>1 DEF Init, TypeOK, SourceTyped, ItemsTyped
<1>6. RunsDated
  BY <1>2 DEF Init, RunsDated, Never
<1>7. UsersGrounded /\ SubsGrounded
  <2>1. \A u \in Users : Total(u) \in Nat /\ u \in Entities
    BY <1>3, CountsHold DEF SourceTyped, CountsFit, Entities
  <2>2. \A s \in Subs : row[s] = 0 /\ s \in Entities
    BY DEF Init, Entities
  <2> QED BY <1>2, <1>4, <2>1, <2>2 DEF UsersGrounded, SubsGrounded
<1>8. PairsGrounded
  BY DEF Init, PairsGrounded
<1> QED BY <1>3, <1>5, <1>6, <1>7, <1>8 DEF KInv, GraphIsGrounded

LEMMA StepKInv == KInv /\ [Next]_vars => KInv'
<1> SUFFICES ASSUME KInv, [Next]_vars PROVE KInv'
  OBVIOUS
<1>1. CASE UNCHANGED vars
  <2>1. /\ last \in Times \cup {Never} /\ last <= now /\ counted \in Nat
        /\ faults \in 0 .. MaxFaults
        /\ \A q \in Procs : run[q].start <= now /\ run[q].since <= now
    BY KeptState
  <2>2. RunsTyped' /\ run' = run /\ UNCHANGED <<source, graph, rels, last, counted, faults>>
    BY <1>1, TypedParts DEF KInv, RunsTyped, vars, state
  <2> QED BY <2>1, <2>2, QuietKeeps
<1> QED BY <1>1, CrawlKeeps, CleanupKeeps, StartKeeps, RunStepKeeps, EndKeeps DEF Next

\* service.go: no node is shown with a value its row never had, no user with
\* more than there ever was, and no link joins what shares nothing.
THEOREM GraphAlwaysGrounded == Spec => []GraphIsGrounded
<1>1. KInv => GraphIsGrounded
  BY DEF KInv
<1> QED BY InitKInv, StepKInv, <1>1, PTL DEF Spec

-----------------------------------------------------------------------------
(* A run that is alone loses nothing of what it was to find.               *)

After(p) == run[p].pc \in {"clearActivity", "buildActivity", "relate", "link", "finish", "deferred"}

\* f has the rows written after b and up to t, and the counts of the users; R
\* the pairs up to t; L those of them that nodes N allow.  When b is Never,
\* every subreddit with something posted up to t has a value.
HasRows(f, b, t) ==
  \A s \in Subs : /\ row[s] # 0 /\ row[s] \in b + 1 .. t => f[s] = row[s]
                  /\ \A u \in Users : b = Never /\ (\E x \in items[<<u, s>>] : x <= t) => f[s] # 0
HasUsers(f, b, t) == \A u \in Users : f[u] >= Due(u, b, t)
HasPairs(R, t)    == \A us \in Users \X Subs : (\E x \in items[us] : x <= t) => us \in R
HasLinks(L, N, t) ==
  \A us \in Users \X Subs :
     (\E x \in items[us] : x <= t) /\ N[us[1]] # 0 /\ N[us[2]] # 0 => us \in L

Covers(p) ==
  /\ run[p].pc \in {"fetchSubs", "upsert"} => HasUsers(run[p].fetched, run[p].since, run[p].start)
  /\ run[p].pc = "upsert" => HasRows(run[p].fetched, run[p].since, run[p].start)
  /\ After(p) => HasRows(nodes, run[p].since, run[p].start) /\ HasUsers(nodes, run[p].since, run[p].start)
  /\ run[p].pc \in {"relate", "link"} => HasPairs(activity, run[p].start)
  /\ run[p].pc \in {"finish", "deferred"} => HasLinks(links, nodes, run[p].start)

ByItself(p) == \A q \in Procs \ {p} : Idle(q)

\* A full run has no cutoff, an incremental one does.
CutoffFits(r) == (r.full => r.since = Never) /\ (~r.full => r.since # Never)

CoverInv == \A p \in Procs : ~Idle(p) /\ ~run[p].disturbed =>
               ByItself(p) /\ CutoffFits(run[p]) /\ Covers(p)

\* Writes keep what is covered covered.
LEMMA WritesCovered ==
  ASSUME SourceTyped, SourceTyped', Grows, NEW f \in [Entities -> Nat], NEW R, NEW b \in Int,
         NEW t \in Int, t <= now
  PROVE  /\ HasRows(f, b, t) => HasRows(f, b, t)'
         /\ HasUsers(f, b, t) => HasUsers(f, b, t)'
         /\ HasPairs(R, t) => HasPairs(R, t)'
         /\ HasLinks(R, f, t) => HasLinks(R, f, t)'
<1>1. now \in Int /\ Users \subseteq Entities
  BY DEF SourceTyped, Times, Entities
<1>2. \A us \in Users \X Subs : \A x \in items'[us] : x <= t => x \in items[us]
  BY <1>1 DEF Grows
<1>3. \A s \in Subs : row'[s] \in b + 1 .. t => row'[s] = row[s]
  BY <1>1 DEF Grows
<1>4. HasRows(f, b, t) => HasRows(f, b, t)'
  BY <1>2, <1>3 DEF HasRows
<1>5. HasPairs(R, t) => HasPairs(R, t)'
  BY <1>2 DEF HasPairs
<1>6. ASSUME HasUsers(f, b, t) PROVE HasUsers(f, b, t)'
  <2> SUFFICES ASSUME NEW u \in Users PROVE f[u] >= Due(u, b, t)'
    BY DEF HasUsers
  <2>1. Due(u, b, t)' <= Due(u, b, t)
    BY GrowingCounts
  <2>2. f[u] \in Int /\ Due(u, b, t) \in Int /\ Due(u, b, t)' \in Int
    <3>1. CountsFit'
      <4>1. (ItemsTyped => CountsFit)'
        BY CountsHold, PTL
      <4> QED BY <4>1 DEF SourceTyped
    <3>2. CountsFit
      BY CountsHold DEF SourceTyped
    <3>3. Due(u, b, t) \in Nat
      BY <3>2 DEF CountsFit
    <3>4. Due(u, b, t)' \in Nat
      BY <3>1 DEF CountsFit
    <3> QED BY <1>1, <3>3, <3>4
  <2>3. f[u] >= Due(u, b, t)
    BY <1>6 DEF HasUsers
  <2> QED BY <2>1, <2>2, <2>3
<1>7. HasLinks(R, f, t) => HasLinks(R, f, t)'
  BY <1>2 DEF HasLinks
<1> QED BY <1>4, <1>5, <1>6, <1>7

LEMMA AllUncovered ==
  ASSUME \A q \in Procs : run'[q].pc # "idle" => run'[q].disturbed
  PROVE  CoverInv'
BY DEF CoverInv, Idle

LEMMA CrawlCover == ASSUME KInv, CoverInv, Crawl PROVE CoverInv'
<1>0. SourceTyped /\ SourceDated /\ nodes \in [Entities -> Nat]
      /\ \A p \in Procs : /\ run[p].fetched \in [Entities -> Nat]
                          /\ run[p].start \in Int /\ run[p].start <= now /\ run[p].since \in Int
  <2>1. TypeOK
    BY DEF KInv
  <2> QED BY <2>1, TypedParts, KeptState DEF KInv
<1>1. /\ SourceTyped' /\ Grows /\ run' = run
      /\ nodes' = nodes /\ links' = links /\ activity' = activity
  BY <1>0, CrawlGrows DEF graph, rels
<1> SUFFICES ASSUME NEW p \in Procs, run[p].pc # "idle", ~run[p].disturbed
             PROVE  ByItself(p)' /\ CutoffFits(run'[p]) /\ Covers(p)'
  BY <1>1 DEF CoverInv, Idle, CutoffFits
<1>2. ByItself(p) /\ CutoffFits(run[p]) /\ Covers(p)
  BY DEF CoverInv, Idle
<1>3. ByItself(p)' /\ CutoffFits(run'[p])
  BY <1>1, <1>2 DEF ByItself, Idle
<1>4. PICK b \in Int, t \in Int : b = run[p].since /\ t = run[p].start /\ t <= now
  BY <1>0
<1>5. PICK f \in [Entities -> Nat] : f = run[p].fetched
  BY <1>0
<1>6. PICK n \in [Entities -> Nat] : n = nodes /\ n = nodes'
  BY <1>0, <1>1
<1>7. PICK A, L : A = activity /\ A = activity' /\ L = links /\ L = links'
  BY <1>1
<1>8. /\ (HasUsers(f, b, t) => HasUsers(f, b, t)') /\ (HasRows(f, b, t) => HasRows(f, b, t)')
      /\ (HasUsers(n, b, t) => HasUsers(n, b, t)') /\ (HasRows(n, b, t) => HasRows(n, b, t)')
      /\ (HasPairs(A, t) => HasPairs(A, t)') /\ (HasLinks(L, n, t) => HasLinks(L, n, t)')
  BY <1>0, <1>1, <1>4, WritesCovered
<1>9. /\ run[p].pc \in {"fetchSubs", "upsert"} => HasUsers(f, b, t)
      /\ run[p].pc = "upsert" => HasRows(f, b, t)
      /\ After(p) => HasRows(n, b, t) /\ HasUsers(n, b, t)
      /\ run[p].pc \in {"relate", "link"} => HasPairs(A, t)
      /\ run[p].pc \in {"finish", "deferred"} => HasLinks(L, n, t)
  BY <1>2, <1>4, <1>5, <1>6, <1>7 DEF Covers
<1>10. Covers(p)'
  <2>1. After(p)' = After(p)
    BY <1>1 DEF After
  <2>2. /\ run'[p].pc \in {"fetchSubs", "upsert"} => HasUsers(f, b, t)'
        /\ run'[p].pc = "upsert" => HasRows(f, b, t)'
        /\ After(p)' => HasRows(n, b, t)' /\ HasUsers(n, b, t)'
        /\ run'[p].pc \in {"relate", "link"} => HasPairs(A, t)'
        /\ run'[p].pc \in {"finish", "deferred"} => HasLinks(L, n, t)'
    BY <1>1, <1>8, <1>9, <2>1
  <2> QED BY <1>1, <1>4, <1>5, <1>6, <1>7, <2>2 DEF Covers, HasRows, HasUsers, HasPairs, HasLinks
<1> QED BY <1>3, <1>10

\* What p must have after its step to r, in terms of the state before.
CoversAs(r, N, A, L) ==
  /\ r.pc \in {"fetchSubs", "upsert"} => HasUsers(r.fetched, r.since, r.start)
  /\ r.pc = "upsert" => HasRows(r.fetched, r.since, r.start)
  /\ r.pc \in {"clearActivity", "buildActivity", "relate", "link", "finish", "deferred"}
       => HasRows(N, r.since, r.start) /\ HasUsers(N, r.since, r.start)
  /\ r.pc \in {"relate", "link"} => HasPairs(A, r.start)
  /\ r.pc \in {"finish", "deferred"} => HasLinks(L, N, r.start)

LEMMA CoversNext ==
  ASSUME UNCHANGED source, NEW p \in Procs, NEW r, run'[p] = r, NEW N, N = nodes',
         NEW A, A = activity', NEW L, L = links', CoversAs(r, N, A, L)
  PROVE  Covers(p)'
<1>1. items' = items /\ row' = row
  BY DEF source
<1>2. \A u : Due(u, r.since, r.start)' = Due(u, r.since, r.start)
  BY <1>1, SameCounts
<1> QED BY <1>1, <1>2 DEF CoversAs, Covers, After, HasRows, HasUsers, HasPairs, HasLinks

\* A step of p that disturbs nothing.
LEMMA StepCover ==
  ASSUME CoverInv, NEW p \in Procs, NEW r \in RunType, Moves(p, r, FALSE), run[p].pc # "idle",
         UNCHANGED source, ~r.disturbed => ~run[p].disturbed,
         ~r.disturbed => CutoffFits(r) /\ CoversAs(r, nodes', activity', links')
  PROVE  CoverInv'
<1> SUFFICES ASSUME NEW q \in Procs, run'[q].pc # "idle", ~run'[q].disturbed
             PROVE  ByItself(q)' /\ CutoffFits(run'[q]) /\ Covers(q)'
  BY DEF CoverInv, Idle, CutoffFits
<1>1. run[q].pc # "idle" /\ ~run[q].disturbed
  BY DEF Moves, SameBut
<1>2. ByItself(q)
  BY <1>1 DEF CoverInv, Idle
<1>3. q = p
  BY <1>2 DEF ByItself, Idle
<1>4. ByItself(q)'
  BY <1>2, <1>3 DEF ByItself, Moves, SameBut, Idle
<1>5. run'[q] = r
  BY <1>3 DEF Moves
<1>6. PICK N, A, L : N = nodes' /\ A = activity' /\ L = links'
  OBVIOUS
<1>7. CoversAs(r, N, A, L) /\ CutoffFits(run'[q])
  BY <1>5, <1>6
<1>8. Covers(q)'
  BY <1>3, <1>5, <1>6, <1>7, CoversNext
<1> QED BY <1>4, <1>7, <1>8

\* What p had.
LEMMA CoveredBefore ==
  ASSUME CoverInv, NEW p \in Procs, run[p].pc # "idle", ~run[p].disturbed
  PROVE  CutoffFits(run[p]) /\ Covers(p)
BY DEF CoverInv, Idle

LEMMA StartCover == ASSUME KInv, CoverInv, NEW p \in Procs, NEW flag, Start(p, flag) PROVE CoverInv'
<1>0. TypeOK
  BY DEF KInv
<1>1. StartRun(p, flag)
  BY <1>0, StartIs
<1>2. PICK r \in RunType :
        /\ run[p].pc = "idle" /\ (~r.disturbed => \A q \in Procs : Idle(q))
        /\ \/ r.pc = "clear" /\ r.full /\ r.since = Never
           \/ r.pc = "count" /\ ~r.full /\ r.since # Never
        /\ Moves(p, r, TRUE)
  BY <1>1 DEF StartRun, Idle
<1>3. (\A q \in Procs \ {p} : SameBut(q, TRUE)) /\ run'[p] = r
  BY <1>2 DEF Moves
<1>4. CASE r.disturbed
  BY <1>3, <1>4, AllUncovered DEF SameBut
<1>5. CASE ~r.disturbed
  <2>1. \A q \in Procs \ {p} : run'[q].pc = "idle"
    BY <1>2, <1>3, <1>5 DEF SameBut, Idle
  <2>2. CutoffFits(run'[p])
    BY <1>2, <1>3 DEF CutoffFits
  <2>3. Covers(p)'
    BY <1>2, <1>3 DEF Covers, After
  <2>4. ByItself(p)'
    BY <2>1 DEF ByItself, Idle
  <2> QED BY <2>1, <2>2, <2>3, <2>4 DEF CoverInv, Idle, CutoffFits
<1> QED BY <1>4, <1>5

LEMMA EndCover ==
  ASSUME KInv, CoverInv, NEW p \in Procs, Fail(p) \/ Crash(p) \/ Deferred(p)
  PROVE  CoverInv'
<1>0. TypeOK
  BY DEF KInv
<1>1. CASE Fail(p) \/ Crash(p)
  <2>1. PICK r \in RunType : (r.pc = "idle" \/ r.disturbed) /\ Moves(p, r, TRUE)
    BY <1>0, <1>1, FailIs, CrashIs DEF EndsAs
  <2> QED BY <2>1, AllUncovered DEF Moves, SameBut
<1>2. CASE Deferred(p)
  <2>1. run[p].pc = "deferred" /\ EndsAs(p, "idle", FALSE)
    BY <1>0, <1>2, DeferredIs
  <2>2. PICK r \in RunType : r.pc = "idle" /\ Moves(p, r, FALSE)
    BY <2>1 DEF EndsAs
  <2>3. \A q \in Procs : ~(run'[q].pc # "idle" /\ ~run'[q].disturbed)
    <3> SUFFICES ASSUME NEW q \in Procs, run'[q].pc # "idle", ~run'[q].disturbed PROVE FALSE
      OBVIOUS
    <3>1. q # p /\ run[q].pc # "idle" /\ ~run[q].disturbed
      BY <2>2 DEF Moves, SameBut
    <3>2. ByItself(q)
      BY <3>1 DEF CoverInv, Idle
    <3> QED BY <2>1, <3>1, <3>2 DEF ByItself, Idle
  <2> QED BY <2>3, AllUncovered
<1> QED BY <1>1, <1>2

LEMMA CleanupCover == ASSUME KInv, CleanupOrphanGraphNodes PROVE CoverInv'
<1>1. \A q \in Procs : SameBut(q, TRUE)
  BY DisturbIs, TypedParts DEF KInv, CleanupOrphanGraphNodes
<1> QED BY <1>1, AllUncovered DEF SameBut

\* The steps before the nodes are written.
LEMMA FetchCover ==
  ASSUME KInv, CoverInv, NEW p \in Procs,
         Count(p) \/ Clear(p) \/ FetchUsers(p) \/ FetchSubs(p)
  PROVE  CoverInv'
<1>0. TypeOK /\ RunsTyped /\ SourceDated /\ SourceTyped
  BY TypedParts DEF KInv
<1>1. CASE Count(p)
  <2>1. CountRun(p) /\ UNCHANGED source
    BY <1>0, <1>1, CountIs
  <2>2. PICK r \in RunType :
        /\ run[p].pc = "count" /\ r.disturbed = run[p].disturbed
        /\ \/ r.pc = "clear" /\ r.full /\ r.since = Never
           \/ r.pc = "fetchUsers" /\ r.full = run[p].full /\ r.since = run[p].since
        /\ Moves(p, r, FALSE)
    BY <2>1 DEF CountRun
  <2>3. ~r.disturbed => CutoffFits(r)
    <3>1. CASE r.pc = "clear" /\ r.full /\ r.since = Never
      BY <3>1 DEF CutoffFits
    <3>2. CASE r.full = run[p].full /\ r.since = run[p].since
      BY <2>2, <3>2, CoveredBefore DEF CutoffFits
    <3> QED BY <2>2, <3>1, <3>2
  <2>4. CoversAs(r, nodes', activity', links')
    BY <2>2 DEF CoversAs
  <2> QED BY <2>1, <2>2, <2>3, <2>4, StepCover
<1>2. CASE Clear(p)
  <2>1. run[p].pc = "clear" /\ GoesTo(p, "fetchUsers", FALSE) /\ UNCHANGED source
    BY <1>0, <1>2, GotoIs DEF Clear, PCs
  <2>2. PICK r \in RunType :
        /\ r.pc = "fetchUsers" /\ r.full = run[p].full /\ r.since = run[p].since
        /\ ~r.disturbed => ~run[p].disturbed
        /\ Moves(p, r, FALSE)
    BY <2>1 DEF GoesTo
  <2>3. ~r.disturbed => CutoffFits(r)
    BY <2>1, <2>2, CoveredBefore DEF CutoffFits
  <2>4. CoversAs(r, nodes', activity', links')
    BY <2>2 DEF CoversAs
  <2> QED BY <2>1, <2>2, <2>3, <2>4, StepCover
<1>3. CASE FetchUsers(p)
  <2>1. PICK f \in [Entities -> Nat] :
              /\ FetchRun(p, "fetchUsers", "fetchSubs", f)
              /\ \A u \in Users : f[u] = FetchedUser(u, run[p].full, run[p].since)
              /\ UNCHANGED source
    BY <1>0, <1>3, FetchUsersIs
  <2>2. PICK r \in RunType :
          /\ run[p].pc = "fetchUsers" /\ r.pc = "fetchSubs" /\ r.full = run[p].full
          /\ r.since = run[p].since /\ r.disturbed = run[p].disturbed /\ r.fetched = f
          /\ r.start = run[p].start /\ Moves(p, r, FALSE)
    BY <2>1 DEF FetchRun
  <2>3. HasUsers(r.fetched, r.since, r.start)
    <3> SUFFICES ASSUME NEW u \in Users PROVE f[u] >= Due(u, r.since, r.start)
      BY <2>2 DEF HasUsers
    <3>1. /\ Total(u) \in Nat /\ Recent(u, r.since) \in Nat /\ Due(u, r.since, r.start) \in Nat
          /\ Due(u, r.since, r.start) <= Total(u) /\ Due(u, r.since, r.start) <= Recent(u, r.since)
      BY <1>0, CountsHold DEF SourceTyped, CountsFit
    <3>2. \/ f[u] = Total(u) \/ f[u] = Recent(u, r.since)
          \/ f[u] = 0 /\ ~(Recent(u, r.since) > 0)
      BY <2>1, <2>2 DEF FetchedUser
    <3> QED BY <3>1, <3>2
  <2>4. CoversAs(r, nodes', activity', links')
    BY <2>2, <2>3 DEF CoversAs
  <2>5. ~r.disturbed => CutoffFits(r)
    BY <2>2, CoveredBefore DEF CutoffFits
  <2> QED BY <2>1, <2>2, <2>4, <2>5, StepCover
<1>4. CASE FetchSubs(p)
  <2>1. PICK f \in [Entities -> Nat] :
              /\ FetchRun(p, "fetchSubs", "upsert", f)
              /\ \A u \in Users : f[u] = run[p].fetched[u]
              /\ \A s \in Subs : f[s] = FetchedSub(s, run[p].full, run[p].since)
              /\ UNCHANGED source
    BY <1>0, <1>4, FetchSubsIs
  <2>2. PICK r \in RunType :
          /\ run[p].pc = "fetchSubs" /\ r.pc = "upsert" /\ r.full = run[p].full
          /\ r.since = run[p].since /\ r.disturbed = run[p].disturbed /\ r.fetched = f
          /\ r.start = run[p].start /\ Moves(p, r, FALSE)
    BY <2>1 DEF FetchRun
  <2>3. ASSUME ~r.disturbed PROVE CutoffFits(r) /\ CoversAs(r, nodes', activity', links')
    <3>1. CutoffFits(run[p]) /\ HasUsers(run[p].fetched, r.since, r.start)
      BY <2>2, <2>3, CoveredBefore DEF Covers
    <3>2. HasUsers(f, r.since, r.start)
      BY <2>1, <3>1 DEF HasUsers
    <3>3. HasRows(f, r.since, r.start)
      <4>1. \A s \in Subs : row[s] \in Nat /\ \A u \in Users : items[<<u, s>>] # {} => row[s] # 0
        BY <1>0 DEF SourceDated, SourceTyped, Times
      <4>2. r.since \in Int /\ r.start \in Int
        BY <2>2 DEF RunType, Times, Never
      <4>3. CASE run[p].full
        <5>1. \A s \in Subs : f[s] = row[s]
          BY <2>1, <4>3 DEF FetchedSub
        <5> QED BY <4>1, <5>1 DEF HasRows
      <4>4. CASE ~run[p].full
        <5>1. r.since # Never
          BY <2>2, <3>1, <4>4 DEF CutoffFits
        <5>2. \A s \in Subs : row[s] > r.since => f[s] = row[s]
          BY <2>1, <2>2, <4>4 DEF FetchedSub, ChangedSubs
        <5> QED BY <4>1, <4>2, <5>1, <5>2 DEF HasRows
      <4> QED BY <4>3, <4>4
    <3> QED BY <2>2, <3>1, <3>2, <3>3 DEF CoversAs, CutoffFits
  <2> QED BY <2>1, <2>2, <2>3, StepCover
<1> QED BY <1>1, <1>2, <1>3, <1>4

LEMMA UpsertCover == ASSUME KInv, CoverInv, NEW p \in Procs, Upsert(p) PROVE CoverInv'
<1>0. TypeOK /\ RunsTyped /\ SourceTyped /\ nodes \in [Entities -> Nat] /\ run[p].fetched \in [Entities -> Nat]
  <2>1. TypeOK
    BY DEF KInv
  <2> QED BY <2>1, TypedParts
<1>1. /\ UpsertRun(p) /\ UNCHANGED source
      /\ \A e \in Entities : nodes'[e] = IF run[p].fetched[e] # 0 THEN run[p].fetched[e] ELSE nodes[e]
  BY <1>0, UpsertIs
<1>2. PICK r \in RunType :
        /\ run[p].pc = "upsert" /\ r.pc = "clearActivity" /\ r.start = run[p].start
        /\ r.full = run[p].full /\ r.since = run[p].since /\ r.disturbed = run[p].disturbed
        /\ Moves(p, r, FALSE)
  BY <1>1 DEF UpsertRun
<1>3. ASSUME ~r.disturbed PROVE CutoffFits(r) /\ CoversAs(r, nodes', activity', links')
  <2>1. /\ CutoffFits(run[p])
        /\ HasUsers(run[p].fetched, r.since, r.start) /\ HasRows(run[p].fetched, r.since, r.start)
    BY <1>2, <1>3, CoveredBefore DEF Covers
  <2>2. Users \subseteq Entities /\ Subs \subseteq Entities
    BY DEF Entities
  <2>3. HasRows(nodes', r.since, r.start)
    BY <1>1, <2>1, <2>2, <1>0 DEF HasRows, SourceTyped, Times
  <2>4. HasUsers(nodes', r.since, r.start)
    <3> SUFFICES ASSUME NEW u \in Users PROVE nodes'[u] >= Due(u, r.since, r.start)
      BY DEF HasUsers
    <3>1. run[p].fetched[u] >= Due(u, r.since, r.start)
      BY <2>1 DEF HasUsers
    <3>2. Due(u, r.since, r.start) \in Nat
      BY <1>0, CountsHold DEF SourceTyped, CountsFit
    <3>3. nodes[u] \in Nat /\ run[p].fetched[u] \in Nat
      BY <1>0, <2>2
    <3>4. nodes'[u] = IF run[p].fetched[u] # 0 THEN run[p].fetched[u] ELSE nodes[u]
      BY <1>1, <2>2
    <3> QED BY <3>1, <3>2, <3>3, <3>4
  <2> QED BY <1>2, <2>1, <2>3, <2>4 DEF CoversAs, CutoffFits
<1> QED BY <1>1, <1>2, <1>3, StepCover

\* The steps after: the nodes stay, the pairs follow.
LEMMA PairsCover ==
  ASSUME KInv, CoverInv, NEW p \in Procs,
         ClearActivity(p) \/ BuildActivity(p) \/ Relate(p) \/ Link(p) \/ Finish(p)
  PROVE  CoverInv'
<1>0. RunsTyped /\ SourceTyped
  BY TypedParts DEF KInv
<1>1. UNCHANGED source /\ nodes' = nodes
  BY DEF ClearActivity, BuildActivity, Relate, Link, Finish, graph
<1>2. PICK to \in {"buildActivity", "relate", "link", "finish", "deferred"} :
        /\ After(p)
        /\ \/ /\ GoesTo(p, to, FALSE)
              /\ to = "relate" => activity' = activity \cup Posted
              /\ to = "link" => run[p].pc = "relate" /\ activity' = activity
              /\ to = "finish" => run[p].pc = "link" /\ links' = links \cup Linkable
              /\ to = "deferred" => run[p].pc = "finish" /\ links' = links
           \/ GoesTo(p, to, TRUE)
  <2> DEFINE Follows(to) ==
        /\ After(p)
        /\ \/ /\ GoesTo(p, to, FALSE)
              /\ to = "relate" => activity' = activity \cup Posted
              /\ to = "link" => run[p].pc = "relate" /\ activity' = activity
              /\ to = "finish" => run[p].pc = "link" /\ links' = links \cup Linkable
              /\ to = "deferred" => run[p].pc = "finish" /\ links' = links
           \/ GoesTo(p, to, TRUE)
  <2>1. CASE ClearActivity(p)
    <3>1. run[p].pc = "clearActivity" /\ GoesTo(p, "buildActivity", FALSE)
      BY <1>0, <2>1, GotoIs DEF ClearActivity, PCs
    <3>2. Follows("buildActivity")
      BY <3>1 DEF After
    <3> QED BY <3>2
  <2>2. CASE BuildActivity(p)
    <3>1. PICK T : activity' = activity \cup T /\ GotoInserted(p, "buildActivity", "relate", Posted, T)
      BY <2>2 DEF BuildActivity
    <3>2. /\ run[p].pc = "buildActivity"
          /\ (T = Posted /\ GoesTo(p, "relate", FALSE)) \/ GoesTo(p, "relate", TRUE)
      BY <1>0, <3>1, GotoInsertedIs DEF PCs
    <3>3. Follows("relate")
      BY <3>1, <3>2 DEF After
    <3> QED BY <3>3
  <2>3. CASE Relate(p)
    <3>1. PICK S, T : GotoInserted(p, "relate", "link", S, T)
      BY <2>3 DEF Relate
    <3>2. activity' = activity
      BY <2>3 DEF Relate
    <3>3. /\ run[p].pc = "relate"
          /\ (T = S /\ GoesTo(p, "link", FALSE)) \/ GoesTo(p, "link", TRUE)
      BY <1>0, <3>1, GotoInsertedIs DEF PCs
    <3>4. Follows("link")
      BY <3>2, <3>3 DEF After
    <3> QED BY <3>4
  <2>4. CASE Link(p)
    <3>1. PICK T : links' = links \cup T /\ GotoInserted(p, "link", "finish", Linkable, T)
      BY <2>4 DEF Link
    <3>2. /\ run[p].pc = "link"
          /\ (T = Linkable /\ GoesTo(p, "finish", FALSE)) \/ GoesTo(p, "finish", TRUE)
      BY <1>0, <3>1, GotoInsertedIs DEF PCs
    <3>3. Follows("finish")
      BY <3>1, <3>2 DEF After
    <3> QED BY <3>3
  <2>5. CASE Finish(p)
    <3>1. links' = links
      BY <2>5 DEF Finish, graph
    <3>2. run[p].pc = "finish" /\ GoesTo(p, "deferred", FALSE)
      BY <1>0, <2>5, GotoIs DEF Finish, PCs
    <3>3. Follows("deferred")
      BY <3>1, <3>2 DEF After
    <3> QED BY <3>3
  <2> QED BY <2>1, <2>2, <2>3, <2>4, <2>5
<1>3. CASE GoesTo(p, to, TRUE)
  <2>1. PICK r \in RunType : r.disturbed /\ Moves(p, r, TRUE)
    BY <1>3 DEF GoesTo
  <2> QED BY <2>1, AllUncovered DEF Moves, SameBut
<1>4. CASE ~GoesTo(p, to, TRUE)
  <2>1. PICK r \in RunType :
          /\ r.pc = to /\ r.start = run[p].start /\ r.full = run[p].full /\ r.since = run[p].since
          /\ ~r.disturbed => ~run[p].disturbed
          /\ Moves(p, r, FALSE)
    BY <1>2, <1>4 DEF GoesTo
  <2>2. run[p].pc # "idle"
    BY <1>2 DEF After
  <2>3. ASSUME ~r.disturbed PROVE CutoffFits(r) /\ CoversAs(r, nodes', activity', links')
    <3>1. CutoffFits(run[p]) /\ Covers(p)
      BY <2>1, <2>2, <2>3, CoveredBefore
    <3>2. HasRows(nodes', r.since, r.start) /\ HasUsers(nodes', r.since, r.start)
      BY <1>1, <1>2, <2>1, <3>1 DEF Covers
    <3>3. to = "relate" => HasPairs(activity', r.start)
      BY <1>2, <1>4 DEF HasPairs, Posted
    <3>4. to = "link" => HasPairs(activity', r.start)
      BY <1>2, <1>4, <2>1, <3>1 DEF Covers
    <3>5. to = "finish" => HasLinks(links', nodes', r.start)
      <4> SUFFICES ASSUME to = "finish", NEW us \in Users \X Subs, NEW x \in items[us], x <= r.start,
                          nodes[us[1]] # 0, nodes[us[2]] # 0
                   PROVE  us \in links'
        BY <1>1 DEF HasLinks
      <4>1. us \in activity
        BY <1>2, <1>4, <2>1, <3>1 DEF Covers, HasPairs
      <4> QED BY <1>2, <1>4, <4>1 DEF Linkable
    <3>6. to = "deferred" => HasLinks(links', nodes', r.start)
      BY <1>1, <1>2, <1>4, <2>1, <3>1 DEF Covers
    <3> QED BY <1>2, <2>1, <3>1, <3>2, <3>3, <3>4, <3>5, <3>6 DEF CoversAs, CutoffFits
  <2> QED BY <1>1, <2>1, <2>2, <2>3, StepCover
<1> QED BY <1>3, <1>4

LEMMA InitCover == Init => CoverInv
BY DEF Init, CoverInv, Idle, NoRun

LEMMA StepCoverInv == KInv /\ CoverInv /\ [Next]_vars => CoverInv'
<1> SUFFICES ASSUME KInv, CoverInv, [Next]_vars PROVE CoverInv'
  OBVIOUS
<1>1. CASE UNCHANGED vars
  <2>1. /\ UNCHANGED source /\ nodes' = nodes /\ links' = links /\ activity' = activity /\ run' = run
    BY <1>1 DEF vars, graph, rels
  <2>2. items' = items /\ row' = row
    BY <2>1 DEF source
  <2>3. \A u, b, t : Due(u, b, t)' = Due(u, b, t)
    BY <2>2, SameCounts
  <2>4. \A p : Covers(p)' <=> Covers(p)
    BY <2>1, <2>2, <2>3 DEF Covers, After, HasRows, HasUsers, HasPairs, HasLinks
  <2> QED BY <2>1, <2>4 DEF CoverInv, ByItself, Idle, CutoffFits
<1>2. ASSUME NEW p \in Procs, RunStep(p) PROVE CoverInv'
  BY <1>2, FetchCover, UpsertCover, PairsCover, EndCover DEF RunStep
<1> QED BY <1>1, <1>2, CrawlCover, CleanupCover, StartCover, EndCover DEF Next

\* What the run p holds when it finishes undisturbed.
LEMMA FinishedCovers ==
  ASSUME CoverInv, NEW p \in Procs, Finishes(p)
  PROVE  /\ CutoffFits(run[p])
         /\ HasRows(nodes, run[p].since, run[p].start) /\ HasUsers(nodes, run[p].since, run[p].start)
         /\ HasLinks(links, nodes, run[p].start)
<1>1. run[p].pc = "finish" /\ ~run[p].disturbed
  BY DEF Finishes
<1> QED BY <1>1, CoveredBefore DEF Covers, After

\* A full run that ends alone holds, when it ends, every row, activity and
\* link that was there when it began, whatever the crawler wrote meanwhile.
THEOREM FullRunsCover == Spec => FullRunCovers
<1>1. KInv /\ CoverInv /\ [Next]_vars =>
        [\A p \in Procs :
           Finishes(p) /\ run[p].full =>
             /\ \A s \in Subs : row[s] \in 1..run[p].start => nodes[s] = row[s]
             /\ \A u \in Users : nodes[u] >= Past(u, run[p].start)
             /\ \A us \in Users \X Subs :
                  (\E t \in items[us] : t <= run[p].start) => us \in links]_vars
  <2> SUFFICES ASSUME KInv, CoverInv, NEW p \in Procs, Finishes(p), run[p].full
               PROVE  /\ \A s \in Subs : row[s] \in 1..run[p].start => nodes[s] = row[s]
                      /\ \A u \in Users : nodes[u] >= Past(u, run[p].start)
                      /\ \A us \in Users \X Subs :
                            (\E t \in items[us] : t <= run[p].start) => us \in links
    OBVIOUS
  <2>1. /\ run[p].since = Never
        /\ HasRows(nodes, Never, run[p].start) /\ HasUsers(nodes, Never, run[p].start)
        /\ HasLinks(links, nodes, run[p].start)
    BY FinishedCovers DEF CutoffFits
  <2>2. SourceTyped /\ run[p].start \in Nat
    BY TypedParts DEF KInv
  <2>3. \A s \in Subs : row[s] \in 1..run[p].start => nodes[s] = row[s]
    BY <2>1, <2>2 DEF HasRows, Never
  <2>4. \A u \in Users : nodes[u] >= Past(u, run[p].start)
    BY <2>1 DEF HasUsers, Past
  <2>5. ASSUME NEW us \in Users \X Subs, NEW t \in items[us], t <= run[p].start
        PROVE  us \in links
    <3>1. nodes[us[2]] # 0
      BY <2>1, <2>5 DEF HasRows
    <3>2. nodes[us[1]] # 0
      <4>1. PICK u \in Users, s \in Subs : us = <<u, s>>
        OBVIOUS
      <4>2. t > Never
        BY <2>2, <2>5 DEF SourceTyped, ItemsTyped, Times, Never
      <4>3. {y \in items[<<u, s>>] : y > Never /\ y <= run[p].start} # {}
        BY <2>5, <4>1, <4>2
      <4>4. Due(u, Never, run[p].start) \in Nat /\ Due(u, Never, run[p].start) # 0
        BY <2>2, <4>3, CountsHold DEF SourceTyped, CountsFit
      <4>5. nodes[u] >= Due(u, Never, run[p].start)
        BY <2>1 DEF HasUsers
      <4> QED BY <4>1, <4>4, <4>5
    <3> QED BY <2>1, <2>5, <3>1, <3>2 DEF HasLinks
  <2> QED BY <2>3, <2>4, <2>5
<1> QED BY InitKInv, StepKInv, InitCover, StepCoverInv, <1>1, PTL DEF Spec, FullRunCovers

\* An incremental run that ends alone holds, when it ends, the rows that changed
\* between its cutoff and its start, the activity of that time and the links
\* between its nodes, whatever the crawler wrote meanwhile and other runs left.
THEOREM IncrementalRunsCover == Spec => IncrementalRunCovers
<1>1. KInv /\ CoverInv /\ [Next]_vars =>
        [\A p \in Procs :
           Finishes(p) /\ ~run[p].full =>
             /\ \A s \in Subs : row[s] \in run[p].since + 1 .. run[p].start => nodes[s] = row[s]
             /\ \A u \in Users : nodes[u] >= Due(u, run[p].since, run[p].start)
             /\ \A us \in Users \X Subs :
                  /\ \E t \in items[us] : t <= run[p].start
                  /\ nodes[us[1]] # 0 /\ nodes[us[2]] # 0
                  => us \in links]_vars
  <2> SUFFICES ASSUME KInv, CoverInv, NEW p \in Procs, Finishes(p), ~run[p].full
               PROVE  /\ \A s \in Subs : row[s] \in run[p].since + 1 .. run[p].start => nodes[s] = row[s]
                      /\ \A u \in Users : nodes[u] >= Due(u, run[p].since, run[p].start)
                      /\ \A us \in Users \X Subs :
                           /\ \E t \in items[us] : t <= run[p].start
                           /\ nodes[us[1]] # 0 /\ nodes[us[2]] # 0
                           => us \in links
    OBVIOUS
  <2>1. /\ run[p].since # Never
        /\ HasRows(nodes, run[p].since, run[p].start) /\ HasUsers(nodes, run[p].since, run[p].start)
        /\ HasLinks(links, nodes, run[p].start)
    BY FinishedCovers DEF CutoffFits
  <2>2. run[p].since \in Nat /\ run[p].start \in Nat
    <3>1. TypeOK
      BY DEF KInv
    <3> QED BY <2>1, <3>1 DEF TypeOK, Times
  <2>3. \A s \in Subs : row[s] \in run[p].since + 1 .. run[p].start => nodes[s] = row[s]
    BY <2>1, <2>2 DEF HasRows
  <2> QED BY <2>1, <2>3 DEF HasUsers, HasLinks
<1> QED BY InitKInv, StepKInv, InitCover, StepCoverInv, <1>1, PTL DEF Spec, IncrementalRunCovers

-----------------------------------------------------------------------------
(* What each process is doing.                                             *)

StorePCs == {"clearHierarchy", "hierarchy", "clearCommunities", "communities",
             "members", "links", "clearBundles", "bundles"}

Storing(pc, d, T, J, of, n, a) ==
  [pc |-> pc, detected |-> d, todo |-> T, joining |-> J, nodeToDB |-> of,
   since |-> n, alone |-> a]

ArePairs(J) == \A x \in J : x = <<x[1], x[2]>>

IsStoring(r) ==
  \E T, J, of : ArePairs(J) /\ \E pc \in StorePCs, d \in Detections, n \in Nat, a \in BOOLEAN :
    r = Storing(pc, d, T, J, of, n, a)

StoreTyped ==
  /\ store = [s \in Storers |-> store[s]]
  /\ \A s \in Storers : store[s] = Resting \/ IsStoring(store[s])

\* The step of s, to r.
Steps(s, r) == store'[s] = r /\ \A t \in Storers \ {s} : store'[t] = store[t]

LEMMA StoringIs ==
  ASSUME NEW pc, NEW d, NEW T, NEW J, NEW of, NEW n, NEW a, NEW r, r = Storing(pc, d, T, J, of, n, a)
  PROVE  /\ r.pc = pc /\ r.detected = d /\ r.todo = T /\ r.joining = J
         /\ r.nodeToDB = of /\ r.since = n
BY DEF Storing

LEMMA RestingIs == Resting.pc = "idle" /\ "idle" \notin StorePCs
BY DEF Resting, StorePCs

LEMMA StepsTyped ==
  ASSUME StoreTyped, NEW s \in Storers, NEW r, r = Resting \/ IsStoring(r),
         store' = [store EXCEPT ![s] = r]
  PROVE  Steps(s, r) /\ StoreTyped'
<1>1. PICK f : f = [t \in Storers |-> store[t]] /\ store = f
  BY DEF StoreTyped
<1>2. store' = [t \in Storers |-> IF t = s THEN r ELSE f[t]]
  BY <1>1
<1>3. store'[s] = r /\ \A t \in Storers \ {s} : store'[t] = store[t]
  BY <1>1, <1>2
<1>4. store' = [t \in Storers |-> store'[t]]
  BY <1>2
<1> QED BY <1>3, <1>4 DEF StoreTyped, Steps

\* What a working process has, with the names that the proofs use.
Has(s, pc, d, T, J, of, n, a) ==
  /\ store[s] = Storing(pc, d, T, J, of, n, a)
  /\ pc \in StorePCs /\ d \in Detections /\ n \in Nat /\ a \in BOOLEAN /\ ArePairs(J)

LEMMA WorkingHas ==
  ASSUME StoreTyped, NEW s \in Storers, store[s] # Resting
  PROVE  \E T, J, of, n : \E d, a : Has(s, store[s].pc, d, T, J, of, n, a)
<1>1. PICK T, J, of : ArePairs(J) /\ \E pc \in StorePCs, d \in Detections, n \in Nat, a \in BOOLEAN :
        store[s] = Storing(pc, d, T, J, of, n, a)
  BY DEF StoreTyped, IsStoring
<1>2. PICK pc \in StorePCs, d \in Detections, n \in Nat, a \in BOOLEAN :
        store[s] = Storing(pc, d, T, J, of, n, a)
  BY <1>1
<1>3. store[s].pc = pc
  BY <1>2, StoringIs
<1> QED BY <1>1, <1>2, <1>3 DEF Has

LEMMA AtHas ==
  ASSUME StoreTyped, NEW s \in Storers, NEW pc, pc # "idle", store[s].pc = pc
  PROVE  \E T, J, of, n : \E d, a : Has(s, pc, d, T, J, of, n, a)
<1>1. store[s] # Resting
  BY RestingIs
<1> QED BY <1>1, WorkingHas

LEMMA HasTyped ==
  ASSUME NEW s, NEW pc, NEW d, NEW T, NEW J, NEW of, NEW n, NEW a, Has(s, pc, d, T, J, of, n, a),
         NEW to \in StorePCs, NEW U, NEW V, ArePairs(V), NEW g
  PROVE  IsStoring(Storing(to, d, U, V, g, n, a))
BY DEF Has, IsStoring

LEMMA GoesStore ==
  ASSUME StoreTyped, NEW s \in Storers, NEW pc, NEW d, NEW T, NEW J, NEW of, NEW n, NEW a,
         Has(s, pc, d, T, J, of, n, a), NEW to \in StorePCs, NEW U, Goes(s, to, U)
  PROVE  Steps(s, Storing(to, d, U, J, of, n, a)) /\ StoreTyped'
<1>1. PICK o : o = store[s] /\ o = Storing(pc, d, T, J, of, n, a)
  BY DEF Has
<1>2. PICK v : v = [o EXCEPT !.pc = to]
  OBVIOUS
<1>3. v = Storing(to, d, T, J, of, n, a)
  BY <1>1, <1>2 DEF Storing
<1>4. PICK r : r = [v EXCEPT !.todo = U]
  OBVIOUS
<1>5. r = Storing(to, d, U, J, of, n, a)
  BY <1>3, <1>4 DEF Storing
<1>6. store' = [store EXCEPT ![s] = r]
  BY <1>1, <1>2, <1>4 DEF Goes
<1>7. IsStoring(r)
  <2>1. ArePairs(J)
    BY DEF Has
  <2> QED BY <1>5, <2>1, HasTyped
<1> QED BY <1>5, <1>6, <1>7, StepsTyped

LEMMA DoneStore ==
  ASSUME StoreTyped, NEW s \in Storers, NEW pc, NEW d, NEW T, NEW J, NEW of, NEW n, NEW a,
         Has(s, pc, d, T, J, of, n, a), NEW e, Done(s, e)
  PROVE  Steps(s, Storing(pc, d, T \ {e}, J, of, n, a)) /\ StoreTyped'
<1>1. PICK o : o = store[s] /\ o = Storing(pc, d, T, J, of, n, a)
  BY DEF Has
<1>2. PICK U : U = T \ {e} /\ U = o.todo \ {e}
  <2>1. o.todo = T
    BY <1>1, StoringIs
  <2> QED BY <2>1
<1>3. PICK r : r = [o EXCEPT !.todo = U]
  OBVIOUS
<1>4. r = Storing(pc, d, U, J, of, n, a)
  BY <1>1, <1>3 DEF Storing
<1>5. store' = [store EXCEPT ![s] = r]
  BY <1>1, <1>2, <1>3 DEF Done
<1>6. IsStoring(r)
  <2>1. pc \in StorePCs /\ ArePairs(J)
    BY DEF Has
  <2> QED BY <1>4, <2>1, HasTyped
<1> QED BY <1>2, <1>4, <1>5, <1>6, StepsTyped

\* The community c is created: its nodes are to join it.
LEMMA JoiningStore ==
  ASSUME StoreTyped, NEW s \in Storers, NEW pc, NEW d, NEW T, NEW J, NEW of, NEW n, NEW a,
         Has(s, pc, d, T, J, of, n, a), NEW to \in StorePCs, NEW U, NEW V, ArePairs(V),
         store' = [store EXCEPT ![s].pc = to, ![s].todo = U, ![s].joining = V]
  PROVE  Steps(s, Storing(to, d, U, V, of, n, a)) /\ StoreTyped'
<1>1. PICK o : o = store[s] /\ o = Storing(pc, d, T, J, of, n, a)
  BY DEF Has
<1>2. PICK v : v = [o EXCEPT !.pc = to]
  OBVIOUS
<1>3. v = Storing(to, d, T, J, of, n, a)
  BY <1>1, <1>2 DEF Storing
<1>4. PICK w : w = [v EXCEPT !.todo = U]
  OBVIOUS
<1>5. w = Storing(to, d, U, J, of, n, a)
  BY <1>3, <1>4 DEF Storing
<1>6. PICK r : r = [w EXCEPT !.joining = V]
  OBVIOUS
<1>7. r = Storing(to, d, U, V, of, n, a)
  BY <1>5, <1>6 DEF Storing
<1>8. store' = [store EXCEPT ![s] = r]
  BY <1>1, <1>2, <1>4, <1>6
<1>9. IsStoring(r)
  BY <1>7, HasTyped
<1> QED BY <1>7, <1>8, <1>9, StepsTyped

LEMMA JoinedStore ==
  ASSUME StoreTyped, NEW s \in Storers, NEW pc, NEW d, NEW T, NEW J, NEW of, NEW n, NEW a,
         Has(s, pc, d, T, J, of, n, a), NEW e, NEW k, NEW m,
         store' = [store EXCEPT ![s].joining = @ \ {e}, ![s].nodeToDB = Put(@, k, m)]
  PROVE  Steps(s, Storing(pc, d, T, J \ {e}, Put(of, k, m), n, a)) /\ StoreTyped'
<1>1. PICK o : o = store[s] /\ o = Storing(pc, d, T, J, of, n, a)
  BY DEF Has
<1>2. PICK V : V = J \ {e} /\ V = o.joining \ {e}
  <2>1. o.joining = J
    BY <1>1, StoringIs
  <2> QED BY <2>1
<1>3. PICK v : v = [o EXCEPT !.joining = V]
  OBVIOUS
<1>4. v = Storing(pc, d, T, V, of, n, a)
  BY <1>1, <1>3 DEF Storing
<1>5. PICK g : g = Put(of, k, m) /\ g = Put(v.nodeToDB, k, m)
  BY <1>4, StoringIs
<1>6. PICK r : r = [v EXCEPT !.nodeToDB = g]
  OBVIOUS
<1>7. r = Storing(pc, d, T, V, g, n, a)
  BY <1>4, <1>6 DEF Storing
<1>8. store' = [store EXCEPT ![s] = r]
  BY <1>1, <1>2, <1>3, <1>5, <1>6
<1>9. IsStoring(r)
  <2>1. pc \in StorePCs /\ ArePairs(V)
    BY <1>2 DEF Has, ArePairs
  <2> QED BY <1>7, <2>1, HasTyped
<1> QED BY <1>2, <1>5, <1>7, <1>8, <1>9, StepsTyped

LEMMA RestsStore ==
  ASSUME StoreTyped, NEW s \in Storers, store' = [store EXCEPT ![s] = Resting]
  PROVE  Steps(s, Resting) /\ StoreTyped'
BY StepsTyped

-----------------------------------------------------------------------------
(* The tables keep their types.                                            *)

LEMMA PutDomain == \A f, k, v : DOMAIN Put(f, k, v) = DOMAIN f \cup {k}
BY DEF Put

LEMMA PutValue ==
  ASSUME NEW f, NEW k, NEW v
  PROVE  Put(f, k, v)[k] = v /\ \A x \in DOMAIN f \ {k} : Put(f, k, v)[x] = f[x]
BY DEF Put

LEMMA PutTyped ==
  ASSUME NEW f, NEW k, NEW S, NEW v \in S, f \in [DOMAIN f -> S]
  PROVE  Put(f, k, v) \in [DOMAIN Put(f, k, v) -> S]
BY DEF Put

LEMMA PutRange == \A f, k, v : Range(Put(f, k, v)) \subseteq Range(f) \cup {v}
BY DEF Put, Range

LEMMA EmptyIs ==
  /\ DOMAIN Empty = {} /\ Range(Empty) = {}
  /\ \A S : Empty \in [DOMAIN Empty -> S]
<1>1. DOMAIN Empty = {} /\ \A S : Empty \in [DOMAIN Empty -> S]
  BY DEF Empty
<1> QED BY <1>1 DEF Range

StoreInv == StoreTyped /\ StoreTypeOK /\ serial \in Nat

LEMMA MembersCounted ==
  ASSUME NEW d \in Detections, NEW c
  PROVE  /\ IsFiniteSet(MembersOf(d, c)) /\ Cardinality(MembersOf(d, c)) \in Nat
         /\ MembersOf(d, c) \subseteq GraphNodes
<1>1. MembersOf(d, c) \subseteq GraphNodes /\ IsFiniteSet(GraphNodes)
  BY StoreAssumption DEF MembersOf
<1> QED BY <1>1, FS_Subset, FS_CardinalityType

LEMMA FaultsCounted ==
  ASSUME storeFaults \in 0 .. MaxStoreFaults, StoreFault \/ NoStoreFault
  PROVE  storeFaults' \in 0 .. MaxStoreFaults
BY StoreAssumption DEF StoreFault, NoStoreFault

LEMMA BeginIs ==
  ASSUME StoreTyped, NEW s \in Storers, NEW d \in Detections, Begin(s, d),
         storeFaults \in Nat
  PROVE  /\ StoreTyped' /\ store[s] = Resting
         /\ \E a \in BOOLEAN :
              /\ store'[s] = Storing("clearHierarchy", d, {}, {}, Empty, storeFaults, a)
              /\ a = ~Disturbing(s)
         /\ \A t \in Storers \ {s} :
              \/ store[t] = Resting /\ store'[t] = Resting
              \/ \E pc, T, J, of, n : \E e, a : /\ Has(t, pc, e, T, J, of, n, a)
                                                /\ store'[t] = Storing(pc, e, T, J, of, n, FALSE)
<1>0. store[s] = Resting
  BY DEF Begin
<1>1. PICK a \in BOOLEAN : a = ~Disturbing(s)
  BY DEF Disturbing
<1>2. PICK f : f = FALSE
  OBVIOUS
<1>3. PICK g : g = [t \in Storers |->
       IF t = s THEN [pc |-> "clearHierarchy", detected |-> d, todo |-> {}, joining |-> {},
                      nodeToDB |-> Empty, since |-> storeFaults, alone |-> a]
       ELSE IF store[t] = Resting THEN Resting ELSE [store[t] EXCEPT !.alone = f]]
  OBVIOUS
<1>4. store' = g
  BY <1>1, <1>2, <1>3, Zenon DEF Begin
<1>5. store'[s] = Storing("clearHierarchy", d, {}, {}, Empty, storeFaults, a)
  BY <1>3, <1>4 DEF Storing
<1>6. ASSUME NEW t \in Storers \ {s}, store[t] # Resting
      PROVE  \E pc, T, J, of, n : \E e, b : /\ Has(t, pc, e, T, J, of, n, b)
                                            /\ store'[t] = Storing(pc, e, T, J, of, n, f)
  <2>1. PICK T, J, of, n : \E e, b : Has(t, store[t].pc, e, T, J, of, n, b)
    BY <1>6, WorkingHas
  <2>2. PICK pc : pc = store[t].pc
    OBVIOUS
  <2>3. PICK e, b : Has(t, pc, e, T, J, of, n, b)
    BY <2>1, <2>2
  <2>4. PICK o : o = store[t] /\ o = Storing(pc, e, T, J, of, n, b)
    BY <2>3 DEF Has
  <2>5. store'[t] = [o EXCEPT !.alone = f]
    BY <1>3, <1>4, <1>6, <2>4
  <2>6. store'[t] = Storing(pc, e, T, J, of, n, f)
    BY <2>4, <2>5 DEF Storing
  <2> QED BY <2>3, <2>6
<1>7. \A t \in Storers \ {s} :
              \/ store[t] = Resting /\ store'[t] = Resting
              \/ \E pc, T, J, of, n : \E e, b : /\ Has(t, pc, e, T, J, of, n, b)
                                                /\ store'[t] = Storing(pc, e, T, J, of, n, FALSE)
  <2>1. \A t \in Storers \ {s} : store[t] = Resting => store'[t] = Resting
    BY <1>3, <1>4
  <2>2. f = FALSE => \A t \in Storers \ {s} : store[t] # Resting =>
              \E pc, T, J, of, n : \E e, b : /\ Has(t, pc, e, T, J, of, n, b)
                                            /\ store'[t] = Storing(pc, e, T, J, of, n, FALSE)
    BY <1>6
  <2> QED BY <1>2, <2>1, <2>2
<1>8. IsStoring(store'[s])
  <2>1. ArePairs({}) /\ storeFaults \in Nat /\ "clearHierarchy" \in StorePCs
    BY DEF ArePairs, StorePCs
  <2> QED BY <1>5, <2>1 DEF IsStoring
<1>9. \A t \in Storers \ {s} : store'[t] = Resting \/ IsStoring(store'[t])
  <2> SUFFICES ASSUME NEW t \in Storers \ {s}, store'[t] # Resting PROVE IsStoring(store'[t])
    OBVIOUS
  <2>1. PICK pc, T, J, of, n : \E e, b : /\ Has(t, pc, e, T, J, of, n, b)
                                         /\ store'[t] = Storing(pc, e, T, J, of, n, FALSE)
    BY <1>7
  <2>2. PICK e, b : /\ Has(t, pc, e, T, J, of, n, b)
                    /\ store'[t] = Storing(pc, e, T, J, of, n, FALSE)
    BY <2>1
  <2> QED BY <2>2 DEF Has, IsStoring
<1>10. StoreTyped'
  <2>1. store' = [t \in Storers |-> store'[t]]
    BY <1>3, <1>4
  <2>2. \A t \in Storers : store'[t] = Resting \/ IsStoring(store'[t])
    BY <1>8, <1>9
  <2> QED BY <2>1, <2>2 DEF StoreTyped
<1> QED BY <1>0, <1>1, <1>5, <1>7, <1>10

\* Every step of a process leaves each a run that is typed.
LEMMA StoresTyped ==
  ASSUME StoreInv, StoreNext
  PROVE  StoreTyped'
<1>0. StoreTyped /\ storeFaults \in Nat
  BY StoreAssumption DEF StoreInv, StoreTypeOK
<1>1. CASE \E n \in GraphNodes : DeleteNode(n)
  BY <1>0, <1>1 DEF DeleteNode, StoreTyped
<1>2. ASSUME NEW s \in Storers, NEW d \in Detections, Begin(s, d) PROVE StoreTyped'
  BY <1>0, <1>2, BeginIs
<1>3. ASSUME NEW s \in Storers, NEW pc, pc # "idle", store[s].pc = pc, NEW to \in StorePCs, NEW U, Goes(s, to, U)
      PROVE StoreTyped'
  <2>1. PICK T, J, of, n : \E d, a : Has(s, pc, d, T, J, of, n, a)
    BY <1>0, <1>3, AtHas
  <2>2. PICK d, a : Has(s, pc, d, T, J, of, n, a)
    BY <2>1
  <2> QED BY <1>0, <1>3, <2>2, GoesStore
<1>4. ASSUME NEW s \in Storers, NEW pc, pc # "idle", store[s].pc = pc, NEW e, Done(s, e)
      PROVE StoreTyped'
  <2>1. PICK T, J, of, n : \E d, a : Has(s, pc, d, T, J, of, n, a)
    BY <1>0, <1>4, AtHas
  <2>2. PICK d, a : Has(s, pc, d, T, J, of, n, a)
    BY <2>1
  <2> QED BY <1>0, <1>4, <2>2, DoneStore
<1>5. ASSUME NEW s \in Storers, ClearCommunityHierarchy(s) \/ InsertCommunityHierarchy(s)
      PROVE  StoreTyped'
  BY <1>3, <1>4, <1>5 DEF ClearCommunityHierarchy, InsertCommunityHierarchy, StorePCs
<1>6. ASSUME NEW s \in Storers, ClearCommunityTables(s) \/ ClearEdgeBundles(s) \/ End(s) \/ Die(s)
      PROVE  StoreTyped'
  <2>1. store' = [store EXCEPT ![s] = Resting] => StoreTyped'
    BY <1>0, RestsStore
  <2>2. ClearCommunityTables(s) => StoreTyped'
    BY <1>3, <2>1 DEF ClearCommunityTables, StorePCs
  <2>3. ClearEdgeBundles(s) => StoreTyped'
    BY <1>3, <2>1 DEF ClearEdgeBundles, StorePCs
  <2> QED BY <1>6, <2>1, <2>2, <2>3 DEF End, Die
<1>7. ASSUME NEW s \in Storers, CountLinks(s) \/ CreateCommunityLink(s) \/ CreateEdgeBundle(s)
      PROVE  StoreTyped'
  BY <1>3, <1>4, <1>7 DEF CountLinks, CreateCommunityLink, CreateEdgeBundle, StorePCs
<1>8. ASSUME NEW s \in Storers, CreateCommunity(s) PROVE StoreTyped'
  <2>1. PICK U : \/ \E V : ArePairs(V) /\ store' = [store EXCEPT ![s].pc = "members", ![s].todo = U, ![s].joining = V]
                 \/ Goes(s, "communities", U)
    <3>1. PICK M, U :
             \/ store' = [store EXCEPT ![s].pc = "members", ![s].todo = U,
                                      ![s].joining = {<<serial', n>> : n \in M}]
             \/ Goes(s, "communities", U)
      BY <1>8 DEF CreateCommunity
    <3>2. ArePairs({<<serial', n>> : n \in M})
      BY DEF ArePairs
    <3> QED BY <3>1, <3>2
  <2>2. store[s].pc = "communities"
    BY <1>8 DEF CreateCommunity
  <2>3. PICK T, J, of, n : \E d, a : Has(s, "communities", d, T, J, of, n, a)
    BY <1>0, <2>2, AtHas
  <2>4. PICK d, a : Has(s, "communities", d, T, J, of, n, a)
    BY <2>3
  <2>5. "communities" \in StorePCs /\ "members" \in StorePCs
    BY DEF StorePCs
  <2>6. CASE \E V : ArePairs(V) /\ store' = [store EXCEPT ![s].pc = "members", ![s].todo = U, ![s].joining = V]
    <3>1. PICK V : ArePairs(V) /\ store' = [store EXCEPT ![s].pc = "members", ![s].todo = U, ![s].joining = V]
      BY <2>6
    <3> QED BY <1>0, <2>4, <2>5, <3>1, JoiningStore
  <2>7. CASE Goes(s, "communities", U)
    BY <1>0, <2>4, <2>5, <2>7, GoesStore
  <2> QED BY <2>1, <2>6, <2>7
<1>9. ASSUME NEW s \in Storers, CreateCommunityMember(s) PROVE StoreTyped'
  <2>1. store[s].pc = "members"
    BY <1>9 DEF CreateCommunityMember
  <2>2. PICK T, J, of, n : \E d, a : Has(s, "members", d, T, J, of, n, a)
    BY <1>0, <2>1, AtHas
  <2>3. PICK d, a : Has(s, "members", d, T, J, of, n, a)
    BY <2>2
  <2>4. \/ Goes(s, "communities", store[s].todo)
        \/ \E r : store' = [store EXCEPT ![s].joining = @ \ {r}, ![s].nodeToDB = Put(@, r[2], r[1])]
    BY <1>9 DEF CreateCommunityMember
  <2>5. CASE Goes(s, "communities", store[s].todo)
    BY <1>0, <2>3, <2>5, GoesStore DEF StorePCs
  <2>6. CASE \E r : store' = [store EXCEPT ![s].joining = @ \ {r}, ![s].nodeToDB = Put(@, r[2], r[1])]
    <3>1. PICK r : store' = [store EXCEPT ![s].joining = @ \ {r}, ![s].nodeToDB = Put(@, r[2], r[1])]
      BY <2>6
    <3> QED BY <1>0, <2>3, <3>1, JoinedStore
  <2> QED BY <2>4, <2>5, <2>6
<1> QED BY <1>1, <1>2, <1>5, <1>6, <1>7, <1>8, <1>9 DEF StoreNext, StoreStep

LEMMA StoreTypesStep == ASSUME StoreInv, StoreNext PROVE StoreInv'
<1>0. StoreTypeOK /\ serial \in Nat /\ StoreTyped
  BY DEF StoreInv
<1>t. StoreTyped'
  BY StoresTyped
<1>f. StoreFault \/ NoStoreFault => storeFaults' \in 0 .. MaxStoreFaults
  BY <1>0, FaultsCounted DEF StoreTypeOK
<1>1. CASE \E n \in GraphNodes : DeleteNode(n)
  <2>1. PICK n \in GraphNodes : DeleteNode(n)
    BY <1>1
  <2>2. UNCHANGED <<communities, communityLinks, bundles, serial, stores>> /\ storeFaults' \in 0 .. MaxStoreFaults
    BY <1>f, <2>1 DEF DeleteNode
  <2>3. graphNodes' \subseteq GraphNodes /\ members' \subseteq (DOMAIN communities) \X graphNodes'
    BY <1>0, <2>1 DEF DeleteNode, StoreTypeOK
  <2>4. \A k \in DOMAIN hierarchy' : k[1] \in graphNodes'
    BY <1>0, <2>1 DEF DeleteNode, StoreTypeOK
  <2> QED BY <1>0, <1>t, <2>2, <2>3, <2>4 DEF StoreInv, StoreTypeOK, Referred
<1>2. ASSUME NEW s \in Storers, NEW d \in Detections, Begin(s, d) PROVE StoreInv'
  <2>1. UNCHANGED <<graphNodes, tables, serial, storeFaults>> /\ stores' = stores + 1 /\ stores < MaxStores
    BY <1>2 DEF Begin
  <2>2. stores' \in 0 .. MaxStores
    BY <1>0, <2>1, StoreAssumption DEF StoreTypeOK
  <2> QED BY <1>0, <1>t, <2>1, <2>2 DEF StoreInv, StoreTypeOK, Referred, tables
<1>3. ASSUME NEW s \in Storers,
             ClearCommunityHierarchy(s) \/ InsertCommunityHierarchy(s) \/ CountLinks(s) \/ End(s) \/ Die(s)
      PROVE  StoreInv'
  <2>1. /\ UNCHANGED <<graphNodes, stores, communities, members, communityLinks, bundles, serial>>
        /\ storeFaults' \in 0 .. MaxStoreFaults
    BY <1>0, <1>3, <1>f DEF ClearCommunityHierarchy, InsertCommunityHierarchy, CountLinks, End, Die,
         others, tables, Inserts, StoreTypeOK, NoStoreFault
  <2>2. \A k \in DOMAIN hierarchy' : k[1] \in graphNodes
    <3>1. CASE hierarchy' = hierarchy
      BY <1>0, <3>1 DEF StoreTypeOK
    <3>2. CASE hierarchy' = Empty
      BY <3>2, EmptyIs
    <3>3. CASE \E r : r[1] \in graphNodes /\ hierarchy' = Put(hierarchy, <<r[1], r[2]>>, r[3])
      <4>1. PICK r : r[1] \in graphNodes /\ hierarchy' = Put(hierarchy, <<r[1], r[2]>>, r[3])
        BY <3>3
      <4>2. DOMAIN hierarchy' = DOMAIN hierarchy \cup {<<r[1], r[2]>>}
        BY <4>1, PutDomain
      <4> QED BY <1>0, <4>1, <4>2 DEF StoreTypeOK
    <3> QED BY <1>3, <3>1, <3>2, <3>3 DEF ClearCommunityHierarchy, InsertCommunityHierarchy, CountLinks, End, Die,
             tables, Inserts
  <2> QED BY <1>0, <1>t, <2>1, <2>2 DEF StoreInv, StoreTypeOK, Referred
<1>4. ASSUME NEW s \in Storers, ClearCommunityTables(s) PROVE StoreInv'
  <2>1. UNCHANGED <<graphNodes, stores, hierarchy, serial>> /\ storeFaults' \in 0 .. MaxStoreFaults
    BY <1>4, <1>f DEF ClearCommunityTables, others
  <2>2. \/ UNCHANGED <<communities, members, communityLinks, bundles>>
        \/ communities' = Empty /\ members' = {} /\ communityLinks' = Empty /\ bundles' = Empty
    BY <1>4 DEF ClearCommunityTables
  <2>3. CASE UNCHANGED <<communities, members, communityLinks, bundles>>
    BY <1>0, <1>t, <2>1, <2>3 DEF StoreInv, StoreTypeOK, Referred
  <2>4. CASE communities' = Empty /\ members' = {} /\ communityLinks' = Empty /\ bundles' = Empty
    BY <1>0, <1>t, <2>1, <2>4, EmptyIs DEF StoreInv, StoreTypeOK, Referred
  <2> QED BY <2>2, <2>3, <2>4
<1>5. ASSUME NEW s \in Storers, CreateCommunity(s) PROVE StoreInv'
  <2>1. UNCHANGED <<graphNodes, stores, members, communityLinks, bundles, hierarchy>> /\ storeFaults' \in 0 .. MaxStoreFaults
    BY <1>5, <1>f DEF CreateCommunity, others
  <2>2. CASE UNCHANGED <<communities, serial>>
    BY <1>0, <1>t, <2>1, <2>2 DEF StoreInv, StoreTypeOK, Referred
  <2>3. CASE ~UNCHANGED <<communities, serial>>
    <3>1. PICK c : /\ serial' = serial + 1
                   /\ communities' = Put(communities, serial', Cardinality(MembersOf(store[s].detected, c)))
      BY <1>5, <2>3 DEF CreateCommunity
    <3>2. Cardinality(MembersOf(store[s].detected, c)) \in Nat
      <4>1. store[s].pc = "communities"
        BY <1>5 DEF CreateCommunity
      <4>2. PICK T, J, of, n : \E d, a : Has(s, "communities", d, T, J, of, n, a)
        BY <1>0, <4>1, AtHas
      <4>3. PICK d, a : Has(s, "communities", d, T, J, of, n, a)
        BY <4>2
      <4>4. store[s].detected = d /\ d \in Detections
        BY <4>3, StoringIs DEF Has
      <4> QED BY <4>4, MembersCounted
    <3>3. DOMAIN communities' = DOMAIN communities \cup {serial'}
          /\ communities' \in [DOMAIN communities' -> Nat]
      <4>1. communities \in [DOMAIN communities -> Nat]
        BY <1>0 DEF StoreTypeOK
      <4> QED BY <3>1, <3>2, <4>1, PutDomain, PutTyped
    <3>4. DOMAIN communities' \subseteq 1 .. serial'
      BY <1>0, <3>1, <3>3 DEF StoreTypeOK
    <3>5. members' \subseteq (DOMAIN communities') \X graphNodes'
      BY <1>0, <2>1, <3>3 DEF StoreTypeOK
    <3>6. serial' \in Nat
      BY <1>0, <3>1
    <3>7. \A p \in DOMAIN communityLinks' \cup DOMAIN bundles' : Referred(p)'
      BY <1>0, <2>1, <3>3 DEF StoreTypeOK, Referred
    <3> QED BY <1>0, <1>t, <2>1, <3>3, <3>4, <3>5, <3>6, <3>7 DEF StoreInv, StoreTypeOK
  <2> QED BY <2>2, <2>3
<1>6. ASSUME NEW s \in Storers, CreateCommunityMember(s) PROVE StoreInv'
  <2>1. UNCHANGED <<graphNodes, stores, communities, communityLinks, bundles, hierarchy, serial>>
        /\ storeFaults' \in 0 .. MaxStoreFaults
    BY <1>6, <1>f DEF CreateCommunityMember, others, Inserts
  <2>2. members' \subseteq (DOMAIN communities) \X graphNodes
    <3>1. CASE members' = members
      BY <1>0, <3>1 DEF StoreTypeOK
    <3>2. CASE members' # members
      <4>1. PICK r \in store[s].joining : /\ r[1] \in DOMAIN communities /\ r[2] \in graphNodes
                                          /\ members' = members \cup {r}
        BY <1>6, <3>2 DEF CreateCommunityMember, Inserts
      <4>2. PICK T, J, of, n : \E d, a : Has(s, "members", d, T, J, of, n, a)
        BY <1>0, <1>6, AtHas DEF CreateCommunityMember
      <4>3. PICK d, a : Has(s, "members", d, T, J, of, n, a)
        BY <4>2
      <4>4. store[s].joining = J /\ ArePairs(J)
        BY <4>3, StoringIs DEF Has
      <4>5. r = <<r[1], r[2]>>
        BY <4>1, <4>4 DEF ArePairs
      <4>6. r \in (DOMAIN communities) \X graphNodes
        BY <4>1, <4>5
      <4> QED BY <1>0, <4>1, <4>6 DEF StoreTypeOK
    <3> QED BY <3>1, <3>2
  <2> QED BY <1>0, <1>t, <2>1, <2>2 DEF StoreInv, StoreTypeOK, Referred
<1>7. ASSUME NEW s \in Storers, CreateCommunityLink(s) \/ ClearEdgeBundles(s) \/ CreateEdgeBundle(s)
      PROVE  StoreInv'
  <2>1. UNCHANGED <<graphNodes, stores, communities, members, hierarchy, serial>>
        /\ storeFaults' \in 0 .. MaxStoreFaults
    BY <1>7, <1>f DEF CreateCommunityLink, ClearEdgeBundles, CreateEdgeBundle, others, Inserts
  <2>2. \A p \in DOMAIN communityLinks' \cup DOMAIN bundles' : Referred(p)
    <3>1. CASE CreateCommunityLink(s)
      <4>1. bundles' = bundles
        BY <3>1 DEF CreateCommunityLink
      <4>2. CASE communityLinks' = communityLinks
        BY <1>0, <4>1, <4>2 DEF StoreTypeOK
      <4>3. CASE communityLinks' # communityLinks
        <5>1. PICK r : Referred(r) /\ communityLinks' = Put(communityLinks, <<r[1], r[2]>>, r[3])
          BY <3>1, <4>3 DEF CreateCommunityLink, Inserts
        <5>2. DOMAIN communityLinks' = DOMAIN communityLinks \cup {<<r[1], r[2]>>} /\ Referred(<<r[1], r[2]>>)
          BY <5>1, PutDomain DEF Referred
        <5> QED BY <1>0, <4>1, <5>2 DEF StoreTypeOK
      <4> QED BY <4>2, <4>3
    <3>2. CASE ClearEdgeBundles(s)
      BY <1>0, <3>2, EmptyIs DEF ClearEdgeBundles, StoreTypeOK
    <3>3. CASE CreateEdgeBundle(s)
      <4>1. communityLinks' = communityLinks
        BY <3>3 DEF CreateEdgeBundle
      <4>2. CASE bundles' = bundles
        BY <1>0, <4>1, <4>2 DEF StoreTypeOK
      <4>3. CASE bundles' # bundles
        <5>1. PICK r : Referred(r) /\ bundles' = Put(bundles, <<r[1], r[2]>>, r[3])
          BY <3>3, <4>3 DEF CreateEdgeBundle, Inserts
        <5>2. DOMAIN bundles' = DOMAIN bundles \cup {<<r[1], r[2]>>} /\ Referred(<<r[1], r[2]>>)
          BY <5>1, PutDomain DEF Referred
        <5> QED BY <1>0, <4>1, <5>2 DEF StoreTypeOK
      <4> QED BY <4>2, <4>3
    <3> QED BY <1>7, <3>1, <3>2, <3>3
  <2> QED BY <1>0, <1>t, <2>1, <2>2 DEF StoreInv, StoreTypeOK, Referred
<1> QED BY <1>1, <1>2, <1>3, <1>4, <1>5, <1>6, <1>7 DEF StoreNext, StoreStep

LEMMA StoreTypesInit == StoreInit => StoreInv
<1> SUFFICES ASSUME StoreInit PROVE StoreInv
  OBVIOUS
<1>1. StoreTyped
  BY DEF StoreInit, StoreTyped
<1>2. communities \in [DOMAIN communities -> Nat] /\ DOMAIN communities = {} /\ DOMAIN communityLinks = {}
      /\ DOMAIN bundles = {} /\ DOMAIN hierarchy = {}
  BY EmptyIs DEF StoreInit
<1>3. 0 \in 0 .. MaxStores /\ 0 \in 0 .. MaxStoreFaults
  BY StoreAssumption
<1> QED BY <1>1, <1>2, <1>3 DEF StoreInit, StoreInv, StoreTypeOK

LEMMA StoreTypesKept == StoreInv /\ [StoreNext]_storeVars => StoreInv'
<1>1. StoreInv /\ UNCHANGED storeVars => StoreInv'
  BY DEF storeVars, others, tables, StoreInv, StoreTyped, StoreTypeOK, Referred
<1> QED BY <1>1, StoreTypesStep

-----------------------------------------------------------------------------
(* A link of two communities and its bundle weigh the same.                *)

\* The ids a run has given, and what it weighs between two of them.
IdsOf(r) == Range(r.nodeToDB) \cup {x[1] : x \in r.joining}
BetweenOf(r, p) ==
  {l \in r.detected.links : /\ l[1] \in DOMAIN r.nodeToDB /\ l[2] \in DOMAIN r.nodeToDB
                            /\ {r.nodeToDB[l[1]], r.nodeToDB[l[2]]} = {p[1], p[2]}}
WeightOf(r, p) == Cardinality(BetweenOf(r, p))
PairsOf(r) == {q \in Range(r.nodeToDB) \X Range(r.nodeToDB) : q[1] < q[2] /\ BetweenOf(r, q) # {}}
WeighedOf(r) == {<<p[1], p[2], WeightOf(r, p)>> : p \in PairsOf(r)}

\* Ids are never given twice, so a row with an id of a run is one that this
\* run wrote.
Weighing == {"links", "clearBundles", "bundles"}
OwnRows(r, W) == \A p \in DOMAIN W : p[1] \in IdsOf(r) => r.pc \in Weighing /\ W[p] = WeightOf(r, p)
WeighsWell(r, n, L, B) ==
  /\ IdsOf(r) \subseteq 1 .. n
  /\ r.pc # "members" => r.joining = {}
  /\ r.pc \in {"links", "bundles"} => r.todo \subseteq WeighedOf(r)
  /\ OwnRows(r, L) /\ OwnRows(r, B)

Apart == \A s, t \in Storers : s # t /\ store[s] # Resting /\ store[t] # Resting
                                 => IdsOf(store[s]) \cap IdsOf(store[t]) = {}
WeightInv ==
  /\ \A s \in Storers : store[s] # Resting => WeighsWell(store[s], serial, communityLinks, bundles)
  /\ Apart
  /\ StoredWeightsAgree

LEMMA WeighedIs == \A s : Weighed(s) = WeighedOf(store[s]) /\ BundleWeights(s) = WeighedOf(store[s])
<1> SUFFICES ASSUME NEW s PROVE Weighed(s) = WeighedOf(store[s])
  BY DEF BundleWeights
<1>1. \A p : Between(s, p[1], p[2]) = BetweenOf(store[s], p)
  BY DEF Between, BetweenOf
<1> QED BY <1>1 DEF Weighed, WeighedOf, PairsOf, WeightOf

\* Two runs that differ in nothing that is weighed.
AlikeRuns(r, o) ==
  /\ r.detected = o.detected /\ r.nodeToDB = o.nodeToDB
  /\ IdsOf(r) \subseteq IdsOf(o)

LEMMA AlikeWeighs ==
  ASSUME NEW r, NEW o, AlikeRuns(r, o)
  PROVE  /\ \A p : BetweenOf(r, p) = BetweenOf(o, p) /\ WeightOf(r, p) = WeightOf(o, p)
         /\ WeighedOf(r) = WeighedOf(o)
<1>1. \A p : BetweenOf(r, p) = BetweenOf(o, p)
  BY DEF AlikeRuns, BetweenOf
<1> QED BY <1>1 DEF AlikeRuns, WeightOf, WeighedOf, PairsOf

\* A step of s, to r, which keeps its ids.
LEMMA WeightStep ==
  ASSUME WeightInv, NEW s \in Storers, NEW r, Steps(s, r),
         NEW n, NEW L, NEW B, n = serial', L = communityLinks', B = bundles',
         r # Resting => /\ WeighsWell(r, n, L, B)
                        /\ \A t \in Storers \ {s} : store[t] # Resting => IdsOf(r) \cap IdsOf(store[t]) = {},
         \A t \in Storers \ {s} : store[t] # Resting => WeighsWell(store[t], n, L, B),
         StoredWeightsAgree'
  PROVE  WeightInv'
<1>1. \A t \in Storers : store'[t] # Resting => WeighsWell(store'[t], n, L, B)
  BY DEF Steps
<1>2. Apart'
  BY DEF Steps, WeightInv, Apart
<1>3. \A t \in Storers : (store[t] # Resting => WeighsWell(store[t], serial, communityLinks, bundles))'
  BY <1>1
<1> QED BY <1>2, <1>3 DEF WeightInv

\* The same where no row is written and no id given.
LEMMA QuietWeight ==
  ASSUME WeightInv, NEW s \in Storers, NEW r, Steps(s, r),
         UNCHANGED <<serial, communityLinks, bundles>>,
         r # Resting => /\ store[s] # Resting /\ AlikeRuns(r, store[s])
                        /\ r.pc # "members" => r.joining = {}
                        /\ r.pc \in {"links", "bundles"} => r.todo \subseteq WeighedOf(r)
                        /\ store[s].pc \in Weighing => r.pc \in Weighing
  PROVE  WeightInv'
<1>1. StoredWeightsAgree'
  BY DEF WeightInv, StoredWeightsAgree
<1>2. ASSUME r # Resting PROVE WeighsWell(r, serial, communityLinks, bundles)
  <2>1. WeighsWell(store[s], serial, communityLinks, bundles)
    BY <1>2 DEF WeightInv
  <2>2. \A p : WeightOf(r, p) = WeightOf(store[s], p)
    BY <1>2, AlikeWeighs
  <2> QED BY <1>2, <2>1, <2>2 DEF WeighsWell, OwnRows, AlikeRuns
<1>3. r # Resting => \A t \in Storers \ {s} : store[t] # Resting => IdsOf(r) \cap IdsOf(store[t]) = {}
  BY DEF WeightInv, Apart, AlikeRuns
<1>4. \A t \in Storers \ {s} : store[t] # Resting => WeighsWell(store[t], serial, communityLinks, bundles)
  BY DEF WeightInv
<1>5. PICK n, L, B : /\ n = serial /\ L = communityLinks /\ B = bundles
                     /\ n = serial' /\ L = communityLinks' /\ B = bundles'
  OBVIOUS
<1> QED BY <1>1, <1>2, <1>3, <1>4, <1>5, WeightStep

LEMMA EndWeight ==
  ASSUME WeightInv, NEW s \in Storers, store' = [store EXCEPT ![s] = Resting], StoreTyped,
         UNCHANGED <<serial, communityLinks, bundles>>
  PROVE  WeightInv'
<1>1. Steps(s, Resting)
  BY RestsStore
<1> QED BY <1>1, QuietWeight

LEMMA IdsIs ==
  ASSUME NEW pc, NEW d, NEW T, NEW J, NEW of, NEW n, NEW a, NEW r, r = Storing(pc, d, T, J, of, n, a)
  PROVE  IdsOf(r) = Range(of) \cup {x[1] : x \in J}
BY StoringIs DEF IdsOf

\* s has gone on to pc, with U to insert, or to no run at all.
LEMMA GoesWeight ==
  ASSUME StoreInv, WeightInv, NEW s \in Storers, store[s] # Resting, NEW to \in StorePCs, NEW U, Goes(s, to, U),
         to # "members", UNCHANGED <<serial, communityLinks, bundles>>,
         store[s].pc = "members" => store[s].joining = {},
         to \in {"links", "bundles"} => U \subseteq WeighedOf(store[s]),
         store[s].pc \in Weighing => to \in Weighing
  PROVE  WeightInv'
<1>1. PICK T, J, of, n : \E d, a : Has(s, store[s].pc, d, T, J, of, n, a)
  BY WorkingHas DEF StoreInv
<1>2. PICK pc : pc = store[s].pc
  OBVIOUS
<1>3. PICK d, a : Has(s, pc, d, T, J, of, n, a)
  BY <1>1, <1>2
<1>4. PICK r : r = Storing(to, d, U, J, of, n, a)
  OBVIOUS
<1>5. Steps(s, r)
  BY <1>3, <1>4, GoesStore DEF StoreInv
<1>6. /\ store[s].detected = d /\ store[s].joining = J /\ store[s].nodeToDB = of
      /\ r.detected = d /\ r.joining = J /\ r.nodeToDB = of /\ r.pc = to /\ r.todo = U
  BY <1>3, <1>4, StoringIs DEF Has
<1>7. AlikeRuns(r, store[s])
  BY <1>6 DEF AlikeRuns, IdsOf
<1>8. r.joining = {}
  BY <1>6 DEF WeightInv, WeighsWell
<1>9. WeighedOf(r) = WeighedOf(store[s])
  BY <1>7, AlikeWeighs
<1> QED BY <1>5, <1>6, <1>7, <1>8, <1>9, QuietWeight

\* A row is done with and changed nothing, in a table that is not weighed, or
\* failed.
LEMMA DoneWeight ==
  ASSUME StoreInv, WeightInv, NEW s \in Storers, store[s] # Resting, NEW e, Done(s, e),
         UNCHANGED <<serial, communityLinks, bundles>>
  PROVE  WeightInv'
<1>1. PICK T, J, of, n : \E d, a : Has(s, store[s].pc, d, T, J, of, n, a)
  BY WorkingHas DEF StoreInv
<1>2. PICK pc : pc = store[s].pc
  OBVIOUS
<1>3. PICK d, a : Has(s, pc, d, T, J, of, n, a)
  BY <1>1, <1>2
<1>4. PICK r : r = Storing(pc, d, T \ {e}, J, of, n, a)
  OBVIOUS
<1>5. Steps(s, r)
  BY <1>3, <1>4, DoneStore DEF StoreInv
<1>6. /\ store[s].detected = d /\ store[s].joining = J /\ store[s].nodeToDB = of /\ store[s].todo = T
      /\ r.detected = d /\ r.joining = J /\ r.nodeToDB = of /\ r.pc = pc /\ r.todo = T \ {e}
  BY <1>3, <1>4, StoringIs DEF Has
<1>7. AlikeRuns(r, store[s])
  BY <1>6 DEF AlikeRuns, IdsOf
<1>8. WeighedOf(r) = WeighedOf(store[s])
  BY <1>7, AlikeWeighs
<1>9. /\ r.pc # "members" => r.joining = {}
      /\ r.pc \in {"links", "bundles"} => r.todo \subseteq WeighedOf(r)
  BY <1>2, <1>6, <1>8 DEF WeightInv, WeighsWell
<1> QED BY <1>2, <1>5, <1>6, <1>7, <1>9, QuietWeight

LEMMA MemberWeight ==
  ASSUME StoreInv, WeightInv, NEW s \in Storers, CreateCommunityMember(s)
  PROVE  WeightInv'
<1>0. store[s].pc = "members" /\ store[s] # Resting /\ UNCHANGED <<serial, communityLinks, bundles>>
  BY RestingIs DEF CreateCommunityMember, StorePCs
<1>1. CASE Goes(s, "communities", store[s].todo) /\ store[s].joining = {}
  BY <1>0, <1>1, GoesWeight DEF StorePCs, Weighing
<1>2. CASE \E r \in store[s].joining : store' = [store EXCEPT ![s].joining = @ \ {r}, ![s].nodeToDB = Put(@, r[2], r[1])]
  <2>1. PICK e \in store[s].joining : store' = [store EXCEPT ![s].joining = @ \ {e}, ![s].nodeToDB = Put(@, e[2], e[1])]
    BY <1>2
  <2>2. PICK T, J, of, n : \E d, a : Has(s, "members", d, T, J, of, n, a)
    BY <1>0, AtHas DEF StoreInv
  <2>3. PICK d, a : Has(s, "members", d, T, J, of, n, a)
    BY <2>2
  <2>4. PICK r : r = Storing("members", d, T, J \ {e}, Put(of, e[2], e[1]), n, a)
    OBVIOUS
  <2>5. Steps(s, r)
    BY <2>1, <2>3, <2>4, JoinedStore DEF StoreInv
  <2>6. store[s].joining = J /\ r.pc = "members" /\ e \in J
    BY <2>1, <2>3, <2>4, StoringIs DEF Has
  <2>7. IdsOf(store[s]) = Range(of) \cup {x[1] : x \in J}
    BY <2>3, IdsIs DEF Has
  <2>8. IdsOf(r) = Range(Put(of, e[2], e[1])) \cup {x[1] : x \in J \ {e}}
    BY <2>4, IdsIs
  <2>9. IdsOf(r) \subseteq IdsOf(store[s])
    <3>1. Range(Put(of, e[2], e[1])) \subseteq Range(of) \cup {e[1]}
      BY PutRange
    <3> QED BY <2>6, <2>7, <2>8, <3>1
  <2>10. StoredWeightsAgree'
    BY <1>0 DEF WeightInv, StoredWeightsAgree
  <2>11. WeighsWell(r, serial, communityLinks, bundles)
    <3>1. WeighsWell(store[s], serial, communityLinks, bundles)
      BY <1>0 DEF WeightInv
    <3>2. \A W : OwnRows(store[s], W) => OwnRows(r, W)
      BY <1>0, <2>9 DEF OwnRows, Weighing
    <3> QED BY <2>6, <2>9, <3>1, <3>2 DEF WeighsWell
  <2>12. \A t \in Storers \ {s} : store[t] # Resting => IdsOf(r) \cap IdsOf(store[t]) = {}
    BY <1>0, <2>9 DEF WeightInv, Apart
  <2>13. \A t \in Storers \ {s} : store[t] # Resting => WeighsWell(store[t], serial, communityLinks, bundles)
    BY DEF WeightInv
  <2>14. PICK m, L, B : /\ m = serial /\ L = communityLinks /\ B = bundles
                        /\ m = serial' /\ L = communityLinks' /\ B = bundles'
    BY <1>0
  <2> QED BY <2>5, <2>10, <2>11, <2>12, <2>13, <2>14, WeightStep
<1> QED BY <1>1, <1>2 DEF CreateCommunityMember

\* A new id is one that no row and no run has.
LEMMA CommunityWeight ==
  ASSUME StoreInv, WeightInv, NEW s \in Storers, CreateCommunity(s)
  PROVE  WeightInv'
<1>0. store[s].pc = "communities" /\ store[s] # Resting /\ UNCHANGED <<communityLinks, bundles>>
  BY RestingIs DEF CreateCommunity, StorePCs
<1>1. CASE UNCHANGED serial /\ \E U : Goes(s, "communities", U)
  BY <1>0, <1>1, GoesWeight DEF StorePCs, Weighing
<1>2. CASE ~(UNCHANGED serial /\ \E U : Goes(s, "communities", U))
  <2>1. PICK U, M : /\ serial' = serial + 1
                    /\ store' = [store EXCEPT ![s].pc = "members", ![s].todo = U,
                                              ![s].joining = {<<serial', x>> : x \in M}]
    BY <1>2 DEF CreateCommunity
  <2>2. PICK T, J, of, n : \E d, a : Has(s, "communities", d, T, J, of, n, a)
    BY <1>0, AtHas DEF StoreInv
  <2>3. PICK d, a : Has(s, "communities", d, T, J, of, n, a)
    BY <2>2
  <2>4. PICK m : m = serial' /\ m = serial + 1
    BY <2>1
  <2>5. PICK V : V = {<<m, x>> : x \in M} /\ V = {<<serial', x>> : x \in M}
    BY <2>4
  <2>6. ArePairs(V)
    BY <2>5 DEF ArePairs
  <2>7. PICK r : r = Storing("members", d, U, V, of, n, a)
    OBVIOUS
  <2>8. Steps(s, r)
    BY <2>1, <2>3, <2>5, <2>6, <2>7, JoiningStore DEF StoreInv, StorePCs
  <2>9. r.pc = "members"
    BY <2>7, StoringIs
  <2>10. IdsOf(r) = Range(of) \cup {x[1] : x \in V} /\ IdsOf(store[s]) = Range(of) \cup {x[1] : x \in J}
    BY <2>3, <2>7, IdsIs DEF Has
  <2>11. IdsOf(r) \subseteq IdsOf(store[s]) \cup {m}
    BY <2>5, <2>10
  <2>12. WeighsWell(store[s], serial, communityLinks, bundles) /\ serial \in Nat
    BY <1>0 DEF WeightInv, StoreInv
  <2>13. \A t \in Storers : store[t] # Resting => IdsOf(store[t]) \subseteq 1 .. serial
    BY DEF WeightInv, WeighsWell
  <2>14. \A p \in DOMAIN communityLinks \cup DOMAIN bundles : p[1] \in 1 .. serial
    BY DEF StoreInv, StoreTypeOK, Referred
  <2>15. WeighsWell(r, m, communityLinks, bundles)
    <3>1. IdsOf(r) \subseteq 1 .. m
      BY <1>0, <2>4, <2>11, <2>12, <2>13
    <3>2. \A p \in DOMAIN communityLinks \cup DOMAIN bundles : p[1] \notin IdsOf(store[s])
      BY <1>0, <2>12 DEF WeighsWell, OwnRows, Weighing
    <3>3. \A p \in DOMAIN communityLinks \cup DOMAIN bundles : p[1] \notin IdsOf(r)
      BY <2>4, <2>11, <2>12, <2>14, <3>2
    <3> QED BY <2>9, <3>1, <3>3 DEF WeighsWell, OwnRows
  <2>16. \A t \in Storers \ {s} : store[t] # Resting => IdsOf(r) \cap IdsOf(store[t]) = {}
    <3> SUFFICES ASSUME NEW t \in Storers \ {s}, store[t] # Resting PROVE IdsOf(r) \cap IdsOf(store[t]) = {}
      OBVIOUS
    <3>1. IdsOf(store[s]) \cap IdsOf(store[t]) = {}
      BY <1>0 DEF WeightInv, Apart
    <3>2. m \notin IdsOf(store[t])
      BY <2>4, <2>12, <2>13
    <3> QED BY <2>11, <3>1, <3>2
  <2>17. \A t \in Storers \ {s} : store[t] # Resting => WeighsWell(store[t], m, communityLinks, bundles)
    <3> SUFFICES ASSUME NEW t \in Storers \ {s}, store[t] # Resting
                 PROVE  WeighsWell(store[t], m, communityLinks, bundles)
      OBVIOUS
    <3>1. WeighsWell(store[t], serial, communityLinks, bundles)
      BY DEF WeightInv
    <3>2. IdsOf(store[t]) \subseteq 1 .. m
      BY <2>4, <2>12, <2>13
    <3> QED BY <3>1, <3>2 DEF WeighsWell
  <2>18. StoredWeightsAgree'
    BY <1>0 DEF WeightInv, StoredWeightsAgree
  <2>19. PICK L, B : /\ L = communityLinks /\ B = bundles
                     /\ L = communityLinks' /\ B = bundles'
    BY <1>0
  <2> QED BY <2>4, <2>8, <2>15, <2>16, <2>17, <2>18, <2>19, WeightStep
<1> QED BY <1>1, <1>2

LEMMA TablesWeight ==
  ASSUME StoreInv, WeightInv, NEW s \in Storers, ClearCommunityTables(s)
  PROVE  WeightInv'
<1>0. store[s].pc = "clearCommunities" /\ store[s] # Resting /\ serial' = serial
  BY RestingIs DEF ClearCommunityTables, StorePCs
<1>1. CASE store' = [store EXCEPT ![s] = Resting] /\ UNCHANGED <<communityLinks, bundles>>
  BY <1>0, <1>1, EndWeight DEF StoreInv
<1>2. CASE communityLinks' = Empty /\ bundles' = Empty /\ Goes(s, "communities", Range(store[s].detected.flat))
  <2>1. PICK U : U = Range(store[s].detected.flat)
    OBVIOUS
  <2>2. PICK T, J, of, n : \E d, a : Has(s, "clearCommunities", d, T, J, of, n, a)
    BY <1>0, AtHas DEF StoreInv
  <2>3. PICK d, a : Has(s, "clearCommunities", d, T, J, of, n, a)
    BY <2>2
  <2>4. PICK r : r = Storing("communities", d, U, J, of, n, a)
    OBVIOUS
  <2>5. Steps(s, r)
    BY <1>2, <2>1, <2>3, <2>4, GoesStore DEF StoreInv, StorePCs
  <2>6. store[s].joining = J /\ r.joining = J /\ r.pc = "communities"
    BY <2>3, <2>4, StoringIs DEF Has
  <2>7. IdsOf(r) = IdsOf(store[s])
    <3>1. IdsOf(r) = Range(of) \cup {x[1] : x \in J}
      BY <2>4, IdsIs
    <3>2. IdsOf(store[s]) = Range(of) \cup {x[1] : x \in J}
      BY <2>3, IdsIs DEF Has
    <3> QED BY <3>1, <3>2
  <2>8. \A R : OwnRows(R, Empty)
    BY EmptyIs DEF OwnRows
  <2>9. WeighsWell(r, serial, Empty, Empty)
    BY <1>0, <2>6, <2>7, <2>8 DEF WeightInv, WeighsWell
  <2>10. \A t \in Storers \ {s} : store[t] # Resting => /\ IdsOf(r) \cap IdsOf(store[t]) = {}
                                                        /\ WeighsWell(store[t], serial, Empty, Empty)
    BY <1>0, <2>7, <2>8 DEF WeightInv, Apart, WeighsWell
  <2>11. StoredWeightsAgree'
    BY <1>2, EmptyIs DEF StoredWeightsAgree
  <2>12. PICK m : m = serial /\ m = serial'
    BY <1>0
  <2>13. PICK L : L = Empty /\ L = communityLinks' /\ L = bundles'
    BY <1>2
  <2> QED BY <2>5, <2>9, <2>10, <2>11, <2>12, <2>13, WeightStep
<1> QED BY <1>1, <1>2 DEF ClearCommunityTables

\* A row of s goes into a table W of the two: what the runs know of it stays.
LEMMA InsertedRow ==
  ASSUME WeightInv, NEW s \in Storers, store[s] # Resting, store[s].pc \in Weighing,
         NEW e \in WeighedOf(store[s]), NEW W,
         \A t \in Storers : store[t] # Resting => OwnRows(store[t], W)
  PROVE  /\ <<e[1], e[2]>>[1] \in IdsOf(store[s]) /\ e[3] = WeightOf(store[s], <<e[1], e[2]>>)
         /\ \A t \in Storers : store[t] # Resting => OwnRows(store[t], Put(W, <<e[1], e[2]>>, e[3]))
<1>1. PICK p \in PairsOf(store[s]) : e = <<p[1], p[2], WeightOf(store[s], p)>>
  BY DEF WeighedOf
<1>2. p = <<p[1], p[2]>> /\ p[1] \in IdsOf(store[s])
  BY DEF PairsOf, IdsOf
<1>3. e[3] = WeightOf(store[s], p) /\ <<e[1], e[2]>> = p
  BY <1>1, <1>2
<1>4. \A t \in Storers : store[t] # Resting => OwnRows(store[t], Put(W, p, e[3]))
  <2> SUFFICES ASSUME NEW t \in Storers, store[t] # Resting, NEW k \in DOMAIN Put(W, p, e[3]),
                      k[1] \in IdsOf(store[t])
               PROVE  store[t].pc \in Weighing /\ Put(W, p, e[3])[k] = WeightOf(store[t], k)
    BY DEF OwnRows
  <2>1. CASE k = p
    <3>1. t = s
      BY <1>2, <2>1 DEF WeightInv, Apart
    <3>2. Put(W, p, e[3])[p] = e[3]
      BY PutValue
    <3> QED BY <1>3, <2>1, <3>1, <3>2
  <2>2. CASE k # p
    <3>0. DOMAIN Put(W, p, e[3]) = DOMAIN W \cup {p}
      BY PutDomain
    <3>1. k \in DOMAIN W
      BY <2>2, <3>0
    <3>2. Put(W, p, e[3])[k] = W[k]
      BY <2>2, <3>1, PutValue
    <3> QED BY <3>1, <3>2 DEF OwnRows
  <2> QED BY <2>1, <2>2
<1> QED BY <1>2, <1>3, <1>4

\* The row e of s goes into one table; the other stays.
LEMMA InsertWeight ==
  ASSUME StoreInv, WeightInv, NEW s \in Storers, store[s] # Resting, store[s].pc \in {"links", "bundles"},
         NEW e \in store[s].todo, Done(s, e), serial' = serial,
         \/ communityLinks' = Put(communityLinks, <<e[1], e[2]>>, e[3]) /\ bundles' = bundles
         \/ bundles' = Put(bundles, <<e[1], e[2]>>, e[3]) /\ communityLinks' = communityLinks
  PROVE  WeightInv'
<1>1. PICK T, J, of, n : \E d, a : Has(s, store[s].pc, d, T, J, of, n, a)
  BY WorkingHas DEF StoreInv
<1>2. PICK pc : pc = store[s].pc
  OBVIOUS
<1>3. PICK d, a : Has(s, pc, d, T, J, of, n, a)
  BY <1>1, <1>2
<1>4. PICK r : r = Storing(pc, d, T \ {e}, J, of, n, a)
  OBVIOUS
<1>5. Steps(s, r)
  BY <1>3, <1>4, DoneStore DEF StoreInv
<1>6. /\ store[s].detected = d /\ store[s].joining = J /\ store[s].nodeToDB = of /\ store[s].todo = T
      /\ r.detected = d /\ r.joining = J /\ r.nodeToDB = of /\ r.pc = pc /\ r.todo = T \ {e}
  BY <1>3, <1>4, StoringIs DEF Has
<1>7. AlikeRuns(r, store[s]) /\ IdsOf(r) = IdsOf(store[s])
  BY <1>6 DEF AlikeRuns, IdsOf
<1>8. WeighedOf(r) = WeighedOf(store[s]) /\ \A p : WeightOf(r, p) = WeightOf(store[s], p)
  BY <1>7, AlikeWeighs
<1>9. e \in WeighedOf(store[s]) /\ store[s].pc \in Weighing
  BY DEF WeightInv, WeighsWell, Weighing
<1>10. PICK p : p = <<e[1], e[2]>>
  OBVIOUS
<1>11. PICK L, B, m : L = communityLinks' /\ B = bundles' /\ m = serial' /\ m = serial
  OBVIOUS
<1>12. \A t \in Storers : store[t] # Resting => OwnRows(store[t], communityLinks) /\ OwnRows(store[t], bundles)
  BY DEF WeightInv, WeighsWell
<1>13. /\ p[1] \in IdsOf(store[s]) /\ e[3] = WeightOf(store[s], p)
       /\ \A t \in Storers : store[t] # Resting => OwnRows(store[t], L) /\ OwnRows(store[t], B)
  <2>1. CASE communityLinks' = Put(communityLinks, p, e[3]) /\ bundles' = bundles
    BY <1>9, <1>10, <1>11, <1>12, <2>1, InsertedRow
  <2>2. CASE bundles' = Put(bundles, p, e[3]) /\ communityLinks' = communityLinks
    BY <1>9, <1>10, <1>11, <1>12, <2>2, InsertedRow
  <2> QED BY <1>10, <2>1, <2>2
<1>14. WeighsWell(r, m, L, B)
  <2>1. OwnRows(r, L) /\ OwnRows(r, B)
    BY <1>2, <1>6, <1>7, <1>8, <1>13 DEF OwnRows
  <2>2. WeighsWell(store[s], serial, communityLinks, bundles)
    BY DEF WeightInv
  <2> QED BY <1>2, <1>6, <1>7, <1>8, <1>11, <2>1, <2>2 DEF WeighsWell
<1>15. \A t \in Storers \ {s} : store[t] # Resting => /\ IdsOf(r) \cap IdsOf(store[t]) = {}
                                                      /\ WeighsWell(store[t], m, L, B)
  BY <1>7, <1>11, <1>13 DEF WeightInv, Apart, WeighsWell
<1>16. StoredWeightsAgree'
  <2> SUFFICES ASSUME NEW k \in DOMAIN L \cap DOMAIN B PROVE L[k] = B[k]
    BY <1>11 DEF StoredWeightsAgree
  <2>1. CASE communityLinks' = Put(communityLinks, p, e[3]) /\ bundles' = bundles
    <3>1. CASE k = p
      <4>1. L[k] = e[3]
        BY <1>11, <2>1, <3>1, PutValue
      <4>2. B[k] = WeightOf(store[s], p)
        BY <1>11, <1>13, <3>1 DEF OwnRows
      <4> QED BY <1>13, <4>1, <4>2
    <3>2. CASE k # p
      <4>0. DOMAIN Put(communityLinks, p, e[3]) = DOMAIN communityLinks \cup {p}
        BY PutDomain
      <4>1. k \in DOMAIN communityLinks
        BY <1>11, <2>1, <3>2, <4>0
      <4>2. L[k] = communityLinks[k]
        BY <1>11, <2>1, <3>2, <4>1, PutValue
      <4> QED BY <1>11, <2>1, <4>1, <4>2 DEF WeightInv, StoredWeightsAgree
    <3> QED BY <3>1, <3>2
  <2>2. CASE bundles' = Put(bundles, p, e[3]) /\ communityLinks' = communityLinks
    <3>1. CASE k = p
      <4>1. B[k] = e[3]
        BY <1>11, <2>2, <3>1, PutValue
      <4>2. L[k] = WeightOf(store[s], p)
        BY <1>11, <1>13, <3>1 DEF OwnRows
      <4> QED BY <1>13, <4>1, <4>2
    <3>2. CASE k # p
      <4>0. DOMAIN Put(bundles, p, e[3]) = DOMAIN bundles \cup {p}
        BY PutDomain
      <4>1. k \in DOMAIN bundles
        BY <1>11, <2>2, <3>2, <4>0
      <4>2. B[k] = bundles[k]
        BY <1>11, <2>2, <3>2, <4>1, PutValue
      <4> QED BY <1>11, <2>2, <4>1, <4>2 DEF WeightInv, StoredWeightsAgree
    <3> QED BY <3>1, <3>2
  <2> QED BY <1>10, <2>1, <2>2
<1> QED BY <1>5, <1>11, <1>14, <1>15, <1>16, WeightStep

LEMMA LinksWeight ==
  ASSUME StoreInv, WeightInv, NEW s \in Storers,
         CreateCommunityLink(s) \/ CreateEdgeBundle(s)
  PROVE  WeightInv'
<1>0. store[s].pc \in {"links", "bundles"} /\ store[s] # Resting /\ serial' = serial
  BY RestingIs DEF CreateCommunityLink, CreateEdgeBundle, StorePCs
<1>1. CASE Goes(s, "clearBundles", {}) /\ UNCHANGED <<communityLinks, bundles>>
  BY <1>0, <1>1, GoesWeight DEF StorePCs, Weighing
<1>2. CASE \E e \in store[s].todo : Done(s, e) /\ UNCHANGED <<communityLinks, bundles>>
  BY <1>0, <1>2, DoneWeight
<1>3. CASE \E e \in store[s].todo :
             /\ Done(s, e)
             /\ \/ communityLinks' = Put(communityLinks, <<e[1], e[2]>>, e[3]) /\ bundles' = bundles
                \/ bundles' = Put(bundles, <<e[1], e[2]>>, e[3]) /\ communityLinks' = communityLinks
  BY <1>0, <1>3, InsertWeight
<1>4. CreateCommunityLink(s) => bundles' = bundles /\
        \/ Goes(s, "clearBundles", {}) /\ UNCHANGED communityLinks
        \/ \E e \in store[s].todo : /\ Done(s, e)
                                    /\ \/ UNCHANGED communityLinks
                                       \/ communityLinks' = Put(communityLinks, <<e[1], e[2]>>, e[3])
  BY DEF CreateCommunityLink, Inserts
<1>5. CreateEdgeBundle(s) => communityLinks' = communityLinks /\
        \E e \in store[s].todo : /\ Done(s, e)
                                 /\ \/ UNCHANGED bundles
                                    \/ bundles' = Put(bundles, <<e[1], e[2]>>, e[3])
  BY DEF CreateEdgeBundle, Inserts
<1> QED BY <1>1, <1>2, <1>3, <1>4, <1>5

LEMMA BundlesWeight ==
  ASSUME StoreInv, WeightInv, NEW s \in Storers, ClearEdgeBundles(s)
  PROVE  WeightInv'
<1>0. store[s].pc = "clearBundles" /\ store[s] # Resting /\ serial' = serial /\ communityLinks' = communityLinks
  BY RestingIs DEF ClearEdgeBundles, StorePCs
<1>1. CASE store' = [store EXCEPT ![s] = Resting] /\ UNCHANGED bundles
  BY <1>0, <1>1, EndWeight DEF StoreInv
<1>2. CASE bundles' = Empty /\ Goes(s, "bundles", BundleWeights(s))
  <2>1. PICK U : U = WeighedOf(store[s]) /\ U = BundleWeights(s)
    BY WeighedIs
  <2>2. PICK T, J, of, n : \E d, a : Has(s, "clearBundles", d, T, J, of, n, a)
    BY <1>0, AtHas DEF StoreInv
  <2>3. PICK d, a : Has(s, "clearBundles", d, T, J, of, n, a)
    BY <2>2
  <2>4. PICK r : r = Storing("bundles", d, U, J, of, n, a)
    OBVIOUS
  <2>5. Steps(s, r)
    BY <1>2, <2>1, <2>3, <2>4, GoesStore DEF StoreInv, StorePCs
  <2>6. /\ store[s].detected = d /\ store[s].joining = J /\ store[s].nodeToDB = of
        /\ r.detected = d /\ r.joining = J /\ r.nodeToDB = of /\ r.pc = "bundles" /\ r.todo = U
    BY <2>3, <2>4, StoringIs DEF Has
  <2>7. AlikeRuns(r, store[s]) /\ IdsOf(r) = IdsOf(store[s])
    BY <2>6 DEF AlikeRuns, IdsOf
  <2>8. WeighedOf(r) = WeighedOf(store[s]) /\ \A p : WeightOf(r, p) = WeightOf(store[s], p)
    BY <2>7, AlikeWeighs
  <2>9. WeighsWell(store[s], serial, communityLinks, bundles)
    BY <1>0 DEF WeightInv
  <2>10. \A R : OwnRows(R, Empty)
    BY EmptyIs DEF OwnRows
  <2>11. WeighsWell(r, serial, communityLinks, Empty)
    <3>1. OwnRows(r, communityLinks)
      BY <1>0, <2>6, <2>7, <2>8, <2>9 DEF WeighsWell, OwnRows, Weighing
    <3> QED BY <1>0, <2>1, <2>6, <2>7, <2>8, <2>9, <2>10, <3>1 DEF WeighsWell
  <2>12. \A t \in Storers \ {s} : store[t] # Resting => /\ IdsOf(r) \cap IdsOf(store[t]) = {}
                                                        /\ WeighsWell(store[t], serial, communityLinks, Empty)
    BY <1>0, <2>7, <2>10 DEF WeightInv, Apart, WeighsWell
  <2>13. StoredWeightsAgree'
    BY <1>2, EmptyIs DEF StoredWeightsAgree
  <2>14. PICK m, L, B : /\ m = serial /\ m = serial' /\ L = communityLinks /\ L = communityLinks'
                        /\ B = Empty /\ B = bundles'
    BY <1>0, <1>2
  <2> QED BY <2>5, <2>11, <2>12, <2>13, <2>14, WeightStep
<1> QED BY <1>1, <1>2 DEF ClearEdgeBundles

\* Steps that write no weight and give no id.
LEMMA PlainWeight ==
  ASSUME StoreInv, WeightInv, NEW s \in Storers,
         ClearCommunityHierarchy(s) \/ InsertCommunityHierarchy(s) \/ CountLinks(s) \/ End(s) \/ Die(s)
  PROVE  WeightInv'
<1>0. UNCHANGED <<serial, communityLinks, bundles>> /\ store[s] # Resting
  BY RestingIs DEF ClearCommunityHierarchy, InsertCommunityHierarchy, CountLinks, End, Die, tables, StorePCs
<1>1. CASE ClearCommunityHierarchy(s)
  <2>1. store[s].pc = "clearHierarchy"
        /\ \E to \in {"hierarchy", "clearCommunities"} : \E U : Goes(s, to, U)
    BY <1>1 DEF ClearCommunityHierarchy
  <2> QED BY <1>0, <2>1, GoesWeight DEF StorePCs, Weighing
<1>2. CASE InsertCommunityHierarchy(s)
  <2>1. CASE Goes(s, "clearCommunities", {}) /\ store[s].pc = "hierarchy"
    BY <1>0, <2>1, GoesWeight DEF StorePCs, Weighing
  <2>2. CASE \E e : Done(s, e)
    BY <1>0, <2>2, DoneWeight
  <2> QED BY <1>2, <2>1, <2>2 DEF InsertCommunityHierarchy
<1>3. CASE CountLinks(s)
  <2>1. Goes(s, "links", WeighedOf(store[s])) /\ store[s].pc = "communities"
    BY <1>3, WeighedIs DEF CountLinks
  <2> QED BY <1>0, <2>1, GoesWeight DEF StorePCs, Weighing
<1>4. CASE End(s) \/ Die(s)
  BY <1>0, <1>4, EndWeight DEF End, Die, StoreInv
<1> QED BY <1>1, <1>2, <1>3, <1>4

\* Another run starts: the runs there are know it, and nothing else.
LEMMA BeginWeight ==
  ASSUME StoreInv, WeightInv, NEW s \in Storers, NEW d \in Detections, Begin(s, d)
  PROVE  WeightInv'
<1>0. UNCHANGED <<serial, communityLinks, bundles>>
  BY DEF Begin, tables
<1>1. StoreTyped /\ storeFaults \in Nat /\ serial \in Nat
  BY StoreAssumption DEF StoreInv, StoreTypeOK
<1>2. PICK a \in BOOLEAN : store'[s] = Storing("clearHierarchy", d, {}, {}, Empty, storeFaults, a)
  BY <1>1, BeginIs
<1>3. PICK r : r = Storing("clearHierarchy", d, {}, {}, Empty, storeFaults, a)
  OBVIOUS
<1>4. IdsOf(r) = {} /\ r.joining = {} /\ r.pc = "clearHierarchy"
  <2>1. IdsOf(r) = Range(Empty) \cup {x[1] : x \in {}}
    BY <1>3, IdsIs
  <2> QED BY <1>3, <2>1, StoringIs, EmptyIs
<1>5. WeighsWell(r, serial, communityLinks, bundles)
  BY <1>1, <1>4 DEF WeighsWell, OwnRows
<1>6. ASSUME NEW t \in Storers \ {s}, store'[t] # Resting
      PROVE  /\ store[t] # Resting /\ IdsOf(store'[t]) = IdsOf(store[t])
             /\ WeighsWell(store'[t], serial, communityLinks, bundles)
  <2>1. PICK pc, T, J, of, n : \E e, b : /\ Has(t, pc, e, T, J, of, n, b)
                                         /\ store'[t] = Storing(pc, e, T, J, of, n, FALSE)
    BY <1>1, <1>6, BeginIs
  <2>2. PICK e, b : /\ Has(t, pc, e, T, J, of, n, b)
                    /\ store'[t] = Storing(pc, e, T, J, of, n, FALSE)
    BY <2>1
  <2>3. PICK o, v, f : o = store[t] /\ o = Storing(pc, e, T, J, of, n, b) /\ v = Storing(pc, e, T, J, of, n, f)
                       /\ v = store'[t]
    BY <2>2 DEF Has
  <2>4. /\ o.detected = e /\ o.joining = J /\ o.nodeToDB = of /\ o.pc = pc /\ o.todo = T
        /\ v.detected = e /\ v.joining = J /\ v.nodeToDB = of /\ v.pc = pc /\ v.todo = T
    <3>1. o.detected = e /\ o.joining = J /\ o.nodeToDB = of /\ o.pc = pc /\ o.todo = T
      BY <2>3, StoringIs
    <3>2. v = Storing(pc, e, T, J, of, n, f)
      BY <2>3
    <3>3. v.detected = e /\ v.joining = J /\ v.nodeToDB = of /\ v.pc = pc /\ v.todo = T
      BY <3>2, StoringIs
    <3> QED BY <3>1, <3>3
  <2>5. AlikeRuns(v, o) /\ IdsOf(v) = IdsOf(o)
    BY <2>4 DEF AlikeRuns, IdsOf
  <2>6. WeighedOf(v) = WeighedOf(o) /\ \A p : WeightOf(v, p) = WeightOf(o, p)
    BY <2>5, AlikeWeighs
  <2>7. pc \in StorePCs
    BY <2>2 DEF Has
  <2>8. o # Resting
    BY <2>4, <2>7, RestingIs
  <2>9. WeighsWell(o, serial, communityLinks, bundles)
    BY <2>3, <2>8 DEF WeightInv
  <2>10. WeighsWell(v, serial, communityLinks, bundles)
    BY <2>4, <2>5, <2>6, <2>9 DEF WeighsWell, OwnRows
  <2> QED BY <2>3, <2>5, <2>8, <2>10
<1>7. PICK m, L, B : /\ m = serial /\ L = communityLinks /\ B = bundles
                     /\ m = serial' /\ L = communityLinks' /\ B = bundles'
  BY <1>0
<1>8. \A t \in Storers : store'[t] # Resting => WeighsWell(store'[t], m, L, B)
  BY <1>2, <1>3, <1>5, <1>6, <1>7
<1>9. Apart'
  <2>1. \A x, y \in Storers \ {s} : x # y /\ store'[x] # Resting /\ store'[y] # Resting
                                      => IdsOf(store'[x]) \cap IdsOf(store'[y]) = {}
    BY <1>6 DEF WeightInv, Apart
  <2> QED BY <1>2, <1>3, <1>4, <2>1 DEF Apart
<1>10. StoredWeightsAgree'
  BY <1>0 DEF WeightInv, StoredWeightsAgree
<1>11. \A t \in Storers : (store[t] # Resting => WeighsWell(store[t], serial, communityLinks, bundles))'
  BY <1>7, <1>8
<1> QED BY <1>9, <1>10, <1>11 DEF WeightInv

LEMMA WeightInit == StoreInit => WeightInv
<1> SUFFICES ASSUME StoreInit PROVE WeightInv
  OBVIOUS
<1>1. \A s \in Storers : store[s] = Resting
  BY DEF StoreInit
<1>2. StoredWeightsAgree
  BY EmptyIs DEF StoreInit, StoredWeightsAgree
<1> QED BY <1>1, <1>2 DEF WeightInv, Apart

LEMMA WeightKept == StoreInv /\ WeightInv /\ [StoreNext]_storeVars => WeightInv'
<1> SUFFICES ASSUME StoreInv, WeightInv, [StoreNext]_storeVars PROVE WeightInv'
  OBVIOUS
<1>1. CASE UNCHANGED <<store, serial, communityLinks, bundles>>
  BY <1>1 DEF WeightInv, Apart, StoredWeightsAgree
<1>2. CASE \E s \in Storers : StoreStep(s)
  <2>1. PICK s \in Storers : StoreStep(s)
    BY <1>2
  <2> QED BY <2>1, BeginWeight, PlainWeight, TablesWeight, CommunityWeight, MemberWeight, LinksWeight, BundlesWeight DEF StoreStep
<1>3. (\E n \in GraphNodes : DeleteNode(n)) \/ UNCHANGED storeVars => UNCHANGED <<store, serial, communityLinks, bundles>>
  BY DEF DeleteNode, storeVars, others, tables
<1> QED BY <1>1, <1>2, <1>3 DEF StoreNext

\* communities.go: a link between two communities and its bundle weigh the
\* same where both are there, with rows missing and with two stores at once.
THEOREM StoredWeightsAlwaysAgree == StoreSpec => []StoredWeightsAgree
<1>1. StoreInit => StoreInv /\ WeightInv
  BY StoreTypesInit, WeightInit
<1>2. StoreInv /\ WeightInv /\ [StoreNext]_storeVars => (StoreInv /\ WeightInv)'
  BY StoreTypesKept, WeightKept
<1>3. WeightInv => StoredWeightsAgree
  BY DEF WeightInv
<1> QED BY <1>1, <1>2, <1>3, PTL DEF StoreSpec

-----------------------------------------------------------------------------
(* An undisturbed store leaves what it was given.                          *)

\* A table as the set of its rows.
Keyed(f) == \A k \in DOMAIN f : k = <<k[1], k[2]>>
Rows(f)  == {<<k[1], k[2], f[k]>> : k \in DOMAIN f}
\* Rows of which no two have the same key.
Sound(W) == /\ \A e \in W : e = <<e[1], e[2], e[3]>>
            /\ \A e, o \in W : e[1] = o[1] /\ e[2] = o[2] => e = o

LEMMA RowsEmpty == Keyed(Empty) /\ Rows(Empty) = {}
BY EmptyIs DEF Keyed, Rows

LEMMA PutKeyed == ASSUME NEW f, Keyed(f), NEW a, NEW b, NEW v PROVE Keyed(Put(f, <<a, b>>, v))
<1>1. DOMAIN Put(f, <<a, b>>, v) = DOMAIN f \cup {<<a, b>>}
  BY PutDomain
<1> QED BY <1>1 DEF Keyed

\* The row e goes in, the last but T of W.
LEMMA PutRow ==
  ASSUME NEW f, Keyed(f), NEW W, Sound(W), NEW T, T \subseteq W, Rows(f) = W \ T, NEW e \in T
  PROVE  Rows(Put(f, <<e[1], e[2]>>, e[3])) = W \ (T \ {e})
<1>1. PICK p : p = <<e[1], e[2]>>
  OBVIOUS
<1>2. PICK g : g = Put(f, p, e[3])
  OBVIOUS
<1>3. DOMAIN g = DOMAIN f \cup {p} /\ g[p] = e[3] /\ \A x \in DOMAIN f \ {p} : g[x] = f[x]
  <2>1. DOMAIN g = DOMAIN f \cup {p}
    BY <1>2, PutDomain
  <2> QED BY <1>2, <2>1, PutValue
<1>4. e = <<e[1], e[2], e[3]>> /\ p[1] = e[1] /\ p[2] = e[2] /\ e \in W
  BY <1>1 DEF Sound
<1>5. p \notin DOMAIN f
  <2> SUFFICES ASSUME p \in DOMAIN f PROVE FALSE
    OBVIOUS
  <2>1. PICK o : o = <<p[1], p[2], f[p]>> /\ o \in Rows(f)
    BY DEF Rows
  <2>2. o \in W /\ o \notin T /\ o[1] = e[1] /\ o[2] = e[2]
    BY <1>4, <2>1
  <2> QED BY <1>4, <2>2 DEF Sound
<1>6. Rows(g) = Rows(f) \cup {<<p[1], p[2], g[p]>>}
  <2>1. \A x \in DOMAIN f : g[x] = f[x]
    BY <1>3, <1>5
  <2> QED BY <1>3, <2>1 DEF Rows
<1>7. Rows(g) = Rows(f) \cup {e}
  BY <1>3, <1>4, <1>6
<1> QED BY <1>1, <1>2, <1>4, <1>7

LEMMA HierarchySound == \A d : Sound(HierarchyRows(d))
<1> SUFFICES ASSUME NEW d PROVE Sound(HierarchyRows(d))
  OBVIOUS
<1>1. \A e \in HierarchyRows(d) : /\ e = <<e[1], e[2], e[3]>> /\ e[3] = d.levels[e[2]][e[1]]
                                  /\ e[2] \in DOMAIN d.levels /\ e[1] \in DOMAIN d.levels[e[2]]
  <2> SUFFICES ASSUME NEW e \in HierarchyRows(d)
               PROVE  /\ e = <<e[1], e[2], e[3]>> /\ e[3] = d.levels[e[2]][e[1]]
                      /\ e[2] \in DOMAIN d.levels /\ e[1] \in DOMAIN d.levels[e[2]]
    OBVIOUS
  <2>1. PICK k \in DOMAIN d.levels : \E n \in DOMAIN d.levels[k] : e = <<n, k, d.levels[k][n]>>
    BY DEF HierarchyRows
  <2>2. PICK n \in DOMAIN d.levels[k] : e = <<n, k, d.levels[k][n]>>
    BY <2>1
  <2> QED BY <2>2
<1>2. \A e, o \in HierarchyRows(d) : e[1] = o[1] /\ e[2] = o[2] => e = o
  <2> SUFFICES ASSUME NEW e \in HierarchyRows(d), NEW o \in HierarchyRows(d), e[1] = o[1], e[2] = o[2] PROVE e = o
    OBVIOUS
  <2>1. e[3] = o[3]
    BY <1>1
  <2> QED BY <1>1, <2>1
<1> QED BY <1>1, <1>2 DEF Sound

LEMMA WeighedSound == \A r : Sound(WeighedOf(r))
<1> SUFFICES ASSUME NEW r PROVE Sound(WeighedOf(r))
  OBVIOUS
<1>1. \A e \in WeighedOf(r) : e = <<e[1], e[2], e[3]>> /\ e[3] = WeightOf(r, <<e[1], e[2]>>)
  <2> SUFFICES ASSUME NEW e \in WeighedOf(r) PROVE e = <<e[1], e[2], e[3]>> /\ e[3] = WeightOf(r, <<e[1], e[2]>>)
    OBVIOUS
  <2>1. PICK p \in PairsOf(r) : e = <<p[1], p[2], WeightOf(r, p)>>
    BY DEF WeighedOf
  <2>2. p = <<p[1], p[2]>>
    BY DEF PairsOf
  <2> QED BY <2>1, <2>2
<1>2. \A e, o \in WeighedOf(r) : e[1] = o[1] /\ e[2] = o[2] => e = o
  <2> SUFFICES ASSUME NEW e \in WeighedOf(r), NEW o \in WeighedOf(r), e[1] = o[1], e[2] = o[2] PROVE e = o
    OBVIOUS
  <2>1. e[3] = o[3]
    BY <1>1
  <2> QED BY <1>1, <2>1
<1> QED BY <1>1, <1>2 DEF Sound

\* The rows of a new community are as many as its nodes.
LEMMA AsMany ==
  ASSUME NEW m, NEW M, IsFiniteSet(M), NEW V, \A x \in M : <<m, x>> \in V, \A v \in V : \E x \in M : v = <<m, x>>
  PROVE  Cardinality(V) = Cardinality(M)
<1>1. PICK f : f = [x \in M |-> <<m, x>>]
  OBVIOUS
<1>2. f \in Bijection(M, V)
  <2>1. f \in [M -> V]
    BY <1>1
  <2>2. \A x, y \in M : f[x] = f[y] => x = y
    <3> SUFFICES ASSUME NEW x \in M, NEW y \in M, f[x] = f[y] PROVE x = y
      OBVIOUS
    <3>1. <<m, x>> = <<m, y>>
      BY <1>1
    <3> QED BY <3>1
  <2>3. \A v \in V : \E x \in M : f[x] = v
    BY <1>1
  <2> QED BY <2>1, <2>2, <2>3 DEF Bijection, Injection, Surjection, IsInjective
<1> QED BY <1>2, FS_Bijection DEF ExistsBijection

Early          == {"clearHierarchy", "hierarchy", "clearCommunities"}
Filling        == {"communities", "members"}
AfterTables    == Filling \cup {"links", "clearBundles", "bundles"}
AfterHierarchy == AfterTables \cup {"clearCommunities"}

\* The rows of the members that are in, and of those still to come.
Placed(r)  == {<<r.nodeToDB[n], n>> : n \in DOMAIN r.nodeToDB}
ToPlace(r) == Placed(r) \cup r.joining
ReachedNodes(r) == {n \in DOMAIN r.detected.flat : r.pc \in Filling => r.detected.flat[n] \notin r.todo}

HierarchyPart(r, H) ==
  /\ r.pc = "hierarchy" => /\ r.todo \subseteq HierarchyRows(r.detected)
                           /\ Rows(H) = HierarchyRows(r.detected) \ r.todo
  /\ r.pc \in AfterHierarchy => Rows(H) = HierarchyRows(r.detected)

\* The ids and the nodes of some rows, and the rows of an id.
IdsIn(P)    == {m[1] : m \in P}
NodesIn(P)  == {m[2] : m \in P}
OfId(P, c)  == {m \in P : m[1] = c}
AsFlat(flat, P) == \A m, o \in P : (m[1] = o[1]) <=> (flat[m[2]] = flat[o[2]])
Sized(C, P) == DOMAIN C = IdsIn(P) /\ \A c \in DOMAIN C : C[c] = Cardinality(OfId(P, c))

Grouped(r, C) ==
  /\ NodesIn(ToPlace(r)) = ReachedNodes(r)
  /\ AsFlat(r.detected.flat, ToPlace(r))
  /\ Sized(C, ToPlace(r))

PlacedPart(r, C, M) ==
  /\ r.pc \in Early => DOMAIN r.nodeToDB = {}
  /\ r.pc \in AfterTables => M = Placed(r) /\ Grouped(r, C)
  /\ r.pc \in Filling => r.todo \subseteq Range(r.detected.flat)

WeighedPart(r, L, B) ==
  /\ r.pc \in Filling => Rows(L) = {}
  /\ r.pc = "links" => Rows(L) = WeighedOf(r) \ r.todo
  /\ r.pc \in {"clearBundles", "bundles"} => Rows(L) = WeighedOf(r)
  /\ r.pc \in Filling \cup {"links"} => Rows(B) = {}
  /\ r.pc = "bundles" => Rows(B) = WeighedOf(r) \ r.todo

Progress(r) ==
  /\ DOMAIN r.detected.flat \subseteq graphNodes
  /\ HierarchyPart(r, hierarchy)
  /\ PlacedPart(r, communities, members)
  /\ WeighedPart(r, communityLinks, bundles)

Undisturbed(r) == r.alone /\ r.since = storeFaults

TablesKeyed == Keyed(hierarchy) /\ Keyed(communityLinks) /\ Keyed(bundles)

RunExact(s) ==
  /\ store[s].since <= storeFaults
  /\ store[s].alone => \A t \in Storers \ {s} : store[t] = Resting
  /\ Undisturbed(store[s]) => Progress(store[s])

ExactInv ==
  /\ TablesKeyed
  /\ \A s \in Storers : store[s] # Resting => RunExact(s)
  /\ exact # Unknown => (\A s \in Storers : store[s] = Resting) /\ Shows(exact)

LEMMA KeyedKept == ASSUME TablesKeyed, [StoreNext]_storeVars PROVE TablesKeyed'
<1>1. \A f, a, b, v : Keyed(f) => Keyed(Put(f, <<a, b>>, v))
  BY PutKeyed
<1>2. CASE \E n \in GraphNodes : DeleteNode(n)
  <2>1. \A n : DeleteNode(n) => Keyed(hierarchy')
    BY DEF DeleteNode, TablesKeyed, Keyed
  <2> QED BY <1>2, <2>1 DEF DeleteNode, TablesKeyed
<1>3. CASE UNCHANGED tables
  BY <1>3 DEF TablesKeyed, tables
<1>4. ASSUME NEW s \in Storers, StoreStep(s) PROVE TablesKeyed'
  <2>1. Keyed(hierarchy')
    <3>1. \/ hierarchy' = hierarchy \/ hierarchy' = Empty
          \/ \E r : hierarchy' = Put(hierarchy, <<r[1], r[2]>>, r[3])
      BY <1>4 DEF StoreStep, Begin, ClearCommunityHierarchy, InsertCommunityHierarchy, ClearCommunityTables,
           CreateCommunity, CreateCommunityMember, CountLinks, CreateCommunityLink, ClearEdgeBundles,
           CreateEdgeBundle, End, Die, tables, Inserts
    <3> QED BY <1>1, <3>1, RowsEmpty DEF TablesKeyed
  <2>2. Keyed(communityLinks')
    <3>1. \/ communityLinks' = communityLinks \/ communityLinks' = Empty
          \/ \E r : communityLinks' = Put(communityLinks, <<r[1], r[2]>>, r[3])
      BY <1>4 DEF StoreStep, Begin, ClearCommunityHierarchy, InsertCommunityHierarchy, ClearCommunityTables,
           CreateCommunity, CreateCommunityMember, CountLinks, CreateCommunityLink, ClearEdgeBundles,
           CreateEdgeBundle, End, Die, tables, Inserts
    <3> QED BY <1>1, <3>1, RowsEmpty DEF TablesKeyed
  <2>3. Keyed(bundles')
    <3>1. \/ bundles' = bundles \/ bundles' = Empty
          \/ \E r : bundles' = Put(bundles, <<r[1], r[2]>>, r[3])
      BY <1>4 DEF StoreStep, Begin, ClearCommunityHierarchy, InsertCommunityHierarchy, ClearCommunityTables,
           CreateCommunity, CreateCommunityMember, CountLinks, CreateCommunityLink, ClearEdgeBundles,
           CreateEdgeBundle, End, Die, tables, Inserts
    <3> QED BY <1>1, <3>1, RowsEmpty DEF TablesKeyed
  <2> QED BY <2>1, <2>2, <2>3 DEF TablesKeyed
<1> QED BY <1>2, <1>3, <1>4 DEF StoreNext, storeVars

\* A step of s, to r, that goes on or ends.
LEMMA ExactStep ==
  ASSUME ExactInv, StoreInv, NEW s \in Storers, store[s] # Resting, NEW r, Steps(s, r),
         TablesKeyed', storeFaults' \in Nat, storeFaults <= storeFaults',
         r # Resting => /\ r.alone = store[s].alone /\ r.since = store[s].since
                        /\ Undisturbed(store[s]) /\ storeFaults' = storeFaults => Progress(r)',
         exact' = exact \/ exact' = Unknown
  PROVE  ExactInv'
<1>1. exact' = Unknown
  BY DEF ExactInv
<1>2. ASSUME NEW t \in Storers, store[t] # Resting PROVE store[t].since \in Nat
  <2>1. IsStoring(store[t])
    BY <1>2 DEF StoreInv, StoreTyped
  <2> QED BY <2>1, StoringIs DEF IsStoring
<1>3. storeFaults \in Nat
  BY StoreAssumption DEF StoreInv, StoreTypeOK
<1>4. ASSUME NEW t \in Storers \ {s}, store[t] # Resting PROVE ~store[t].alone
  BY <1>4 DEF ExactInv, RunExact
<1>5. ASSUME r # Resting
      PROVE  /\ r.since <= storeFaults' /\ (r.alone => \A t \in Storers \ {s} : store'[t] = Resting)
             /\ r.alone /\ r.since = storeFaults' => Progress(r)'
  <2>1. RunExact(s)
    BY DEF ExactInv
  <2>2. r.alone = store[s].alone /\ r.since = store[s].since
    BY <1>5
  <2>3. r.since <= storeFaults'
    BY <1>2, <1>3, <2>1, <2>2 DEF RunExact
  <2>4. r.alone => \A t \in Storers \ {s} : store'[t] = Resting
    BY <2>1, <2>2 DEF RunExact, Steps
  <2>5. r.since = storeFaults' => storeFaults' = storeFaults /\ store[s].since = storeFaults
    BY <1>2, <1>3, <2>1, <2>2 DEF RunExact
  <2>6. r.alone /\ r.since = storeFaults' => Progress(r)'
    BY <1>5, <2>2, <2>5 DEF Undisturbed
  <2> QED BY <2>3, <2>4, <2>6
<1>6. ASSUME NEW t \in Storers, store'[t] # Resting PROVE RunExact(t)'
  <2>1. CASE t = s
    <3>1. store'[s] = r
      BY DEF Steps
    <3> QED BY <1>5, <1>6, <2>1, <3>1 DEF RunExact, Undisturbed
  <2>2. CASE t # s
    <3>1. store'[t] = store[t] /\ store[t] # Resting
      BY <1>6, <2>2 DEF Steps
    <3>2. ~store[t].alone /\ store[t].since <= storeFaults
      BY <1>4, <2>2, <3>1 DEF ExactInv, RunExact
    <3>3. store[t].since <= storeFaults'
      BY <1>2, <1>3, <3>1, <3>2
    <3> QED BY <3>1, <3>2, <3>3 DEF RunExact, Undisturbed
  <2> QED BY <2>1, <2>2
<1>7. (\A t \in Storers : store[t] # Resting => RunExact(t))'
  BY <1>6
<1> QED BY <1>1, <1>7 DEF ExactInv

LEMMA StoringAlone ==
  ASSUME NEW pc, NEW d, NEW T, NEW J, NEW of, NEW n, NEW a, NEW r, r = Storing(pc, d, T, J, of, n, a)
  PROVE  r.alone = a
BY DEF Storing

\* A run as o, but at pc with T to insert.
Same(r, o, pc, T) ==
  /\ r.detected = o.detected /\ r.joining = o.joining /\ r.nodeToDB = o.nodeToDB
  /\ r.pc = pc /\ r.todo = T

LEMMA SameWeighs ==
  ASSUME NEW r, NEW o, NEW pc, NEW T, Same(r, o, pc, T)
  PROVE  /\ WeighedOf(r) = WeighedOf(o) /\ Placed(r) = Placed(o) /\ ToPlace(r) = ToPlace(o)
         /\ r.detected = o.detected
<1>1. AlikeRuns(r, o)
  BY DEF Same, AlikeRuns, IdsOf
<1> QED BY <1>1, AlikeWeighs DEF Same, Placed, ToPlace

\* What a step does to the count of faults.
FaultsStep == storeFaults' \in Nat /\ storeFaults <= storeFaults'

LEMMA FaultsGrow == ASSUME StoreInv, StoreNext PROVE FaultsStep
<1>1. storeFaults \in Nat
  BY StoreAssumption DEF StoreInv, StoreTypeOK
<1>2. storeFaults' = storeFaults \/ StoreFault
  <2>1. ASSUME NEW s \in Storers, StoreStep(s) PROVE storeFaults' = storeFaults \/ StoreFault
    <3>1. CASE (\E d \in Detections : Begin(s, d)) \/ ClearCommunityHierarchy(s) \/ InsertCommunityHierarchy(s) \/ ClearCommunityTables(s)
      BY <3>1 DEF Begin, ClearCommunityHierarchy, InsertCommunityHierarchy, ClearCommunityTables, Inserts,
                  NoStoreFault
    <3>2. CASE CreateCommunity(s) \/ CreateCommunityMember(s) \/ CountLinks(s) \/ CreateCommunityLink(s)
      BY <3>2 DEF CreateCommunity, CreateCommunityMember, CountLinks, CreateCommunityLink, Inserts, NoStoreFault
    <3>3. CASE ClearEdgeBundles(s) \/ CreateEdgeBundle(s) \/ End(s) \/ Die(s)
      BY <3>3 DEF ClearEdgeBundles, CreateEdgeBundle, End, Die, Inserts, NoStoreFault
    <3> QED BY <2>1, <3>1, <3>2, <3>3 DEF StoreStep
  <2> QED BY <2>1 DEF StoreNext, DeleteNode
<1> QED BY <1>1, <1>2 DEF StoreFault, FaultsStep

LEMMA FaultCounts == StoreInv /\ StoreFault => storeFaults' # storeFaults
BY StoreAssumption DEF StoreInv, StoreTypeOK, StoreFault

LEMMA GoesExact ==
  ASSUME ExactInv, StoreInv, NEW s \in Storers, store[s] # Resting,
         NEW to \in StorePCs, NEW U, Goes(s, to, U), TablesKeyed', FaultsStep, exact' = exact,
         Undisturbed(store[s]) /\ storeFaults' = storeFaults
           => \A r : Same(r, store[s], to, U) => Progress(r)'
  PROVE  ExactInv'
<1>1. PICK T, J, of, n : \E d, a : Has(s, store[s].pc, d, T, J, of, n, a)
  BY WorkingHas DEF StoreInv
<1>2. PICK pc : pc = store[s].pc
  OBVIOUS
<1>3. PICK d, a : Has(s, pc, d, T, J, of, n, a)
  BY <1>1, <1>2
<1>4. PICK r : r = Storing(to, d, U, J, of, n, a)
  OBVIOUS
<1>5. Steps(s, r)
  BY <1>3, <1>4, GoesStore DEF StoreInv
<1>6. store[s] = Storing(pc, d, T, J, of, n, a)
  BY <1>3 DEF Has
<1>7. /\ store[s].detected = d /\ store[s].joining = J /\ store[s].nodeToDB = of /\ store[s].since = n
      /\ store[s].alone = a
  BY <1>6, StoringIs, StoringAlone
<1>8. /\ r.detected = d /\ r.joining = J /\ r.nodeToDB = of /\ r.since = n /\ r.pc = to /\ r.todo = U
      /\ r.alone = a
  BY <1>4, StoringIs, StoringAlone
<1>9. Same(r, store[s], to, U)
  BY <1>7, <1>8 DEF Same
<1>10. r.alone = store[s].alone /\ r.since = store[s].since
  BY <1>7, <1>8
<1>11. Undisturbed(store[s]) /\ storeFaults' = storeFaults => Progress(r)'
  BY <1>9
<1> QED BY <1>5, <1>10, <1>11, ExactStep DEF FaultsStep

LEMMA DoneExact ==
  ASSUME ExactInv, StoreInv, NEW s \in Storers, store[s] # Resting,
         NEW e, Done(s, e), TablesKeyed', FaultsStep, exact' = exact,
         Undisturbed(store[s]) /\ storeFaults' = storeFaults
           => \A r : Same(r, store[s], store[s].pc, store[s].todo \ {e}) => Progress(r)'
  PROVE  ExactInv'
<1>1. PICK T, J, of, n : \E d, a : Has(s, store[s].pc, d, T, J, of, n, a)
  BY WorkingHas DEF StoreInv
<1>2. PICK pc : pc = store[s].pc
  OBVIOUS
<1>3. PICK d, a : Has(s, pc, d, T, J, of, n, a)
  BY <1>1, <1>2
<1>4. PICK r : r = Storing(pc, d, T \ {e}, J, of, n, a)
  OBVIOUS
<1>5. Steps(s, r)
  BY <1>3, <1>4, DoneStore DEF StoreInv
<1>6. store[s] = Storing(pc, d, T, J, of, n, a)
  BY <1>3 DEF Has
<1>7. /\ store[s].detected = d /\ store[s].joining = J /\ store[s].nodeToDB = of /\ store[s].since = n
      /\ store[s].alone = a /\ store[s].todo = T
  BY <1>6, StoringIs, StoringAlone
<1>8. /\ r.detected = d /\ r.joining = J /\ r.nodeToDB = of /\ r.since = n /\ r.pc = pc /\ r.todo = T \ {e}
      /\ r.alone = a
  BY <1>4, StoringIs, StoringAlone
<1>9. Same(r, store[s], store[s].pc, store[s].todo \ {e})
  BY <1>2, <1>7, <1>8 DEF Same
<1>10. r.alone = store[s].alone /\ r.since = store[s].since
  BY <1>7, <1>8
<1>11. Undisturbed(store[s]) /\ storeFaults' = storeFaults => Progress(r)'
  BY <1>9
<1> QED BY <1>5, <1>10, <1>11, ExactStep DEF FaultsStep

LEMMA RestExact ==
  ASSUME ExactInv, StoreInv, NEW s \in Storers, store[s] # Resting,
         store' = [store EXCEPT ![s] = Resting], TablesKeyed', FaultsStep,
         exact' = exact \/ exact' = Unknown
  PROVE  ExactInv'
<1>1. Steps(s, Resting)
  BY RestsStore DEF StoreInv
<1> QED BY <1>1, ExactStep DEF FaultsStep

-----------------------------------------------------------------------------
(* The hierarchy.                                                          *)

LEMMA ClearHierarchyExact ==
  ASSUME ExactInv, StoreInv, NEW s \in Storers, TablesKeyed', FaultsStep, ClearCommunityHierarchy(s)
  PROVE  ExactInv'
<1>0. store[s].pc = "clearHierarchy" /\ store[s] # Resting
      /\ UNCHANGED <<exact, graphNodes, communities, members, communityLinks, bundles>>
  BY RestingIs DEF ClearCommunityHierarchy, StorePCs, others
<1>1. CASE StoreFault /\ Goes(s, "clearCommunities", {})
  BY <1>0, <1>1, FaultCounts, GoesExact DEF StorePCs
<1>2. CASE hierarchy' = Empty /\ Goes(s, "hierarchy", HierarchyRows(store[s].detected))
  <2>1. ASSUME Undisturbed(store[s]), NEW r, Same(r, store[s], "hierarchy", HierarchyRows(store[s].detected))
        PROVE  Progress(r)'
    <3>1. Progress(store[s])
      BY <1>0, <2>1 DEF ExactInv, RunExact
    <3>2. /\ r.detected = store[s].detected /\ r.nodeToDB = store[s].nodeToDB /\ r.pc = "hierarchy"
          /\ r.todo = HierarchyRows(r.detected)
      BY <2>1 DEF Same
    <3>3. DOMAIN r.detected.flat \subseteq graphNodes'
      BY <1>0, <3>1, <3>2 DEF Progress
    <3>4. HierarchyPart(r, hierarchy')
      BY <1>2, <3>2, RowsEmpty DEF HierarchyPart, AfterHierarchy, AfterTables, Filling
    <3>5. PlacedPart(r, communities', members')
      BY <1>0, <3>1, <3>2 DEF Progress, PlacedPart, AfterTables, Filling, Early
    <3>6. WeighedPart(r, communityLinks', bundles')
      BY <3>2 DEF WeighedPart, Filling
    <3> QED BY <3>3, <3>4, <3>5, <3>6 DEF Progress
  <2> QED BY <1>0, <1>2, <2>1, GoesExact DEF StorePCs
<1> QED BY <1>1, <1>2 DEF ClearCommunityHierarchy

LEMMA InsertHierarchyExact ==
  ASSUME ExactInv, StoreInv, NEW s \in Storers, TablesKeyed', FaultsStep, InsertCommunityHierarchy(s)
  PROVE  ExactInv'
<1>0. store[s].pc = "hierarchy" /\ store[s] # Resting
      /\ UNCHANGED <<exact, graphNodes, communities, members, communityLinks, bundles>>
  BY RestingIs DEF InsertCommunityHierarchy, StorePCs, others
<1>1. CASE store[s].todo = {} /\ Goes(s, "clearCommunities", {}) /\ hierarchy' = hierarchy
  <2>1. ASSUME Undisturbed(store[s]), NEW r, Same(r, store[s], "clearCommunities", {})
        PROVE  Progress(r)'
    <3>1. Progress(store[s])
      BY <1>0, <2>1 DEF ExactInv, RunExact
    <3>2. r.detected = store[s].detected /\ r.nodeToDB = store[s].nodeToDB /\ r.pc = "clearCommunities"
      BY <2>1 DEF Same
    <3>3. DOMAIN r.detected.flat \subseteq graphNodes'
      BY <1>0, <3>1, <3>2 DEF Progress
    <3>4. HierarchyPart(r, hierarchy')
      BY <1>0, <1>1, <3>1, <3>2 DEF Progress, HierarchyPart
    <3>5. PlacedPart(r, communities', members')
      BY <1>0, <3>1, <3>2 DEF Progress, PlacedPart, AfterTables, Filling, Early
    <3>6. WeighedPart(r, communityLinks', bundles')
      BY <3>2 DEF WeighedPart, Filling
    <3> QED BY <3>3, <3>4, <3>5, <3>6 DEF Progress
  <2> QED BY <1>0, <1>1, <2>1, GoesExact DEF StorePCs
<1>2. CASE \E e \in store[s].todo :
             /\ Inserts(e[1] \in graphNodes, hierarchy' = Put(hierarchy, <<e[1], e[2]>>, e[3]), UNCHANGED hierarchy)
             /\ Done(s, e)
  <2>0. PICK e \in store[s].todo :
             /\ Inserts(e[1] \in graphNodes, hierarchy' = Put(hierarchy, <<e[1], e[2]>>, e[3]), UNCHANGED hierarchy)
             /\ Done(s, e)
    BY <1>2
  <2>1. ASSUME Undisturbed(store[s]), storeFaults' = storeFaults,
               NEW r, Same(r, store[s], store[s].pc, store[s].todo \ {e})
        PROVE  Progress(r)'
    <3>1. Progress(store[s])
      BY <1>0, <2>1 DEF ExactInv, RunExact
    <3>2. /\ r.detected = store[s].detected /\ r.nodeToDB = store[s].nodeToDB /\ r.pc = "hierarchy"
          /\ r.todo = store[s].todo \ {e}
      BY <1>0, <2>1 DEF Same
    <3>3. DOMAIN r.detected.flat \subseteq graphNodes'
      BY <1>0, <3>1, <3>2 DEF Progress
    <3>4. PICK d \in Detections : d = store[s].detected
      <4>1. IsStoring(store[s])
        BY <1>0 DEF StoreInv, StoreTyped
      <4> QED BY <4>1, StoringIs DEF IsStoring
    <3>5. store[s].todo \subseteq HierarchyRows(d) /\ Rows(hierarchy) = HierarchyRows(d) \ store[s].todo
      BY <1>0, <3>1, <3>4 DEF Progress, HierarchyPart
    <3>6. e[1] \in graphNodes
      <4>1. PICK k \in DOMAIN d.levels : \E x \in DOMAIN d.levels[k] : e = <<x, k, d.levels[k][x]>>
        BY <2>0, <3>5 DEF HierarchyRows
      <4>2. e[1] \in DOMAIN d.levels[k]
        BY <4>1
      <4>3. e[1] \in DOMAIN d.flat
        BY <4>2, StoreAssumption
      <4> QED BY <3>1, <3>4, <4>3 DEF Progress
    <3>7. hierarchy' = Put(hierarchy, <<e[1], e[2]>>, e[3])
      BY <2>0, <2>1, <3>6, FaultCounts DEF Inserts
    <3>8. Rows(hierarchy') = HierarchyRows(d) \ (store[s].todo \ {e})
      BY <2>0, <3>5, <3>7, PutRow, HierarchySound DEF ExactInv, TablesKeyed
    <3>9. HierarchyPart(r, hierarchy')
      BY <3>2, <3>4, <3>5, <3>8 DEF HierarchyPart, AfterHierarchy, AfterTables, Filling
    <3>10. PlacedPart(r, communities', members')
      BY <1>0, <3>1, <3>2 DEF Progress, PlacedPart, AfterTables, Filling, Early
    <3>11. WeighedPart(r, communityLinks', bundles')
      BY <3>2 DEF WeighedPart, Filling
    <3> QED BY <3>3, <3>9, <3>10, <3>11 DEF Progress
  <2> QED BY <1>0, <2>0, <2>1, DoneExact
<1> QED BY <1>1, <1>2 DEF InsertCommunityHierarchy

-----------------------------------------------------------------------------
(* The communities and their members.                                      *)

LEMMA TablesExact ==
  ASSUME ExactInv, WeightInv, StoreInv, NEW s \in Storers, TablesKeyed', FaultsStep, ClearCommunityTables(s)
  PROVE  ExactInv'
<1>0. store[s].pc = "clearCommunities" /\ store[s] # Resting /\ UNCHANGED <<exact, graphNodes, hierarchy>>
  BY RestingIs DEF ClearCommunityTables, StorePCs, others
<1>1. CASE store' = [store EXCEPT ![s] = Resting]
  BY <1>0, <1>1, RestExact
<1>2. CASE /\ communities' = Empty /\ members' = {} /\ communityLinks' = Empty /\ bundles' = Empty
           /\ Goes(s, "communities", Range(store[s].detected.flat))
  <2>1. ASSUME Undisturbed(store[s]), NEW r, Same(r, store[s], "communities", Range(store[s].detected.flat))
        PROVE  Progress(r)'
    <3>1. Progress(store[s]) /\ store[s].joining = {}
      BY <1>0, <2>1 DEF ExactInv, RunExact, WeightInv, WeighsWell
    <3>2. /\ r.detected = store[s].detected /\ r.nodeToDB = store[s].nodeToDB /\ r.pc = "communities"
          /\ r.todo = Range(r.detected.flat) /\ r.joining = {}
      BY <2>1, <3>1 DEF Same
    <3>3. DOMAIN r.detected.flat \subseteq graphNodes'
      BY <1>0, <3>1, <3>2 DEF Progress
    <3>4. HierarchyPart(r, hierarchy')
      BY <1>0, <3>1, <3>2 DEF Progress, HierarchyPart, AfterHierarchy, AfterTables, Filling
    <3>5. DOMAIN r.nodeToDB = {}
      BY <1>0, <3>1, <3>2 DEF Progress, PlacedPart, Early
    <3>6. Placed(r) = {} /\ ToPlace(r) = {}
      BY <3>2, <3>5 DEF Placed, ToPlace
    <3>7. ReachedNodes(r) = {}
      BY <3>2 DEF ReachedNodes, Range, Filling
    <3>8. Grouped(r, Empty)
      BY <3>6, <3>7, EmptyIs DEF Grouped, Sized, AsFlat, IdsIn, NodesIn
    <3>9. PlacedPart(r, communities', members')
      BY <1>2, <3>2, <3>6, <3>8 DEF PlacedPart, Early
    <3>10. WeighedPart(r, communityLinks', bundles')
      BY <1>2, <3>2, RowsEmpty DEF WeighedPart, Filling
    <3> QED BY <3>3, <3>4, <3>9, <3>10 DEF Progress
  <2> QED BY <1>0, <1>2, <2>1, GoesExact DEF StorePCs
<1> QED BY <1>1, <1>2 DEF ClearCommunityTables

Outside(flat, T) == {n \in DOMAIN flat : flat[n] \notin T}
Within(flat, c)  == {n \in DOMAIN flat : flat[n] = c}

\* A community c of its own id z joins those that are placed.
Joins(P, flat, T, c, C, z, V) ==
  /\ c \in T /\ T \subseteq Range(flat)
  /\ NodesIn(P) = Outside(flat, T) /\ AsFlat(flat, P) /\ Sized(C, P)
  /\ z \notin DOMAIN C /\ IsFiniteSet(Within(flat, c))
  /\ \A x \in Within(flat, c) : <<z, x>> \in V
  /\ \A m \in V : \E x \in Within(flat, c) : m = <<z, x>>

LEMMA NewGroup ==
  ASSUME NEW P, NEW flat, NEW T, NEW c, NEW C, NEW z, NEW V, Joins(P, flat, T, c, C, z, V)
  PROVE  /\ NodesIn(P \cup V) = Outside(flat, T \ {c}) /\ AsFlat(flat, P \cup V)
         /\ Sized(Put(C, z, Cardinality(Within(flat, c))), P \cup V)
<1> USE DEF Joins
<1> PICK M, D : M = Within(flat, c) /\ D = Put(C, z, Cardinality(M))
  OBVIOUS
<1>1. \A m \in V : m[1] = z /\ m[2] \in DOMAIN flat /\ flat[m[2]] = c
  BY DEF Within
<1>2. \A m \in P : m[1] \in DOMAIN C /\ m[2] \in DOMAIN flat /\ flat[m[2]] \notin T
  <2> SUFFICES ASSUME NEW m \in P PROVE m[1] \in DOMAIN C /\ m[2] \in DOMAIN flat /\ flat[m[2]] \notin T
    OBVIOUS
  <2>1. m[1] \in IdsIn(P) /\ m[2] \in NodesIn(P)
    BY DEF IdsIn, NodesIn
  <2> QED BY <2>1 DEF Sized, Outside
<1>3. \A x \in M : \E m \in V : m[2] = x
  <2> SUFFICES ASSUME NEW x \in M PROVE \E m \in V : m[2] = x
    OBVIOUS
  <2>1. <<z, x>> \in V /\ <<z, x>>[2] = x
    OBVIOUS
  <2> QED BY <2>1
<1>4. NodesIn(P \cup V) = Outside(flat, T \ {c})
  <2>1. ASSUME NEW n \in Outside(flat, T \ {c}) PROVE \E m \in P \cup V : n = m[2]
    <3>1. CASE flat[n] = c
      BY <1>3, <2>1, <3>1 DEF Outside, Within
    <3>2. CASE flat[n] # c
      <4>1. n \in NodesIn(P)
        BY <2>1, <3>2 DEF Outside
      <4> QED BY <4>1 DEF NodesIn
    <3> QED BY <3>1, <3>2
  <2>2. \A m \in P \cup V : m[2] \in Outside(flat, T \ {c})
    BY <1>1, <1>2 DEF Outside
  <2> QED BY <2>1, <2>2 DEF NodesIn
<1>5. ASSUME NEW m \in P \cup V, NEW o \in P \cup V PROVE (m[1] = o[1]) <=> (flat[m[2]] = flat[o[2]])
  <2>1. CASE m \in P /\ o \in P
    BY <2>1 DEF AsFlat
  <2>2. CASE m \in V /\ o \in V
    BY <1>1, <2>2
  <2>3. CASE m \in P /\ o \in V
    BY <1>1, <1>2, <2>3
  <2>4. CASE m \in V /\ o \in P
    BY <1>1, <1>2, <2>4
  <2> QED BY <2>1, <2>2, <2>3, <2>4
<1>6. PICK y \in M : TRUE
  BY DEF Range, Within
<1>7. DOMAIN D = DOMAIN C \cup {z}
  BY PutDomain
<1>8. DOMAIN D = IdsIn(P \cup V)
  <2>1. <<z, y>> \in V /\ <<z, y>>[1] = z
    BY <1>6
  <2>2. z \in IdsIn(P \cup V)
    BY <2>1 DEF IdsIn
  <2>3. DOMAIN C \subseteq IdsIn(P \cup V)
    BY DEF Sized, IdsIn
  <2>4. \A m \in P \cup V : m[1] \in DOMAIN C \cup {z}
    BY <1>1, <1>2
  <2>5. IdsIn(P \cup V) \subseteq DOMAIN C \cup {z}
    BY <2>4 DEF IdsIn
  <2> QED BY <1>7, <2>2, <2>3, <2>5
<1>9. ASSUME NEW x \in DOMAIN D PROVE D[x] = Cardinality(OfId(P \cup V, x))
  <2>1. CASE x = z
    <3>1. OfId(P \cup V, x) = V
      BY <1>1, <1>2, <2>1 DEF OfId
    <3>2. D[x] = Cardinality(M)
      BY <2>1, PutValue
    <3>3. Cardinality(V) = Cardinality(M)
      BY AsMany
    <3> QED BY <3>1, <3>2, <3>3
  <2>2. CASE x # z
    <3>1. OfId(P \cup V, x) = OfId(P, x)
      BY <1>1, <2>2 DEF OfId
    <3>2. x \in DOMAIN C
      BY <1>7, <2>2
    <3>3. D[x] = C[x]
      BY <2>2, <3>2, PutValue
    <3> QED BY <3>1, <3>2, <3>3 DEF Sized
  <2> QED BY <2>1, <2>2
<1> QED BY <1>4, <1>5, <1>8, <1>9 DEF AsFlat, Sized

LEMMA CommunityExact ==
  ASSUME ExactInv, WeightInv, StoreInv, NEW s \in Storers, TablesKeyed', FaultsStep, CreateCommunity(s)
  PROVE  ExactInv'
<1>0. store[s].pc = "communities" /\ store[s] # Resting
      /\ UNCHANGED <<exact, graphNodes, members, hierarchy, communityLinks, bundles>>
  BY RestingIs DEF CreateCommunity, StorePCs, others
<1>1. CASE StoreFault /\ \E U : Goes(s, "communities", U)
  BY <1>0, <1>1, FaultCounts, GoesExact DEF StorePCs
<1>2. CASE ~(StoreFault /\ \E U : Goes(s, "communities", U))
  <2>1. PICK c \in store[s].todo :
             /\ serial' = serial + 1
             /\ communities' = Put(communities, serial', Cardinality(MembersOf(store[s].detected, c)))
             /\ store' = [store EXCEPT ![s].pc = "members", ![s].todo = store[s].todo \ {c},
                            ![s].joining = {<<serial', n>> : n \in MembersOf(store[s].detected, c)}]
    BY <1>2 DEF CreateCommunity
  <2>2. PICK T, J, of, n : \E d, a : Has(s, "communities", d, T, J, of, n, a)
    BY <1>0, AtHas DEF StoreInv
  <2>3. PICK d, a : Has(s, "communities", d, T, J, of, n, a)
    BY <2>2
  <2>4. store[s] = Storing("communities", d, T, J, of, n, a) /\ d \in Detections
    BY <2>3 DEF Has
  <2>5. /\ store[s].detected = d /\ store[s].joining = J /\ store[s].nodeToDB = of /\ store[s].since = n
        /\ store[s].alone = a /\ store[s].todo = T
    BY <2>4, StoringIs, StoringAlone
  <2>6. PICK z, M, U : z = serial' /\ z = serial + 1 /\ M = MembersOf(d, c) /\ U = T \ {c}
    BY <2>1
  <2>7. PICK V : V = {<<z, x>> : x \in M} /\ V = {<<serial', x>> : x \in MembersOf(store[s].detected, c)}
    BY <2>5, <2>6
  <2>8. ArePairs(V)
    BY <2>7 DEF ArePairs
  <2>9. PICK r : r = Storing("members", d, U, V, of, n, a)
    OBVIOUS
  <2>10. Steps(s, r)
    BY <2>1, <2>3, <2>5, <2>6, <2>7, <2>8, <2>9, JoiningStore DEF StoreInv, StorePCs
  <2>11. /\ r.detected = d /\ r.joining = V /\ r.nodeToDB = of /\ r.since = n /\ r.pc = "members" /\ r.todo = U
         /\ r.alone = a
    BY <2>9, StoringIs, StoringAlone
  <2>12. ASSUME Undisturbed(store[s]) PROVE Progress(r)'
    <3>1. Progress(store[s]) /\ J = {}
      BY <1>0, <2>5, <2>12 DEF ExactInv, RunExact, WeightInv, WeighsWell
    <3>2. DOMAIN r.detected.flat \subseteq graphNodes'
      BY <1>0, <2>5, <2>11, <3>1 DEF Progress
    <3>3. HierarchyPart(r, hierarchy')
      BY <1>0, <2>5, <2>11, <3>1 DEF Progress, HierarchyPart, AfterHierarchy, AfterTables, Filling
    <3>4. WeighedPart(r, communityLinks', bundles')
      BY <1>0, <2>5, <2>11, <3>1 DEF Progress, WeighedPart, Filling
    <3>5. PlacedPart(store[s], communities, members)
      BY <3>1 DEF Progress
    <3>6. members = Placed(store[s]) /\ Grouped(store[s], communities) /\ T \subseteq Range(d.flat)
      BY <1>0, <2>5, <3>5 DEF PlacedPart, AfterTables, Filling
    <3>7. Placed(r) = Placed(store[s]) /\ ToPlace(store[s]) = Placed(store[s]) /\ ToPlace(r) = Placed(store[s]) \cup V
      BY <2>5, <2>11, <3>1 DEF Placed, ToPlace
    <3>8. ReachedNodes(store[s]) = Outside(d.flat, T) /\ ReachedNodes(r) = Outside(d.flat, T \ {c})
      BY <1>0, <2>5, <2>6, <2>11 DEF ReachedNodes, Filling, Outside
    <3>9. PICK P, C, D, flat : /\ P = Placed(store[s]) /\ C = communities /\ D = communities'
                               /\ D = Put(C, z, Cardinality(M)) /\ flat = d.flat
      BY <2>1, <2>5, <2>6
    <3>10. NodesIn(P) = Outside(flat, T) /\ AsFlat(flat, P) /\ Sized(C, P) /\ T \subseteq Range(flat)
      BY <2>5, <3>6, <3>7, <3>8, <3>9 DEF Grouped
    <3>11. z \notin DOMAIN C
      <4>1. DOMAIN communities \subseteq 1 .. serial /\ serial \in Nat
        BY DEF StoreInv, StoreTypeOK
      <4> QED BY <2>6, <3>9, <4>1
    <3>12. M = Within(flat, c) /\ IsFiniteSet(M)
      <4>1. IsFiniteSet(MembersOf(d, c))
        BY <2>4, MembersCounted
      <4> QED BY <2>6, <3>9, <4>1 DEF MembersOf, Within
    <3>13. c \in T
      BY <2>1, <2>5
    <3>14. \A x \in M : <<z, x>> \in V
      BY <2>7
    <3>15. \A m \in V : \E x \in M : m = <<z, x>>
      BY <2>7
    <3>a. Joins(P, flat, T, c, C, z, V)
      BY <3>10, <3>11, <3>12, <3>13, <3>14, <3>15 DEF Joins
    <3>b. NodesIn(P \cup V) = Outside(flat, T \ {c}) /\ AsFlat(flat, P \cup V) /\ Sized(D, P \cup V)
      <4>1. /\ NodesIn(P \cup V) = Outside(flat, T \ {c}) /\ AsFlat(flat, P \cup V)
            /\ Sized(Put(C, z, Cardinality(Within(flat, c))), P \cup V)
        BY <3>a, NewGroup
      <4> QED BY <3>9, <3>12, <4>1
    <3>16. Grouped(r, D)
      BY <2>11, <3>7, <3>8, <3>9, <3>b DEF Grouped
    <3>17. r.todo \subseteq Range(r.detected.flat)
      BY <2>6, <2>11, <3>6
    <3>18. PlacedPart(r, communities', members')
      BY <1>0, <2>11, <3>6, <3>7, <3>9, <3>16, <3>17 DEF PlacedPart, Early
    <3> QED BY <3>2, <3>3, <3>4, <3>18 DEF Progress
  <2>13. r.alone = store[s].alone /\ r.since = store[s].since
    BY <2>5, <2>11
  <2> QED BY <1>0, <2>10, <2>12, <2>13, ExactStep DEF FaultsStep
<1> QED BY <1>1, <1>2

\* A row of joining goes in, and the node has its id.
LEMMA JoinPlaces ==
  ASSUME NEW r, NEW o, NEW e \in o.joining, e = <<e[1], e[2]>>,
         AsFlat(o.detected.flat, ToPlace(o)),
         r.joining = o.joining \ {e}, r.nodeToDB = Put(o.nodeToDB, e[2], e[1])
  PROVE  Placed(r) = Placed(o) \cup {e} /\ ToPlace(r) = ToPlace(o)
<1>1. PICK of, g : of = o.nodeToDB /\ g = r.nodeToDB /\ g = Put(of, e[2], e[1])
  OBVIOUS
<1>2. DOMAIN g = DOMAIN of \cup {e[2]}
  <2>1. DOMAIN Put(of, e[2], e[1]) = DOMAIN of \cup {e[2]}
    BY PutDomain
  <2> QED BY <1>1, <2>1
<1>3. g[e[2]] = e[1] /\ \A x \in DOMAIN of \ {e[2]} : g[x] = of[x]
  BY <1>1, PutValue
<1>4. e[2] \in DOMAIN of => of[e[2]] = e[1]
  <2> SUFFICES ASSUME e[2] \in DOMAIN of PROVE of[e[2]] = e[1]
    OBVIOUS
  <2>0. PICK m : m = <<of[e[2]], e[2]>>
    OBVIOUS
  <2>1. m[1] = of[e[2]] /\ m[2] = e[2]
    BY <2>0
  <2>2. m \in ToPlace(o) /\ e \in ToPlace(o)
    BY <1>1, <2>0 DEF ToPlace, Placed
  <2> QED BY <2>1, <2>2 DEF AsFlat
<1>5. \A x \in DOMAIN of : g[x] = of[x]
  BY <1>3, <1>4
<1>6. Placed(r) = {<<g[n], n>> : n \in DOMAIN g} /\ Placed(o) = {<<of[n], n>> : n \in DOMAIN of}
  BY <1>1 DEF Placed
<1>7. Placed(r) = Placed(o) \cup {<<g[e[2]], e[2]>>}
  BY <1>2, <1>5, <1>6
<1>8. Placed(r) = Placed(o) \cup {e}
  BY <1>3, <1>7
<1> QED BY <1>8 DEF ToPlace

LEMMA MemberExact ==
  ASSUME ExactInv, WeightInv, StoreInv, NEW s \in Storers, TablesKeyed', FaultsStep, CreateCommunityMember(s)
  PROVE  ExactInv'
<1>0. store[s].pc = "members" /\ store[s] # Resting
      /\ UNCHANGED <<exact, graphNodes, communities, hierarchy, communityLinks, bundles>>
  BY RestingIs DEF CreateCommunityMember, StorePCs, others
<1>1. CASE store[s].joining = {} /\ Goes(s, "communities", store[s].todo) /\ members' = members
  <2>1. ASSUME Undisturbed(store[s]), NEW r, Same(r, store[s], "communities", store[s].todo)
        PROVE  Progress(r)'
    <3>1. Progress(store[s])
      BY <1>0, <2>1 DEF ExactInv, RunExact
    <3>2. /\ r.detected = store[s].detected /\ r.pc = "communities" /\ r.todo = store[s].todo
          /\ Placed(r) = Placed(store[s]) /\ ToPlace(r) = ToPlace(store[s])
      BY <2>1, SameWeighs DEF Same
    <3>3. DOMAIN r.detected.flat \subseteq graphNodes'
      BY <1>0, <3>1, <3>2 DEF Progress
    <3>4. HierarchyPart(r, hierarchy')
      BY <1>0, <3>1, <3>2 DEF Progress, HierarchyPart, AfterHierarchy, AfterTables, Filling
    <3>5. ReachedNodes(r) = ReachedNodes(store[s])
      BY <1>0, <3>2 DEF ReachedNodes, Filling
    <3>6. PlacedPart(r, communities', members')
      BY <1>0, <1>1, <3>1, <3>2, <3>5 DEF Progress, PlacedPart, Grouped, AfterTables, Filling, Early
    <3>7. WeighedPart(r, communityLinks', bundles')
      BY <1>0, <3>1, <3>2 DEF Progress, WeighedPart, Filling
    <3> QED BY <3>3, <3>4, <3>6, <3>7 DEF Progress
  <2> QED BY <1>0, <1>1, <2>1, GoesExact DEF StorePCs
<1>2. CASE \E e \in store[s].joining :
             /\ Inserts(e[1] \in DOMAIN communities /\ e[2] \in graphNodes, members' = members \cup {e}, UNCHANGED members)
             /\ store' = [store EXCEPT ![s].joining = @ \ {e}, ![s].nodeToDB = Put(@, e[2], e[1])]
  <2>1. PICK e \in store[s].joining :
             /\ Inserts(e[1] \in DOMAIN communities /\ e[2] \in graphNodes, members' = members \cup {e}, UNCHANGED members)
             /\ store' = [store EXCEPT ![s].joining = @ \ {e}, ![s].nodeToDB = Put(@, e[2], e[1])]
    BY <1>2
  <2>2. PICK T, J, of, n : \E d, a : Has(s, "members", d, T, J, of, n, a)
    BY <1>0, AtHas DEF StoreInv
  <2>3. PICK d, a : Has(s, "members", d, T, J, of, n, a)
    BY <2>2
  <2>4. PICK o : o = store[s] /\ o = Storing("members", d, T, J, of, n, a)
    BY <2>3 DEF Has
  <2>5. /\ o.detected = d /\ o.joining = J /\ o.nodeToDB = of /\ o.since = n
        /\ o.alone = a /\ o.todo = T /\ o.pc = "members"
    BY <2>4, StoringIs, StoringAlone
  <2>6. PICK r : r = Storing("members", d, T, J \ {e}, Put(of, e[2], e[1]), n, a)
    OBVIOUS
  <2>7. Steps(s, r)
    BY <2>1, <2>3, <2>6, JoinedStore DEF StoreInv
  <2>8. /\ r.detected = d /\ r.joining = J \ {e} /\ r.nodeToDB = Put(of, e[2], e[1]) /\ r.since = n
        /\ r.pc = "members" /\ r.todo = T /\ r.alone = a
    BY <2>6, StoringIs, StoringAlone
  <2>9. ASSUME Undisturbed(store[s]), storeFaults' = storeFaults PROVE Progress(r)'
    <3>1. Progress(o)
      BY <1>0, <2>4, <2>9 DEF ExactInv, RunExact
    <3>2. /\ members = Placed(o) /\ NodesIn(ToPlace(o)) = ReachedNodes(o) /\ AsFlat(o.detected.flat, ToPlace(o))
          /\ DOMAIN communities = IdsIn(ToPlace(o)) /\ Sized(communities, ToPlace(o)) /\ T \subseteq Range(d.flat)
      BY <2>5, <3>1 DEF Progress, PlacedPart, Grouped, Sized, AfterTables, Filling
    <3>3. e \in o.joining /\ e = <<e[1], e[2]>>
      BY <2>1, <2>3, <2>4, <2>5 DEF Has, ArePairs
    <3>4. e[1] \in DOMAIN communities
      BY <3>2, <3>3 DEF ToPlace, IdsIn
    <3>5. e[2] \in graphNodes
      <4>1. e[2] \in NodesIn(ToPlace(o))
        BY <3>3 DEF ToPlace, NodesIn
      <4>2. e[2] \in DOMAIN o.detected.flat
        BY <3>2, <4>1 DEF ReachedNodes
      <4> QED BY <3>1, <4>2 DEF Progress
    <3>6. members' = members \cup {e}
      BY <2>1, <2>9, <3>4, <3>5, FaultCounts DEF Inserts
    <3>7. Placed(r) = Placed(o) \cup {e} /\ ToPlace(r) = ToPlace(o)
      BY <2>5, <2>8, <3>2, <3>3, JoinPlaces
    <3>8. ReachedNodes(r) = ReachedNodes(o)
      BY <2>5, <2>8 DEF ReachedNodes
    <3>9. PlacedPart(r, communities', members')
      BY <1>0, <2>5, <2>8, <3>2, <3>6, <3>7, <3>8 DEF PlacedPart, Grouped, Early
    <3>10. DOMAIN r.detected.flat \subseteq graphNodes'
      BY <1>0, <2>5, <2>8, <3>1 DEF Progress
    <3>11. HierarchyPart(r, hierarchy')
      BY <1>0, <2>5, <2>8, <3>1 DEF Progress, HierarchyPart, AfterHierarchy, AfterTables, Filling
    <3>12. WeighedPart(r, communityLinks', bundles')
      BY <1>0, <2>5, <2>8, <3>1 DEF Progress, WeighedPart, Filling
    <3> QED BY <3>9, <3>10, <3>11, <3>12 DEF Progress
  <2>10. r.alone = store[s].alone /\ r.since = store[s].since
    BY <2>4, <2>5, <2>8
  <2> QED BY <1>0, <2>7, <2>9, <2>10, ExactStep DEF FaultsStep
<1> QED BY <1>1, <1>2 DEF CreateCommunityMember

-----------------------------------------------------------------------------
(* The weights.                                                            *)

\* What changes only the pc and what there is to insert, from the tables on.
LEMMA PlacedStays ==
  ASSUME NEW o, NEW r, NEW pc, NEW T, Same(r, o, pc, T), o.pc \in AfterTables, Progress(o),
         pc \in {"links", "clearBundles", "bundles"}, o.pc \in Filling => o.todo = {},
         UNCHANGED <<graphNodes, communities, members, hierarchy>>
  PROVE  /\ DOMAIN r.detected.flat \subseteq graphNodes' /\ HierarchyPart(r, hierarchy')
         /\ PlacedPart(r, communities', members')
<1>1. /\ r.detected = o.detected /\ r.pc = pc /\ Placed(r) = Placed(o) /\ ToPlace(r) = ToPlace(o)
  BY SameWeighs DEF Same
<1>2. pc \notin Filling /\ pc \in AfterHierarchy /\ pc # "hierarchy" /\ pc \notin Early /\ o.pc \in AfterHierarchy
  BY DEF AfterHierarchy, AfterTables, Filling, Early
<1>3. ReachedNodes(r) = ReachedNodes(o)
  BY <1>1, <1>2 DEF ReachedNodes
<1>4. DOMAIN r.detected.flat \subseteq graphNodes'
  BY <1>1 DEF Progress
<1>5. HierarchyPart(r, hierarchy')
  BY <1>1, <1>2 DEF Progress, HierarchyPart
<1>6. PlacedPart(r, communities', members')
  BY <1>1, <1>2, <1>3 DEF Progress, PlacedPart, Grouped
<1> QED BY <1>4, <1>5, <1>6

LEMMA CountExact ==
  ASSUME ExactInv, WeightInv, StoreInv, NEW s \in Storers, TablesKeyed', FaultsStep, CountLinks(s)
  PROVE  ExactInv'
<1>0. store[s].pc = "communities" /\ store[s].todo = {} /\ store[s] # Resting
      /\ UNCHANGED <<exact, graphNodes, communities, members, hierarchy, communityLinks, bundles>>
  BY RestingIs DEF CountLinks, StorePCs, others, tables
<1>1. Goes(s, "links", WeighedOf(store[s]))
  BY WeighedIs DEF CountLinks
<1>2. ASSUME Undisturbed(store[s]), NEW r, Same(r, store[s], "links", WeighedOf(store[s]))
      PROVE  Progress(r)'
  <2>1. Progress(store[s])
    BY <1>0, <1>2 DEF ExactInv, RunExact
  <2>2. r.pc = "links" /\ r.todo = WeighedOf(r)
    BY <1>2, SameWeighs DEF Same
  <2>3. Rows(communityLinks) = {} /\ Rows(bundles) = {}
    BY <1>0, <2>1 DEF Progress, WeighedPart, Filling
  <2>4. WeighedPart(r, communityLinks', bundles')
    BY <1>0, <2>2, <2>3 DEF WeighedPart, Filling
  <2>5. store[s].pc \in AfterTables
    BY <1>0 DEF AfterTables, Filling
  <2> QED BY <1>0, <1>2, <2>1, <2>4, <2>5, PlacedStays DEF Progress
<1> QED BY <1>0, <1>1, <1>2, GoesExact DEF StorePCs

\* The ids that are weighed have their rows.
LEMMA WeighedReferred ==
  ASSUME NEW o, Progress(o), o.pc \in AfterTables, NEW e \in WeighedOf(o)
  PROVE  Referred(e)
<1>1. PICK p \in PairsOf(o) : e = <<p[1], p[2], WeightOf(o, p)>>
  BY DEF WeighedOf
<1>2. p[1] \in Range(o.nodeToDB) /\ p[2] \in Range(o.nodeToDB)
  BY DEF PairsOf
<1>3. \A c \in Range(o.nodeToDB) : c \in DOMAIN communities
  <2> SUFFICES ASSUME NEW x \in DOMAIN o.nodeToDB PROVE o.nodeToDB[x] \in DOMAIN communities
    BY DEF Range
  <2>0. PICK m : m = <<o.nodeToDB[x], x>>
    OBVIOUS
  <2>1. m[1] = o.nodeToDB[x]
    BY <2>0
  <2>2. m \in ToPlace(o)
    BY <2>0 DEF ToPlace, Placed
  <2>3. DOMAIN communities = IdsIn(ToPlace(o))
    BY DEF Progress, PlacedPart, Grouped, Sized
  <2> QED BY <2>1, <2>2, <2>3 DEF IdsIn
<1> QED BY <1>1, <1>2, <1>3 DEF Referred

LEMMA LinkExact ==
  ASSUME ExactInv, WeightInv, StoreInv, NEW s \in Storers, TablesKeyed', FaultsStep, CreateCommunityLink(s)
  PROVE  ExactInv'
<1>0. store[s].pc = "links" /\ store[s] # Resting /\ store[s].pc \in AfterTables
      /\ UNCHANGED <<exact, graphNodes, communities, members, hierarchy, bundles>>
  BY RestingIs DEF CreateCommunityLink, StorePCs, others, AfterTables
<1>w. store[s].todo \subseteq WeighedOf(store[s])
  BY <1>0 DEF WeightInv, WeighsWell
<1>1. CASE store[s].todo = {} /\ Goes(s, "clearBundles", {}) /\ communityLinks' = communityLinks
  <2>1. ASSUME Undisturbed(store[s]), NEW r, Same(r, store[s], "clearBundles", {})
        PROVE  Progress(r)'
    <3>1. Progress(store[s])
      BY <1>0, <2>1 DEF ExactInv, RunExact
    <3>2. r.pc = "clearBundles" /\ WeighedOf(r) = WeighedOf(store[s])
      BY <2>1, SameWeighs DEF Same
    <3>3. WeighedPart(r, communityLinks', bundles')
      BY <1>0, <1>1, <3>1, <3>2 DEF Progress, WeighedPart, Filling
    <3> QED BY <1>0, <2>1, <3>1, <3>3, PlacedStays DEF Progress, Filling
  <2> QED BY <1>0, <1>1, <2>1, GoesExact DEF StorePCs
<1>2. CASE \E e \in store[s].todo :
             /\ Inserts(Referred(e), communityLinks' = Put(communityLinks, <<e[1], e[2]>>, e[3]), UNCHANGED communityLinks)
             /\ Done(s, e)
  <2>0. PICK e \in store[s].todo :
             /\ Inserts(Referred(e), communityLinks' = Put(communityLinks, <<e[1], e[2]>>, e[3]), UNCHANGED communityLinks)
             /\ Done(s, e)
    BY <1>2
  <2>1. ASSUME Undisturbed(store[s]), storeFaults' = storeFaults,
               NEW r, Same(r, store[s], store[s].pc, store[s].todo \ {e})
        PROVE  Progress(r)'
    <3>1. Progress(store[s])
      BY <1>0, <2>1 DEF ExactInv, RunExact
    <3>2. r.pc = "links" /\ r.todo = store[s].todo \ {e} /\ WeighedOf(r) = WeighedOf(store[s])
      BY <1>0, <2>1, SameWeighs DEF Same
    <3>3. Referred(e)
      BY <1>0, <1>w, <2>0, <3>1, WeighedReferred
    <3>4. communityLinks' = Put(communityLinks, <<e[1], e[2]>>, e[3])
      BY <2>0, <2>1, <3>3, FaultCounts DEF Inserts
    <3>5. Rows(communityLinks) = WeighedOf(store[s]) \ store[s].todo /\ Rows(bundles) = {}
      BY <1>0, <3>1 DEF Progress, WeighedPart
    <3>6. Rows(communityLinks') = WeighedOf(store[s]) \ (store[s].todo \ {e})
      BY <1>w, <2>0, <3>4, <3>5, PutRow, WeighedSound DEF ExactInv, TablesKeyed
    <3>7. WeighedPart(r, communityLinks', bundles')
      BY <1>0, <3>2, <3>5, <3>6 DEF WeighedPart, Filling
    <3> QED BY <1>0, <2>1, <3>1, <3>7, PlacedStays DEF Progress, Filling
  <2> QED BY <1>0, <2>0, <2>1, DoneExact
<1> QED BY <1>1, <1>2 DEF CreateCommunityLink

LEMMA ClearBundlesExact ==
  ASSUME ExactInv, WeightInv, StoreInv, NEW s \in Storers, TablesKeyed', FaultsStep, ClearEdgeBundles(s)
  PROVE  ExactInv'
<1>0. store[s].pc = "clearBundles" /\ store[s] # Resting /\ store[s].pc \in AfterTables
      /\ UNCHANGED <<exact, graphNodes, communities, members, hierarchy, communityLinks>>
  BY RestingIs DEF ClearEdgeBundles, StorePCs, others, AfterTables
<1>1. CASE store' = [store EXCEPT ![s] = Resting]
  BY <1>0, <1>1, RestExact
<1>2. CASE bundles' = Empty /\ Goes(s, "bundles", WeighedOf(store[s]))
  <2>1. ASSUME Undisturbed(store[s]), NEW r, Same(r, store[s], "bundles", WeighedOf(store[s]))
        PROVE  Progress(r)'
    <3>1. Progress(store[s])
      BY <1>0, <2>1 DEF ExactInv, RunExact
    <3>2. r.pc = "bundles" /\ r.todo = WeighedOf(r) /\ WeighedOf(r) = WeighedOf(store[s])
      BY <2>1, SameWeighs DEF Same
    <3>3. WeighedPart(r, communityLinks', bundles')
      BY <1>0, <1>2, <3>1, <3>2, RowsEmpty DEF Progress, WeighedPart, Filling
    <3> QED BY <1>0, <2>1, <3>1, <3>3, PlacedStays DEF Progress, Filling
  <2> QED BY <1>0, <1>2, <2>1, GoesExact DEF StorePCs
<1> QED BY <1>1, <1>2, WeighedIs DEF ClearEdgeBundles

LEMMA BundleExact ==
  ASSUME ExactInv, WeightInv, StoreInv, NEW s \in Storers, TablesKeyed', FaultsStep, CreateEdgeBundle(s)
  PROVE  ExactInv'
<1>0. store[s].pc = "bundles" /\ store[s] # Resting /\ store[s].pc \in AfterTables
      /\ UNCHANGED <<exact, graphNodes, communities, members, hierarchy, communityLinks>>
  BY RestingIs DEF CreateEdgeBundle, StorePCs, others, AfterTables
<1>w. store[s].todo \subseteq WeighedOf(store[s])
  BY <1>0 DEF WeightInv, WeighsWell
<1>1. PICK e \in store[s].todo :
             /\ Inserts(Referred(e), bundles' = Put(bundles, <<e[1], e[2]>>, e[3]), UNCHANGED bundles)
             /\ Done(s, e)
  BY DEF CreateEdgeBundle
<1>2. ASSUME Undisturbed(store[s]), storeFaults' = storeFaults,
             NEW r, Same(r, store[s], store[s].pc, store[s].todo \ {e})
      PROVE  Progress(r)'
  <2>1. Progress(store[s])
    BY <1>0, <1>2 DEF ExactInv, RunExact
  <2>2. r.pc = "bundles" /\ r.todo = store[s].todo \ {e} /\ WeighedOf(r) = WeighedOf(store[s])
    BY <1>0, <1>2, SameWeighs DEF Same
  <2>3. Referred(e)
    BY <1>0, <1>w, <1>1, <2>1, WeighedReferred
  <2>4. bundles' = Put(bundles, <<e[1], e[2]>>, e[3])
    BY <1>1, <1>2, <2>3, FaultCounts DEF Inserts
  <2>5. Rows(bundles) = WeighedOf(store[s]) \ store[s].todo /\ Rows(communityLinks) = WeighedOf(store[s])
    BY <1>0, <2>1 DEF Progress, WeighedPart
  <2>6. Rows(bundles') = WeighedOf(store[s]) \ (store[s].todo \ {e})
    BY <1>w, <1>1, <2>4, <2>5, PutRow, WeighedSound DEF ExactInv, TablesKeyed
  <2>7. WeighedPart(r, communityLinks', bundles')
    BY <1>0, <2>2, <2>5, <2>6 DEF WeighedPart, Filling
  <2> QED BY <1>0, <1>2, <2>1, <2>7, PlacedStays DEF Progress, Filling
<1> QED BY <1>0, <1>1, <1>2, DoneExact

-----------------------------------------------------------------------------
(* The end of a store, and what disturbs one.                              *)

\* The links between the members of two communities, in either direction.
JoiningRows(d, c, e) ==
  {l \in d.links : <<c, l[1]>> \in members /\ <<e, l[2]>> \in members}
    \cup {l \in d.links : <<e, l[1]>> \in members /\ <<c, l[2]>> \in members}

LEMMA PlacedHas == \A r, c, n : <<c, n>> \in Placed(r) <=> n \in DOMAIN r.nodeToDB /\ r.nodeToDB[n] = c
BY DEF Placed

LEMMA JoiningIsBetween ==
  ASSUME NEW o, members = Placed(o), NEW c, NEW e
  PROVE  JoiningRows(o.detected, c, e) = BetweenOf(o, <<c, e>>)
<1>1. PICK p : p = <<c, e>> /\ p[1] = c /\ p[2] = e
  <2>1. PICK p : p = <<c, e>>
    OBVIOUS
  <2> QED BY <2>1
<1>2. ASSUME NEW x, NEW y
      PROVE  ({x, y} = {c, e}) <=> (x = c /\ y = e) \/ (x = e /\ y = c)
  OBVIOUS
<1>3. \A l \in o.detected.links :
         l \in JoiningRows(o.detected, c, e) <=> l \in BetweenOf(o, p)
  <2> SUFFICES ASSUME NEW l \in o.detected.links
               PROVE  l \in JoiningRows(o.detected, c, e) <=> l \in BetweenOf(o, p)
    OBVIOUS
  <2>1. l \in JoiningRows(o.detected, c, e) <=>
           \/ <<c, l[1]>> \in members /\ <<e, l[2]>> \in members
           \/ <<e, l[1]>> \in members /\ <<c, l[2]>> \in members
    BY DEF JoiningRows
  <2>2. l \in BetweenOf(o, p) <=>
           /\ l[1] \in DOMAIN o.nodeToDB /\ l[2] \in DOMAIN o.nodeToDB
           /\ {o.nodeToDB[l[1]], o.nodeToDB[l[2]]} = {c, e}
    BY <1>1 DEF BetweenOf
  <2>3. PICK x, y, of : x = l[1] /\ y = l[2] /\ of = o.nodeToDB
    OBVIOUS
  <2>4. \A n : /\ <<c, n>> \in members <=> n \in DOMAIN of /\ of[n] = c
               /\ <<e, n>> \in members <=> n \in DOMAIN of /\ of[n] = e
    BY <2>3, PlacedHas
  <2>5. l \in JoiningRows(o.detected, c, e) <=>
           /\ x \in DOMAIN of /\ y \in DOMAIN of
           /\ (of[x] = c /\ of[y] = e) \/ (of[x] = e /\ of[y] = c)
    BY <2>1, <2>3, <2>4
  <2> QED BY <1>2, <2>2, <2>3, <2>5
<1>4. \A l : l \in JoiningRows(o.detected, c, e) => l \in o.detected.links
  BY DEF JoiningRows
<1>5. \A l : l \in BetweenOf(o, p) => l \in o.detected.links
  BY DEF BetweenOf
<1> QED BY <1>1, <1>3, <1>4, <1>5

\* A table of all rows of a run has a row for each pair that links join.
LEMMA AllWeighed ==
  ASSUME NEW o, NEW W, Keyed(W), Rows(W) = WeighedOf(o), NEW c, NEW e,
         c \in Range(o.nodeToDB), e \in Range(o.nodeToDB), c < e
  PROVE  IF BetweenOf(o, <<c, e>>) = {} THEN <<c, e>> \notin DOMAIN W
         ELSE <<c, e>> \in DOMAIN W /\ W[<<c, e>>] = WeightOf(o, <<c, e>>)
<1>1. PICK p : p = <<c, e>>
  OBVIOUS
<1>2. p[1] = c /\ p[2] = e
  BY <1>1
<1>3. ASSUME p \in DOMAIN W PROVE BetweenOf(o, p) # {} /\ W[p] = WeightOf(o, p)
  <2>1. PICK v : v = <<p[1], p[2], W[p]>> /\ v \in Rows(W)
    BY <1>3 DEF Rows
  <2>2. PICK q \in PairsOf(o) : v = <<q[1], q[2], WeightOf(o, q)>>
    BY <2>1 DEF WeighedOf
  <2>3. q = <<q[1], q[2]>> /\ BetweenOf(o, q) # {}
    BY DEF PairsOf
  <2>4. q[1] = p[1] /\ q[2] = p[2] /\ WeightOf(o, q) = W[p]
    BY <2>1, <2>2
  <2>5. q = p
    BY <1>1, <1>2, <2>3, <2>4
  <2> QED BY <2>3, <2>4, <2>5
<1>4. ASSUME BetweenOf(o, p) # {} PROVE p \in DOMAIN W
  <2>1. p \in PairsOf(o)
    BY <1>1, <1>2, <1>4 DEF PairsOf
  <2>2. <<p[1], p[2], WeightOf(o, p)>> \in Rows(W)
    BY <2>1 DEF WeighedOf
  <2>3. PICK k \in DOMAIN W : <<p[1], p[2], WeightOf(o, p)>> = <<k[1], k[2], W[k]>>
    BY <2>2 DEF Rows
  <2>4. k = <<k[1], k[2]>> /\ k[1] = p[1] /\ k[2] = p[2]
    BY <2>3 DEF Keyed
  <2> QED BY <1>1, <1>2, <2>4
<1> QED BY <1>1, <1>3, <1>4

LEMMA ProgressShows ==
  ASSUME StoreInv, TablesKeyed, NEW o, Progress(o), o.pc = "bundles", o.todo = {}, o.joining = {}
  PROVE  Shows(o.detected)
<1>1. members = Placed(o) /\ ToPlace(o) = members /\ Grouped(o, communities)
  BY DEF Progress, PlacedPart, AfterTables, ToPlace
<1>2. ReachedNodes(o) = DOMAIN o.detected.flat
  BY DEF ReachedNodes, Filling
<1>3. {m[2] : m \in members} = DOMAIN o.detected.flat
  BY <1>1, <1>2 DEF Grouped, NodesIn
<1>4. \A m, x \in members : (m[1] = x[1]) = (o.detected.flat[m[2]] = o.detected.flat[x[2]])
  BY <1>1 DEF Grouped, AsFlat
<1>5. \A c \in DOMAIN communities : communities[c] = Cardinality({m \in members : m[1] = c})
  BY <1>1 DEF Grouped, Sized, OfId
<1>6. Rows(hierarchy) = HierarchyRows(o.detected) /\ Rows(communityLinks) = WeighedOf(o) /\ Rows(bundles) = WeighedOf(o)
  BY DEF Progress, HierarchyPart, WeighedPart, AfterHierarchy, AfterTables
<1>7. ASSUME NEW c \in DOMAIN communities, NEW e \in DOMAIN communities, c < e
      PROVE  IF JoiningRows(o.detected, c, e) = {} THEN <<c, e>> \notin DOMAIN communityLinks \cup DOMAIN bundles
             ELSE /\ communityLinks[<<c, e>>] = Cardinality(JoiningRows(o.detected, c, e))
                  /\ bundles[<<c, e>>] = Cardinality(JoiningRows(o.detected, c, e))
  <2>1. \A x \in DOMAIN communities : x \in Range(o.nodeToDB)
    BY <1>1 DEF Grouped, Sized, IdsIn, Placed, Range
  <2>2. JoiningRows(o.detected, c, e) = BetweenOf(o, <<c, e>>)
        /\ Cardinality(JoiningRows(o.detected, c, e)) = WeightOf(o, <<c, e>>)
    BY <1>1, JoiningIsBetween DEF WeightOf
  <2>3. IF BetweenOf(o, <<c, e>>) = {} THEN <<c, e>> \notin DOMAIN communityLinks
        ELSE <<c, e>> \in DOMAIN communityLinks /\ communityLinks[<<c, e>>] = WeightOf(o, <<c, e>>)
    BY <1>6, <1>7, <2>1, AllWeighed DEF TablesKeyed
  <2>4. IF BetweenOf(o, <<c, e>>) = {} THEN <<c, e>> \notin DOMAIN bundles
        ELSE <<c, e>> \in DOMAIN bundles /\ bundles[<<c, e>>] = WeightOf(o, <<c, e>>)
    BY <1>6, <1>7, <2>1, AllWeighed DEF TablesKeyed
  <2> QED BY <2>2, <2>3, <2>4
<1>8. {<<k[1], k[2], hierarchy[k]>> : k \in DOMAIN hierarchy} = HierarchyRows(o.detected)
  BY <1>6 DEF Rows
<1> QED BY <1>3, <1>4, <1>5, <1>7, <1>8 DEF Shows, JoiningRows

\* The same of given tables: what they show does not change with anything else.
ShowsIn(d, C, M, L, B, H) ==
  /\ {m[2] : m \in M} = DOMAIN d.flat
  /\ \A m, o \in M : (m[1] = o[1]) = (d.flat[m[2]] = d.flat[o[2]])
  /\ \A c \in DOMAIN C : C[c] = Cardinality({m \in M : m[1] = c})
  /\ \A c, e \in DOMAIN C :
       LET joining == {l \in d.links : <<c, l[1]>> \in M /\ <<e, l[2]>> \in M}
                 \cup {l \in d.links : <<e, l[1]>> \in M /\ <<c, l[2]>> \in M}
       IN  c < e => IF joining = {} THEN <<c, e>> \notin DOMAIN L \cup DOMAIN B
                    ELSE /\ L[<<c, e>>] = Cardinality(joining)
                         /\ B[<<c, e>>] = Cardinality(joining)
  /\ {<<k[1], k[2], H[k]>> : k \in DOMAIN H} = HierarchyRows(d)

LEMMA ShowsKept ==
  ASSUME UNCHANGED <<communities, members, communityLinks, bundles, hierarchy>>, NEW d, Shows(d)
  PROVE  Shows(d)'
<1>1. ShowsIn(d, communities, members, communityLinks, bundles, hierarchy)
  BY Zenon DEF Shows, ShowsIn
<1>2. ShowsIn(d, communities', members', communityLinks', bundles', hierarchy')
  BY <1>1
<1> QED BY <1>2, Zenon DEF Shows, ShowsIn

LEMMA EndExact ==
  ASSUME ExactInv, WeightInv, StoreInv, NEW s \in Storers, TablesKeyed', FaultsStep, End(s)
  PROVE  ExactInv'
<1>0. store[s].pc = "bundles" /\ store[s] # Resting /\ store[s].todo = {} /\ UNCHANGED <<graphNodes, tables, storeFaults>>
      /\ store' = [store EXCEPT ![s] = Resting]
  BY RestingIs DEF End, StorePCs
<1>1. CASE exact' = Unknown
  BY <1>0, <1>1, RestExact
<1>2. CASE exact' # Unknown
  <2>1. Undisturbed(store[s]) /\ exact' = store[s].detected
    BY <1>2 DEF End, Undisturbed
  <2>2. Progress(store[s]) /\ \A t \in Storers \ {s} : store[t] = Resting
    BY <1>0, <2>1 DEF ExactInv, RunExact, Undisturbed
  <2>3. store[s].joining = {}
    BY <1>0 DEF WeightInv, WeighsWell
  <2>4. TablesKeyed
    BY DEF ExactInv
  <2>5. Shows(store[s].detected)
    BY <1>0, <2>2, <2>3, <2>4, ProgressShows
  <2>6. PICK d : d = store[s].detected
    OBVIOUS
  <2>7. Shows(d)'
    BY <1>0, <2>5, <2>6, ShowsKept DEF tables
  <2>8. Shows(exact)'
    BY <2>1, <2>6, <2>7
  <2>9. Steps(s, Resting)
    BY <1>0, RestsStore DEF StoreInv
  <2>10. \A t \in Storers : store'[t] = Resting
    BY <2>2, <2>9 DEF Steps
  <2> QED BY <2>8, <2>10 DEF ExactInv
<1> QED BY <1>1, <1>2

LEMMA BeginExact ==
  ASSUME ExactInv, StoreInv, NEW s \in Storers, NEW d \in Detections, Begin(s, d), TablesKeyed'
  PROVE  ExactInv'
<1>0. UNCHANGED <<graphNodes, communities, members, communityLinks, bundles, hierarchy, storeFaults>>
      /\ exact' = Unknown /\ DOMAIN d.flat \subseteq graphNodes
  BY DEF Begin, tables
<1>1. StoreTyped /\ storeFaults \in Nat
  BY StoreAssumption DEF StoreInv, StoreTypeOK
<1>2. PICK a \in BOOLEAN : /\ store'[s] = Storing("clearHierarchy", d, {}, {}, Empty, storeFaults, a)
                           /\ a = ~Disturbing(s)
  BY <1>1, BeginIs
<1>3. PICK r : r = Storing("clearHierarchy", d, {}, {}, Empty, storeFaults, a)
  OBVIOUS
<1>4. r.pc = "clearHierarchy" /\ r.detected = d /\ r.since = storeFaults /\ r.alone = a /\ DOMAIN r.nodeToDB = {}
  BY <1>3, StoringIs, StoringAlone, EmptyIs
<1>5. Progress(r)'
  <2>1. HierarchyPart(r, hierarchy') /\ PlacedPart(r, communities', members') /\ WeighedPart(r, communityLinks', bundles')
    BY <1>4 DEF HierarchyPart, PlacedPart, WeighedPart, AfterHierarchy, AfterTables, Filling, Early
  <2> QED BY <1>0, <1>4, <2>1 DEF Progress
<1>6. \A t \in Storers \ {s} : store[t] = Resting => store'[t] = Resting
  <2> SUFFICES ASSUME NEW t \in Storers \ {s}, store[t] = Resting PROVE store'[t] = Resting
    OBVIOUS
  <2>1. ~\E pc, T, J, of, n : \E e, b : Has(t, pc, e, T, J, of, n, b)
    <3> SUFFICES ASSUME NEW pc, NEW T, NEW J, NEW of, NEW n, NEW e, NEW b, Has(t, pc, e, T, J, of, n, b) PROVE FALSE
      OBVIOUS
    <3>1. store[t].pc = pc /\ pc \in StorePCs
      BY StoringIs DEF Has
    <3> QED BY <3>1, RestingIs
  <2> QED BY <1>1, <2>1, BeginIs
<1>7. r.alone => \A t \in Storers \ {s} : store'[t] = Resting
  BY <1>2, <1>4, <1>6 DEF Disturbing
<1>8. ASSUME NEW t \in Storers \ {s}, store'[t] # Resting
      PROVE  store'[t].since <= storeFaults /\ store'[t].alone = FALSE
  <2>1. PICK pc, T, J, of, n : \E e, b : /\ Has(t, pc, e, T, J, of, n, b)
                                         /\ store'[t] = Storing(pc, e, T, J, of, n, FALSE)
    BY <1>1, <1>8, BeginIs
  <2>2. PICK e, b : /\ Has(t, pc, e, T, J, of, n, b)
                    /\ store'[t] = Storing(pc, e, T, J, of, n, FALSE)
    BY <2>1
  <2>3. store[t].pc = pc /\ pc \in StorePCs /\ store[t].since = n
    BY <2>2, StoringIs DEF Has
  <2>4. store[t] # Resting
    BY <2>3, RestingIs
  <2>5. n <= storeFaults
    BY <2>3, <2>4 DEF ExactInv, RunExact
  <2>6. PICK v, f : f = FALSE /\ v = Storing(pc, e, T, J, of, n, f) /\ v = store'[t]
    BY <2>2
  <2>7. v = Storing(pc, e, T, J, of, n, f)
    BY <2>6
  <2>8. v.since = n /\ v.alone = f
    BY <2>7, StoringIs, StoringAlone
  <2> QED BY <2>5, <2>6, <2>8
<1>9. ASSUME NEW t \in Storers, store'[t] # Resting PROVE RunExact(t)'
  <2>1. CASE t = s
    BY <1>0, <1>1, <1>2, <1>3, <1>4, <1>5, <1>7, <2>1 DEF RunExact
  <2>2. CASE t # s
    BY <1>0, <1>8, <1>9, <2>2 DEF RunExact, Undisturbed
  <2> QED BY <2>1, <2>2
<1>10. (\A t \in Storers : store[t] # Resting => RunExact(t))'
  BY <1>9
<1> QED BY <1>0, <1>10 DEF ExactInv

LEMMA DeleteExact ==
  ASSUME ExactInv, StoreInv, NEW n \in GraphNodes, DeleteNode(n), TablesKeyed'
  PROVE  ExactInv'
<1>1. exact' = Unknown /\ store' = store /\ storeFaults' = storeFaults + 1 /\ storeFaults \in Nat
  BY StoreAssumption DEF DeleteNode, StoreFault, StoreInv, StoreTypeOK
<1>2. ASSUME NEW t \in Storers, store[t] # Resting PROVE RunExact(t)'
  <2>1. RunExact(t)
    BY <1>2 DEF ExactInv
  <2>2. IsStoring(store[t])
    BY <1>2 DEF StoreInv, StoreTyped
  <2>3. store[t].since \in Nat
    BY <2>2, StoringIs DEF IsStoring
  <2>4. store[t].since <= storeFaults + 1 /\ store[t].since # storeFaults + 1
    BY <1>1, <2>1, <2>3 DEF RunExact
  <2> QED BY <1>1, <2>1, <2>4 DEF RunExact, Undisturbed
<1>3. (\A t \in Storers : store[t] # Resting => RunExact(t))'
  BY <1>1, <1>2
<1> QED BY <1>1, <1>3 DEF ExactInv

LEMMA ExactInit == StoreInit => ExactInv
<1> SUFFICES ASSUME StoreInit PROVE ExactInv
  OBVIOUS
<1>1. \A s \in Storers : store[s] = Resting
  BY DEF StoreInit
<1>2. TablesKeyed /\ exact = Unknown
  BY RowsEmpty DEF StoreInit, TablesKeyed
<1> QED BY <1>1, <1>2 DEF ExactInv

LEMMA ExactKept == StoreInv /\ WeightInv /\ ExactInv /\ [StoreNext]_storeVars => ExactInv'
<1> SUFFICES ASSUME StoreInv, WeightInv, ExactInv, [StoreNext]_storeVars PROVE ExactInv'
  OBVIOUS
<1>1. TablesKeyed'
  BY KeyedKept DEF ExactInv
<1>2. CASE UNCHANGED storeVars
  <2>1. UNCHANGED <<graphNodes, communities, members, communityLinks, bundles, hierarchy, store, storeFaults, exact>>
    BY <1>2 DEF storeVars, others, tables
  <2>2. ASSUME NEW s \in Storers, store[s] # Resting PROVE RunExact(s)'
    <3>1. RunExact(s)
      BY <2>2 DEF ExactInv
    <3> QED BY <2>1, <3>1 DEF RunExact, Undisturbed, Progress
  <2>3. (\A s \in Storers : store[s] # Resting => RunExact(s))'
    BY <2>1, <2>2
  <2>4. (exact # Unknown => (\A s \in Storers : store[s] = Resting) /\ Shows(exact))'
    <3>1. PICK d : d = exact /\ d = exact'
      BY <2>1
    <3>2. Shows(d) => Shows(d)'
      BY <2>1, ShowsKept
    <3>3. d # Unknown => (\A s \in Storers : store[s] = Resting) /\ Shows(d)
      BY <3>1 DEF ExactInv
    <3>4. d # Unknown => Shows(d)' /\ \A s \in Storers : store'[s] = Resting
      BY <2>1, <3>2, <3>3
    <3> QED BY <3>1, <3>4
  <2> QED BY <1>1, <2>3, <2>4 DEF ExactInv
<1>3. CASE StoreNext
  <2>1. FaultsStep
    BY <1>3, FaultsGrow
  <2>2. ASSUME NEW s \in Storers, StoreStep(s) PROVE ExactInv'
    <3>1. ASSUME Die(s) PROVE ExactInv'
      BY <1>1, <2>1, <3>1, RestExact DEF Die, others
    <3> QED BY <1>1, <2>1, <2>2, <3>1, BeginExact, ClearHierarchyExact, InsertHierarchyExact, TablesExact,
               CommunityExact, MemberExact, CountExact, LinkExact, ClearBundlesExact, BundleExact, EndExact
            DEF StoreStep
  <2> QED BY <1>1, <1>3, <2>2, DeleteExact DEF StoreNext
<1> QED BY <1>2, <1>3

\* communities.go: after a store that nothing disturbed, the tables hold what
\* was detected and nothing else, whatever earlier stores left behind.
THEOREM UndisturbedStoresAreExact == StoreSpec => []UndisturbedStoreIsExact
<1>1. StoreInit => StoreInv /\ WeightInv /\ ExactInv
  BY StoreTypesInit, WeightInit, ExactInit
<1>2. StoreInv /\ WeightInv /\ ExactInv /\ [StoreNext]_storeVars => (StoreInv /\ WeightInv /\ ExactInv)'
  BY StoreTypesKept, WeightKept, ExactKept
<1>3. ExactInv => UndisturbedStoreIsExact
  BY DEF ExactInv, UndisturbedStoreIsExact
<1> QED BY <1>1, <1>2, <1>3, PTL DEF StoreSpec

-----------------------------------------------------------------------------
(* The threads that a crawl stores.                                        *)

\* What a crawl has inserted is in the table, and who wrote what is pending is
\* a user.
Recorded(k) ==
  /\ thread[k].inserted \subseteq comments
  /\ \A c \in thread[k].pending : Author[c] \in users

\* What the first pass has not reached comes after what it has.
InOrder(k) ==
  /\ thread[k].rest \cup thread[k].pending \subseteq thread[k].fetched
  /\ \A c \in thread[k].fetched \ thread[k].rest, d \in thread[k].rest : c < d

\* What it has reached is inserted, has no parent to hang on, or failed.
Reached(k) ==
  ~thread[k].missed =>
    \A c \in thread[k].fetched \ thread[k].rest :
      Insertable(c, thread[k].inserted) => c \in thread[k].inserted

Whole == RepliesHaveParents /\ \A k \in Crawlers : Recorded(k) /\ InOrder(k) /\ Reached(k)

\* A subreddit has its row before its job.
Ensured == \A k \in Crawlers : crawl[k].sub \subseteq subreddits

ContentIInv == ContentTypeOK /\ Ensured /\ Whole

LEMMA Numbers ==
  /\ Comments \subseteq Nat \ {0}
  /\ \A c \in Comments : Parent[c] \in Nat /\ Parent[c] < c
<1>1. 0 \in Nat
  OBVIOUS
<1>2. QED
  BY <1>1, ContentAssumption

LEMMA Zero == 0 \in 0 .. MaxEnqueue - 1
BY ContentAssumption

LEMMA NoThreadType == NoThread \in ThreadType
BY DEF NoThread, ThreadType

LEMMA NoCrawlType == NoCrawl \in CrawlType
BY Zero DEF NoCrawl, CrawlType

LEMMA InitContent == ContentInit => ContentIInv
<1> SUFFICES ASSUME ContentInit PROVE ContentIInv
  OBVIOUS
<1>1. ContentTypeOK
  <2>1. /\ crawl \in [Crawlers -> CrawlType] /\ thread \in [Crawlers -> ThreadType]
        /\ seen \in [Crawlers -> SUBSET Authors]
    BY NoCrawlType, NoThreadType DEF ContentInit
  <2>2. crawls \in 0 .. MaxCrawls
    BY ContentAssumption DEF ContentInit
  <2>3. QED
    BY <2>1, <2>2 DEF ContentInit, ContentTypeOK
<1>2. Ensured /\ Whole
  BY DEF ContentInit, Ensured, Whole, RepliesHaveParents, Recorded, InOrder, Reached, NoThread,
         NoCrawl
<1>3. QED
  BY <1>1, <1>2 DEF ContentIInv

LEMMA Writers == \A c \in Comments : Author[c] \in Authors
BY DEF Authors

\* The memory of a crawler keeps its type.
LEMMA CrawlTyped ==
  ASSUME crawl \in [Crawlers -> CrawlType], thread \in [Crawlers -> ThreadType],
         NEW k \in Crawlers, ContentStep(k)
  PROVE  crawl' \in [Crawlers -> CrawlType]
<1> SUFFICES \E r \in CrawlType : crawl' = [crawl EXCEPT ![k] = r]
  OBVIOUS
<1> PICK o \in CrawlType : o = crawl[k]
  OBVIOUS
<1>1. CASE HandleJob(k)
  <2>1. PICK r : r = [o EXCEPT !.pc = "listing"]
    OBVIOUS
  <2>2. r \in CrawlType
    BY <2>1 DEF CrawlType
  <2>3. QED
    BY <1>1, <2>1, <2>2 DEF HandleJob
<1>2. CASE ListingDone(k)
  <2>1. PICK r : r = [o EXCEPT !.pc = "posts", !.left = o.posts]
    OBVIOUS
  <2>2. r \in CrawlType
    BY <2>1 DEF CrawlType
  <2>3. QED
    BY <1>2, <2>1, <2>2 DEF ListingDone
<1>3. CASE PostsDone(k)
  <2>1. PICK r : r = [o EXCEPT !.pc = "comments", !.left = o.posts]
    OBVIOUS
  <2>2. r \in CrawlType
    BY <2>1 DEF CrawlType
  <2>3. QED
    BY <1>3, <2>1, <2>2 DEF PostsDone
<1>4. CASE NextPost(k)
  <2>1. PICK r : r = [o EXCEPT !.pc = "comments"]
    OBVIOUS
  <2>2. r \in CrawlType
    BY <2>1 DEF CrawlType
  <2>3. QED
    BY <1>4, <2>1, <2>2 DEF NextPost
<1>5. CASE FetchForAuthors(k)
  <2>1. PICK r : r = [o EXCEPT !.pc = "authors", !.posts = {}, !.stored = {}]
    OBVIOUS
  <2>2. r \in CrawlType
    BY <2>1 DEF CrawlType
  <2>3. QED
    BY <1>5, <2>1, <2>2 DEF FetchForAuthors
<1>6. CASE NextAuthor(k)
  <2>1. PICK r : r = [o EXCEPT !.pc = "authors", !.count = 0]
    OBVIOUS
  <2>2. r \in CrawlType
    BY <2>1, Zero DEF CrawlType
  <2>3. QED
    BY <1>6, <2>1, <2>2 DEF NextAuthor
<1>7. CASE FetchPage(k)
  <2>1. PICK page \in SUBSET Posts : crawl' = [crawl EXCEPT ![k] = [o EXCEPT !.posts = o.posts \cup page]]
    BY <1>7 DEF FetchPage
  <2>2. PICK r : r = [o EXCEPT !.posts = o.posts \cup page]
    OBVIOUS
  <2>3. r \in CrawlType
    BY <2>2 DEF CrawlType
  <2>4. crawl' = [crawl EXCEPT ![k] = r]
    BY <2>1, <2>2
  <2>5. QED
    BY <2>3, <2>4
<1>8. CASE SkipPost(k)
  <2>1. PICK p \in o.left : crawl' = [crawl EXCEPT ![k] = [o EXCEPT !.left = o.left \ {p}]]
    BY <1>8 DEF SkipPost
  <2>2. PICK r : r = [o EXCEPT !.left = o.left \ {p}]
    OBVIOUS
  <2>3. r \in CrawlType
    BY <2>2 DEF CrawlType
  <2>4. crawl' = [crawl EXCEPT ![k] = r]
    BY <2>1, <2>2
  <2>5. QED
    BY <2>3, <2>4
<1>9. CASE CrawlComments(k)
  <2>1. PICK p \in crawl[k].left : crawl' = [crawl EXCEPT ![k].pc = "thread", ![k].left = @ \ {p}]
    BY <1>9 DEF CrawlComments
  <2>2. PICK r : r = [o EXCEPT !.pc = "thread", !.left = o.left \ {p}]
    OBVIOUS
  <2>3. r \in CrawlType
    BY <2>2 DEF CrawlType
  <2>4. crawl' = [crawl EXCEPT ![k] = r]
    BY <2>1, <2>2
  <2>5. QED
    BY <2>3, <2>4
<1>10. CASE ExtractMentions(k)
  <2>1. PICK S \in SUBSET OtherSubs : crawl' = [crawl EXCEPT ![k] = [o EXCEPT !.pc = "mentions", !.found = S]]
    BY <1>10 DEF ExtractMentions
  <2>2. PICK r : r = [o EXCEPT !.pc = "mentions", !.found = S]
    OBVIOUS
  <2>3. r \in CrawlType
    BY <2>2 DEF CrawlType
  <2>4. crawl' = [crawl EXCEPT ![k] = r]
    BY <2>1, <2>2
  <2>5. QED
    BY <2>3, <2>4
<1>11. CASE EnqueueLinkedSubreddits(k)
  <2>1. PICK s \in o.found : crawl' = [crawl EXCEPT ![k] = [o EXCEPT !.found = o.found \ {s}]]
    BY <1>11 DEF EnqueueLinkedSubreddits
  <2>2. PICK r : r = [o EXCEPT !.found = o.found \ {s}]
    OBVIOUS
  <2>3. r \in CrawlType
    BY <2>2 DEF CrawlType
  <2>4. crawl' = [crawl EXCEPT ![k] = r]
    BY <2>1, <2>2
  <2>5. QED
    BY <2>3, <2>4
<1>12. CASE ShouldFetchForUser(k)
  <2>1. PICK a \in crawl[k].authors, S \in SUBSET OtherSubs :
          crawl' = [crawl EXCEPT ![k].pc = "queue", ![k].authors = @ \ {a},
                                 ![k].found = IF a \in seen[k] THEN {} ELSE S]
    BY <1>12 DEF ShouldFetchForUser, FetchRecentUserSubreddits
  <2>2. PICK r : r = [o EXCEPT !.pc = "queue", !.authors = o.authors \ {a}, !.found = IF a \in seen[k] THEN {} ELSE S]
    OBVIOUS
  <2>3. r \in CrawlType
    BY <2>2 DEF CrawlType
  <2>4. crawl' = [crawl EXCEPT ![k] = r]
    BY <2>1, <2>2
  <2>5. QED
    BY <2>3, <2>4
<1>13. CASE CrawlAndStorePosts(k)
  <2>1. PICK p \in crawl[k].left :
          \/ crawl' = [crawl EXCEPT ![k].left = @ \ {p}, ![k].stored = @ \cup {p}]
          \/ crawl' = [crawl EXCEPT ![k].left = @ \ {p}]
    BY <1>13 DEF CrawlAndStorePosts
  <2>2. p \in Posts
    BY DEF CrawlType
  <2>3. PICK r, s : /\ r = [o EXCEPT !.left = @ \ {p}, !.stored = @ \cup {p}]
                    /\ s = [o EXCEPT !.left = @ \ {p}]
    OBVIOUS
  <2>4. r \in CrawlType
    BY <2>2, <2>3 DEF CrawlType
  <2>5. s \in CrawlType
    BY <2>3 DEF CrawlType
  <2>6. crawl' = [crawl EXCEPT ![k] = r] \/ crawl' = [crawl EXCEPT ![k] = s]
    BY <2>1, <2>3
  <2>7. QED
    BY <2>4, <2>5, <2>6
<1>14. CASE QueueUserSubreddit(k)
  <2>1. PICK s \in crawl[k].found :
          \/ crawl' = [crawl EXCEPT ![k].found = @ \ {s}, ![k].sub = {s} \ jobs]
          \/ crawl' = [crawl EXCEPT ![k].found = @ \ {s}]
    BY <1>14 DEF QueueUserSubreddit
  <2>2. s \in OtherSubs
    BY DEF CrawlType
  <2>3. PICK r, q : /\ r = [o EXCEPT !.found = @ \ {s}, !.sub = {s} \ jobs]
                    /\ q = [o EXCEPT !.found = @ \ {s}]
    OBVIOUS
  <2>4. r \in CrawlType
    BY <2>2, <2>3 DEF CrawlType
  <2>5. q \in CrawlType
    BY <2>3 DEF CrawlType
  <2>6. crawl' = [crawl EXCEPT ![k] = r] \/ crawl' = [crawl EXCEPT ![k] = q]
    BY <2>1, <2>3
  <2>7. QED
    BY <2>4, <2>5, <2>6
<1>15. CASE EnqueueUserSubreddit(k)
  <2>1. \/ /\ o.count + 1 < MaxEnqueue
           /\ crawl' = [crawl EXCEPT ![k] = [o EXCEPT !.sub = {}, !.count = o.count + 1]]
        \/ crawl' = [crawl EXCEPT ![k] = [o EXCEPT !.sub = {}, !.found = {}]]
        \/ crawl' = [crawl EXCEPT ![k] = [o EXCEPT !.sub = {}]]
    BY <1>15 DEF EnqueueUserSubreddit
  <2>2. ASSUME o.count + 1 < MaxEnqueue
        PROVE  [o EXCEPT !.sub = {}, !.count = o.count + 1] \in CrawlType
    <3>1. o.count + 1 \in 0 .. MaxEnqueue - 1
      BY <2>2, ContentAssumption DEF CrawlType
    <3>2. QED
      BY <3>1 DEF CrawlType
  <2>3. [o EXCEPT !.sub = {}, !.found = {}] \in CrawlType
    BY DEF CrawlType
  <2>4. [o EXCEPT !.sub = {}] \in CrawlType
    BY DEF CrawlType
  <2>5. QED
    BY <2>1, <2>2, <2>3, <2>4
<1>16. CASE FirstPass(k)
  <2>1. PICK c \in thread[k].rest :
          UNCHANGED crawl \/ crawl' = [crawl EXCEPT ![k] = [o EXCEPT !.authors = o.authors \cup {Author[c]}]]
    BY <1>16 DEF FirstPass
  <2>2. thread[k].rest \subseteq Comments
    BY DEF ThreadType
  <2>3. [o EXCEPT !.authors = o.authors \cup {Author[c]}] \in CrawlType
    BY <2>2, Writers DEF CrawlType
  <2>4. QED
    BY <2>1, <2>3
<1>17. CASE SecondPass(k)
  BY <1>17 DEF SecondPass
<1>18. CASE CrawlEnds(k) \/ Restart(k)
  BY <1>18, NoCrawlType DEF CrawlEnds, Restart
<1>19. QED
  BY <1>1, <1>2, <1>3, <1>4, <1>5, <1>6, <1>7, <1>8, <1>9, <1>10, <1>11, <1>12, <1>13, <1>14, <1>15, <1>16, <1>17, <1>18
  DEF ContentStep

\* What a crawler knows of a thread keeps its type.
LEMMA ThreadTyped ==
  ASSUME thread \in [Crawlers -> ThreadType], NEW k \in Crawlers, ContentStep(k)
  PROVE  thread' \in [Crawlers -> ThreadType]
<1>1. CASE CrawlComments(k)
  <2>1. PICK S \in SUBSET Comments :
          thread' = [thread EXCEPT ![k] = [NoThread EXCEPT !.fetched = ParseComments(S),
                                                           !.rest = ParseComments(S)]]
    BY <1>1 DEF CrawlComments
  <2> DEFINE t == [NoThread EXCEPT !.fetched = ParseComments(S), !.rest = ParseComments(S)]
  <2>2. t \in ThreadType
    BY DEF ThreadType, NoThread, ParseComments
  <2>3. thread' = [thread EXCEPT ![k] = t]
    BY <2>1
  <2> HIDE DEF t
  <2>4. QED
    BY <2>2, <2>3
<1>2. CASE FirstPass(k)
  BY <1>2 DEF FirstPass, Insert, ThreadType
<1>3. CASE SecondPass(k)
  BY <1>3 DEF SecondPass, Insert, ThreadType
<1>4. CASE NextPost(k) \/ Restart(k)
  BY <1>4, NoThreadType DEF NextPost, Restart
<1>5. CASE UNCHANGED thread
  BY <1>5
<1>6. QED
  BY <1>1, <1>2, <1>3, <1>4, <1>5 DEF ContentStep, memoryVars, HandleJob, FetchPage, ListingDone,
     CrawlAndStorePosts, PostsDone, SkipPost, FetchForAuthors, ShouldFetchForUser,
     QueueUserSubreddit, EnqueueUserSubreddit, NextAuthor, ExtractMentions,
     EnqueueLinkedSubreddits, CrawlEnds

\* Every step keeps the types.
LEMMA StepTypeOK == ContentTypeOK /\ Ensured /\ [ContentNext]_contentVars => ContentTypeOK'
<1> SUFFICES ASSUME ContentTypeOK, Ensured, [ContentNext]_contentVars PROVE ContentTypeOK'
  OBVIOUS
<1>1. CASE DeleteComment
  BY <1>1 DEF ContentTypeOK, DeleteComment, tableVars, queueVars, memoryVars
<1>2. ASSUME NEW k \in Crawlers, ContentStep(k) PROVE ContentTypeOK'
  <2> USE DEF ContentTypeOK
  <2>1. crawl' \in [Crawlers -> CrawlType] /\ thread' \in [Crawlers -> ThreadType]
    BY <1>2, CrawlTyped, ThreadTyped
  <2>2. crawls' \in 0 .. MaxCrawls /\ seen' \in [Crawlers -> SUBSET Authors]
    <3>1. CASE HandleJob(k)
      BY <3>1, ContentAssumption DEF HandleJob
    <3>2. CASE ShouldFetchForUser(k)
      <4>1. PICK a \in crawl[k].authors : seen' = [seen EXCEPT ![k] = @ \cup {a}]
        BY <3>2 DEF ShouldFetchForUser
      <4>2. crawl[k].authors \subseteq Authors
        BY DEF CrawlType
      <4>3. QED
        BY <3>2, <4>1, <4>2 DEF ShouldFetchForUser
    <3>3. CASE Restart(k)
      BY <3>3 DEF Restart
    <3>4. CASE UNCHANGED <<crawls, seen>>
      BY <3>4
    <3>5. QED
      BY <1>2, <3>1, <3>2, <3>3, <3>4 DEF ContentStep, memoryVars, FetchPage, ListingDone,
         CrawlAndStorePosts, PostsDone, CrawlComments, SkipPost, FirstPass, SecondPass, NextPost,
         FetchForAuthors, QueueUserSubreddit, EnqueueUserSubreddit, NextAuthor, ExtractMentions,
         EnqueueLinkedSubreddits, CrawlEnds
  <2>3. jobs' \subseteq subreddits' /\ subreddits' \subseteq OtherSubs
    <3>1. CASE QueueUserSubreddit(k)
      BY <3>1 DEF QueueUserSubreddit, CrawlType
    <3>2. CASE EnqueueUserSubreddit(k)
      BY <3>2 DEF EnqueueUserSubreddit, CrawlType, Ensured
    <3>3. CASE EnqueueLinkedSubreddits(k)
      BY <3>3 DEF EnqueueLinkedSubreddits, queueVars, CrawlType
    <3>4. CASE UNCHANGED queueVars
      BY <3>4 DEF queueVars
    <3>5. QED
      BY <1>2, <3>1, <3>2, <3>3, <3>4 DEF ContentStep, HandleJob, FetchPage, ListingDone,
         CrawlAndStorePosts, PostsDone, CrawlComments, SkipPost, FirstPass, SecondPass, NextPost,
         FetchForAuthors, ShouldFetchForUser, NextAuthor, ExtractMentions, CrawlEnds, Restart
  <2>4. /\ posts' \subseteq Posts /\ comments' \subseteq Comments
        /\ users' \subseteq Authors /\ deleted' \subseteq Comments
    <3>1. CASE CrawlAndStorePosts(k)
      BY <3>1 DEF CrawlAndStorePosts, CrawlType
    <3>2. CASE FirstPass(k)
      <4>1. thread[k].rest \subseteq Comments
        BY DEF ThreadType
      <4>2. PICK c \in thread[k].rest :
              /\ comments' = comments \/ comments' = comments \cup {c}
              /\ users' = users \/ users' = users \cup {Author[c]}
        BY <3>2 DEF FirstPass, Insert
      <4>3. QED
        BY <3>2, <4>1, <4>2, Writers DEF FirstPass
    <3>3. CASE SecondPass(k)
      BY <3>3 DEF SecondPass, Insert, ThreadType
    <3>4. CASE UNCHANGED <<tableVars, deleted>>
      BY <3>4 DEF tableVars
    <3>5. QED
      BY <1>2, <3>1, <3>2, <3>3, <3>4 DEF ContentStep, tableVars, HandleJob, FetchPage,
         ListingDone, PostsDone, CrawlComments, SkipPost, NextPost, FetchForAuthors,
         ShouldFetchForUser, QueueUserSubreddit, EnqueueUserSubreddit, NextAuthor,
         ExtractMentions, EnqueueLinkedSubreddits, CrawlEnds, Restart
  <2>5. QED
    BY <2>1, <2>2, <2>3, <2>4
<1>3. CASE UNCHANGED contentVars
  BY <1>3 DEF ContentTypeOK, contentVars, tableVars, queueVars, memoryVars
<1>4. QED
  BY <1>1, <1>2, <1>3 DEF ContentNext

\* Every step keeps the rows before their jobs.
LEMMA StepEnsured == ContentTypeOK /\ Ensured /\ [ContentNext]_contentVars => Ensured'
<1> SUFFICES ASSUME ContentTypeOK, Ensured, [ContentNext]_contentVars PROVE Ensured'
  OBVIOUS
<1>1. CASE DeleteComment \/ UNCHANGED contentVars
  BY <1>1 DEF Ensured, DeleteComment, contentVars, queueVars
<1>2. ASSUME NEW k \in Crawlers, ContentStep(k) PROVE Ensured'
  <2> USE DEF ContentTypeOK, CrawlType, Ensured, queueVars
  <2>1. CASE HandleJob(k)
    BY <2>1 DEF HandleJob
  <2>2. CASE FetchPage(k)
    BY <2>2 DEF FetchPage
  <2>3. CASE ListingDone(k)
    BY <2>3 DEF ListingDone
  <2>4. CASE CrawlAndStorePosts(k)
    BY <2>4 DEF CrawlAndStorePosts
  <2>5. CASE PostsDone(k)
    BY <2>5 DEF PostsDone
  <2>6. CASE CrawlComments(k)
    BY <2>6 DEF CrawlComments
  <2>7. CASE SkipPost(k)
    BY <2>7 DEF SkipPost
  <2>8. CASE FirstPass(k)
    BY <2>8 DEF FirstPass
  <2>9. CASE SecondPass(k)
    BY <2>9 DEF SecondPass
  <2>10. CASE NextPost(k)
    BY <2>10 DEF NextPost
  <2>11. CASE FetchForAuthors(k)
    BY <2>11 DEF FetchForAuthors
  <2>12. CASE ShouldFetchForUser(k)
    BY <2>12 DEF ShouldFetchForUser
  <2>13. CASE QueueUserSubreddit(k)
    BY <2>13 DEF QueueUserSubreddit
  <2>14. CASE EnqueueUserSubreddit(k)
    BY <2>14 DEF EnqueueUserSubreddit
  <2>15. CASE NextAuthor(k)
    BY <2>15 DEF NextAuthor
  <2>16. CASE ExtractMentions(k)
    BY <2>16 DEF ExtractMentions
  <2>17. CASE EnqueueLinkedSubreddits(k)
    BY <2>17 DEF EnqueueLinkedSubreddits
  <2>18. CASE CrawlEnds(k)
    BY <2>18 DEF CrawlEnds, NoCrawl
  <2>19. CASE Restart(k)
    BY <2>19 DEF Restart, NoCrawl
  <2>20. QED
    BY <1>2, <2>1, <2>2, <2>3, <2>4, <2>5, <2>6, <2>7, <2>8, <2>9, <2>10, <2>11, <2>12,
       <2>13, <2>14, <2>15, <2>16, <2>17, <2>18, <2>19 DEF ContentStep
<1>3. QED
  BY <1>1, <1>2 DEF ContentNext

\* What another crawler does to the tables leaves a thread as it was.
LEMMA OthersWhole ==
  ASSUME NEW l \in Crawlers, Whole, thread'[l] = thread[l],
         comments \subseteq comments', users \subseteq users'
  PROVE  Recorded(l)' /\ InOrder(l)' /\ Reached(l)'
BY DEF Whole, Recorded, InOrder, Reached

\* A statement for a comment that has its parent keeps the threads whole.
LEMMA InsertWhole ==
  ASSUME ContentTypeOK, Whole, NEW k \in Crawlers, NEW pass \in {"rest", "pending"},
         NEW c \in thread[k][pass], Insertable(c, thread[k].inserted), Insert(k, c, pass),
         users \subseteq users', Author[c] \in users',
         pass = "rest" => IsNext(c, thread[k].rest), pass = "pending" => thread[k].rest = {}
  PROVE  Whole'
<1>1. \A l \in Crawlers : l # k => thread'[l] = thread[l]
  BY DEF Insert, ContentTypeOK
<1>2. comments \subseteq comments' /\ comments' \subseteq comments \cup {c}
  BY DEF Insert
<1>3. Recorded(k) /\ InOrder(k) /\ Reached(k) /\ RepliesHaveParents
  BY DEF Whole
<1>4. RepliesHaveParents'
  BY <1>2, <1>3 DEF RepliesHaveParents, Recorded, Insertable
<1> DEFINE t == thread[k]
           u == thread'[k]
<1>5. /\ u.fetched = t.fetched
      /\ pass = "rest" => u.rest = t.rest \ {c} /\ u.pending = t.pending
      /\ pass = "pending" => u.rest = t.rest /\ u.pending = t.pending \ {c}
      /\ \/ u.inserted = t.inserted \cup {c} /\ u.missed = t.missed /\ c \in comments'
         \/ u.inserted = t.inserted /\ u.missed = TRUE
  BY DEF Insert, ContentTypeOK, ThreadType
<1>6. Recorded(k)'
  BY <1>2, <1>3, <1>5 DEF Recorded
<1>7. t.fetched \subseteq Comments
  BY DEF ContentTypeOK, ThreadType
<1>8. InOrder(k)' /\ Reached(k)'
  <2>1. CASE pass = "rest"
    <3>1. c \in t.rest /\ \A d \in t.rest : c <= d
      BY <2>1 DEF IsNext
    <3>2. t.rest \cup t.pending \subseteq t.fetched
      BY <1>3 DEF InOrder
    <3>3. \A d \in t.rest \ {c} : c < d
      <4>1. t.rest \subseteq Nat
        BY <3>2, <1>7, Numbers
      <4> HIDE DEF t
      <4>2. QED
        BY <3>1, <4>1
    <3>4. InOrder(k)'
      BY <2>1, <1>3, <1>5, <3>1, <3>2, <3>3 DEF InOrder
    <3>5. \A d \in t.fetched \ t.rest : d < c
      BY <1>3, <3>1 DEF InOrder
    <3>6. Reached(k)'
      <4> SUFFICES ASSUME ~u.missed, NEW d \in u.fetched \ u.rest, Insertable(d, u.inserted)
                   PROVE  d \in u.inserted
        BY DEF Reached
      <4>1. u.inserted = t.inserted \cup {c} /\ ~t.missed
        BY <1>5
      <4>2. CASE d # c
        <5>1. d \in t.fetched \ t.rest /\ d < c
          BY <2>1, <1>5, <3>5, <4>2
        <5>2. Parent[d] = 0 \/ Parent[d] < d
          BY <1>7, <5>1, Numbers
        <5>3. Parent[d] # c
          <6>1. c \in Nat \ {0} /\ d \in Nat
            BY <1>7, <3>1, <3>2, <5>1, Numbers
          <6>2. Parent[d] \in Nat
            BY <1>7, <5>1, Numbers
          <6> HIDE DEF t
          <6>3. QED
            BY <5>1, <5>2, <6>1, <6>2
        <5>4. QED
          BY <1>3, <4>1, <5>1, <5>3 DEF Reached, Insertable
      <4>3. QED
        BY <4>1, <4>2
    <3>7. QED
      BY <3>4, <3>6
  <2>2. CASE pass = "pending"
    <3>1. t.rest = {} /\ c \in t.fetched
      BY <2>2, <1>3 DEF InOrder
    <3>2. InOrder(k)'
      BY <2>2, <1>3, <1>5, <3>1 DEF InOrder
    <3>3. Reached(k)'
      BY <2>2, <1>3, <1>5, <3>1 DEF Reached, Insertable
    <3>4. QED
      BY <3>2, <3>3
  <2>3. QED
    BY <2>1, <2>2
<1>9. QED
  BY <1>1, <1>2, <1>4, <1>6, <1>8, OthersWhole DEF Whole

\* Every step keeps the threads whole.
LEMMA StepWhole == ContentTypeOK /\ Whole /\ [ContentNext]_contentVars => Whole'
<1> SUFFICES ASSUME ContentTypeOK, Whole, [ContentNext]_contentVars PROVE Whole'
  OBVIOUS
<1>1. CASE UNCHANGED <<comments, users, thread>>
  BY <1>1 DEF Whole, RepliesHaveParents, Recorded, InOrder, Reached
<1>2. ASSUME NEW k \in Crawlers, CrawlComments(k) \/ NextPost(k) \/ Restart(k) PROVE Whole'
  <2>1. UNCHANGED <<comments, users>>
    BY <1>2 DEF CrawlComments, NextPost, Restart, tableVars
  <2>2. PICK t : thread' = [thread EXCEPT ![k] = t] /\ (t = NoThread \/ \E S : t =
                    [NoThread EXCEPT !.fetched = ParseComments(S), !.rest = ParseComments(S)])
    BY <1>2 DEF CrawlComments, NextPost, Restart
  <2>3. thread'[k] = t /\ \A l \in Crawlers : l # k => thread'[l] = thread[l]
    BY <2>2 DEF ContentTypeOK
  <2>4. Recorded(k)' /\ InOrder(k)' /\ Reached(k)'
    <3>1. t.fetched = t.rest /\ t.inserted = {} /\ t.pending = {}
      <4>1. CASE t = NoThread
        BY <4>1 DEF NoThread
      <4>2. ASSUME NEW S, t = [NoThread EXCEPT !.fetched = ParseComments(S),
                                               !.rest = ParseComments(S)]
            PROVE  t.fetched = t.rest /\ t.inserted = {} /\ t.pending = {}
        BY <4>2 DEF NoThread
      <4>3. QED
        BY <2>2, <4>1, <4>2
    <3>2. QED
      BY <2>3, <3>1 DEF Recorded, InOrder, Reached
  <2>5. RepliesHaveParents'
    BY <2>1 DEF Whole, RepliesHaveParents
  <2>6. QED
    BY <2>1, <2>3, <2>4, <2>5, OthersWhole DEF Whole
<1>3. ASSUME NEW k \in Crawlers, FirstPass(k) PROVE Whole'
  <2>1. PICK c \in thread[k].rest : FirstPass(k)!2!(c)
    BY <1>3 DEF FirstPass
  <2>2. CASE Insertable(c, thread[k].inserted) /\ Insert(k, c, "rest")
             /\ users' = users \cup {Author[c]}
    BY <2>1, <2>2, InsertWhole
  <2>3. CASE /\ UNCHANGED comments /\ users \subseteq users'
             /\ \/ thread' = [thread EXCEPT ![k].rest = @ \ {c}, ![k].missed = TRUE]
                \/ /\ ~Insertable(c, thread[k].inserted) /\ Author[c] \in users'
                   /\ thread' = [thread EXCEPT ![k].rest = @ \ {c}, ![k].pending = @ \cup {c}]
    <3> DEFINE t == thread[k]
               u == thread'[k]
    <3>2. /\ u.fetched = t.fetched /\ u.rest = t.rest \ {c} /\ u.inserted = t.inserted
          /\ \/ u.missed = TRUE /\ u.pending = t.pending
             \/ /\ ~Insertable(c, t.inserted) /\ Author[c] \in users'
                /\ u.missed = t.missed /\ u.pending = t.pending \cup {c}
      BY <2>3 DEF ContentTypeOK, ThreadType
    <3>3. Recorded(k) /\ InOrder(k) /\ Reached(k) /\ RepliesHaveParents
      BY DEF Whole
    <3>4. Recorded(k)'
      BY <2>3, <3>2, <3>3 DEF Recorded
    <3>5. t.fetched \subseteq Comments /\ t.rest \cup t.pending \subseteq t.fetched
      BY <3>3 DEF ContentTypeOK, ThreadType, InOrder
    <3>6. \A d \in t.rest \ {c} : c < d
      BY <2>1, <3>5, Numbers DEF IsNext
    <3>7. InOrder(k)'
      BY <2>1, <3>2, <3>3, <3>5, <3>6 DEF InOrder
    <3>8. Reached(k)'
      BY <3>2, <3>3 DEF Reached
    <3>9. \A l \in Crawlers : l # k => thread'[l] = thread[l]
      BY <2>3 DEF ContentTypeOK
    <3>10. RepliesHaveParents'
      BY <2>3, <3>3 DEF RepliesHaveParents
    <3>11. QED
      BY <2>3, <3>4, <3>7, <3>8, <3>9, <3>10, OthersWhole DEF Whole
  <2>4. QED
    BY <2>1, <2>2, <2>3
<1>4. ASSUME NEW k \in Crawlers, SecondPass(k) PROVE Whole'
  <2>1. PICK c \in thread[k].pending : SecondPass(k)!2!(c)
    BY <1>4 DEF SecondPass
  <2>2. users' = users /\ thread[k].rest = {} /\ Author[c] \in users
    BY <1>4 DEF SecondPass, Whole, Recorded
  <2>3. CASE Parent[c] \in thread[k].inserted
    BY <2>1, <2>2, <2>3, InsertWhole DEF Insertable
  <2>4. CASE Parent[c] \notin thread[k].inserted
    <3>1. /\ thread' = [thread EXCEPT ![k].pending = @ \ {c}]
          /\ UNCHANGED comments
      BY <2>1, <2>4
    <3>2. \A l \in Crawlers : l # k => thread'[l] = thread[l]
      BY <3>1 DEF ContentTypeOK
    <3>3. Recorded(k)' /\ InOrder(k)' /\ Reached(k)'
      BY <2>2, <3>1 DEF Whole, Recorded, InOrder, Reached, ContentTypeOK, ThreadType
    <3>4. RepliesHaveParents'
      BY <2>2, <3>1 DEF Whole, RepliesHaveParents
    <3>5. QED
      BY <2>2, <3>1, <3>2, <3>3, <3>4, OthersWhole DEF Whole
  <2>5. QED
    BY <2>3, <2>4
<1>5. ASSUME NEW k \in Crawlers,
             HandleJob(k) \/ FetchPage(k) \/ ListingDone(k) \/ CrawlAndStorePosts(k) \/ PostsDone(k) \/ SkipPost(k)
      PROVE  UNCHANGED <<comments, users, thread>>
  BY <1>5 DEF HandleJob, FetchPage, ListingDone, CrawlAndStorePosts, PostsDone, SkipPost, tableVars, memoryVars
<1>6. ASSUME NEW k \in Crawlers,
             \/ FetchForAuthors(k) \/ ShouldFetchForUser(k) \/ QueueUserSubreddit(k) \/ EnqueueUserSubreddit(k)
             \/ NextAuthor(k) \/ ExtractMentions(k) \/ EnqueueLinkedSubreddits(k) \/ CrawlEnds(k)
      PROVE  UNCHANGED <<comments, users, thread>>
  BY <1>6 DEF FetchForAuthors, ShouldFetchForUser, QueueUserSubreddit, EnqueueUserSubreddit, NextAuthor,
     ExtractMentions, EnqueueLinkedSubreddits, CrawlEnds, tableVars, memoryVars
<1>7. ASSUME NEW k \in Crawlers, ContentStep(k) PROVE Whole'
  BY <1>1, <1>2, <1>3, <1>4, <1>5, <1>6, <1>7 DEF ContentStep
<1>8. DeleteComment \/ UNCHANGED contentVars => UNCHANGED <<comments, users, thread>>
  BY DEF DeleteComment, contentVars, tableVars, memoryVars
<1>9. QED
  BY <1>1, <1>7, <1>8 DEF ContentNext

LEMMA StepContent == ContentIInv /\ [ContentNext]_contentVars => ContentIInv'
BY StepTypeOK, StepEnsured, StepWhole DEF ContentIInv

\* The rows and the memory of the crawlers keep their types.
THEOREM ContentTypeCorrect == ContentSpec => []ContentTypeOK
<1>1. ContentIInv => ContentTypeOK
  BY DEF ContentIInv
<1>2. QED
  BY InitContent, StepContent, <1>1, PTL DEF ContentSpec

\* No reply is stored without its parent, and what the two passes of an
\* undisturbed crawl leave out hangs below a comment it was not given.
THEOREM ThreadsStayWhole == ContentSpec => []ThreadsAreWhole
<1>1. ContentIInv => ThreadsAreWhole
  <2> SUFFICES ASSUME ContentIInv PROVE RepliesHaveParents /\ NothingLeftOut
    BY DEF ThreadsAreWhole
  <2>1. RepliesHaveParents /\ \A k \in Crawlers : Recorded(k) /\ Reached(k)
    BY DEF ContentIInv, Whole
  <2>2. QED
    BY <2>1 DEF NothingLeftOut, ThreadDone, Recorded, Reached
<1>2. QED
  BY InitContent, StepContent, <1>1, PTL DEF ContentSpec

-----------------------------------------------------------------------------
(* Side by side.                                                           *)

\* A step is one of one of the three, and the others stutter.
LEMMA WritersStepEach ==
  [WritersNext]_<<active, contentVars, vars, storeVars>> =>
    [ContentNext]_contentVars /\ [Next]_vars /\ [StoreNext]_storeVars
BY DEF WritersNext

LEMMA EachWriter == WritersSpec => ContentSpec /\ Spec /\ StoreSpec
<1>1. WritersInit => ContentInit /\ Init /\ StoreInit
  BY DEF WritersInit
<1> QED BY <1>1, WritersStepEach, PTL DEF WritersSpec, ContentSpec, Spec, StoreSpec

\* The variables of all three keep their types.
THEOREM WritersTypeCorrect == WritersSpec => []WritersTypeOK
<1>1. ContentIInv /\ KInv /\ StoreInv => WritersTypeOK
  BY DEF ContentIInv, KInv, StoreInv, WritersTypeOK
<1>2. WritersInit => ContentIInv /\ KInv /\ StoreInv
  BY InitContent, InitKInv, StoreTypesInit DEF WritersInit
<1>3. ContentIInv /\ KInv /\ StoreInv /\ [WritersNext]_<<active, contentVars, vars, storeVars>>
        => (ContentIInv /\ KInv /\ StoreInv)'
  BY WritersStepEach, StepContent, StepKInv, StoreTypesKept
<1> QED BY <1>1, <1>2, <1>3, PTL DEF WritersSpec

\* What the three are proved to keep, they keep side by side.
THEOREM WritersKeepAll ==
  WritersSpec => /\ [](ThreadsAreWhole /\ GraphIsGrounded)
                 /\ [](StoredWeightsAgree /\ UndisturbedStoreIsExact)
                 /\ FullRunCovers /\ IncrementalRunCovers
BY EachWriter, ThreadsStayWhole, GraphAlwaysGrounded, FullRunsCover, IncrementalRunsCover,
   StoredWeightsAlwaysAgree, UndisturbedStoresAreExact, PTL

=============================================================================
