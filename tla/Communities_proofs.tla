------------------------ MODULE Communities_proofs -------------------------
(***************************************************************************)
(* What holds of community detection for any graph, any order of visits    *)
(* and any gains.  Nothing below expands Targets beyond the fact that a    *)
(* node stays or goes to a community around it, so no theorem depends on   *)
(* how gains are computed.  The weights of the levels are sums, which      *)
(* SumTheorems lets the last part rearrange.                               *)
(***************************************************************************)
EXTENDS Communities, SumTheorems, FunctionTheorems, TLAPS

USE CommunitiesAssumption

\* The nodes of the graph behind each node of the pass.
Base == IF stage = "levels" THEN Top.comm ELSE [n \in Vertices |-> n]

\* A node of the pass has nodes of C behind it.
Side(C, x) == \E k \in C : Base[k] = x

\* No node of the pass, no link and no community of the pass has nodes both in
\* C and outside.
Apart(C) ==
  /\ Within(Base, C)
  /\ \A x \in cur : \A y \in DOMAIN adj[x] : Side(C, x) <=> Side(C, y)
  /\ \A x, y \in cur : comm[x] = comm[y] => (Side(C, x) <=> Side(C, y))

Levels ==
  [comm : Partitions, parent : UNION {[S -> Vertices \cup {-1}] : S \in SUBSET Vertices}]

Structure ==
  /\ cur \subseteq Vertices
  /\ DOMAIN adj = cur
  /\ \A n \in cur : DOMAIN adj[n] \subseteq cur
  /\ comm \in [cur -> cur]
  /\ hierarchy \in Seq(Levels) /\ hierarchy # <<>>
  /\ flat \in Partitions
  /\ links \subseteq Vertices \X Vertices
  /\ Base \in [Vertices -> cur]
  /\ stage # "levels" => cur = Vertices

ApartInv == \A C \in SUBSET Vertices : ClosedUnder(C) => Apart(C)

IInv == Structure /\ ApartInv /\ WithinComponents

-----------------------------------------------------------------------------
(* Renumbering.                                                            *)

LEMMA NodesFinite == IsFiniteSet(Vertices) /\ Cardinality(Vertices) = NodeCount
BY FS_Interval, 0 \in Int, NodeCount - 1 \in Int DEF Vertices

LEMMA FoundNodes ==
  ASSUME Structure
  PROVE  /\ FoundComms \subseteq cur /\ IsFiniteSet(FoundComms)
         /\ cur \subseteq Vertices /\ IsFiniteSet(cur)
         /\ FoundComms \subseteq Int
<1>1. FoundComms \subseteq cur
  BY DEF Structure, FoundComms
<1>2. IsFiniteSet(cur)
  BY NodesFinite, FS_Subset DEF Structure
<1>3. cur \subseteq Vertices
  BY DEF Structure
<1>4. Vertices \subseteq Int
  BY DEF Vertices
<1>5. QED
  BY <1>1, <1>2, <1>3, <1>4, FS_Subset

\* The new number of a community is one of the numbers of the nodes.
LEMMA RenumberedNode ==
  ASSUME Structure, NEW c \in FoundComms
  PROVE  Renumbered(c) \in Vertices
<1> DEFINE Below == {d \in FoundComms : d < c}
<1>1. c \in 0 .. NodeCount - 1 /\ FoundComms \subseteq 0 .. NodeCount - 1
  BY FoundNodes DEF Vertices
<1>2. c \in Int /\ 0 <= c /\ c <= NodeCount - 1 /\ NodeCount \in Int
  BY <1>1
<1>3. Below \subseteq 0 .. c - 1
  <2>1. SUFFICES ASSUME NEW d \in Below PROVE d \in 0 .. c - 1
    OBVIOUS
  <2>2. d \in 0 .. NodeCount - 1 /\ d < c
    BY <1>1
  <2>3. QED
    BY <1>2, <2>2
<1>4. IsFiniteSet(0 .. c - 1) /\ Cardinality(0 .. c - 1) = c
  <2>1. 0 \in Int /\ c - 1 \in Int
    BY <1>2
  <2>2. /\ IsFiniteSet(0 .. c - 1)
        /\ Cardinality(0 .. c - 1) = IF 0 > c - 1 THEN 0 ELSE c - 1 - 0 + 1
    BY <2>1, FS_Interval
  <2>3. QED
    BY <1>2, <2>2
<1>5. IsFiniteSet(Below) /\ Cardinality(Below) <= c
  <2> HIDE DEF Below
  <2>1. IsFiniteSet(Below) /\ Cardinality(Below) <= Cardinality(0 .. c - 1)
    BY <1>3, <1>4, FS_Subset, Zenon
  <2>2. QED
    BY <1>4, <2>1
<1>6. Cardinality(Below) \in Nat
  BY <1>5, FS_CardinalityType
<1>7. QED
  BY <1>2, <1>5, <1>6 DEF Renumbered, Vertices

\* Communities keep apart when they are renumbered.
LEMMA RenumberedLess ==
  ASSUME Structure, NEW c \in FoundComms, NEW d \in FoundComms, c < d
  PROVE  Renumbered(c) # Renumbered(d)
<1> DEFINE Below(x) == {e \in FoundComms : e < x}
<1>1. c \in Int /\ d \in Int /\ FoundComms \subseteq Int
  BY FoundNodes
<1>2. /\ Below(c) \subseteq Below(d)
      /\ c \in Below(d) /\ c \notin Below(c)
  <2>1. \A e \in FoundComms : e < c => e < d
    BY <1>1
  <2>2. ~(c < c)
    BY <1>1
  <2>3. QED
    BY <2>1, <2>2
<1>3. IsFiniteSet(Below(d))
  BY FoundNodes, FS_Subset
<1>4. Cardinality(Below(d)) # Cardinality(Below(c))
  <2> HIDE DEF Below
  <2>1. QED
    BY <1>2, <1>3, FS_Subset
<1>5. QED
  BY <1>4 DEF Renumbered

LEMMA RenumberedInjective ==
  ASSUME Structure, NEW c \in FoundComms, NEW d \in FoundComms, Renumbered(c) = Renumbered(d)
  PROVE  c = d
<1>1. c \in Int /\ d \in Int
  BY FoundNodes
<1>2. c < d \/ d < c \/ c = d
  BY <1>1
<1>3. QED
  BY <1>2, RenumberedLess

-----------------------------------------------------------------------------
(* The next level.                                                         *)

LEMMA TopLevel ==
  ASSUME Structure
  PROVE  Top \in Levels /\ Len(hierarchy) \in Nat \ {0}
BY DEF Structure, Top

LEMMA NewCommType ==
  ASSUME Structure, stage = "levels"
  PROVE  /\ MetaNodes \subseteq Vertices
         /\ NewComm \in [Vertices -> MetaNodes]
         /\ \A n \in Vertices : Base[n] \in cur /\ comm[Base[n]] \in FoundComms
         /\ \A n \in Vertices : NewComm[n] = Renumbered(comm[Base[n]])
<1>1. MetaNodes \subseteq Vertices
  BY RenumberedNode DEF MetaNodes
<1>2. \A n \in Vertices : Base[n] \in cur /\ comm[Base[n]] \in FoundComms
  BY DEF Structure, FoundComms
<1>3. \A n \in Vertices : NewComm[n] = Renumbered(comm[Base[n]])
  BY DEF NewComm, Base
<1>4. NewComm \in [Vertices -> MetaNodes]
  <2>1. NewComm = [n \in Vertices |-> NewComm[n]]
    BY DEF NewComm
  <2>2. \A n \in Vertices : NewComm[n] \in MetaNodes
    BY <1>2, <1>3 DEF MetaNodes
  <2>3. QED
    BY <2>1, <2>2
<1>5. QED
  BY <1>1, <1>2, <1>3, <1>4

LEMMA NewLevelType ==
  ASSUME Structure, stage = "levels"
  PROVE  NewLevel \in Levels
<1> DEFINE Image == {NewComm[n] : n \in Vertices}
<1>1. NewComm \in Partitions /\ Image \in SUBSET Vertices
  BY NewCommType DEF Partitions
<1>2. ASSUME NEW c \in Image
      PROVE  Parent(NewComm, Top.comm, c) \in Vertices \cup {-1}
  <2> DEFINE from == {Top.comm[n] : n \in {n \in Vertices : NewComm[n] = c}}
  <2>1. from \subseteq Vertices
    BY TopLevel DEF Levels, Partitions
  <2>2. PICK n \in Vertices : NewComm[n] = c
    BY <1>2
  <2>3. from # {}
    BY <2>2
  <2>4. (CHOOSE p \in from : TRUE) \in Vertices
    BY <2>1, <2>3
  <2>5. QED
    BY <2>4 DEF Parent
<1>3. [c \in Image |-> Parent(NewComm, Top.comm, c)]
        \in UNION {[S -> Vertices \cup {-1}] : S \in SUBSET Vertices}
  <2> HIDE DEF Image
  <2>1. [c \in Image |-> Parent(NewComm, Top.comm, c)] \in [Image -> Vertices \cup {-1}]
    BY <1>2
  <2>2. QED
    BY <1>1, <2>1
<1>4. QED
  BY <1>1, <1>3 DEF NewLevel, Levels

\* Vertices that a level joins were not kept apart by C.
LEMMA NewCommWithin ==
  ASSUME Structure, stage = "levels", NEW C \in SUBSET Vertices, Apart(C)
  PROVE  Within(NewComm, C)
<1> SUFFICES ASSUME NEW m \in Vertices, NEW n \in Vertices, NewComm[m] = NewComm[n], m \in C
             PROVE  n \in C
  BY DEF Within
<1>1. comm[Base[m]] = comm[Base[n]] /\ Base[m] \in cur /\ Base[n] \in cur
  BY NewCommType, RenumberedInjective
<1>2. Side(C, Base[m])
  BY DEF Side
<1>3. Side(C, Base[n])
  BY <1>1, <1>2 DEF Apart
<1>4. QED
  BY <1>3 DEF Side, Apart, Within

\* What lies behind a meta-node lies behind its members.
LEMMA MetaSide ==
  ASSUME Structure, stage = "levels", NEW C \in SUBSET Vertices, Apart(C), NEW x \in cur
  PROVE  (\E k \in C : NewComm[k] = Renumbered(comm[x])) <=> Side(C, x)
<1>1. comm[x] \in FoundComms
  BY DEF FoundComms
<1>2. ASSUME NEW k \in C, NewComm[k] = Renumbered(comm[x]) PROVE Side(C, x)
  <2>1. comm[Base[k]] = comm[x] /\ Base[k] \in cur
    BY <1>1, <1>2, NewCommType, RenumberedInjective
  <2>2. Side(C, Base[k])
    BY DEF Side
  <2>3. QED
    BY <2>1, <2>2 DEF Apart
<1>3. ASSUME NEW k \in C, Base[k] = x PROVE NewComm[k] = Renumbered(comm[x])
  BY <1>3, NewCommType
<1>4. QED
  BY <1>2, <1>3 DEF Side

-----------------------------------------------------------------------------
(* The steps.                                                              *)

\* A pass over the nodes themselves starts with nothing joined.
LEMMA FreshApart ==
  ASSUME OnNodes(links'), StartPass, links' \subseteq Vertices \X Vertices,
         Base' = [n \in Vertices |-> n],
         NEW C \in SUBSET Vertices, ClosedUnder(C)'
  PROVE  Apart(C)'
<1>1. \A x \in Vertices : Side(C, x)' <=> x \in C
  BY DEF Side
<1>2. \A x \in cur' : \A y \in DOMAIN adj'[x] : x \in C <=> y \in C
  BY DEF OnNodes, BaseAdjacency, ClosedUnder
<1>3. /\ cur' = Vertices
      /\ \A x \in cur' : DOMAIN adj'[x] \subseteq Vertices
      /\ comm' = [n \in Vertices |-> n]
  BY DEF OnNodes, BaseAdjacency, StartPass
<1>4. Within(Base, C)'
  BY DEF Within
<1>5. QED
  BY <1>1, <1>2, <1>3, <1>4 DEF Apart

LEMMA FetchStep ==
  ASSUME IInv, Fetch
  PROVE  IInv'
<1>1. links' \subseteq Vertices \X Vertices
  BY DEF Fetch
<1>2. Level0 \in Levels
  <2>1. [n \in Vertices |-> n] \in Partitions
    BY DEF Partitions
  <2>2. [c \in Vertices |-> -1] \in [Vertices -> Vertices \cup {-1}]
    OBVIOUS
  <2>3. QED
    BY <2>1, <2>2 DEF Level0, Levels
<1>3. Base' = [n \in Vertices |-> n]
  BY DEF Fetch, Base, Top, Level0
<1>4. Structure'
  BY <1>1, <1>2, <1>3 DEF Fetch, Structure, OnNodes, StartPass, BaseAdjacency,
       Level0, Partitions
<1>5. ApartInv'
  BY <1>1, <1>3, FreshApart DEF Fetch, ApartInv
<1>6. WithinComponents'
  BY DEF Fetch, WithinComponents, Within, Level0
<1>7. QED
  BY <1>4, <1>5, <1>6 DEF IInv

\* A node moves to a community around it.
LEMMA VisitStep ==
  ASSUME IInv, NEW n \in cur, Visit(n)
  PROVE  IInv'
<1>1. PICK c \in Targets(n) : comm' = [comm EXCEPT ![n] = c]
  BY DEF Visit
<1>2. c = comm[n] \/ \E m \in DOMAIN adj[n] : c = comm[m]
  BY <1>1 DEF Targets, Better, Around, Neighbours
<1>3. /\ cur' = cur /\ adj' = adj /\ links' = links /\ stage' = stage
      /\ hierarchy' = hierarchy /\ flat' = flat
  BY DEF Visit, graph
<1>4. Base' = Base
  BY <1>3 DEF Base, Top
<1>5. c \in cur /\ comm \in [cur -> cur]
  BY <1>2 DEF IInv, Structure
<1>6. comm' \in [cur -> cur]
  BY <1>1, <1>5
<1>7. Structure'
  BY <1>3, <1>4, <1>6 DEF IInv, Structure
<1>8. ASSUME NEW C \in SUBSET Vertices, ClosedUnder(C)' PROVE Apart(C)'
  <2>1. Apart(C) /\ \A x : Side(C, x)' <=> Side(C, x)
    BY <1>3, <1>4, <1>8 DEF IInv, ApartInv, ClosedUnder, Side
  <2>2. \A y \in cur : comm[y] = c => (Side(C, y) <=> Side(C, n))
    BY <1>2, <2>1 DEF Apart, IInv, Structure
  <2>3. \A x, y \in cur : comm'[x] = comm'[y] => (Side(C, x) <=> Side(C, y))
    BY <1>1, <1>5, <2>1, <2>2 DEF Apart
  <2>4. QED
    BY <1>3, <1>4, <2>1, <2>3 DEF Apart, Within
<1>9. WithinComponents'
  BY <1>3 DEF IInv, WithinComponents, ClosedUnder
<1>10. QED
  BY <1>7, <1>8, <1>9 DEF IInv, ApartInv

LEMMA NextIterationStep ==
  ASSUME IInv, NextIteration
  PROVE  IInv'
<1>1. /\ cur' = cur /\ adj' = adj /\ comm' = comm /\ links' = links /\ stage' = stage
      /\ hierarchy' = hierarchy /\ flat' = flat
  BY DEF NextIteration, graph
<1>2. Base' = Base
  BY <1>1 DEF Base, Top
<1>3. Structure' /\ WithinComponents'
  BY <1>1, <1>2 DEF IInv, Structure, WithinComponents, ClosedUnder
<1>4. ApartInv'
  <2>1. ASSUME NEW C \in SUBSET Vertices PROVE Apart(C)' <=> Apart(C)
    BY <1>1, <1>2 DEF Apart, Side, Within
  <2>2. ASSUME NEW C \in SUBSET Vertices PROVE ClosedUnder(C)' <=> ClosedUnder(C)
    BY <1>1 DEF ClosedUnder
  <2> QED BY <1>1, <2>1, <2>2 DEF IInv, ApartInv
<1>5. QED
  BY <1>3, <1>4 DEF IInv

\* The levels so far and one more.
LEMMA AppendLevel ==
  ASSUME IInv, stage = "levels", hierarchy' = Append(hierarchy, NewLevel),
         links' = links, flat' = flat
  PROVE  /\ hierarchy' \in Seq(Levels) /\ hierarchy' # <<>>
         /\ Top' = NewLevel
         /\ WithinComponents'
<1>1. hierarchy \in Seq(Levels) /\ NewLevel \in Levels
  BY NewLevelType DEF IInv, Structure
<1>2. /\ hierarchy' \in Seq(Levels) /\ Len(hierarchy') = Len(hierarchy) + 1
      /\ hierarchy' # <<>>
      /\ \A i \in DOMAIN hierarchy' :
           hierarchy'[i] = IF i = Len(hierarchy') THEN NewLevel ELSE hierarchy[i]
      /\ \A i \in DOMAIN hierarchy' : i # Len(hierarchy') => i \in DOMAIN hierarchy
      /\ Len(hierarchy') \in DOMAIN hierarchy'
  BY <1>1
<1>3. Top' = NewLevel
  BY <1>2 DEF Top
<1>4. ASSUME NEW C \in SUBSET Vertices, ClosedUnder(C)', NEW i \in DOMAIN hierarchy'
      PROVE  Within(hierarchy'[i].comm, C)
  <2>1. ClosedUnder(C)
    BY <1>4 DEF ClosedUnder
  <2>2. CASE i = Len(hierarchy')
    <3>1. hierarchy'[i].comm = NewComm
      BY <1>2, <2>2 DEF NewLevel
    <3>2. QED
      BY <2>1, <3>1, NewCommWithin DEF IInv, ApartInv
  <2>3. CASE i # Len(hierarchy')
    BY <1>2, <1>4, <2>1, <2>3 DEF IInv, WithinComponents
  <2>4. QED
    BY <2>2, <2>3
<1>5. WithinComponents'
  <2>1. ASSUME NEW C \in SUBSET Vertices, ClosedUnder(C)' PROVE Within(flat, C)'
    BY <2>1 DEF IInv, WithinComponents, ClosedUnder, Within
  <2>2. QED
    BY <1>4, <2>1 DEF WithinComponents, Within
<1>6. QED
  BY <1>2, <1>3, <1>5

\* The communities of a level become the nodes of the next.
LEMMA MetaStep ==
  ASSUME IInv, stage = "levels", stage' = stage, OnMetaNodes, StartPass,
         hierarchy' = Append(hierarchy, NewLevel), links' = links, flat' = flat
  PROVE  IInv'
<1>1. Structure
  BY DEF IInv
<1>2. Base' = NewComm
  BY AppendLevel DEF Base, NewLevel
<1>3. /\ cur' = MetaNodes /\ DOMAIN adj' = MetaNodes
      /\ \A c \in MetaNodes : DOMAIN adj'[c] = MetaNeighbours(c)
      /\ comm' = [n \in MetaNodes |-> n]
  BY DEF OnMetaNodes, StartPass
<1>4. ASSUME NEW c \in MetaNodes, NEW d \in MetaNeighbours(c)
      PROVE  \E x \in cur : \E y \in DOMAIN adj[x] :
               y \in cur /\ c = Renumbered(comm[x]) /\ d = Renumbered(comm[y])
  BY <1>1, <1>4 DEF MetaNeighbours, Members, Neighbours, Structure
<1>5. \A c \in MetaNodes : MetaNeighbours(c) \subseteq MetaNodes
  BY <1>4 DEF MetaNodes, FoundComms
<1>6. Structure'
  BY <1>1, <1>2, <1>3, <1>5, NewCommType, AppendLevel DEF Structure
<1>7. ASSUME NEW C \in SUBSET Vertices, ClosedUnder(C)' PROVE Apart(C)'
  <2>1. Apart(C)
    BY <1>7 DEF IInv, ApartInv, ClosedUnder
  <2>2. \A x \in cur : (\E k \in C : NewComm[k] = Renumbered(comm[x])) <=> Side(C, x)
    BY <1>1, <2>1, MetaSide
  <2>3. Within(Base, C)'
    BY <1>1, <1>2, <2>1, NewCommWithin DEF Within
  <2>4. ASSUME NEW c \in MetaNodes, NEW d \in MetaNeighbours(c)
        PROVE  Side(C, c)' <=> Side(C, d)'
    <3>1. PICK x \in cur, y \in cur :
            /\ y \in DOMAIN adj[x]
            /\ c = Renumbered(comm[x]) /\ d = Renumbered(comm[y])
      BY <1>4, <2>4
    <3>2. Side(C, x) <=> Side(C, y)
      BY <2>1, <3>1 DEF Apart
    <3>3. (\E k \in C : NewComm[k] = c) <=> (\E k \in C : NewComm[k] = d)
      BY <2>2, <3>1, <3>2
    <3>4. QED
      BY <1>2, <3>3 DEF Side
  <2>5. QED
    BY <1>3, <2>3, <2>4 DEF Apart
<1>8. QED
  BY <1>6, <1>7, AppendLevel DEF IInv, ApartInv

\* Back to the nodes themselves, with the hierarchy built.
LEMMA ToFlatStep ==
  ASSUME Structure, OnNodes(links'), StartPass, links' = links, stage' = "flat",
         hierarchy' \in Seq(Levels), hierarchy' # <<>>, flat' = flat,
         WithinComponents'
  PROVE  IInv'
<1>1. Base' = [n \in Vertices |-> n]
  BY DEF Base
<1>2. Structure'
  BY <1>1 DEF Structure, OnNodes, StartPass, BaseAdjacency
<1>3. links' \subseteq Vertices \X Vertices
  BY DEF Structure
<1>4. QED
  BY <1>1, <1>2, <1>3, FreshApart DEF IInv, ApartInv

LEMMA AddLevelStep ==
  ASSUME IInv, AddLevel
  PROVE  IInv'
<1>1. CASE GoesOn
  BY <1>1, MetaStep DEF AddLevel
<1>2. CASE ~GoesOn
  <2>1. OnNodes(links')
    BY <1>2 DEF AddLevel, OnNodes
  <2>2. QED
    BY <1>2, <2>1, AppendLevel, ToFlatStep DEF AddLevel, IInv
<1>3. QED
  BY <1>1, <1>2

LEMMA StopHierarchyStep ==
  ASSUME IInv, StopHierarchy
  PROVE  IInv'
<1>1. OnNodes(links')
  BY DEF StopHierarchy, OnNodes
<1>2. WithinComponents'
  BY DEF StopHierarchy, IInv, WithinComponents, ClosedUnder
<1>3. hierarchy' \in Seq(Levels) /\ hierarchy' # <<>>
  BY DEF StopHierarchy, IInv, Structure
<1>4. QED
  BY <1>1, <1>2, <1>3, ToFlatStep DEF StopHierarchy, IInv

\* The flat communities are those of the last pass, renumbered.
LEMMA EndFlatStep ==
  ASSUME IInv, EndFlat
  PROVE  IInv'
<1>1. /\ cur' = cur /\ adj' = adj /\ comm' = comm /\ links' = links
      /\ hierarchy' = hierarchy
      /\ flat' = [n \in Vertices |-> Renumbered(comm[n])]
      /\ stage = "flat" /\ stage' = "idle"
  BY DEF EndFlat, graph, pass
<1>2. Base' = Base
  BY <1>1 DEF Base
<1>3. \A n \in Vertices : comm[n] \in FoundComms /\ n \in cur
  BY <1>1 DEF FoundComms, IInv, Structure
<1>4. flat' \in Partitions
  BY <1>1, <1>3, RenumberedNode DEF IInv, Partitions
<1>5. Structure'
  BY <1>1, <1>2, <1>4 DEF IInv, Structure
<1>6. ApartInv'
  BY <1>1, <1>2 DEF IInv, ApartInv, Apart, Side, ClosedUnder
<1>7. ASSUME NEW C \in SUBSET Vertices, ClosedUnder(C)' PROVE Within(flat', C)
  <2>1. Apart(C)
    BY <1>1, <1>7 DEF IInv, ApartInv, ClosedUnder
  <2>2. \A n \in Vertices : Side(C, n) <=> n \in C
    BY <1>1 DEF Side, Base
  <2>3. SUFFICES ASSUME NEW m \in Vertices, NEW n \in Vertices, flat'[m] = flat'[n]
                 PROVE  m \in C <=> n \in C
    BY DEF Within
  <2>4. comm[m] = comm[n]
    BY <1>1, <1>3, <2>3, RenumberedInjective DEF IInv
  <2>5. QED
    BY <1>3, <2>1, <2>2, <2>4 DEF Apart
<1>8. WithinComponents'
  BY <1>1, <1>7 DEF IInv, WithinComponents, ClosedUnder, Within
<1>9. QED
  BY <1>5, <1>6, <1>8 DEF IInv

-----------------------------------------------------------------------------
LEMMA InitIInv == DetectionInit => IInv
<1> SUFFICES ASSUME DetectionInit PROVE IInv
  OBVIOUS
<1>1. Base = [n \in Vertices |-> n]
  BY DEF DetectionInit, Base
<1>2. Level0 \in Levels
  <2>1. [n \in Vertices |-> n] \in Partitions
    BY DEF Partitions
  <2>2. [c \in Vertices |-> -1] \in [Vertices -> Vertices \cup {-1}]
    OBVIOUS
  <2>3. QED
    BY <2>1, <2>2 DEF Level0, Levels
<1>3. Structure
  BY <1>1, <1>2 DEF DetectionInit, Structure, BaseAdjacency, Level0, Partitions
<1>4. ApartInv
  BY <1>1 DEF DetectionInit, ApartInv, Apart, BaseAdjacency, Within, Side
<1>5. WithinComponents
  BY DEF DetectionInit, WithinComponents, Within, Level0
<1>6. QED
  BY <1>3, <1>4, <1>5 DEF IInv

LEMMA StepIInv == IInv /\ [DetectionNext]_detectionVars => IInv'
<1> SUFFICES ASSUME IInv, [DetectionNext]_detectionVars PROVE IInv'
  OBVIOUS
<1>1. CASE UNCHANGED detectionVars
  <2>1. /\ cur' = cur /\ adj' = adj /\ comm' = comm /\ links' = links /\ stage' = stage
        /\ hierarchy' = hierarchy /\ flat' = flat
    BY <1>1 DEF detectionVars, graph, pass
  <2>2. Base' = Base
    BY <2>1 DEF Base, Top
  <2>3. Structure' /\ WithinComponents'
    BY <2>1, <2>2 DEF IInv, Structure, WithinComponents, ClosedUnder
  <2>4. ApartInv'
    BY <2>1, <2>2 DEF IInv, ApartInv, Apart, Side, ClosedUnder
  <2>5. QED
    BY <2>3, <2>4 DEF IInv
<1>2. CASE DetectionNext
  BY <1>2, FetchStep, VisitStep, NextIterationStep, AddLevelStep, StopHierarchyStep,
     EndFlatStep DEF DetectionNext
<1>3. QED
  BY <1>1, <1>2

\* Communities keep to the components of the graph at every level, however
\* many nodes and links there are and whatever a gain function prefers.
THEOREM CommunitiesWithinComponents == DetectionSpec => []WithinComponents
<1>1. IInv => WithinComponents
  BY DEF IInv
<1>2. QED
  BY InitIInv, StepIInv, <1>1, PTL DEF DetectionSpec

-----------------------------------------------------------------------------
(* The levels.                                                             *)

\* Every node of the pass stands for nodes of the graph.
Onto == \A x \in cur : \E n \in Vertices : Base[n] = x

NestedInv == IInv /\ Onto /\ LevelsNested

\* Renumbering keeps the number of communities.
LEMMA MetaNodesCount ==
  ASSUME Structure
  PROVE  Cardinality(MetaNodes) = Cardinality(FoundComms)
<1> DEFINE f == [c \in FoundComms |-> Renumbered(c)]
<1>1. f \in [FoundComms -> MetaNodes]
  BY DEF MetaNodes
<1>2. \A c, d \in FoundComms : f[c] = f[d] => c = d
  BY RenumberedInjective
<1>3. \A m \in MetaNodes : \E c \in FoundComms : f[c] = m
  BY DEF MetaNodes
<1>4. f \in Bijection(FoundComms, MetaNodes)
  <2> HIDE DEF f
  <2>1. QED
    BY <1>1, <1>2, <1>3, Fun_IsBij
<1>5. ExistsBijection(FoundComms, MetaNodes)
  BY <1>4 DEF ExistsBijection
<1>6. QED
  BY <1>5, FoundNodes, FS_Bijection

\* The communities of the new level are the meta-nodes.
LEMMA NewCommOnto ==
  ASSUME Structure, Onto, stage = "levels"
  PROVE  /\ {NewComm[n] : n \in Vertices} = MetaNodes
         /\ {Top.comm[n] : n \in Vertices} = cur
<1>1. ASSUME NEW m \in MetaNodes PROVE \E n \in Vertices : NewComm[n] = m
  <2>1. PICK x \in cur : m = Renumbered(comm[x])
    BY <1>1 DEF MetaNodes, FoundComms
  <2>2. PICK n \in Vertices : Base[n] = x
    BY DEF Onto
  <2>3. QED
    BY <2>1, <2>2, NewCommType
<1>2. {NewComm[n] : n \in Vertices} \subseteq MetaNodes
  BY NewCommType
<1>3. Base = Top.comm
  BY DEF Base
<1>4. \A n \in Vertices : Top.comm[n] \in cur
  BY <1>3 DEF Structure
<1>5. \A x \in cur : \E n \in Vertices : Top.comm[n] = x
  BY <1>3 DEF Onto
<1>6. QED
  BY <1>1, <1>2, <1>4, <1>5

\* A level that joined some nodes and not all nests in the ones below.
LEMMA AddLevelNests ==
  ASSUME NestedInv, AddLevel
  PROVE  LevelsNested'
<1>1. Structure /\ stage = "levels" /\ Effective /\ hierarchy' = Append(hierarchy, NewLevel)
  BY DEF NestedInv, IInv, AddLevel
<1>2. hierarchy \in Seq(Levels) /\ NewLevel \in Levels /\ Len(hierarchy) \in Nat \ {0}
  BY <1>1, NewLevelType, TopLevel DEF Structure
<1>3. /\ Len(hierarchy') = Len(hierarchy) + 1
      /\ \A i \in 1 .. Len(hierarchy) : hierarchy'[i] = hierarchy[i]
      /\ hierarchy'[Len(hierarchy) + 1] = NewLevel
  BY <1>1, <1>2
<1>4. Refines(Top.comm, NewComm)
  BY DEF Refines, NewComm
<1>5. /\ CommCount(NewComm) = Cardinality(FoundComms)
      /\ CommCount(Top.comm) = Cardinality(cur)
  BY <1>1, MetaNodesCount, NewCommOnto DEF NestedInv, CommCount
<1>6. CommCount(NewComm) < CommCount(Top.comm) /\ CommCount(NewComm) > 1
  <2>1. Cardinality(FoundComms) \in Nat /\ Cardinality(cur) \in Nat
    BY <1>1, FoundNodes, FS_CardinalityType
  <2>2. QED
    BY <1>1, <1>5, <2>1 DEF Effective
<1>7. ASSUME NEW i \in 1 .. Len(hierarchy') - 1
      PROVE  /\ Refines(hierarchy'[i].comm, hierarchy'[i + 1].comm)
             /\ CommCount(hierarchy'[i + 1].comm) < CommCount(hierarchy'[i].comm)
             /\ CommCount(hierarchy'[i + 1].comm) > 1
  <2>1. CASE i = Len(hierarchy)
    <3>1. hierarchy'[i].comm = Top.comm /\ hierarchy'[i + 1].comm = NewComm
      BY <1>2, <1>3, <2>1 DEF Top, NewLevel
    <3>2. QED
      BY <1>4, <1>6, <3>1
  <2>2. CASE i # Len(hierarchy)
    <3>1. i \in 1 .. Len(hierarchy) - 1 /\ i + 1 \in 1 .. Len(hierarchy)
      BY <1>2, <1>3, <2>2
    <3>2. hierarchy'[i] = hierarchy[i] /\ hierarchy'[i + 1] = hierarchy[i + 1]
      BY <1>2, <1>3, <3>1
    <3>3. QED
      BY <3>1, <3>2 DEF NestedInv, LevelsNested
  <2>3. QED
    BY <2>1, <2>2
<1>8. QED
  BY <1>7 DEF LevelsNested, Refines, CommCount

\* A pass starts with a node behind every one of its nodes.
LEMMA FreshOnto ==
  ASSUME OnNodes(links'), Base' = [n \in Vertices |-> n]
  PROVE  Onto'
BY DEF OnNodes, Onto

LEMMA InitNested == DetectionInit => NestedInv
<1> SUFFICES ASSUME DetectionInit PROVE NestedInv
  OBVIOUS
<1>1. Onto
  BY DEF DetectionInit, Onto, Base
<1>2. LevelsNested
  BY DEF DetectionInit, LevelsNested
<1>3. QED
  BY <1>1, <1>2, InitIInv DEF NestedInv

LEMMA StepNested == NestedInv /\ [DetectionNext]_detectionVars => NestedInv'
<1> SUFFICES ASSUME NestedInv, [DetectionNext]_detectionVars PROVE NestedInv'
  OBVIOUS
<1>1. IInv /\ IInv'
  BY StepIInv DEF NestedInv
<1>2. SUFFICES Onto' /\ LevelsNested'
  BY <1>1 DEF NestedInv
<1>3. CASE Fetch
  <2>1. Base' = [n \in Vertices |-> n] /\ LevelsNested'
    BY <1>3 DEF Fetch, Base, Top, Level0, LevelsNested
  <2>2. QED
    BY <1>3, <2>1, FreshOnto DEF Fetch
<1>4. ASSUME cur' = cur, hierarchy' = hierarchy, Base' = Base
      PROVE  Onto' /\ LevelsNested'
  BY <1>4 DEF NestedInv, Onto, LevelsNested
<1>5. ASSUME NEW n \in cur, Visit(n) PROVE Onto' /\ LevelsNested'
  BY <1>4, <1>5 DEF Visit, graph, Base, Top
<1>6. CASE NextIteration
  BY <1>4, <1>6 DEF NextIteration, graph, Base, Top
<1>7. CASE AddLevel
  <2>1. LevelsNested'
    BY <1>7, AddLevelNests
  <2>2. CASE GoesOn
    <3>1. Base' = NewComm /\ cur' = MetaNodes
      BY <1>1, <1>7, <2>2, AppendLevel DEF AddLevel, OnMetaNodes, Base, NewLevel
    <3>2. {NewComm[n] : n \in Vertices} = MetaNodes
      BY <1>7, NewCommOnto DEF NestedInv, IInv, AddLevel
    <3>3. QED
      BY <2>1, <3>1, <3>2 DEF Onto
  <2>3. CASE ~GoesOn
    <3>1. OnNodes(links') /\ Base' = [n \in Vertices |-> n]
      BY <1>7, <2>3 DEF AddLevel, OnNodes, Base
    <3>2. QED
      BY <2>1, <3>1, FreshOnto
  <2>4. QED
    BY <2>2, <2>3
<1>8. CASE StopHierarchy
  <2>1. OnNodes(links') /\ Base' = [n \in Vertices |-> n] /\ LevelsNested'
    BY <1>8 DEF StopHierarchy, OnNodes, Base, NestedInv, LevelsNested
  <2>2. QED
    BY <2>1, FreshOnto
<1>9. CASE EndFlat
  BY <1>4, <1>9 DEF EndFlat, graph, Base
<1>10. CASE UNCHANGED detectionVars
  BY <1>4, <1>10 DEF detectionVars, graph, Base, Top
<1>11. QED
  BY <1>3, <1>5, <1>6, <1>7, <1>8, <1>9, <1>10 DEF DetectionNext

\* Every level of the hierarchy merges communities of the one below, some and
\* never all, whatever the graph, the order of visits and the gains.
THEOREM CommunitiesNest == DetectionSpec => []LevelsNested
<1>1. NestedInv => LevelsNested
  BY DEF NestedInv
<1>2. QED
  BY InitNested, StepNested, <1>1, PTL DEF DetectionSpec

-----------------------------------------------------------------------------
(* The sums.                                                               *)

\* What the neighbours of m in a community weigh.
IntoMembers(m, d) == SumOver(adj[m], Neighbours(m) \cap Members(d))

\* The sums of the model are sums of functions.
SumsAreSums ==
  /\ \A n \in cur : Degree(n) = SumOver(adj[n], Neighbours(n))
  /\ \A c, d : MetaWeight(c, d) = SumOver([m \in Members(c) |-> IntoMembers(m, d)], Members(c))
  /\ MapThenSumSet(Degree, cur) = SumOver([n \in cur |-> Degree(n)], cur)

LEMMA SumsAddUp == ASSUME Structure PROVE SumsAreSums
<1>0. IsFiniteSet(cur) /\ \A c : IsFiniteSet(Members(c))
  BY FoundNodes, FS_Subset DEF Members
<1>1. ASSUME NEW n \in cur PROVE Degree(n) = SumOver(adj[n], Neighbours(n))
  BY DEF Degree, SumOver, MapThenSumSet, MapThenFoldSet
<1>2. ASSUME NEW m, NEW d
      PROVE  MapThenSumSet(LAMBDA n : adj[m][n], Neighbours(m) \cap Members(d)) = IntoMembers(m, d)
  BY DEF IntoMembers, SumOver, MapThenSumSet, MapThenFoldSet
<1>3. ASSUME NEW c, NEW d
      PROVE  MetaWeight(c, d) = SumOver([m \in Members(c) |-> IntoMembers(m, d)], Members(c))
  <2> DEFINE S == Members(c)
             f == [m \in S |-> IntoMembers(m, d)]
             In(m) == MapThenSumSet(LAMBDA n : adj[m][n], Neighbours(m) \cap Members(d))
             P(it) == it = [s \in SUBSET S |-> IF s = {} THEN 0
                              ELSE LET x == CHOOSE x \in s : TRUE IN In(x) + it[s \ {x}]]
             it0 == CHOOSE it : P(it)
  <2>1. MetaWeight(c, d) = it0[S]
    BY DEF MetaWeight, MapThenSumSet, MapThenFoldSet
  <2>2. ASSUME NEW h PROVE P(h) <=> IsSumOver(h, f, S)
    <3>1. \A m : In(m) = IntoMembers(m, d)
      BY <1>2
    <3>2. \A s \in SUBSET S : s # {} => Picked(s) \in S
      BY DEF Picked
    <3> HIDE DEF In
    <3> QED BY <3>1, <3>2 DEF IsSumOver, Picked
  <2>3. PICK g : IsSumOver(g, f, S) /\ SumOver(f, S) = g[S]
    <3> HIDE DEF f
    <3> QED BY <1>0, SumIs
  <2>4. P(g) BY <2>2, <2>3
  <2>5. P(it0) BY <2>4
  <2> HIDE DEF P
  <2>6. it0[S] = g[S]
    <3> HIDE DEF it0, f
    <3>1. IsSumOver(it0, f, S)
      BY <2>2, <2>5
    <3> QED BY <1>0, <2>3, <3>1, SumUnique
  <2> QED BY <2>1, <2>3, <2>6
<1>4. MapThenSumSet(Degree, cur) = SumOver([n \in cur |-> Degree(n)], cur)
  <2> DEFINE f == [m \in cur |-> Degree(m)]
             P(it) == it = [s \in SUBSET cur |-> IF s = {} THEN 0
                              ELSE LET x == CHOOSE x \in s : TRUE IN Degree(x) + it[s \ {x}]]
             it0 == CHOOSE it : P(it)
  <2>1. MapThenSumSet(Degree, cur) = it0[cur]
    BY DEF MapThenSumSet, MapThenFoldSet
  <2>2. ASSUME NEW h PROVE P(h) <=> IsSumOver(h, f, cur)
    <3>2. \A s \in SUBSET cur : s # {} => Picked(s) \in cur
      BY DEF Picked
    <3> QED BY <3>2 DEF IsSumOver, Picked
  <2>3. PICK g : IsSumOver(g, f, cur) /\ SumOver(f, cur) = g[cur]
    <3> HIDE DEF f
    <3> QED BY <1>0, SumIs
  <2>4. P(g) BY <2>2, <2>3
  <2>5. P(it0) BY <2>4
  <2> HIDE DEF P
  <2>6. it0[cur] = g[cur]
    <3> HIDE DEF it0, f
    <3>1. IsSumOver(it0, f, cur)
      BY <2>2, <2>5
    <3> QED BY <1>0, <2>3, <3>1, SumUnique
  <2> QED BY <2>1, <2>3, <2>6
<1> QED BY <1>1, <1>3, <1>4 DEF SumsAreSums

-----------------------------------------------------------------------------
(* The types.                                                              *)

\* The rest of the types: what the structure does not say.
Numbers ==
  /\ stage \in {"idle", "levels", "flat"}
  /\ links \in LinkSets \cup {{}}
  /\ \A n \in cur : \A m \in DOMAIN adj[n] : adj[n][m] \in Nat \ {0}
  /\ total \in Nat
  /\ todo \subseteq cur
  /\ improved \in BOOLEAN
  /\ iteration \in 1 .. MaxIterations

TypeInv == IInv /\ Numbers

LEMMA FirstIteration == 1 \in 1 .. MaxIterations
OBVIOUS

\* Links of the graph count once or twice.
LEMMA BaseWeights ==
  ASSUME NEW L \in SUBSET (Vertices \X Vertices)
  PROVE  /\ DOMAIN BaseAdjacency(L) = Vertices
         /\ \A m \in Vertices : \A n \in DOMAIN BaseAdjacency(L)[m] :
              n \in Vertices /\ BaseAdjacency(L)[m][n] \in Nat \ {0}
         /\ Cardinality(L) \in Nat
<1>1. IsFiniteSet(L)
  BY NodesFinite, FS_Product, FS_Subset
<1>2. Cardinality(L) \in Nat
  BY <1>1, FS_CardinalityType
<1>3. ASSUME NEW m \in Vertices, NEW n \in DOMAIN BaseAdjacency(L)[m]
      PROVE  n \in Vertices /\ BaseAdjacency(L)[m][n] \in Nat \ {0}
  <2>1. n \in Vertices /\ (<<m, n>> \in L \/ <<n, m>> \in L)
    BY <1>3 DEF BaseAdjacency
  <2>2. BaseAdjacency(L)[m][n] = Cardinality({<<m, n>>} \cap L) + Cardinality({<<n, m>>} \cap L)
    BY <1>3, <2>1 DEF BaseAdjacency
  <2>3. \A p : Cardinality({p} \cap L) \in Nat /\ (p \in L => Cardinality({p} \cap L) = 1)
    <3>1. ASSUME NEW p, p \in L PROVE Cardinality({p} \cap L) = 1
      <4>1. {p} \cap L = {p}
        BY <3>1
      <4> QED BY <4>1, FS_Singleton
    <3>2. ASSUME NEW p, p \notin L PROVE Cardinality({p} \cap L) = 0
      <4>1. {p} \cap L = {}
        BY <3>2
      <4> QED BY <4>1, FS_EmptySet
    <3> QED BY <3>1, <3>2
  <2>4. /\ Cardinality({<<m, n>>} \cap L) \in Nat /\ (<<m, n>> \in L => Cardinality({<<m, n>>} \cap L) = 1)
        /\ Cardinality({<<n, m>>} \cap L) \in Nat /\ (<<n, m>> \in L => Cardinality({<<n, m>>} \cap L) = 1)
    BY <2>3
  <2>5. \A a, b \in Nat : a = 1 \/ b = 1 => a + b \in Nat \ {0}
    OBVIOUS
  <2> QED BY <2>1, <2>2, <2>4, <2>5
<1> QED BY <1>2, <1>3 DEF BaseAdjacency

\* The links between two communities of the level weigh something.
LEMMA MetaWeights ==
  ASSUME Structure, Numbers
  PROVE  /\ \A c \in MetaNodes : \A d \in MetaNeighbours(c) : MetaWeight(c, d) \in Nat \ {0}
         /\ MapThenSumSet(Degree, cur) \in Nat
<1>0. SumsAreSums /\ IsFiniteSet(cur) /\ (\A c : Members(c) \subseteq cur /\ IsFiniteSet(Members(c)))
  BY FoundNodes, FS_Subset, SumsAddUp DEF Members
<1>1. \A n \in cur : IsFiniteSet(Neighbours(n)) /\ Counts(adj[n], Neighbours(n))
  <2>1. ASSUME NEW n \in cur PROVE IsFiniteSet(Neighbours(n)) /\ Counts(adj[n], Neighbours(n))
    <3>1. Neighbours(n) \subseteq cur
      BY DEF Structure, Neighbours
    <3> QED BY <1>0, <3>1, FS_Subset DEF Counts, Numbers, Neighbours
  <2> QED BY <2>1
<1>2. MapThenSumSet(Degree, cur) \in Nat
  <2>1. \A n \in cur : Degree(n) \in Nat
    BY <1>0, <1>1, SumNat DEF SumsAreSums
  <2>2. Counts([n \in cur |-> Degree(n)], cur)
    BY <2>1 DEF Counts
  <2> QED BY <1>0, <2>2, SumNat DEF SumsAreSums
<1>3. ASSUME NEW m \in cur, NEW d
      PROVE  /\ IsFiniteSet(Neighbours(m) \cap Members(d))
             /\ Counts(adj[m], Neighbours(m) \cap Members(d))
             /\ IntoMembers(m, d) \in Nat
  <2>1. /\ IsFiniteSet(Neighbours(m) \cap Members(d))
        /\ Counts(adj[m], Neighbours(m) \cap Members(d))
    BY <1>1, FS_Subset DEF Counts
  <2> QED BY <2>1, SumNat DEF IntoMembers
<1>4. ASSUME NEW c \in MetaNodes, NEW d \in MetaNeighbours(c)
      PROVE  MetaWeight(c, d) \in Nat \ {0}
  <2> DEFINE f == [m \in Members(c) |-> IntoMembers(m, d)]
  <2>1. PICK m \in Members(c) : \E n \in Neighbours(m) : d = Renumbered(comm[n])
    BY <1>4 DEF MetaNeighbours
  <2>1a. PICK n \in Neighbours(m) : d = Renumbered(comm[n])
    BY <2>1
  <2>2. m \in cur /\ n \in cur /\ n \in Neighbours(m) \cap Members(d)
    BY <1>0, <2>1, <2>1a DEF Structure, Neighbours, Members
  <2>3. adj[m][n] \in Nat \ {0}
    BY <2>1, <2>2 DEF Numbers, Neighbours
  <2>4. adj[m][n] <= IntoMembers(m, d)
    BY <1>3, <2>2, SumAtLeast DEF IntoMembers
  <2>5. Counts(f, Members(c))
    BY <1>0, <1>3 DEF Counts
  <2>6. f[m] <= SumOver(f, Members(c)) /\ SumOver(f, Members(c)) \in Nat
    <3> HIDE DEF f
    <3> QED BY <1>0, <2>1, <2>5, SumAtLeast, SumNat
  <2>7. MetaWeight(c, d) = SumOver(f, Members(c))
    BY <1>0 DEF SumsAreSums
  <2>8. f[m] = IntoMembers(m, d) /\ IntoMembers(m, d) \in Nat
    BY <1>3, <2>1, <2>2
  <2> HIDE DEF f
  <2> QED BY <2>3, <2>4, <2>6, <2>7, <2>8
<1> QED BY <1>2, <1>4

LEMMA InitNumbers == DetectionInit => Numbers
<1> SUFFICES ASSUME DetectionInit PROVE Numbers
  OBVIOUS
<1>1. links \in SUBSET (Vertices \X Vertices) /\ cur = Vertices /\ adj = BaseAdjacency({})
  BY DEF DetectionInit
<1>2. \A n \in cur : \A m \in DOMAIN adj[n] : adj[n][m] \in Nat \ {0}
  BY <1>1, BaseWeights
<1>3. stage = "idle" /\ links = {} /\ total = 0 /\ todo = {} /\ improved = FALSE /\ iteration = 1
  BY DEF DetectionInit
<1> QED BY <1>2, <1>3, FirstIteration DEF Numbers

\* A pass that starts on the nodes of the graph.
LEMMA OnNodesNumbers ==
  ASSUME OnNodes(links'), StartPass, links' \subseteq Vertices \X Vertices,
         links' \in LinkSets \cup {{}}, stage' \in {"levels", "flat"}
  PROVE  Numbers'
<1>1. /\ cur' = Vertices /\ adj' = BaseAdjacency(links') /\ total' = Cardinality(links')
      /\ todo' = cur' /\ improved' = FALSE /\ iteration' = 1
  BY DEF OnNodes, StartPass
<1>2. \A n \in cur' : \A m \in DOMAIN adj'[n] : adj'[n][m] \in Nat \ {0}
  BY <1>1, BaseWeights
<1>3. total' \in Nat
  BY <1>1, BaseWeights
<1> QED BY <1>1, <1>2, <1>3, FirstIteration DEF Numbers

LEMMA StepNumbers == TypeInv /\ [DetectionNext]_detectionVars => Numbers'
<1> SUFFICES ASSUME TypeInv, [DetectionNext]_detectionVars PROVE Numbers'
  OBVIOUS
<1>0. Structure /\ Numbers /\ links \subseteq Vertices \X Vertices
  BY DEF TypeInv, IInv, Structure
<1>1. CASE Fetch
  <2>1. links' \in LinkSets /\ links' \subseteq Vertices \X Vertices
    BY <1>1 DEF Fetch
  <2> QED BY <1>1, <2>1, OnNodesNumbers DEF Fetch
<1>2. ASSUME NEW n \in cur, Visit(n) PROVE Numbers'
  <2>1. improved' \in BOOLEAN
    BY <1>2 DEF Visit
  <2>2. /\ stage' = stage /\ links' = links /\ cur' = cur /\ adj' = adj /\ total' = total
        /\ todo' = todo \ {n} /\ iteration' = iteration
    BY <1>2 DEF Visit, graph
  <2> QED BY <1>0, <2>1, <2>2 DEF Numbers
<1>3. CASE NextIteration
  <2>1. /\ stage' = stage /\ links' = links /\ cur' = cur /\ adj' = adj /\ total' = total
        /\ todo' = cur /\ iteration' = iteration + 1 /\ improved' = FALSE
        /\ iteration < MaxIterations
    BY <1>3 DEF NextIteration, graph, MayIterate
  <2>2. iteration' \in 1 .. MaxIterations
    BY <1>0, <2>1 DEF Numbers
  <2> QED BY <1>0, <2>1, <2>2 DEF Numbers
<1>4. CASE AddLevel
  <2>1. CASE GoesOn
    <3>1. /\ stage' = stage /\ links' = links /\ cur' = MetaNodes
          /\ adj' = [c \in MetaNodes |-> [d \in MetaNeighbours(c) |-> MetaWeight(c, d)]]
          /\ total' = MapThenSumSet(Degree, cur)
          /\ todo' = cur' /\ iteration' = 1 /\ improved' = FALSE
      BY <1>4, <2>1 DEF AddLevel, OnMetaNodes, StartPass
    <3>2. \A n \in cur' : \A m \in DOMAIN adj'[n] : adj'[n][m] \in Nat \ {0}
      BY <1>0, <3>1, MetaWeights
    <3>3. total' \in Nat
      BY <1>0, <3>1, MetaWeights
    <3>4. stage \in {"idle", "levels", "flat"} /\ links \in LinkSets \cup {{}}
      BY <1>0 DEF Numbers
    <3> QED BY <3>1, <3>2, <3>3, <3>4, FirstIteration DEF Numbers
  <2>2. CASE ~GoesOn
    <3>1. OnNodes(links') /\ StartPass /\ links' = links /\ stage' = "flat"
      BY <1>4, <2>2 DEF AddLevel, OnNodes
    <3> QED BY <1>0, <3>1, OnNodesNumbers DEF Numbers
  <2> QED BY <2>1, <2>2
<1>5. CASE StopHierarchy
  <2>1. OnNodes(links') /\ StartPass /\ links' = links /\ stage' = "flat"
    BY <1>5 DEF StopHierarchy, OnNodes
  <2> QED BY <1>0, <2>1, OnNodesNumbers DEF Numbers
<1>6. CASE EndFlat
  BY <1>0, <1>6 DEF EndFlat, graph, pass, Numbers
<1>7. CASE UNCHANGED detectionVars
  BY <1>0, <1>7 DEF detectionVars, graph, pass, Numbers
<1> QED BY <1>1, <1>2, <1>3, <1>4, <1>5, <1>6, <1>7 DEF DetectionNext

\* Of any graph the detection keeps the types of what it holds: weights stay
\* whole and positive from level to level, communities are numbers of nodes
\* and a clustering never goes on for more iterations than its cap.
THEOREM CommunitiesTypeCorrect == DetectionSpec => []DetectionTypeOK
<1>1. TypeInv => DetectionTypeOK
  <2> SUFFICES ASSUME Structure, Numbers, hierarchy \in Seq(Levels), hierarchy # <<>>
               PROVE  DetectionTypeOK
    BY DEF TypeInv, IInv, Structure
  <2>1. ASSUME NEW i \in DOMAIN hierarchy
        PROVE  /\ hierarchy[i].comm \in Partitions
               /\ DOMAIN hierarchy[i].parent \subseteq Vertices
               /\ \A c \in DOMAIN hierarchy[i].parent :
                    hierarchy[i].parent[c] \in Vertices \cup {-1}
    <3>1. hierarchy[i] \in Levels
      BY <2>1
    <3>2. PICK S \in SUBSET Vertices : hierarchy[i].parent \in [S -> Vertices \cup {-1}]
      BY <3>1 DEF Levels
    <3> QED BY <3>1, <3>2 DEF Levels
  <2> QED BY <2>1 DEF Structure, Numbers, DetectionTypeOK
<1>2. DetectionInit => TypeInv
  BY InitIInv, InitNumbers DEF TypeInv
<1>3. TypeInv /\ [DetectionNext]_detectionVars => TypeInv'
  BY StepIInv, StepNumbers DEF TypeInv
<1>4. QED
  BY <1>1, <1>2, <1>3, PTL DEF DetectionSpec

-----------------------------------------------------------------------------
(* The weights between communities are the links between their members.    *)

\* The ordered pairs of linked nodes, and the weight between them.
Linked(L) == {p \in Vertices \X Vertices : p[2] \in DOMAIN BaseAdjacency(L)[p[1]]}

LinkWeight(L) == [p \in Vertices \X Vertices |-> BaseAdjacency(L)[p[1]][p[2]]]

Behind(top, c) == {n \in Vertices : top[n] = c}

LinkedPairs(L, top, c, d) ==
  {p \in Behind(top, c) \X Behind(top, d) : p[2] \in DOMAIN BaseAdjacency(L)[p[1]]}

\* What MetaWeightsExact says, of any adjacency A of the communities K that
\* top puts the nodes in.
ExactFor(L, top, A, c, d) ==
  /\ d \in DOMAIN A[c] <=> LinkedPairs(L, top, c, d) # {}
  /\ d \in DOMAIN A[c] => A[c][d] = SumOver(LinkWeight(L), LinkedPairs(L, top, c, d))

Exact(L, top, K, A) == \A c, d \in K : ExactFor(L, top, A, c, d)

LEMMA LinkedPair ==
  ASSUME NEW L, NEW top, NEW c, NEW d
  PROVE  /\ \A p : p \in LinkedPairs(L, top, c, d) <=>
                     p \in Linked(L) /\ top[p[1]] = c /\ top[p[2]] = d
         /\ \A p \in Linked(L) : p[1] \in Vertices /\ p[2] \in Vertices
         /\ IsFiniteSet(LinkedPairs(L, top, c, d))
         /\ LinkedPairs(L, top, c, d) \subseteq Vertices \X Vertices
<1>1. \A p : p \in LinkedPairs(L, top, c, d) <=>
               p \in Linked(L) /\ top[p[1]] = c /\ top[p[2]] = d
  BY DEF LinkedPairs, Linked, Behind
<1>2. \A p \in Linked(L) : p[1] \in Vertices /\ p[2] \in Vertices
  BY DEF Linked
<1>3. LinkedPairs(L, top, c, d) \subseteq Vertices \X Vertices
  BY DEF LinkedPairs, Behind
<1>4. IsFiniteSet(LinkedPairs(L, top, c, d))
  BY <1>3, NodesFinite, FS_Product, FS_Subset
<1> QED BY <1>1, <1>2, <1>3, <1>4

LEMMA LinkWeightsCount ==
  ASSUME NEW L \in SUBSET (Vertices \X Vertices)
  PROVE  \A p \in Linked(L) : LinkWeight(L)[p] \in Nat
BY BaseWeights DEF Linked, LinkWeight

\* The sum of the property is one.
LEMMA PairsAddUp ==
  ASSUME NEW S, IsFiniteSet(S), S \subseteq Vertices \X Vertices, NEW L
  PROVE  MapThenSumSet(LAMBDA p : BaseAdjacency(L)[p[1]][p[2]], S) = SumOver(LinkWeight(L), S)
<1> DEFINE W(p) == BaseAdjacency(L)[p[1]][p[2]]
           P(it) == it = [s \in SUBSET S |-> IF s = {} THEN 0
                            ELSE LET x == CHOOSE x \in s : TRUE IN W(x) + it[s \ {x}]]
           it0 == CHOOSE it : P(it)
<1>1. MapThenSumSet(LAMBDA p : BaseAdjacency(L)[p[1]][p[2]], S) = it0[S]
  BY DEF MapThenSumSet, MapThenFoldSet
<1>2. ASSUME NEW h PROVE P(h) <=> IsSumOver(h, LinkWeight(L), S)
  <2>1. \A p \in S : LinkWeight(L)[p] = W(p)
    BY DEF LinkWeight
  <2>2. \A s \in SUBSET S : s # {} => Picked(s) \in S
    BY DEF Picked
  <2> HIDE DEF W
  <2>3. \A s \in SUBSET S : s # {} => LinkWeight(L)[Picked(s)] = W(Picked(s))
    BY <2>1, <2>2
  <2>4. [s \in SUBSET S |-> IF s = {} THEN 0 ELSE W(Picked(s)) + h[s \ {Picked(s)}]]
        = [s \in SUBSET S |-> IF s = {} THEN 0 ELSE LinkWeight(L)[Picked(s)] + h[s \ {Picked(s)}]]
    BY <2>3
  <2> QED BY <2>4 DEF IsSumOver, Picked
<1>3. PICK g : IsSumOver(g, LinkWeight(L), S) /\ SumOver(LinkWeight(L), S) = g[S]
  BY SumIs
<1>4. P(g) BY <1>2, <1>3
<1>5. P(it0) BY <1>4
<1> HIDE DEF P
<1>6. it0[S] = g[S]
  <2> HIDE DEF it0
  <2>1. IsSumOver(it0, LinkWeight(L), S)
    BY <1>2, <1>5
  <2> QED BY <1>3, <2>1, SumUnique
<1> QED BY <1>1, <1>3, <1>6

\* MetaWeightsExact in these words.
PropertyIsExact == MetaWeightsExact <=> (stage = "levels" => Exact(links, Top.comm, cur, adj))

LEMMA ExactIsProperty == PropertyIsExact
<1> DEFINE t == Top.comm
<1>1. ASSUME NEW c \in cur, NEW d \in cur
      PROVE  MapThenSumSet(LAMBDA p : BaseAdjacency(links)[p[1]][p[2]], LinkedPairs(links, t, c, d))
               = SumOver(LinkWeight(links), LinkedPairs(links, t, c, d))
  <2> HIDE DEF t
  <2> QED BY LinkedPair, PairsAddUp
<1>2. MetaWeightsExact <=>
        (stage = "levels" => \A c, d \in cur :
           /\ d \in DOMAIN adj[c] <=> LinkedPairs(links, t, c, d) # {}
           /\ d \in DOMAIN adj[c] =>
                adj[c][d] = MapThenSumSet(LAMBDA p : BaseAdjacency(links)[p[1]][p[2]], LinkedPairs(links, t, c, d)))
  BY DEF MetaWeightsExact, LinkedPairs, Behind, Neighbours
<1> QED BY <1>1, <1>2 DEF PropertyIsExact, Exact, ExactFor

\* The nodes themselves: every pair of linked nodes has the weight of its links.
LEMMA BaseExact ==
  ASSUME NEW L \in SUBSET (Vertices \X Vertices), NEW top, \A n \in Vertices : top[n] = n
  PROVE  Exact(L, top, Vertices, BaseAdjacency(L))
<1> SUFFICES ASSUME NEW c \in Vertices, NEW d \in Vertices
             PROVE  ExactFor(L, top, BaseAdjacency(L), c, d)
  BY DEF Exact
<1> DEFINE S == LinkedPairs(L, top, c, d)
<1>1. PICK q : q = <<c, d>>
  OBVIOUS
<1>2. q \in Vertices \X Vertices /\ q[1] = c /\ q[2] = d
  BY <1>1
<1>3. \A p \in Vertices \X Vertices : p[1] = c /\ p[2] = d => p = q
  BY <1>1
<1>4. q \in Linked(L) <=> d \in DOMAIN BaseAdjacency(L)[c]
  BY <1>2 DEF Linked
<1>5. \A p : p \in S <=> p \in Linked(L) /\ p = q
  <2>1. \A p : p \in S <=> p \in Linked(L) /\ top[p[1]] = c /\ top[p[2]] = d
    <3> HIDE DEF S
    <3> QED BY LinkedPair DEF S
  <2>2. \A p \in Linked(L) : p \in Vertices \X Vertices /\ top[p[1]] = p[1] /\ top[p[2]] = p[2]
    <3>1. \A p \in Linked(L) : p[1] \in Vertices /\ p[2] \in Vertices
      BY LinkedPair
    <3> QED BY <3>1 DEF Linked
  <2> HIDE DEF S
  <2> QED BY <1>2, <1>3, <2>1, <2>2
<1>6. CASE d \in DOMAIN BaseAdjacency(L)[c]
  <2>1. S = {q}
    BY <1>4, <1>5, <1>6
  <2>2. LinkWeight(L)[q] \in Nat
    BY <1>4, <1>6, LinkWeightsCount
  <2>3. SumOver(LinkWeight(L), {q}) = LinkWeight(L)[q]
    BY <2>2, SumOne
  <2>4. LinkWeight(L)[q] = BaseAdjacency(L)[c][d]
    BY <1>2 DEF LinkWeight
  <2> HIDE DEF S
  <2> QED BY <1>6, <2>1, <2>3, <2>4 DEF ExactFor, S
<1>7. CASE d \notin DOMAIN BaseAdjacency(L)[c]
  <2>1. S = {}
    BY <1>4, <1>5, <1>7
  <2> QED BY <1>7, <2>1 DEF ExactFor
<1> QED BY <1>6, <1>7

\* A node is behind a new community when it is behind one of its members.
LEMMA BehindMembers ==
  ASSUME Structure, stage = "levels", NEW n \in Vertices, NEW c
  PROVE  Top.comm[n] \in cur /\ (NewComm[n] = c <=> Top.comm[n] \in Members(c))
<1>1. Base[n] = Top.comm[n]
  BY DEF Base
<1>2. Base[n] \in cur /\ NewComm[n] = Renumbered(comm[Base[n]])
  BY NewCommType
<1> QED BY <1>1, <1>2 DEF Members

\* The weights of the next level, from those of this one.
LEMMA MetaExact ==
  ASSUME Structure, Numbers, stage = "levels", Exact(links, Top.comm, cur, adj),
         NEW c \in MetaNodes, NEW d \in MetaNodes
  PROVE  /\ d \in MetaNeighbours(c) <=> LinkedPairs(links, NewComm, c, d) # {}
         /\ MetaWeight(c, d) = SumOver(LinkWeight(links), LinkedPairs(links, NewComm, c, d))
<1> DEFINE f == LinkWeight(links)
           R(m, n) == LinkedPairs(links, Top.comm, m, n)
           T == LinkedPairs(links, NewComm, c, d)
           Q(m) == {p \in T : Top.comm[p[1]] = m}
<1>0. /\ SumsAreSums /\ IsFiniteSet(cur) /\ links \in SUBSET (Vertices \X Vertices)
      /\ \A e : Members(e) \subseteq cur /\ IsFiniteSet(Members(e))
  BY FoundNodes, FS_Subset, SumsAddUp DEF Members, Structure
<1>1. \A m, n : /\ IsFiniteSet(R(m, n))
                /\ \A p : p \in R(m, n) <=> p \in Linked(links) /\ Top.comm[p[1]] = m /\ Top.comm[p[2]] = n
  BY LinkedPair
<1>2. /\ IsFiniteSet(T)
      /\ \A p : p \in T <=> /\ p \in Linked(links)
                            /\ Top.comm[p[1]] \in Members(c) /\ Top.comm[p[2]] \in Members(d)
  <2>1. /\ IsFiniteSet(T)
        /\ \A p : p \in T <=> p \in Linked(links) /\ NewComm[p[1]] = c /\ NewComm[p[2]] = d
    BY LinkedPair
  <2>2. \A p \in Linked(links) : p[1] \in Vertices /\ p[2] \in Vertices
    BY LinkedPair
  <2> HIDE DEF T
  <2> QED BY <2>1, <2>2, BehindMembers
<1>3. \A p \in Linked(links) : f[p] \in Nat
  BY <1>0, LinkWeightsCount
<1>4. \A m, n \in cur : /\ n \in Neighbours(m) <=> R(m, n) # {}
                        /\ n \in Neighbours(m) => adj[m][n] = SumOver(f, R(m, n))
  BY DEF Exact, ExactFor, Neighbours
<1>5. \A m \in cur : Neighbours(m) \subseteq cur
  BY DEF Structure, Neighbours
<1> HIDE DEF R, T, f
<1>6. d \in MetaNeighbours(c) <=> T # {}
  <2>1. d \in MetaNeighbours(c) <=> \E m \in Members(c) : \E n \in Neighbours(m) : n \in Members(d)
    BY <1>0, <1>5 DEF MetaNeighbours, Members
  <2>2. ASSUME NEW m \in Members(c), NEW n \in Neighbours(m), n \in Members(d) PROVE T # {}
    <3>1. m \in cur /\ n \in cur
      BY <1>0, <1>5, <2>2
    <3>2. PICK p : p \in R(m, n)
      BY <1>4, <2>2, <3>1
    <3> QED BY <1>1, <1>2, <2>2, <3>2
  <2>3. ASSUME NEW p \in T PROVE \E m \in Members(c) : \E n \in Neighbours(m) : n \in Members(d)
    <3> DEFINE m == Top.comm[p[1]]
               n == Top.comm[p[2]]
    <3>1. m \in Members(c) /\ n \in Members(d) /\ p \in R(m, n)
      BY <1>1, <1>2
    <3>2. m \in cur /\ n \in cur
      BY <1>0, <3>1
    <3> HIDE DEF m, n
    <3>3. n \in Neighbours(m)
      BY <1>4, <3>1, <3>2
    <3> QED BY <3>1, <3>3
  <2> QED BY <2>1, <2>2, <2>3
\* Of one member: the neighbours in d share out the pairs that start behind it.
<1>7. ASSUME NEW m \in Members(c) PROVE IntoMembers(m, d) = SumOver(f, Q(m))
  <2> DEFINE J == Neighbours(m) \cap Members(d)
             P == [n \in J |-> R(m, n)]
  <2>1. m \in cur /\ IsFiniteSet(J) /\ J \subseteq cur
    BY <1>0, <1>5, FS_Subset
  <2>2. Parts(P, J)
    <3>1. \A n \in J : P[n] = R(m, n)
      OBVIOUS
    <3>2. \A i, j \in J : i # j => R(m, i) \cap R(m, j) = {}
      <4> HIDE DEF J
      <4> QED BY <1>1
    <3> HIDE DEF P, J
    <3> QED BY <1>1, <3>1, <3>2 DEF Parts
  <2>3. \A p : p \in Q(m) <=> \E n \in J : p \in R(m, n)
    <3>1. ASSUME NEW p \in Q(m) PROVE \E n \in J : p \in R(m, n)
      <4> DEFINE n == Top.comm[p[2]]
      <4>1. n \in Members(d) /\ p \in R(m, n)
        BY <1>1, <1>2
      <4>2. n \in cur
        BY <1>0, <4>1
      <4> HIDE DEF n
      <4>3. n \in Neighbours(m)
        BY <1>4, <2>1, <4>1, <4>2
      <4> QED BY <4>1, <4>3
    <3>2. ASSUME NEW n \in J, NEW p \in R(m, n) PROVE p \in Q(m)
      BY <1>1, <1>2
    <3> QED BY <3>1, <3>2
  <2>4. AllOf(P, J) = Q(m)
    <3>1. \A n \in J : P[n] = R(m, n)
      OBVIOUS
    <3>2. \A p : p \in AllOf(P, J) <=> \E n \in J : p \in P[n]
      BY DEF AllOf
    <3>3. \A p : p \in AllOf(P, J) <=> \E n \in J : p \in R(m, n)
      <4> HIDE DEF P, J, R
      <4> QED BY <3>1, <3>2
    <3>4. \A p : p \in AllOf(P, J) <=> p \in Q(m)
      <4> HIDE DEF P, J, Q, R
      <4> QED BY <2>3, <3>3
    <3> DEFINE A == AllOf(P, J)
               B == Q(m)
    <3>5. \A p : p \in A <=> p \in B
      BY <3>4
    <3> HIDE DEF A, B
    <3>6. A = B
      BY <3>5
    <3> QED BY <3>6 DEF A, B
  <2>5. Counts(f, Q(m))
    BY <1>2, <1>3 DEF Counts
  <2>6. \A n \in J : adj[m][n] = SumOver(f, P[n])
    <3>1. \A n \in J : P[n] = R(m, n) /\ n \in cur /\ n \in Neighbours(m)
      BY <2>1
    <3> HIDE DEF P, J
    <3> QED BY <1>4, <2>1, <3>1
  <2>7. SumOver(adj[m], J) = SumOver(f, AllOf(P, J))
    <3> HIDE DEF P, J, Q
    <3>1. Counts(f, AllOf(P, J))
      BY <2>4, <2>5
    <3> QED BY <2>1, <2>2, <2>6, <3>1, SumOfSums
  <2> QED BY <2>4, <2>7 DEF IntoMembers
\* Of all members: the pairs that start behind them are all there are.
<1>8. MetaWeight(c, d) = SumOver(f, T)
  <2> DEFINE J == Members(c)
             P == [m \in J |-> Q(m)]
             g == [m \in J |-> IntoMembers(m, d)]
  <2>1. IsFiniteSet(J)
    BY <1>0
  <2>2. \A m \in J : P[m] = Q(m) /\ g[m] = IntoMembers(m, d)
    OBVIOUS
  <2>3. \A m \in J : Q(m) \subseteq T /\ \A p \in Q(m) : Top.comm[p[1]] = m
    OBVIOUS
  <2>4. \A p \in T : Top.comm[p[1]] \in J /\ p \in Q(Top.comm[p[1]])
    BY <1>2
  <2>5. Counts(f, T)
    BY <1>2, <1>3 DEF Counts
  <2>6. MetaWeight(c, d) = SumOver(g, J)
    BY <1>0 DEF SumsAreSums
  <2> HIDE DEF P, g, J, Q
  <2>7. Parts(P, J)
    <3>1. \A m \in J : IsFiniteSet(Q(m))
      BY <1>2, <2>3, FS_Subset
    <3>2. \A i, j \in J : i # j => Q(i) \cap Q(j) = {}
      BY <2>3
    <3> QED BY <2>2, <3>1, <3>2 DEF Parts
  <2>8. AllOf(P, J) = T
    <3>1. \A p : p \in AllOf(P, J) <=> \E m \in J : p \in P[m]
      BY DEF AllOf
    <3>2. \A p : p \in T <=> \E m \in J : p \in P[m]
      BY <2>2, <2>3, <2>4
    <3> QED BY <3>1, <3>2
  <2>9. \A m \in J : g[m] = SumOver(f, P[m])
    BY <1>7, <2>2 DEF J
  <2>10. SumOver(g, J) = SumOver(f, AllOf(P, J))
    <3>1. Counts(f, AllOf(P, J))
      BY <2>5, <2>8
    <3> QED BY <2>1, <2>7, <2>9, <3>1, SumOfSums
  <2> QED BY <2>6, <2>8, <2>10
<1> QED BY <1>6, <1>8 DEF f, T

\* The invariant: at level after level.
ExactInv == TypeInv /\ (stage = "levels" => Exact(links, Top.comm, cur, adj))

LEMMA StepExact == ExactInv /\ [DetectionNext]_detectionVars => ExactInv'
<1> SUFFICES ASSUME ExactInv, [DetectionNext]_detectionVars PROVE ExactInv'
  OBVIOUS
<1>0. TypeInv /\ TypeInv' /\ Structure /\ Numbers
  BY StepIInv, StepNumbers DEF ExactInv, TypeInv, IInv
<1> SUFFICES ASSUME stage' = "levels" PROVE Exact(links', Top'.comm, cur', adj')
  BY <1>0 DEF ExactInv
<1>1. CASE Fetch
  <2>1. /\ links' \in SUBSET (Vertices \X Vertices) /\ cur' = Vertices /\ adj' = BaseAdjacency(links')
        /\ hierarchy' = <<Level0>>
    BY <1>1 DEF Fetch, OnNodes
  <2>2. \A n \in Vertices : Top'.comm[n] = n
    BY <2>1 DEF Top, Level0
  <2> QED BY <2>1, <2>2, BaseExact
<1>2. ASSUME stage' = stage, links' = links, cur' = cur, adj' = adj, hierarchy' = hierarchy
      PROVE  Exact(links', Top'.comm, cur', adj')
  <2>1. Top' = Top
    BY <1>2 DEF Top
  <2> QED BY <1>2, <2>1 DEF ExactInv
<1>3. ASSUME NEW n \in cur, Visit(n) PROVE Exact(links', Top'.comm, cur', adj')
  BY <1>2, <1>3 DEF Visit, graph
<1>4. CASE NextIteration
  BY <1>2, <1>4 DEF NextIteration, graph
<1>5. CASE AddLevel
  <2>1. /\ stage = "levels" /\ GoesOn /\ links' = links /\ OnMetaNodes
        /\ hierarchy' = Append(hierarchy, NewLevel) /\ flat' = flat
    BY <1>5 DEF AddLevel
  <2>2. Top' = NewLevel /\ NewLevel.comm = NewComm
    BY <1>0, <2>1, AppendLevel DEF TypeInv, NewLevel
  <2>3. Exact(links, Top.comm, cur, adj)
    BY <2>1 DEF ExactInv
  <2>4. cur' = MetaNodes /\ adj' = [c \in MetaNodes |-> [d \in MetaNeighbours(c) |-> MetaWeight(c, d)]]
    BY <2>1 DEF OnMetaNodes
  <2>5. ASSUME NEW c \in MetaNodes, NEW d \in MetaNodes PROVE ExactFor(links, NewComm, adj', c, d)
    <3>1. /\ d \in MetaNeighbours(c) <=> LinkedPairs(links, NewComm, c, d) # {}
          /\ MetaWeight(c, d) = SumOver(LinkWeight(links), LinkedPairs(links, NewComm, c, d))
      BY <1>0, <2>1, <2>3, MetaExact
    <3>2. DOMAIN adj'[c] = MetaNeighbours(c) /\ \A e \in MetaNeighbours(c) : adj'[c][e] = MetaWeight(c, e)
      BY <2>4
    <3> QED BY <3>1, <3>2 DEF ExactFor
  <2>6. Exact(links, NewComm, MetaNodes, adj')
    BY <2>5 DEF Exact
  <2> QED BY <2>1, <2>2, <2>4, <2>6
<1>6. CASE StopHierarchy
  BY <1>6 DEF StopHierarchy
<1>7. CASE EndFlat
  BY <1>7 DEF EndFlat
<1>8. CASE UNCHANGED detectionVars
  BY <1>2, <1>8 DEF detectionVars, graph
<1> QED BY <1>1, <1>3, <1>4, <1>5, <1>6, <1>7, <1>8 DEF DetectionNext

\* Of any graph and at every level two communities are neighbours when nodes
\* they stand for are, and weigh what the links between those nodes do: what
\* the next clustering works on is the graph, however often it was condensed.
THEOREM CommunityWeightsExact == DetectionSpec => []MetaWeightsExact
<1>1. ExactInv => MetaWeightsExact
  BY ExactIsProperty DEF ExactInv, PropertyIsExact
<1>2. DetectionInit => ExactInv
  <2>1. DetectionInit => TypeInv
    BY InitIInv, InitNumbers DEF TypeInv
  <2>2. DetectionInit => stage = "idle"
    BY DEF DetectionInit
  <2> QED BY <2>1, <2>2 DEF ExactInv
<1>3. QED
  BY <1>1, <1>2, StepExact, PTL DEF DetectionSpec
=============================================================================
