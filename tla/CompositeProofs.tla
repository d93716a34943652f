--------------------------- MODULE CompositeProofs --------------------------
(***************************************************************************)
(* What is proved of Composite, for graphs of any size nested to any       *)
(* depth: the search for cycles is exact, the ranks end and put every node *)
(* behind its predecessors, no body runs unbound, the observations are     *)
(* those of the bodies that ran, and a PASS is the whole graph's.          *)
(***************************************************************************)
EXTENDS CompositeReference, FiniteSetTheorems, SequenceTheorems, TLAPS

-----------------------------------------------------------------------------
(* The least and the greatest of numbers, the smallest of sets. *)

LEMMA LeastMember ==
  ASSUME NEW S \in SUBSET Nat, S # {}
  PROVE  Least(S) \in S /\ \A j \in S : Least(S) <= j
<1> DEFINE R == {ss \in Nat \X Nat : ss[1] < ss[2]}
<1>1. IsWellFoundedOn(R, Nat)
  BY NatLessThanWellFounded DEF OpToRel
<1>2. PICK k \in S : \A j \in S : <<j, k>> \notin R
  <2> HIDE DEF R
  <2> QED
    BY <1>1, WFMin
<1>3. \A j \in S : ~(j < k)
  BY <1>2
<1>4. \A j \in S : k <= j
  <2> HIDE DEF R
  <2> QED
    BY <1>3
<1> QED
  BY <1>4 DEF Least

LEMMA Smallest ==
  ASSUME NEW D, IsFiniteSet(D), NEW F, F # {}, \A T \in F : T \subseteq D
  PROVE  \E S \in F : \A T \in F : T \subseteq S => T = S
<1>1. F \subseteq FiniteSubsetsOf(D)
  BY FS_Subset DEF FiniteSubsetsOf
<1>2. PICK S \in F : \A T \in F : <<T, S>> \notin StrictSubsetOrdering(D)
  BY <1>1, FS_StrictSubsetOrderingWellFounded, WFMin
<1> QED
  BY <1>2 DEF StrictSubsetOrdering

LEMMA Greatest ==
  ASSUME NEW S \in SUBSET Nat, IsFiniteSet(S), S # {}
  PROVE  \E r \in S : \A q \in S : q <= r
<1> DEFINE F == {A \in SUBSET S : \E r \in S : A = {q \in S : q > r}}
<1>1. PICK A \in F : \A B \in F : B \subseteq A => B = A
  <2>1. F # {} /\ \A T \in F : T \subseteq S
    OBVIOUS
  <2> HIDE DEF F
  <2> QED
    BY <2>1, Smallest
<1>2. PICK r \in S : A = {q \in S : q > r}
  OBVIOUS
<1>3. ASSUME NEW q \in S, ~(q <= r) PROVE FALSE
  <2> DEFINE B == {p \in S : p > q}
  <2>1. B \in F
    OBVIOUS
  <2>2. B \subseteq A
    <3> SUFFICES ASSUME NEW p \in S, p > q PROVE p > r
      BY <1>2
    <3> QED
      BY <1>3
  <2>3. q \in A /\ q \notin B
    BY <1>2, <1>3
  <2> HIDE DEF F, B
  <2> QED
    BY <2>1, <2>2, <2>3, <1>1
<1> QED
  <2> HIDE DEF F
  <2> QED
    BY <1>3

(* A finite set in which every member has a predecessor holds a set in     *)
(* which every member has a successor.                                     *)
LEMMA BackIsForth ==
  ASSUME NEW g, NEW S, IsFiniteSet(S), S # {},
         \A n \in S : \E m \in S : Edge(g, m, n)
  PROVE  \E T \in SUBSET S : T # {} /\ \A m \in T : \E n \in T : Edge(g, m, n)
<1> DEFINE F == {T \in SUBSET S : T # {} /\ \A n \in T : \E m \in T : Edge(g, m, n)}
<1>1. PICK T \in F : \A U \in F : U \subseteq T => U = T
  <2>1. F # {} /\ \A T \in F : T \subseteq S
    OBVIOUS
  <2> HIDE DEF F
  <2> QED
    BY <2>1, Smallest
<1>2. ASSUME NEW m \in T, \A n \in T : ~Edge(g, m, n) PROVE FALSE
  <2>1. PICK p \in T : Edge(g, p, m)
    BY <1>1
  <2>2. T \ {m} \in F
    BY <2>1, <1>2, <1>1
  <2> HIDE DEF F
  <2> QED
    BY <2>2, <1>1, <1>2
<1> QED
  BY <1>1, <1>2

-----------------------------------------------------------------------------
(* The nodes compute_rank visits. *)

LEMMA ShapeFacts ==
  ASSUME NEW g, Shape(g)
  PROVE  /\ NodeSet(g) \subseteq Nodes
         /\ IsFiniteSet(NodeSet(g))
         /\ DOMAIN g.nodes \subseteq Nat
         /\ DOMAIN g.edges \subseteq Nat
         /\ IsFiniteSet(DOMAIN g.edges)
         /\ \A e \in DOMAIN g.edges :
              /\ g.edges[e][1] \in Nodes /\ g.edges[e][2] \in Nodes
              /\ g.edges[e] = <<g.edges[e][1], g.edges[e][2]>>
<1>1. /\ DOMAIN g.nodes = 1..Len(g.nodes) /\ Len(g.nodes) \in Nat
      /\ \A k \in DOMAIN g.nodes : g.nodes[k] \in Nodes
  BY DEF Shape
<1>2. /\ DOMAIN g.edges = 1..Len(g.edges) /\ Len(g.edges) \in Nat
      /\ \A e \in DOMAIN g.edges : g.edges[e] \in Nodes \X Nodes
  BY DEF Shape
<1>3. IsFiniteSet(DOMAIN g.nodes) /\ IsFiniteSet(DOMAIN g.edges)
  BY <1>1, <1>2, FS_Interval
<1>4. [k \in DOMAIN g.nodes |-> g.nodes[k]]
        \in Surjection(DOMAIN g.nodes, NodeSet(g))
  BY DEF Surjection, NodeSet
<1>5. IsFiniteSet(NodeSet(g))
  BY <1>3, <1>4, FS_Surjection
<1>6. NodeSet(g) \subseteq Nodes
  BY <1>1 DEF NodeSet
<1> QED
  BY <1>1, <1>2, <1>3, <1>5, <1>6

(* A set of nodes no edge leads into from outside. *)
Behind(g, T) ==
  \A e \in DOMAIN g.edges : g.edges[e][2] \in T => g.edges[e][1] \in T

LEMMA VisitedLeast ==
  ASSUME NEW g, Shape(g)
  PROVE  /\ NodeSet(g) \subseteq Visited(g) /\ Visited(g) \subseteq Nodes
         /\ Behind(g, Visited(g))
         /\ \A T \in SUBSET Nodes :
              NodeSet(g) \subseteq T /\ Behind(g, T) => Visited(g) \subseteq T
<1>1. Visited(g) = {n \in Nodes : \A T \in SUBSET Nodes :
                      NodeSet(g) \subseteq T /\ Behind(g, T) => n \in T}
  BY DEF Visited, Behind
<1>2. NodeSet(g) \subseteq Visited(g)
  BY <1>1, ShapeFacts
<1>3. Behind(g, Visited(g))
  <2> SUFFICES ASSUME NEW e \in DOMAIN g.edges, g.edges[e][2] \in Visited(g),
                      NEW T \in SUBSET Nodes, NodeSet(g) \subseteq T, Behind(g, T)
               PROVE  g.edges[e][1] \in T
    BY <1>1, ShapeFacts DEF Behind
  <2>1. g.edges[e][2] \in T
    BY <1>1
  <2> QED
    BY <2>1 DEF Behind
<1> QED
  BY <1>1, <1>2, <1>3

LEMMA VisitedFinite ==
  ASSUME NEW g, Shape(g)
  PROVE  IsFiniteSet(Visited(g))
<1> DEFINE Sources == {g.edges[e][1] : e \in DOMAIN g.edges}
<1>1. [e \in DOMAIN g.edges |-> g.edges[e][1]]
        \in Surjection(DOMAIN g.edges, Sources)
  BY DEF Surjection
<1>2. IsFiniteSet(Sources)
  <2> HIDE DEF Sources
  <2> QED
    BY <1>1, ShapeFacts, FS_Surjection
<1>3. IsFiniteSet(NodeSet(g) \cup Sources)
  <2> HIDE DEF Sources
  <2> QED
    BY <1>2, ShapeFacts, FS_Union
<1>4. Sources \subseteq Nodes /\ \A e \in DOMAIN g.edges : g.edges[e][1] \in Sources
  BY ShapeFacts
<1>5. Visited(g) \subseteq NodeSet(g) \cup Sources
  <2> HIDE DEF Sources
  <2>1. Behind(g, NodeSet(g) \cup Sources)
    BY <1>4 DEF Behind
  <2>2. NodeSet(g) \cup Sources \in SUBSET Nodes
    BY <1>4, ShapeFacts
  <2> QED
    BY <2>1, <2>2, VisitedLeast
<1> QED
  <2> HIDE DEF Sources
  <2> QED
    BY <1>3, <1>5, FS_Subset

(* Where the recursion of rank_of ends, no set of the nodes it visits has  *)
(* a predecessor within it for each.                                       *)
LEMMA VisitedFounded ==
  ASSUME NEW g, Shape(g), ~Endless(g),
         NEW S \in SUBSET Visited(g), S # {}
  PROVE  \E n \in S : \A m \in S : ~Edge(g, m, n)
<1> DEFINE Round(U) == \A n \in U : \E m \in U : Edge(g, m, n)
           Bad == {n \in Nodes : \E U \in SUBSET Nodes : n \in U /\ Round(U)}
           Rest == Visited(g) \ Bad
<1>1. NodeSet(g) \subseteq Rest
  <2> SUFFICES ASSUME NEW n \in NodeSet(g), NEW U \in SUBSET Nodes, n \in U,
                      Round(U)
               PROVE  FALSE
    BY VisitedLeast
  <2> QED
    BY DEF Endless
<1>2. Behind(g, Rest)
  <2> SUFFICES ASSUME NEW e \in DOMAIN g.edges, g.edges[e][2] \in Rest,
                      g.edges[e][1] \in Bad
               PROVE  FALSE
    BY VisitedLeast DEF Behind
  <2>1. PICK U \in SUBSET Nodes : g.edges[e][1] \in U /\ Round(U)
    OBVIOUS
  <2>2. Edge(g, g.edges[e][1], g.edges[e][2])
    BY ShapeFacts DEF Edge
  <2>3. U \cup {g.edges[e][2]} \in SUBSET Nodes
    BY ShapeFacts
  <2>4. Round(U \cup {g.edges[e][2]})
    BY <2>1, <2>2
  <2> QED
    BY <2>3, <2>4
<1>3. Visited(g) \subseteq Rest
  <2> HIDE DEF Rest
  <2>1. Rest \in SUBSET Nodes
    BY VisitedLeast DEF Rest
  <2> QED
    BY <1>1, <1>2, <2>1, VisitedLeast
<1>4. S \in SUBSET Nodes
  BY VisitedLeast
<1> QED
  BY <1>3, <1>4

-----------------------------------------------------------------------------
(* compute_rank. *)

Above(g, n) == {g.edges[e][1] : e \in Predecessors(g, n)}

(* What rank_of makes of a node when f has the ranks of those above it. *)
Value(f, g, n) ==
  IF Above(g, n) = {} THEN 0
  ELSE 1 + CHOOSE r \in {f[p] : p \in Above(g, n)} :
             \A p \in Above(g, n) : f[p] <= r

LEMMA AboveFacts ==
  ASSUME NEW g, Shape(g), NEW n
  PROVE  /\ IsFiniteSet(Above(g, n))
         /\ \A m \in Nodes : m \in Above(g, n) <=> Edge(g, m, n)
         /\ Above(g, n) \subseteq Nodes
<1>1. Predecessors(g, n) \subseteq DOMAIN g.edges
  BY DEF Predecessors
<1>2. IsFiniteSet(Predecessors(g, n))
  BY <1>1, ShapeFacts, FS_Subset
<1>3. [e \in Predecessors(g, n) |-> g.edges[e][1]]
        \in Surjection(Predecessors(g, n), Above(g, n))
  BY DEF Surjection, Above
<1>4. IsFiniteSet(Above(g, n))
  BY <1>2, <1>3, FS_Surjection
<1>5. Above(g, n) \subseteq Nodes
  BY <1>1, ShapeFacts DEF Above
<1>6. ASSUME NEW m \in Nodes PROVE m \in Above(g, n) <=> Edge(g, m, n)
  <2>1. ASSUME m \in Above(g, n) PROVE Edge(g, m, n)
    <3>1. PICK e \in DOMAIN g.edges : g.edges[e][2] = n /\ g.edges[e][1] = m
      BY <2>1 DEF Above, Predecessors
    <3> QED
      BY <3>1, ShapeFacts DEF Edge
  <2>2. ASSUME Edge(g, m, n) PROVE m \in Above(g, n)
    <3>1. PICK e \in DOMAIN g.edges : g.edges[e] = <<m, n>>
      BY <2>2 DEF Edge
    <3>2. e \in Predecessors(g, n)
      BY <3>1 DEF Predecessors
    <3> QED
      BY <3>1, <3>2 DEF Above
  <2> QED
    BY <2>1, <2>2
<1> QED
  BY <1>4, <1>5, <1>6

LEMMA ValueIsHighest ==
  ASSUME NEW g, Shape(g), NEW n, NEW f, \A p \in Above(g, n) : f[p] \in Nat
  PROVE  /\ Value(f, g, n) \in Nat
         /\ \A p \in Above(g, n) : f[p] < Value(f, g, n)
         /\ Above(g, n) = {} => Value(f, g, n) = 0
         /\ Above(g, n) # {} =>
              \E p \in Above(g, n) : Value(f, g, n) = f[p] + 1
<1> DEFINE Ranks == {f[p] : p \in Above(g, n)}
           r == CHOOSE r \in Ranks : \A p \in Above(g, n) : f[p] <= r
<1>1. CASE Above(g, n) = {}
  BY <1>1 DEF Value
<1>2. CASE Above(g, n) # {}
  <2>1. [p \in Above(g, n) |-> f[p]] \in Surjection(Above(g, n), Ranks)
    BY DEF Surjection
  <2>2. IsFiniteSet(Ranks)
    <3> HIDE DEF Ranks
    <3> QED
      BY <2>1, AboveFacts, FS_Surjection
  <2>3. Ranks # {} /\ Ranks \in SUBSET Nat
    BY <1>2
  <2>4. \E q \in Ranks : \A p \in Ranks : p <= q
    <3> HIDE DEF Ranks
    <3> QED
      BY <2>2, <2>3, Greatest
  <2>5. r \in Ranks /\ \A p \in Above(g, n) : f[p] <= r
    <3>1. \E q \in Ranks : \A p \in Above(g, n) : f[p] <= q
      BY <2>4
    <3> HIDE DEF Ranks
    <3> QED
      BY <3>1
  <2>6. Value(f, g, n) = 1 + r
    BY <1>2 DEF Value
  <2>7. PICK q \in Above(g, n) : r = f[q]
    BY <2>5
  <2>8. f[q] \in Nat /\ Value(f, g, n) = f[q] + 1
        /\ \A p \in Above(g, n) : f[p] <= f[q] /\ f[p] \in Nat
    <3> HIDE DEF r
    <3> QED
      BY <2>5, <2>6, <2>7
  <2>9. Value(f, g, n) \in Nat /\ \A p \in Above(g, n) : f[p] < Value(f, g, n)
    BY <2>8
  <2> QED
    BY <1>2, <2>8, <2>9
<1> QED
  BY <1>1, <1>2

LEMMA ValueOfAgreeing ==
  ASSUME NEW g, Shape(g), NEW n, NEW f, NEW h,
         \A p \in Above(g, n) : f[p] \in Nat /\ h[p] = f[p]
  PROVE  Value(h, g, n) = Value(f, g, n)
<1>1. CASE Above(g, n) = {}
  BY <1>1 DEF Value
<1>2. CASE Above(g, n) # {}
  <2>1. PICK p \in Above(g, n) : Value(f, g, n) = f[p] + 1
    BY <1>2, ValueIsHighest
  <2>2. PICK q \in Above(g, n) : Value(h, g, n) = h[q] + 1
    BY <1>2, ValueIsHighest
  <2>3. f[q] < f[p] + 1 /\ f[p] < f[q] + 1
    BY <2>1, <2>2, ValueIsHighest
  <2> QED
    BY <2>1, <2>2, <2>3
<1> QED
  BY <1>1, <1>2

(* compute_rank ends with a number for every node it visits. *)
LEMMA RanksExist ==
  ASSUME NEW g, Shape(g), ~Endless(g)
  PROVE  \E f : f = [n \in Visited(g) |-> Value(f, g, n)]
<1> DEFINE V == Visited(g)
           Ranks(T, f) == /\ f \in [T -> Nat]
                          /\ \A n \in T : f[n] = Value(f, g, n)
           F == {U \in SUBSET V : /\ Behind(g, V \ U)
                                  /\ \E f : Ranks(V \ U, f)}
<1>1. V \in F
  <2>1. Behind(g, V \ V)
    BY DEF Behind
  <2>2. Ranks(V \ V, [n \in {} |-> 0])
    OBVIOUS
  <2> QED
    BY <2>1, <2>2
<1>2. PICK U \in F : \A W \in F : W \subseteq U => W = U
  <2>1. F # {} /\ \A T \in F : T \subseteq V
    BY <1>1
  <2> HIDE DEF F
  <2> QED
    BY <2>1, VisitedFinite, Smallest
<1>3. PICK f : Ranks(V \ U, f)
  OBVIOUS
<1>4. ASSUME U # {} PROVE FALSE
  <2>1. PICK n \in U : \A m \in U : ~Edge(g, m, n)
    BY <1>2, <1>4, VisitedFounded
  <2> DEFINE T == V \ U
             N == T \cup {n}
             h == [m \in N |-> IF m = n THEN Value(f, g, n) ELSE f[m]]
  <2>2. \A m \in N : Above(g, m) \subseteq T
    <3> SUFFICES ASSUME NEW m \in N, NEW p \in Above(g, m) PROVE p \in T
      OBVIOUS
    <3>1. PICK e \in DOMAIN g.edges : g.edges[e][2] = m /\ g.edges[e][1] = p
      BY DEF Above, Predecessors
    <3>2. p \in V
      BY <3>1, VisitedLeast DEF Behind
    <3>3. CASE m = n
      <4>1. Edge(g, p, n)
        BY <3>3, AboveFacts
      <4> QED
        BY <4>1, <2>1, <3>2
    <3>4. CASE m \in T
      BY <3>1, <3>4, <1>2 DEF Behind
    <3> QED
      BY <3>3, <3>4
  <2>3. \A m \in T : f[m] \in Nat /\ h[m] = f[m]
    BY <1>3
  <2>4. \A m \in N : Value(h, g, m) = Value(f, g, m)
    <3> HIDE DEF h, T, N
    <3> QED
      BY <2>2, <2>3, ValueOfAgreeing
  <2>5. \A m \in N : Value(f, g, m) \in Nat
    <3> HIDE DEF h, T, N
    <3> QED
      BY <2>2, <2>3, ValueIsHighest
  <2>6. Ranks(N, h)
    <3>1. h \in [N -> Nat]
      BY <2>3, <2>5
    <3>2. \A m \in N : h[m] = Value(h, g, m)
      BY <2>4, <1>3
    <3> QED
      BY <3>1, <3>2
  <2>7. Behind(g, N)
    <3> SUFFICES ASSUME NEW e \in DOMAIN g.edges, g.edges[e][2] \in N
                 PROVE  g.edges[e][1] \in N
      BY DEF Behind
    <3>1. g.edges[e][1] \in Above(g, g.edges[e][2])
      BY DEF Above, Predecessors
    <3> QED
      BY <3>1, <2>2
  <2>8. V \ (U \ {n}) = N
    BY <1>2
  <2>9. U \ {n} \in F
    <3> HIDE DEF N, h
    <3> QED
      BY <2>6, <2>7, <2>8, <1>2
  <2> HIDE DEF F
  <2> QED
    BY <2>9, <1>2
<1>5. Ranks(V, f)
  <2>1. V \ U = V
    BY <1>4
  <2> QED
    BY <1>3, <2>1
<1> QED
  BY <1>5

LEMMA RankIs ==
  ASSUME NEW g, Shape(g), ~Endless(g)
  PROVE  Rank(g) = [n \in Visited(g) |-> Value(Rank(g), g, n)]
<1>1. Rank(g) = CHOOSE f : f = [n \in Visited(g) |-> Value(f, g, n)]
  BY DEF Rank, Value, Above
<1> QED
  BY <1>1, RanksExist

(* The ranks are numbers, and a node's is above that of every node an edge *)
(* into it comes from, whatever the order of the edges (compute_rank).     *)
THEOREM RankDescends ==
  ASSUME NEW g, Shape(g), ~Endless(g)
  PROVE  /\ \A n \in Visited(g) : Rank(g)[n] \in Nat
         /\ \A n \in Visited(g) : \A p \in Above(g, n) : Rank(g)[p] < Rank(g)[n]
<1> DEFINE S == {n \in Visited(g) : Rank(g)[n] \notin Nat}
<1>1. \A n \in Visited(g) : Above(g, n) \subseteq Visited(g)
  BY VisitedLeast DEF Above, Predecessors, Behind
<1>2. \A n \in Visited(g) : Rank(g)[n] = Value(Rank(g), g, n)
  BY RankIs
<1>3. S = {}
  <2> SUFFICES ASSUME S # {} PROVE FALSE
    OBVIOUS
  <2>1. PICK n \in S : \A m \in S : ~Edge(g, m, n)
    BY VisitedFounded
  <2>2. \A p \in Above(g, n) : Rank(g)[p] \in Nat
    BY <2>1, <1>1, AboveFacts
  <2> QED
    BY <2>2, <1>2, ValueIsHighest
<1> QED
  BY <1>1, <1>2, <1>3, ValueIsHighest

-----------------------------------------------------------------------------
(* sorted(). *)

(* Among any nodes left sorted() has a first one, and no edge into it comes *)
(* from a node left: its input is there (compute_rank, execute).            *)
THEOREM FirstIsReady ==
  ASSUME NEW g, Shape(g), ~Endless(g),
         NEW left, left # {}, left \subseteq NodeSet(g)
  PROVE  /\ First(g, left) \in left
         /\ \A e \in Predecessors(g, First(g, left)) : g.edges[e][1] \notin left
<1> DEFINE rank == Rank(g)
           Before(n, m) == \/ rank[n] < rank[m]
                           \/ rank[n] = rank[m] /\ At(g, n) < At(g, m)
           Ranks == {r \in Nat : \E n \in left : rank[n] = r}
           Lowest == {n \in left : rank[n] = Least(Ranks)}
           Places == {k \in DOMAIN g.nodes : \E n \in Lowest : At(g, n) = k}
<1>1. \A n \in left : rank[n] \in Nat
  BY RankDescends, VisitedLeast
<1>2. \A n \in left : At(g, n) \in DOMAIN g.nodes /\ g.nodes[At(g, n)] = n
  BY DEF NodeSet, At
<1>3. Least(Ranks) \in Ranks /\ \A r \in Ranks : Least(Ranks) <= r
  <2>1. Ranks \in SUBSET Nat /\ Ranks # {}
    BY <1>1
  <2> HIDE DEF Ranks
  <2> QED
    BY <2>1, LeastMember
<1>4. Least(Places) \in Places /\ \A k \in Places : Least(Places) <= k
  <2>1. Places \in SUBSET Nat
    BY ShapeFacts
  <2>2. Lowest # {} /\ Lowest \subseteq left
    BY <1>3
  <2>3. Places # {}
    <3> HIDE DEF Lowest
    <3> QED
      BY <2>2, <1>2
  <2> HIDE DEF Places
  <2> QED
    BY <2>1, <2>3, LeastMember
<1>5. PICK n \in Lowest : At(g, n) = Least(Places)
  <2> HIDE DEF Lowest
  <2> QED
    BY <1>4
<1>6. ASSUME NEW m \in left \ {n} PROVE Before(n, m)
  <2>1. rank[m] \in Nat /\ rank[n] \in Nat /\ rank[n] <= rank[m]
    BY <1>1, <1>3
  <2>2. CASE rank[m] = rank[n]
    <3>1. m \in Lowest
      BY <2>2
    <3>2. At(g, m) \in Places
      <4> HIDE DEF Lowest
      <4> QED
        BY <3>1, <1>2
    <3>3. At(g, n) <= At(g, m)
      <4> HIDE DEF Places, Lowest
      <4> QED
        BY <1>4, <1>5, <3>2
    <3>4. At(g, n) # At(g, m)
      BY <1>2
    <3>5. At(g, n) \in Nat /\ At(g, m) \in Nat
      BY <1>2, ShapeFacts
    <3> QED
      BY <2>2, <3>3, <3>4, <3>5
  <2> QED
    BY <2>1, <2>2
<1>7. \E k \in left : \A m \in left \ {k} : Before(k, m)
  <2> HIDE DEF Before
  <2> QED
    BY <1>6
<1> DEFINE c == CHOOSE k \in left : \A m \in left \ {k} : Before(k, m)
<1>8. First(g, left) = c
  BY DEF First
<1>9. c \in left /\ \A m \in left \ {c} : Before(c, m)
  <2> HIDE DEF Before
  <2> QED
    BY <1>7
<1>10. ASSUME NEW e \in Predecessors(g, c), g.edges[e][1] \in left PROVE FALSE
  <2> HIDE DEF c
  <2> DEFINE p == g.edges[e][1]
  <2>1. p \in Above(g, c)
    BY DEF Above
  <2>2. c \in Visited(g)
    BY <1>9, VisitedLeast
  <2>3. rank[p] < rank[c]
    BY <2>1, <2>2, RankDescends
  <2>4. rank[p] \in Nat /\ rank[c] \in Nat
    BY <1>1, <1>9, <1>10
  <2>5. p # c
    BY <2>3, <2>4
  <2>6. Before(c, p)
    <3> HIDE DEF Before
    <3> QED
      BY <1>9, <1>10, <2>5
  <2> QED
    BY <2>3, <2>4, <2>6
<1> QED
  BY <1>8, <1>9, <1>10

(* A graph without strangers and without a cycle has an end of its ranks. *)
LEMMA SoundIsNotEndless ==
  ASSUME NEW g, Shape(g), Sound(g)
  PROVE  ~Endless(g)
<1> SUFFICES ASSUME NEW S \in SUBSET Nodes, S \cap NodeSet(g) # {},
                    \A n \in S : \E m \in S : Edge(g, m, n)
             PROVE  FALSE
  BY DEF Endless
<1> DEFINE U == S \cap NodeSet(g)
<1>1. \A n \in U : \E m \in U : Edge(g, m, n)
  <2> SUFFICES ASSUME NEW n \in S PROVE \E m \in U : Edge(g, m, n)
    OBVIOUS
  <2>1. PICK m \in S : Edge(g, m, n)
    OBVIOUS
  <2>2. PICK e \in DOMAIN g.edges : g.edges[e] = <<m, n>>
    BY <2>1 DEF Edge
  <2>3. m \in NodeSet(g)
    BY <2>2 DEF Sound
  <2> QED
    BY <2>1, <2>3
<1>2. IsFiniteSet(U)
  BY ShapeFacts, FS_Subset
<1>3. PICK T \in SUBSET U : T # {} /\ \A m \in T : \E n \in T : Edge(g, m, n)
  <2> HIDE DEF U
  <2>1. U # {}
    BY DEF U
  <2> QED
    BY <2>1, <1>1, <1>2, BackIsForth
<1>4. Cyclic(g)
  BY <1>3 DEF Cyclic
<1> QED
  BY <1>4 DEF Sound

-----------------------------------------------------------------------------
(* detect_cycle: black nodes and the path of gray ones. *)

Values == Seq(Scripts)
GrayNodes == [node : Nodes, edges : SUBSET Nat]
Frames ==
  [of : Composites, place : Seq(Nodes), input : Values,
   phase : {"search", "gate", "run"}, path : Seq(GrayNodes),
   black : SUBSET Nodes, left : SUBSET Nodes,
   outputs : [Nodes -> Values \cup {<<Absent>>}], last : {"PASS", Absent}]

(* The black nodes lead to black nodes only, and in no circle. *)
Searched(g, black) ==
  /\ black \subseteq NodeSet(g)
  /\ \A e \in DOMAIN g.edges : g.edges[e][1] \in black => g.edges[e][2] \in black
  /\ \A S \in SUBSET black :
       S # {} => \E m \in S : \A n \in S : ~Edge(g, m, n)

(* A gray node: the edges it has behind it lead to black nodes, or to the  *)
(* next on the path.                                                       *)
GrayAt(g, path, black, k) ==
  /\ path[k].node \in NodeSet(g) \ black
  /\ path[k].edges \subseteq Successors(g, path[k].node)
  /\ \A e \in Successors(g, path[k].node) \ path[k].edges :
       \/ g.edges[e][2] \in black
       \/ k < Len(path) /\ g.edges[e][2] = path[k + 1].node
  /\ k < Len(path) => Edge(g, path[k].node, path[k + 1].node)

OnPath(g, path, black) ==
  /\ \A k \in 1..Len(path) : GrayAt(g, path, black, k)
  /\ \A j, k \in 1..Len(path) : path[j].node = path[k].node => j = k

LEMMA AllBlack ==
  ASSUME NEW g, NEW black, Searched(g, black), NodeSet(g) \subseteq black
  PROVE  ~Cyclic(g)
BY DEF Searched, Cyclic

(* A node whose successors are black may be black. *)
LEMMA Blacken ==
  ASSUME NEW g, Shape(g), NEW black, Searched(g, black),
         NEW n \in NodeSet(g) \ black,
         \A e \in Successors(g, n) : g.edges[e][2] \in black
  PROVE  Searched(g, black \cup {n})
<1>1. \A m \in black \cup {n} : ~Edge(g, n, m) \/ m \in black
  BY DEF Edge, Successors
<1>2. \A m \in black : ~Edge(g, m, n)
  BY DEF Edge, Searched
<1>3. ASSUME NEW S \in SUBSET (black \cup {n}), S # {}
      PROVE  \E m \in S : \A p \in S : ~Edge(g, m, p)
  <2>1. CASE S \cap black = {}
    <3>1. S = {n}
      BY <1>3, <2>1
    <3> QED
      BY <3>1, <1>1
  <2>2. CASE S \cap black # {}
    <3>1. PICK m \in S \cap black : \A p \in S \cap black : ~Edge(g, m, p)
      BY <2>2 DEF Searched
    <3> QED
      BY <3>1, <1>2
  <2> QED
    BY <2>1, <2>2
<1>4. \A e \in DOMAIN g.edges :
        g.edges[e][1] \in black \cup {n} => g.edges[e][2] \in black \cup {n}
  BY DEF Searched, Successors
<1> QED
  BY <1>3, <1>4 DEF Searched

LEMMA PathOfOne ==
  ASSUME NEW g, Shape(g), NEW black, NEW n \in NodeSet(g) \ black
  PROVE  LET path == <<[node |-> n, edges |-> Successors(g, n)]>>
         IN  path \in Seq(GrayNodes) /\ OnPath(g, path, black)
<1> DEFINE path == <<[node |-> n, edges |-> Successors(g, n)]>>
<1>1. n \in Nodes /\ Successors(g, n) \in SUBSET Nat
  BY ShapeFacts DEF Successors
<1>2. Len(path) = 1 /\ path[1].node = n /\ path[1].edges = Successors(g, n)
  OBVIOUS
<1>3. path \in Seq(GrayNodes)
  BY <1>1 DEF GrayNodes
<1>4. GrayAt(g, path, black, 1)
  <2> HIDE DEF path
  <2> QED
    BY <1>2 DEF GrayAt
<1>5. OnPath(g, path, black)
  <2> HIDE DEF path
  <2> QED
    BY <1>2, <1>4 DEF OnPath
<1> QED
  BY <1>3, <1>5

(* All of a sequence but its last member. *)
LEMMA Front ==
  ASSUME NEW S, NEW s \in Seq(S), s # <<>>
  PROVE  LET t == SubSeq(s, 1, Len(s) - 1)
         IN  /\ t \in Seq(S) /\ Len(t) = Len(s) - 1
             /\ \A k \in 1..(Len(s) - 1) : t[k] = s[k]
<1> DEFINE m == Len(s) - 1
<1>1. m \in Nat /\ Len(s) \in Nat /\ m + 1 = Len(s)
  BY EmptySeq
<1>2. \A i \in 1..m : s[i] \in S
  BY <1>1, ElementOfSeq
<1> HIDE DEF m
<1>3. /\ SubSeq(s, 1, m) \in Seq(S)
      /\ Len(SubSeq(s, 1, m)) = IF 1 <= m THEN m - 1 + 1 ELSE 0
      /\ \A i \in 1..(m - 1 + 1) : SubSeq(s, 1, m)[i] = s[1 + i - 1]
  <2>1. m \in Int /\ 1 \in Int
    BY <1>1
  <2> QED
    BY <1>2, <2>1, SubSeqProperties
<1>4. Len(SubSeq(s, 1, m)) = m
  BY <1>1, <1>3
<1>5. \A k \in 1..m : SubSeq(s, 1, m)[k] = s[k]
  <2> TAKE k \in 1..m
  <2>1. k \in 1..(m - 1 + 1) /\ 1 + k - 1 = k
    BY <1>1
  <2> QED
    BY <1>3, <2>1
<1> QED
  BY <1>3, <1>4, <1>5 DEF m

(* The path after an edge of its deepest node was looked at. *)
LEMMA EdgeTaken ==
  ASSUME NEW path \in Seq(GrayNodes), path # <<>>, NEW e
  PROVE  LET rest == [path EXCEPT ![Len(path)].edges = @ \ {e}]
             d == Len(path)
         IN  /\ rest \in Seq(GrayNodes) /\ Len(rest) = d
             /\ \A k \in 1..d : rest[k].node = path[k].node
             /\ \A k \in 1..d : k # d => rest[k].edges = path[k].edges
             /\ rest[d].edges = path[d].edges \ {e}
<1> DEFINE rest == [path EXCEPT ![Len(path)].edges = @ \ {e}]
           d == Len(path)
           last == [path[d] EXCEPT !.edges = @ \ {e}]
<1>1. d \in Nat /\ d \in 1..Len(path) /\ \A k \in 1..d : path[k] \in GrayNodes
  BY EmptySeq, ElementOfSeq
<1>2. /\ last \in GrayNodes /\ last.node = path[d].node
      /\ last.edges = path[d].edges \ {e}
  BY <1>1 DEF GrayNodes
<1>3. rest = [path EXCEPT ![d] = last]
  OBVIOUS
<1>4. /\ rest \in Seq(GrayNodes) /\ Len(rest) = d
      /\ \A k \in 1..d : rest[k] = IF k = d THEN last ELSE path[k]
  <2> HIDE DEF last, rest, d
  <2>1. /\ [path EXCEPT ![d] = last] \in Seq(GrayNodes)
        /\ Len([path EXCEPT ![d] = last]) = Len(path)
        /\ \A k \in 1..Len(path) :
             [path EXCEPT ![d] = last][k] = IF k = d THEN last ELSE path[k]
    BY <1>1, <1>2, ExceptSeq
  <2> QED
    BY <2>1, <1>3 DEF d
<1>5. /\ \A k \in 1..d : rest[k].node = path[k].node
      /\ \A k \in 1..d : k # d => rest[k].edges = path[k].edges
      /\ rest[d].edges = path[d].edges \ {e}
  <2> HIDE DEF last, rest
  <2> QED
    BY <1>1, <1>2, <1>4
<1> QED
  BY <1>4, <1>5

(* An edge of the deepest node to a black one is behind it. *)
LEMMA PathPastBlack ==
  ASSUME NEW g, Shape(g), NEW black,
         NEW path \in Seq(GrayNodes), path # <<>>, OnPath(g, path, black),
         NEW e \in path[Len(path)].edges, g.edges[e][2] \in black
  PROVE  LET rest == [path EXCEPT ![Len(path)].edges = @ \ {e}]
         IN  rest \in Seq(GrayNodes) /\ OnPath(g, rest, black)
<1> DEFINE rest == [path EXCEPT ![Len(path)].edges = @ \ {e}]
           d == Len(path)
<1>1. d \in Nat /\ d \in 1..Len(path) /\ \A k \in 1..d : path[k] \in GrayNodes
  BY EmptySeq, ElementOfSeq
<1>2. /\ rest \in Seq(GrayNodes) /\ Len(rest) = d
      /\ \A k \in 1..d : rest[k].node = path[k].node
      /\ \A k \in 1..d : k # d => rest[k].edges = path[k].edges
      /\ rest[d].edges = path[d].edges \ {e}
  BY EdgeTaken
<1>3. ASSUME NEW k \in 1..d PROVE GrayAt(g, rest, black, k)
  <2> HIDE DEF rest
  <2>1. GrayAt(g, path, black, k) /\ k \in Nat
    BY DEF OnPath
  <2>2. CASE k < d
    <3>1. /\ k + 1 \in 1..d /\ rest[k].edges = path[k].edges
          /\ rest[k].node = path[k].node /\ rest[k + 1].node = path[k + 1].node
      BY <2>2, <1>1, <1>2
    <3> QED
      BY <2>1, <2>2, <3>1, <1>1, <1>2 DEF GrayAt
  <2>3. CASE k = d
    BY <2>1, <2>3, <1>1, <1>2 DEF GrayAt
  <2> QED
    BY <2>2, <2>3, <1>1
<1>4. \A j, k \in 1..Len(rest) : rest[j].node = rest[k].node => j = k
  <2> HIDE DEF rest
  <2> QED
    BY <1>1, <1>2 DEF OnPath
<1>5. OnPath(g, rest, black)
  <2> HIDE DEF rest
  <2> QED
    BY <1>1, <1>2, <1>3, <1>4 DEF OnPath
<1> QED
  BY <1>2, <1>5

(* An edge of the deepest node to a white one makes that the deepest. *)
LEMMA PathDeeper ==
  ASSUME NEW g, Shape(g), NEW black,
         NEW path \in Seq(GrayNodes), path # <<>>, OnPath(g, path, black),
         NEW e \in path[Len(path)].edges,
         g.edges[e][2] \in NodeSet(g) \ black,
         \A k \in 1..Len(path) : path[k].node # g.edges[e][2]
  PROVE  LET rest == [path EXCEPT ![Len(path)].edges = @ \ {e}]
             v == g.edges[e][2]
             deeper == Append(rest, [node |-> v, edges |-> Successors(g, v)])
         IN  deeper \in Seq(GrayNodes) /\ OnPath(g, deeper, black)
<1> DEFINE rest == [path EXCEPT ![Len(path)].edges = @ \ {e}]
           d == Len(path)
           v == g.edges[e][2]
           new == [node |-> v, edges |-> Successors(g, v)]
           deeper == Append(rest, new)
<1>1. d \in Nat /\ d \in 1..Len(path) /\ \A k \in 1..d : path[k] \in GrayNodes
  BY EmptySeq, ElementOfSeq
<1>2. /\ rest \in Seq(GrayNodes) /\ Len(rest) = d
      /\ \A k \in 1..d : rest[k].node = path[k].node
      /\ \A k \in 1..d : k # d => rest[k].edges = path[k].edges
      /\ rest[d].edges = path[d].edges \ {e}
  BY EdgeTaken
<1>3. new \in GrayNodes
  BY ShapeFacts DEF GrayNodes, Successors
<1>4. /\ deeper \in Seq(GrayNodes) /\ Len(deeper) = d + 1
      /\ \A k \in 1..d : deeper[k] = rest[k]
      /\ deeper[d + 1] = new
  <2> HIDE DEF rest, new
  <2> QED
    BY <1>2, <1>3, AppendProperties
<1>5. new.node = v /\ new.edges = Successors(g, v)
  OBVIOUS
<1>6. Edge(g, path[d].node, v)
  <2>1. e \in Successors(g, path[d].node)
    BY <1>1 DEF OnPath, GrayAt
  <2> QED
    BY <2>1, ShapeFacts DEF Successors, Edge
<1>7. ASSUME NEW k \in 1..d PROVE GrayAt(g, deeper, black, k)
  <2> HIDE DEF rest, new, deeper
  <2>1. GrayAt(g, path, black, k) /\ deeper[k].node = path[k].node
    BY <1>2, <1>4 DEF OnPath
  <2>2. CASE k < d
    <3>1. /\ k + 1 \in 1..d /\ deeper[k].edges = path[k].edges
          /\ deeper[k + 1].node = path[k + 1].node
      BY <2>2, <1>1, <1>2, <1>4
    <3> QED
      BY <2>1, <2>2, <3>1, <1>1, <1>4 DEF GrayAt
  <2>3. CASE k = d
    <3>1. deeper[k].edges = path[k].edges \ {e} /\ deeper[k + 1].node = v
      BY <2>3, <1>1, <1>2, <1>4, <1>5
    <3> QED
      BY <2>1, <2>3, <3>1, <1>1, <1>4, <1>6 DEF GrayAt
  <2> QED
    BY <2>2, <2>3, <1>1
<1>8. GrayAt(g, deeper, black, d + 1)
  <2> HIDE DEF rest, new, deeper
  <2> QED
    BY <1>1, <1>4, <1>5 DEF GrayAt
<1>9. \A j, k \in 1..Len(deeper) : deeper[j].node = deeper[k].node => j = k
  <2> HIDE DEF rest, new, deeper
  <2>1. \A k \in 1..d : deeper[k].node = path[k].node
    BY <1>2, <1>4
  <2>2. deeper[d + 1].node = v
    BY <1>4, <1>5
  <2> QED
    BY <2>1, <2>2, <1>1, <1>4 DEF OnPath
<1> QED
  <2> HIDE DEF rest, new, deeper
  <2>1. OnPath(g, deeper, black)
    BY <1>1, <1>4, <1>7, <1>8, <1>9 DEF OnPath
  <2> QED
    BY <2>1, <1>4 DEF deeper, rest, new

(* The deepest node without edges left is taken off and made black. *)
LEMMA PathBack ==
  ASSUME NEW g, Shape(g), NEW black, Searched(g, black),
         NEW path \in Seq(GrayNodes), path # <<>>, OnPath(g, path, black),
         path[Len(path)].edges = {}
  PROVE  LET rest == SubSeq(path, 1, Len(path) - 1)
             more == black \cup {path[Len(path)].node}
         IN  /\ rest \in Seq(GrayNodes) /\ OnPath(g, rest, more)
             /\ Searched(g, more)
<1> DEFINE rest == SubSeq(path, 1, Len(path) - 1)
           d == Len(path)
           n == path[d].node
           more == black \cup {n}
<1>1. d \in Nat /\ d \in 1..Len(path) /\ \A k \in 1..d : path[k] \in GrayNodes
  BY EmptySeq, ElementOfSeq
<1>2. /\ rest \in Seq(GrayNodes) /\ Len(rest) = d - 1
      /\ \A k \in 1..(d - 1) : rest[k] = path[k]
  BY Front
<1>3. GrayAt(g, path, black, d)
  BY <1>1 DEF OnPath
<1>4. Searched(g, more)
  <2>1. n \in NodeSet(g) \ black
    BY <1>3 DEF GrayAt
  <2>2. \A e \in Successors(g, n) : g.edges[e][2] \in black
    BY <1>3, <1>1 DEF GrayAt
  <2> QED
    BY <2>1, <2>2, Blacken
<1>5. ASSUME NEW k \in 1..(d - 1) PROVE GrayAt(g, rest, more, k)
  <2> HIDE DEF rest
  <2>1. GrayAt(g, path, black, k) /\ rest[k] = path[k] /\ k \in 1..d
    BY <1>1, <1>2 DEF OnPath
  <2>2. path[k].node # n
    BY <1>1, <2>1 DEF OnPath
  <2>3. CASE k < d - 1
    <3>1. rest[k + 1] = path[k + 1]
      BY <2>3, <1>1, <1>2
    <3> QED
      BY <2>1, <2>2, <2>3, <3>1, <1>1, <1>2 DEF GrayAt
  <2>4. CASE k = d - 1
    <3>1. path[k + 1].node = n
      BY <2>4, <1>1
    <3> QED
      BY <2>1, <2>2, <2>4, <3>1, <1>1, <1>2 DEF GrayAt
  <2> QED
    BY <2>3, <2>4, <1>1
<1>6. \A j, k \in 1..Len(rest) : rest[j].node = rest[k].node => j = k
  <2> HIDE DEF rest
  <2> QED
    BY <1>1, <1>2 DEF OnPath
<1> QED
  <2> HIDE DEF rest, more
  <2>1. OnPath(g, rest, more)
    BY <1>1, <1>2, <1>5, <1>6 DEF OnPath
  <2> QED
    BY <2>1, <1>2, <1>4 DEF rest, more

-----------------------------------------------------------------------------
(* detect_cycle: what it reports. *)

(* The end of a sequence from its i-th member on. *)
LEMMA Ending ==
  ASSUME NEW S, NEW s \in Seq(S), NEW i \in 1..Len(s)
  PROVE  LET t == SubSeq(s, i, Len(s))
         IN  /\ t \in Seq(S) /\ Len(t) = Len(s) - i + 1
             /\ \A k \in 1..(Len(s) - i + 1) : t[k] = s[i + k - 1]
<1> DEFINE d == Len(s)
<1>1. d \in Nat /\ d \in Int /\ i \in Int /\ i <= d
  BY LenProperties
<1>2. \A k \in i..d : s[k] \in S
  <2> SUFFICES ASSUME NEW k \in i..d PROVE s[k] \in S
    OBVIOUS
  <2>1. k \in 1..Len(s)
    BY <1>1
  <2> QED
    BY <2>1, ElementOfSeq
<1> HIDE DEF d
<1>3. /\ SubSeq(s, i, d) \in Seq(S)
      /\ Len(SubSeq(s, i, d)) = IF i <= d THEN d - i + 1 ELSE 0
      /\ \A k \in 1..(d - i + 1) : SubSeq(s, i, d)[k] = s[i + k - 1]
  BY <1>1, <1>2, SubSeqProperties
<1> QED
  BY <1>1, <1>3 DEF d

(* An edge of the deepest node to a gray one closes a walk along edges.    *)
LEMMA ClosedWalk ==
  ASSUME NEW g, Shape(g), NEW black,
         NEW path \in Seq(GrayNodes), path # <<>>, OnPath(g, path, black),
         NEW e \in path[Len(path)].edges,
         \E k \in 1..Len(path) : path[k].node = g.edges[e][2]
  PROVE  LET v == g.edges[e][2]
             names == [k \in DOMAIN path |-> path[k].node]
             k == CHOOSE k \in DOMAIN names : names[k] = v
             c == Append(SubSeq(names, k, Len(names)), v)
         IN  /\ Cyclic(g)
             /\ c[1] = c[Len(c)] /\ Len(c) > 1
             /\ \A j \in 1..(Len(c) - 1) : Edge(g, c[j], c[j + 1])
<1> DEFINE v == g.edges[e][2]
           d == Len(path)
           names == [k \in DOMAIN path |-> path[k].node]
           i == CHOOSE k \in DOMAIN names : names[k] = v
           part == SubSeq(names, i, Len(names))
           c == Append(part, v)
<1>1. /\ d \in Nat /\ d \in 1..d /\ DOMAIN path = 1..d
      /\ \A k \in 1..d : path[k] \in GrayNodes /\ path[k].node \in Nodes
  <2>1. \A k \in 1..d : path[k] \in GrayNodes
    BY ElementOfSeq
  <2> QED
    BY <2>1, EmptySeq, LenProperties DEF GrayNodes
<1>2. names \in Seq(Nodes) /\ Len(names) = d /\ DOMAIN names = 1..d
  <2>1. names \in [1..d -> Nodes]
    BY <1>1
  <2> HIDE DEF names
  <2> QED
    BY <1>1, <2>1
<1>3. i \in 1..d /\ names[i] = v
  <2>1. \E k \in DOMAIN names : names[k] = v
    BY <1>1
  <2> HIDE DEF names
  <2> QED
    BY <1>2, <2>1
<1>4. v \in Nodes
  BY <1>1, <1>3
<1>5. /\ part \in Seq(Nodes) /\ Len(part) = d - i + 1
      /\ \A k \in 1..(d - i + 1) : part[k] = names[i + k - 1]
  <2> HIDE DEF names, i
  <2> QED
    BY <1>2, <1>3, Ending
<1>6. /\ Len(c) = d - i + 2
      /\ \A k \in 1..(d - i + 1) : c[k] = names[i + k - 1]
      /\ c[d - i + 2] = v
  <2> HIDE DEF names, i, part, v
  <2>1. Len(part) + 1 = d - i + 2
    BY <1>1, <1>3, <1>5
  <2> QED
    BY <1>4, <1>5, <2>1, AppendProperties
<1>7. ASSUME NEW k \in 1..d, k < d PROVE Edge(g, names[k], names[k + 1])
  BY <1>1, <1>7 DEF OnPath, GrayAt
<1>8. Edge(g, names[d], v)
  <2>1. e \in Successors(g, path[d].node)
    BY <1>1 DEF OnPath, GrayAt
  <2> QED
    BY <2>1, <1>1, ShapeFacts DEF Successors, Edge
<1>9. \A j \in 1..(Len(c) - 1) : Edge(g, c[j], c[j + 1])
  <2> SUFFICES ASSUME NEW j \in 1..(Len(c) - 1) PROVE Edge(g, c[j], c[j + 1])
    OBVIOUS
  <2> HIDE DEF names, i, part, v, c
  <2>1. j \in 1..(d - i + 1) /\ i + j - 1 \in 1..d /\ i \in Nat /\ j \in Nat
    BY <1>1, <1>3, <1>6
  <2>2. c[j] = names[i + j - 1]
    BY <1>6, <2>1
  <2>3. CASE i + j - 1 < d
    <3>1. j + 1 \in 1..(d - i + 1) /\ i + (j + 1) - 1 = (i + j - 1) + 1
      BY <2>1, <2>3, <1>1
    <3>2. c[j + 1] = names[(i + j - 1) + 1]
      BY <1>6, <3>1
    <3> QED
      BY <1>7, <2>1, <2>2, <2>3, <3>2
  <2>4. CASE i + j - 1 = d
    <3>1. j + 1 = d - i + 2
      BY <2>1, <2>4, <1>1
    <3> QED
      BY <3>1, <1>6, <1>8, <2>2, <2>4
  <2> QED
    BY <2>1, <2>3, <2>4, <1>1
<1>10. c[1] = c[Len(c)] /\ Len(c) > 1
  <2> HIDE DEF names, i, part, v, c
  <2>1. 1 \in 1..(d - i + 1) /\ i + 1 - 1 = i /\ d - i + 2 > 1
    BY <1>1, <1>3
  <2>2. c[1] = v
    BY <1>3, <1>6, <2>1
  <2>3. c[Len(c)] = v
    BY <1>6
  <2> QED
    BY <1>6, <2>1, <2>2, <2>3
<1>11. Cyclic(g)
  <2> DEFINE S == {n \in Nodes : \E k \in 1..d : i <= k /\ names[k] = n}
  <2>1. v \in S /\ S # {}
    <3> HIDE DEF names, i, v
    <3> QED
      BY <1>1, <1>3, <1>4
  <2>2. S \in SUBSET NodeSet(g)
    <3>1. \A k \in 1..d : names[k] \in NodeSet(g)
      BY <1>1 DEF OnPath, GrayAt
    <3> HIDE DEF names, i, d
    <3> QED
      BY <3>1
  <2>3. ASSUME NEW m \in S PROVE \E n \in S : Edge(g, m, n)
    <3>1. PICK k \in 1..d : i <= k /\ names[k] = m
      OBVIOUS
    <3>2. CASE k < d
      <4>1. k + 1 \in 1..d /\ i <= k + 1
        BY <3>1, <3>2, <1>1, <1>3
      <4>2. names[k + 1] \in Nodes
        BY <4>1, <1>1
      <4>3. names[k + 1] \in S
        <5> HIDE DEF names, i
        <5> QED
          BY <4>1, <4>2
      <4> QED
        BY <4>3, <3>1, <3>2, <1>7
    <3>3. CASE k = d
      BY <3>1, <3>3, <2>1, <1>8
    <3> HIDE DEF S, d
    <3>4. k < d \/ k = d
      BY <1>1
    <3> QED
      BY <3>2, <3>3, <3>4
  <2> HIDE DEF S
  <2> QED
    BY <2>1, <2>2, <2>3 DEF Cyclic
<1> QED
  BY <1>9, <1>10, <1>11

-----------------------------------------------------------------------------
(* The executions under way. *)

Paired == call.given = {"plan", "iface"}

(* What is true of every execution under way. *)
Good(f) ==
  LET g == Graph[f.of] IN
  /\ f \in Frames
  /\ Searched(g, f.black) /\ OnPath(g, f.path, f.black)
  /\ f.phase # "search" => (f.path = <<>> /\ ~Cyclic(g))
  /\ f.phase = "run" => ~Endless(g)
  /\ f.left \subseteq NodeSet(g)
  /\ \A n \in NodeSet(g) \ f.left : f.outputs[n] # <<Absent>>
  /\ \A n \in Nodes : f.outputs[n] # <<Absent>> => f.last = "PASS"

FramesInv ==
  /\ frames \in Seq(Frames)
  /\ \A k \in 1..Len(frames) :
       /\ Good(frames[k])
       /\ frames[k].phase = "run" => Paired
       /\ k > 1 => frames[k].place # <<>>
  /\ frames # <<>> <=> result.status = "none"

LEMMA FrameFacts ==
  ASSUME FramesInv, frames # <<>>
  PROVE  /\ depth \in Nat /\ depth \in 1..Len(frames) /\ depth = Len(frames)
         /\ frame \in Frames /\ Good(frame) /\ Shape(graph)
         /\ frame.phase = "run" => Paired
         /\ depth > 1 => frame.place # <<>>
         /\ result.status = "none"
<1>1. depth \in Nat /\ depth \in 1..Len(frames) /\ depth = Len(frames)
  BY EmptySeq DEF FramesInv, depth
<1>2. frame \in Frames /\ Good(frame)
  BY <1>1 DEF FramesInv, frame, Good
<1>3. Shape(graph)
  BY <1>2, CompositeAssumption DEF Frames, graph
<1> QED
  BY <1>1, <1>2, <1>3 DEF FramesInv, frame

(* The innermost execution goes on. *)
LEMMA BecomesKeeps ==
  ASSUME FramesInv, frames # <<>>, NEW f, Good(f), f.place = frame.place,
         f.phase = "run" => Paired, Becomes(f), UNCHANGED call
  PROVE  FramesInv'
<1>1. depth \in 1..Len(frames) /\ f \in Frames /\ (depth > 1 => f.place # <<>>)
  BY FrameFacts DEF Good
<1>2. /\ frames' \in Seq(Frames) /\ Len(frames') = Len(frames)
      /\ \A k \in 1..Len(frames) : frames'[k] = IF k = depth THEN f ELSE frames[k]
  <2>1. frames' = [frames EXCEPT ![depth] = f] /\ frames \in Seq(Frames)
    BY DEF Becomes, FramesInv
  <2> QED
    BY <1>1, <2>1, ExceptSeq
<1>3. frames' # <<>> /\ result' = result /\ Paired' = Paired
  BY <1>2, FrameFacts DEF Becomes, Paired
<1>4. ASSUME NEW k \in 1..Len(frames')
      PROVE  /\ Good(frames'[k])
             /\ frames'[k].phase = "run" => Paired'
             /\ k > 1 => frames'[k].place # <<>>
  <2>1. CASE k = depth
    BY <1>1, <1>2, <1>3, <2>1
  <2>2. CASE k # depth
    BY <1>2, <1>3, <2>2 DEF FramesInv
  <2> QED
    BY <2>1, <2>2
<1> QED
  BY <1>2, <1>3, <1>4, FrameFacts DEF FramesInv

LEMMA EndsKeeps ==
  ASSUME NEW status, NEW data, NEW cycle, status # "none",
         Ends(status, data, cycle)
  PROVE  FramesInv'
<1>1. frames' = <<>> /\ result'.status = status
  BY DEF Ends
<1>2. frames' \in Seq(Frames) /\ Len(frames') = 0
  BY <1>1, EmptySeq
<1> QED
  BY <1>1, <1>2 DEF FramesInv

(* A new execution: nothing is searched, all nodes are left. *)
LEMMA FrameIsGood ==
  ASSUME NEW c \in Composites, NEW place \in Seq(Nodes), NEW input \in Values
  PROVE  /\ Good(Frame(c, place, input))
         /\ Frame(c, place, input).place = place
         /\ Frame(c, place, input).phase = "search"
<1> DEFINE f == Frame(c, place, input)
<1>1. Shape(Graph[c])
  BY CompositeAssumption
<1>2. /\ f.of = c /\ f.place = place /\ f.phase = "search" /\ f.path = <<>>
      /\ f.black = {} /\ f.left = NodeSet(Graph[c])
      /\ f.outputs = [n \in Nodes |-> <<Absent>>]
  BY DEF Frame
<1>3. f \in Frames
  <2>1. NodeSet(Graph[c]) \in SUBSET Nodes
    BY <1>1, ShapeFacts
  <2>2. <<>> \in Seq(GrayNodes)
    BY EmptySeq
  <2>3. [n \in Nodes |-> <<Absent>>] \in [Nodes -> Values \cup {<<Absent>>}]
    OBVIOUS
  <2> QED
    BY <2>1, <2>2, <2>3 DEF Frame, Frames
<1>4. Searched(Graph[c], {}) /\ OnPath(Graph[c], <<>>, {})
  BY DEF Searched, OnPath
<1> QED
  <2> HIDE DEF f
  <2> QED
    BY <1>2, <1>3, <1>4 DEF Good, f

LEMMA SearchFromKeeps ==
  ASSUME FramesInv, SearchFrom
  PROVE  FramesInv'
<1> DEFINE white == {k \in DOMAIN graph.nodes : graph.nodes[k] \notin frame.black}
           n == graph.nodes[Least(white)]
           entered == [frame EXCEPT !.path = <<Enter(n)>>]
           done == [frame EXCEPT !.phase = "gate"]
<1>1. /\ frames # <<>> /\ frame.phase = "search" /\ frame.path = <<>>
      /\ UNCHANGED call
      /\ Becomes(IF white = {} THEN done ELSE entered)
  BY DEF SearchFrom, Searching
<1>2. Good(frame) /\ frame \in Frames /\ Shape(graph) /\ graph = Graph[frame.of]
  BY <1>1, FrameFacts DEF graph
<1>3. CASE white = {}
  <2>1. NodeSet(graph) \subseteq frame.black
    BY <1>3 DEF NodeSet
  <2>2. ~Cyclic(graph)
    BY <1>2, <2>1, AllBlack DEF Good
  <2>3. Good(done) /\ done.place = frame.place /\ done.phase # "run"
    BY <1>1, <1>2, <2>2 DEF Good, Frames
  <2>4. Becomes(done)
    BY <1>1, <1>3
  <2> HIDE DEF done
  <2> QED
    BY <1>1, <2>3, <2>4, BecomesKeeps
<1>4. CASE white # {}
  <2>1. Least(white) \in white
    <3>1. white \in SUBSET Nat
      BY <1>2, ShapeFacts
    <3> HIDE DEF white
    <3> QED
      BY <1>4, <3>1, LeastMember
  <2>2. n \in NodeSet(graph) \ frame.black
    BY <2>1 DEF NodeSet
  <2>3. <<Enter(n)>> \in Seq(GrayNodes) /\ OnPath(graph, <<Enter(n)>>, frame.black)
    <3> HIDE DEF n
    <3> QED
      BY <1>2, <2>2, PathOfOne DEF Enter
  <2>4. Good(entered) /\ entered.place = frame.place /\ entered.phase # "run"
    <3> HIDE DEF n
    <3> QED
      BY <1>1, <1>2, <2>3 DEF Good, Frames
  <2>5. Becomes(entered)
    BY <1>1, <1>4
  <2> HIDE DEF entered
  <2> QED
    BY <1>1, <2>4, <2>5, BecomesKeeps
<1> QED
  BY <1>3, <1>4

(* What SearchEdge has before it. *)
LEMMA EdgeFacts ==
  ASSUME FramesInv, frames # <<>>, frame.path # <<>>, Deepest.edges # {}
  PROVE  /\ Least(Deepest.edges) \in Deepest.edges
         /\ Deepest = frame.path[Len(frame.path)]
         /\ Good(frame) /\ frame \in Frames /\ Shape(graph)
         /\ graph = Graph[frame.of]
         /\ frame.path \in Seq(GrayNodes) /\ OnPath(graph, frame.path, frame.black)
         /\ DOMAIN frame.path = 1..Len(frame.path)
<1>1. /\ Good(frame) /\ frame \in Frames /\ Shape(graph)
      /\ graph = Graph[frame.of]
      /\ Deepest = frame.path[Len(frame.path)]
  BY FrameFacts DEF graph, Deepest
<1>2. frame.path \in Seq(GrayNodes) /\ OnPath(graph, frame.path, frame.black)
  BY <1>1 DEF Good, Frames
<1>3. Deepest \in GrayNodes
  BY <1>1, <1>2, EmptySeq, ElementOfSeq
<1>4. Deepest.edges \in SUBSET Nat
  BY <1>3 DEF GrayNodes
<1>5. Least(Deepest.edges) \in Deepest.edges
  BY <1>4, LeastMember
<1> QED
  BY <1>1, <1>2, <1>5, LenProperties

LEMMA SearchEdgeKeeps ==
  ASSUME FramesInv, SearchEdge
  PROVE  FramesInv'
<1> DEFINE e == Least(Deepest.edges)
           v == graph.edges[e][2]
           rest == [frame.path EXCEPT ![Len(frame.path)].edges = @ \ {e}]
           deeper == Append(rest, Enter(v))
           past == [frame EXCEPT !.path = rest]
           down == [frame EXCEPT !.path = deeper]
<1>1. /\ frames # <<>> /\ frame.phase = "search" /\ frame.path # <<>>
      /\ Deepest.edges # {} /\ UNCHANGED call
  BY DEF SearchEdge, Searching
<1>2. /\ e \in frame.path[Len(frame.path)].edges
      /\ Good(frame) /\ frame \in Frames /\ Shape(graph)
      /\ graph = Graph[frame.of]
      /\ frame.path \in Seq(GrayNodes) /\ OnPath(graph, frame.path, frame.black)
      /\ DOMAIN frame.path = 1..Len(frame.path)
  BY <1>1, EdgeFacts
<1>3. CASE \/ v \in Gray
           \/ v \notin NodeSet(graph)
  <2>1. \E cycle : Ends("raised", <<Absent>>, cycle)
    BY <1>3 DEF SearchEdge
  <2> QED
    BY <2>1, EndsKeeps
<1>4. CASE v \notin Gray /\ v \in NodeSet(graph) /\ v \in frame.black
  <2>1. Becomes(past)
    BY <1>4 DEF SearchEdge
  <2>2. rest \in Seq(GrayNodes) /\ OnPath(graph, rest, frame.black)
    <3> HIDE DEF e
    <3> QED
      BY <1>1, <1>2, <1>4, PathPastBlack
  <2>3. Good(past) /\ past.place = frame.place /\ past.phase # "run"
    <3> HIDE DEF rest
    <3> QED
      BY <1>1, <1>2, <2>2 DEF Good, Frames
  <2> HIDE DEF past
  <2> QED
    BY <1>1, <2>1, <2>3, BecomesKeeps
<1>5. CASE v \notin Gray /\ v \in NodeSet(graph) /\ v \notin frame.black
  <2>1. Becomes(down)
    BY <1>5 DEF SearchEdge
  <2>2. \A k \in 1..Len(frame.path) : frame.path[k].node # v
    BY <1>2, <1>5 DEF Gray
  <2>3. deeper \in Seq(GrayNodes) /\ OnPath(graph, deeper, frame.black)
    <3> HIDE DEF e
    <3> QED
      BY <1>1, <1>2, <1>5, <2>2, PathDeeper DEF Enter
  <2>4. Good(down) /\ down.place = frame.place /\ down.phase # "run"
    <3> HIDE DEF deeper
    <3> QED
      BY <1>1, <1>2, <2>3 DEF Good, Frames
  <2> HIDE DEF down
  <2> QED
    BY <1>1, <2>1, <2>4, BecomesKeeps
<1> QED
  BY <1>3, <1>4, <1>5

LEMMA SearchBackKeeps ==
  ASSUME FramesInv, SearchBack
  PROVE  FramesInv'
<1> DEFINE n == Deepest.node
           rest == SubSeq(frame.path, 1, Len(frame.path) - 1)
           more == frame.black \cup {n}
           back == [frame EXCEPT !.black = more, !.path = rest]
<1>1. /\ frames # <<>> /\ frame.phase = "search" /\ frame.path # <<>>
      /\ Deepest.edges = {} /\ UNCHANGED call
  BY DEF SearchBack, Searching
<1>2. Becomes(back)
  BY DEF SearchBack
<1>3. /\ Good(frame) /\ frame \in Frames /\ Shape(graph)
      /\ graph = Graph[frame.of] /\ Deepest = frame.path[Len(frame.path)]
  BY <1>1, FrameFacts DEF graph, Deepest
<1>4. /\ frame.path \in Seq(GrayNodes) /\ OnPath(graph, frame.path, frame.black)
      /\ Searched(graph, frame.black)
  BY <1>3 DEF Good, Frames
<1>5. /\ rest \in Seq(GrayNodes) /\ OnPath(graph, rest, more)
      /\ Searched(graph, more)
  BY <1>1, <1>3, <1>4, PathBack
<1>6. more \in SUBSET Nodes
  BY <1>3, <1>5, ShapeFacts DEF Searched
<1>7. Good(back) /\ back.place = frame.place /\ back.phase # "run"
  <2> HIDE DEF more, rest
  <2> QED
    BY <1>1, <1>3, <1>5, <1>6 DEF Good, Frames
<1> HIDE DEF back
<1> QED
  BY <1>1, <1>2, <1>7, BecomesKeeps

LEMMA RequirePairKeeps ==
  ASSUME FramesInv, RequirePair
  PROVE  FramesInv'
<1> DEFINE runs == [frame EXCEPT !.phase = "run"]
<1>1. frames # <<>> /\ frame.phase = "gate" /\ UNCHANGED call
  BY DEF RequirePair
<1>2. Good(frame) /\ frame \in Frames /\ graph = Graph[frame.of]
  BY <1>1, FrameFacts DEF graph
<1>3. CASE call.given # {"plan", "iface"} \/ Endless(graph)
  <2>1. \E status \in {"SKIPPED", "raised"} : Ends(status, <<Absent>>, <<>>)
    BY <1>3 DEF RequirePair
  <2> QED
    BY <2>1, EndsKeeps
<1>4. CASE call.given = {"plan", "iface"} /\ ~Endless(graph)
  <2>1. Becomes(runs)
    BY <1>4 DEF RequirePair
  <2>2. Good(runs) /\ runs.place = frame.place
    BY <1>1, <1>2, <1>4 DEF Good, Frames
  <2> HIDE DEF runs
  <2> QED
    BY <1>1, <1>4, <2>1, <2>2, BecomesKeeps DEF Paired
<1> QED
  BY <1>3, <1>4

LEMMA ValuesAreThere ==
  /\ \A v \in Values : v # <<Absent>>
  /\ \A v \in Values, s \in Scripts : Append(v, s) \in Values
<1>1. ASSUME NEW v \in Values, v = <<Absent>> PROVE FALSE
  <2>1. <<Absent>> \in Seq(Scripts) /\ 1 \in 1..Len(<<Absent>>)
    BY <1>1 DEF Values
  <2>2. <<Absent>>[1] \in Scripts
    BY <2>1, ElementOfSeq
  <2> QED
    BY <2>2, CompositeAssumption
<1> QED
  BY <1>1, AppendProperties DEF Values

(* The node execute is at, its modules and its input. *)
LEMMA CurrentFacts ==
  ASSUME FramesInv, Executing
  PROVE  /\ Good(frame) /\ frame \in Frames /\ Shape(graph)
         /\ graph = Graph[frame.of]
         /\ current \in frame.left /\ current \in NodeSet(graph)
         /\ current \in Nodes
         /\ \A e \in Predecessors(graph, current) :
              graph.edges[e][1] \notin frame.left
         /\ graph.script[current] \in Scripts
         /\ graph.inner[current] \in Composites
         /\ Input(current) \in Values \cup {<<Absent>>}
<1>1. frames # <<>> /\ frame.phase = "run" /\ frame.left # {}
  BY DEF Executing
<1>2. /\ Good(frame) /\ frame \in Frames /\ Shape(graph)
      /\ graph = Graph[frame.of]
  BY <1>1, FrameFacts DEF graph
<1>3. /\ ~Endless(graph) /\ frame.left \subseteq NodeSet(graph)
      /\ frame.input \in Values
      /\ frame.outputs \in [Nodes -> Values \cup {<<Absent>>}]
  BY <1>1, <1>2 DEF Good, Frames
<1>4. /\ current \in frame.left
      /\ \A e \in Predecessors(graph, current) :
           graph.edges[e][1] \notin frame.left
  BY <1>1, <1>2, <1>3, FirstIsReady DEF current
<1>5. current \in NodeSet(graph) /\ current \in Nodes
  BY <1>2, <1>3, <1>4, ShapeFacts
<1>6. graph.script[current] \in Scripts /\ graph.inner[current] \in Composites
  BY <1>2, <1>5 DEF Shape
<1>7. Input(current) \in Values \cup {<<Absent>>}
  <2> DEFINE preds == Predecessors(graph, current)
  <2>1. CASE preds = {}
    BY <2>1, <1>3 DEF Input
  <2>2. CASE preds # {} /\ preds = {Least(preds)}
    <3>1. Least(preds) \in DOMAIN graph.edges
      BY <2>2 DEF Predecessors
    <3>2. graph.edges[Least(preds)][1] \in Nodes
      BY <3>1, <1>2, ShapeFacts
    <3>3. Input(current) = frame.outputs[graph.edges[Least(preds)][1]]
      BY <2>2 DEF Input
    <3> QED
      BY <3>2, <3>3, <1>3
  <2>3. CASE preds # {} /\ preds # {Least(preds)}
    BY <2>3 DEF Input
  <2> QED
    BY <2>1, <2>2, <2>3
<1> QED
  BY <1>2, <1>4, <1>5, <1>6, <1>7

(* A node's data are there, and the node is not left. *)
LEMMA NodeIsDone ==
  ASSUME NEW f, Good(f), NEW n \in Nodes, NEW data \in Values
  PROVE  LET done == [f EXCEPT !.left = @ \ {n}, !.outputs[n] = data,
                               !.last = "PASS"]
         IN  Good(done) /\ done.place = f.place /\ done.phase = f.phase
<1> DEFINE done == [f EXCEPT !.left = @ \ {n}, !.outputs[n] = data,
                             !.last = "PASS"]
           out == [f.outputs EXCEPT ![n] = data]
           g == Graph[f.of]
<1>1. f \in Frames
  BY DEF Good
<1>2. /\ done \in Frames
      /\ done.of = f.of /\ done.place = f.place /\ done.phase = f.phase
      /\ done.path = f.path /\ done.black = f.black
      /\ done.left = f.left \ {n} /\ done.outputs = out /\ done.last = "PASS"
  <2>1. out \in [Nodes -> Values \cup {<<Absent>>}]
    BY <1>1 DEF Frames
  <2>2. done = [f EXCEPT !.left = f.left \ {n}, !.outputs = out, !.last = "PASS"]
    OBVIOUS
  <2> HIDE DEF out
  <2> QED
    BY <1>1, <2>1, <2>2 DEF Frames
<1>3. ASSUME NEW m \in NodeSet(g) \ (f.left \ {n}) PROVE out[m] # <<Absent>>
  <2>1. m \in Nodes
    BY <1>1, CompositeAssumption, ShapeFacts DEF Frames
  <2>2. CASE m = n
    BY <1>1, <2>1, <2>2, ValuesAreThere DEF Frames
  <2>3. CASE m # n
    BY <1>1, <1>3, <2>1, <2>3 DEF Good, Frames
  <2> QED
    BY <2>2, <2>3
<1> QED
  <2> HIDE DEF done, out
  <2>1. Good(done)
    BY <1>2, <1>3 DEF Good
  <2> QED
    BY <2>1, <1>2 DEF done

LEMMA PassesKeeps ==
  ASSUME FramesInv, Executing, NEW n \in Nodes, NEW status \in Outcomes,
         NEW data \in Values, Passes(n, status, data), UNCHANGED call
  PROVE  FramesInv'
<1>1. Good(frame) /\ frames # <<>> /\ frame.phase = "run" /\ Paired
  BY CurrentFacts, FrameFacts DEF Executing
<1>2. CASE status = "PASS"
  <2> DEFINE done == [frame EXCEPT !.left = @ \ {n}, !.outputs[n] = data,
                                   !.last = "PASS"]
  <2>1. Becomes(done)
    BY <1>2 DEF Passes
  <2>2. Good(done) /\ done.place = frame.place
    BY <1>1, NodeIsDone
  <2> HIDE DEF done
  <2> QED
    BY <1>1, <2>1, <2>2, BecomesKeeps
<1>3. CASE status # "PASS"
  <2>1. \E out : Ends(status, out, <<>>)
    BY <1>3 DEF Passes
  <2>2. status # "none"
    BY DEF Outcomes
  <2> QED
    BY <2>1, <2>2, EndsKeeps
<1> QED
  BY <1>2, <1>3

LEMMA RunLeafKeeps ==
  ASSUME FramesInv, RunLeaf
  PROVE  FramesInv'
<1>1. Executing /\ Input(current) # <<Absent>> /\ UNCHANGED call
  BY DEF RunLeaf, Runs, AtLeaf
<1>2. /\ current \in Nodes /\ graph.script[current] \in Scripts
      /\ Input(current) \in Values
  BY <1>1, CurrentFacts
<1>3. Append(Input(current), graph.script[current]) \in Values
  BY <1>2, ValuesAreThere
<1>4. PICK status \in Outcomes :
        Passes(current, status, Append(Input(current), graph.script[current]))
  BY DEF RunLeaf
<1> QED
  BY <1>1, <1>2, <1>3, <1>4, PassesKeeps

LEMMA EnterCompositeKeeps ==
  ASSUME FramesInv, EnterComposite
  PROVE  FramesInv'
<1> DEFINE place == Append(frame.place, current)
           new == Frame(graph.inner[current], place, Input(current))
<1>1. /\ Executing /\ Input(current) # <<Absent>> /\ UNCHANGED <<call, result>>
      /\ frames' = Append(frames, new)
  BY DEF EnterComposite
<1>2. /\ current \in Nodes /\ graph.inner[current] \in Composites
      /\ Input(current) \in Values /\ frame.place \in Seq(Nodes)
  BY <1>1, CurrentFacts DEF Frames
<1>3. place \in Seq(Nodes) /\ place # <<>>
  BY <1>2, AppendProperties
<1>4. Good(new) /\ new.place # <<>> /\ new.phase # "run" /\ new \in Frames
  <2> HIDE DEF place
  <2>1. Good(new) /\ new.place = place /\ new.phase = "search"
    BY <1>2, <1>3, FrameIsGood
  <2> QED
    BY <2>1, <1>3 DEF Good
<1> HIDE DEF new
<1>5. frames \in Seq(Frames) /\ frames # <<>> /\ Len(frames) \in Nat
  BY <1>1, LenProperties DEF FramesInv, Executing
<1>6. /\ frames' \in Seq(Frames) /\ frames' # <<>>
      /\ Len(frames') = Len(frames) + 1
      /\ \A k \in 1..Len(frames) : frames'[k] = frames[k]
      /\ frames'[Len(frames) + 1] = new
  BY <1>1, <1>4, <1>5, AppendProperties
<1>7. ASSUME NEW k \in 1..Len(frames')
      PROVE  /\ Good(frames'[k])
             /\ frames'[k].phase = "run" => Paired'
             /\ k > 1 => frames'[k].place # <<>>
  <2>1. Paired' = Paired
    BY <1>1 DEF Paired
  <2>2. CASE k \in 1..Len(frames)
    BY <1>6, <2>1, <2>2 DEF FramesInv
  <2>3. CASE k = Len(frames) + 1
    BY <1>4, <1>6, <2>3
  <2> QED
    BY <1>5, <1>6, <2>2, <2>3
<1>8. result'.status = "none"
  BY <1>1, <1>5 DEF FramesInv
<1> QED
  BY <1>6, <1>7, <1>8 DEF FramesInv

LEMMA ReturnKeeps ==
  ASSUME FramesInv, Return
  PROVE  FramesInv'
<1> DEFINE data == frame.outputs[graph.output]
           node == frame.place[Len(frame.place)]
           front == SubSeq(frames, 1, depth - 1)
<1>1. frames # <<>> /\ frame.phase = "run" /\ frame.left = {} /\ UNCHANGED call
  BY DEF Return
<1>2. /\ Good(frame) /\ frame \in Frames /\ Shape(graph)
      /\ depth \in Nat /\ depth = Len(frames) /\ depth \in 1..Len(frames)
      /\ frames \in Seq(Frames)
  BY <1>1, FrameFacts DEF FramesInv
<1>3. data \in Values \cup {<<Absent>>} /\ (data # <<Absent>> => frame.last = "PASS")
  <2>1. graph.output \in Nodes
    BY <1>2 DEF Shape
  <2> QED
    BY <1>2, <2>1 DEF Good, Frames
<1>4. CASE data = <<Absent>>
  <2>1. Ends("raised", data, <<>>)
    BY <1>4 DEF Return
  <2> QED
    BY <2>1, EndsKeeps
<1>5. CASE data # <<Absent>> /\ depth = 1
  <2>1. Ends(frame.last, data, <<>>)
    BY <1>5 DEF Return
  <2> QED
    BY <2>1, <1>3, <1>5, EndsKeeps
<1>6. CASE data # <<Absent>> /\ depth # 1
  <2> DEFINE f == front[depth - 1]
             done == [f EXCEPT !.left = @ \ {node}, !.outputs[node] = data,
                               !.last = "PASS"]
  <2>1. /\ UNCHANGED result
        /\ frames' = [front EXCEPT ![depth - 1].left = @ \ {node},
                                   ![depth - 1].outputs[node] = data,
                                   ![depth - 1].last = frame.last]
    BY <1>6 DEF Return
  <2>2. frame.last = "PASS" /\ data \in Values
    BY <1>3, <1>6
  <2>3. depth > 1 /\ depth - 1 \in Nat /\ depth - 1 \in 1..(depth - 1)
        /\ \A k \in 1..(depth - 1) : k \in 1..Len(frames)
    BY <1>2, <1>6
  <2>4. /\ front \in Seq(Frames) /\ Len(front) = depth - 1
        /\ \A k \in 1..(depth - 1) : front[k] = frames[k]
    BY <1>1, <1>2, Front
  <2>5. node \in Nodes
    <3>1. frame.place # <<>> /\ frame.place \in Seq(Nodes)
      BY <1>1, <1>2, <2>3, FrameFacts DEF Frames
    <3> QED
      BY <3>1, EmptySeq, ElementOfSeq
  <2>6. Good(f) /\ (f.phase = "run" => Paired) /\ f = frames[depth - 1]
    BY <2>3, <2>4 DEF FramesInv
  <2>7. Good(done) /\ done.place = f.place /\ done.phase = f.phase
    <3> HIDE DEF data, node
    <3> QED
      BY <2>2, <2>5, <2>6, NodeIsDone
  <2>8. frames' = [front EXCEPT ![depth - 1] = done]
    <3> HIDE DEF front, data, node
    <3> QED
      BY <2>1, <2>2
  <2>9. /\ frames' \in Seq(Frames) /\ Len(frames') = depth - 1
        /\ \A k \in 1..(depth - 1) :
             frames'[k] = IF k = depth - 1 THEN done ELSE front[k]
    <3>1. done \in Frames
      BY <2>7 DEF Good
    <3> HIDE DEF done, front
    <3> QED
      BY <2>3, <2>4, <2>8, <3>1, ExceptSeq
  <2>10. ASSUME NEW k \in 1..Len(frames')
         PROVE  /\ Good(frames'[k])
                /\ frames'[k].phase = "run" => Paired'
                /\ k > 1 => frames'[k].place # <<>>
    <3> HIDE DEF done, front, f
    <3>1. Paired' = Paired
      BY <1>1 DEF Paired
    <3>2. CASE k = depth - 1
      <4>1. k > 1 => f.place # <<>>
        BY <2>3, <2>6, <3>2 DEF FramesInv
      <4> QED
        BY <2>6, <2>7, <2>9, <3>1, <3>2, <4>1
    <3>3. CASE k # depth - 1
      <4>1. k \in 1..Len(frames) /\ frames'[k] = frames[k]
        BY <2>3, <2>4, <2>9, <3>3
      <4> QED
        BY <3>1, <4>1 DEF FramesInv
    <3> QED
      BY <3>2, <3>3
  <2>11. frames' # <<>> /\ result'.status = "none"
    <3> HIDE DEF done, front
    <3> QED
      BY <2>1, <2>3, <2>9, <1>1, FrameFacts
  <2> HIDE DEF done, front
  <2> QED
    BY <2>9, <2>10, <2>11 DEF FramesInv
<1> QED
  BY <1>4, <1>5, <1>6

-----------------------------------------------------------------------------
(* Types, and the gate. *)

(* What ran holds, a body that raised included. *)
Bodies ==
  [place : Seq(Nodes), script : Scripts, input : Values, status : Endings]

TypeInv ==
  /\ top \in Tops /\ call \in Calls
  /\ ran \in Seq(Bodies)
  /\ result.status \in Endings \cup {"none"}
  /\ FramesInv

LEMMA TypeInit == Init => TypeInv
<1> SUFFICES ASSUME Init PROVE TypeInv
  OBVIOUS
<1>1. top \in Composites /\ <<>> \in Seq(Nodes) /\ <<>> \in Values
  BY CompositeAssumption, EmptySeq DEF Init, Values
<1> DEFINE f == Frame(top, <<>>, <<>>)
<1>2. Good(f) /\ f.phase = "search"
  BY <1>1, FrameIsGood
<1>3. frames = <<f>> /\ result.status = "none" /\ ran = <<>>
  BY DEF Init
<1> HIDE DEF f
<1>4. f \in Frames
  BY <1>2 DEF Good
<1>5. frames \in Seq(Frames) /\ Len(frames) = 1 /\ frames[1] = f
  BY <1>3, <1>4
<1>6. FramesInv
  <2>1. ASSUME NEW k \in 1..Len(frames)
        PROVE  /\ Good(frames[k])
               /\ frames[k].phase = "run" => Paired
               /\ k > 1 => frames[k].place # <<>>
    BY <1>2, <1>5
  <2> QED
    BY <2>1, <1>3, <1>5 DEF FramesInv
<1>7. ran \in Seq(Bodies)
  BY <1>3, EmptySeq
<1> QED
  BY <1>3, <1>6, <1>7 DEF Init, TypeInv

(* A step that runs no body. *)
Quiet ==
  \/ SearchFrom \/ SearchEdge \/ SearchBack \/ RequirePair \/ NodeRaises
  \/ LeafBreaks \/ RefuseLeaf \/ EnterComposite \/ Return \/ Overflows

LEMMA QuietFrame ==
  ASSUME TypeInv, Quiet
  PROVE  /\ UNCHANGED <<top, call, observations, ran>>
         /\ frames # <<>>
         /\ FramesInv'
         /\ result'.status \in Endings \cup {"none"}
<1> USE DEF TypeInv
<1>1. CASE SearchFrom
  BY <1>1, SearchFromKeeps DEF SearchFrom, Searching, Becomes
<1>2. CASE SearchEdge
  <2>1. result'.status \in Endings \cup {"none"}
    BY <1>2 DEF SearchEdge, Becomes, Ends, Endings
  <2> QED
    BY <1>2, <2>1, SearchEdgeKeeps DEF SearchEdge, Searching
<1>3. CASE SearchBack
  BY <1>3, SearchBackKeeps DEF SearchBack, Searching, Becomes
<1>4. CASE RequirePair
  BY <1>4, RequirePairKeeps DEF RequirePair, Becomes, Ends, Outcomes, Endings
<1>5. CASE NodeRaises \/ LeafBreaks \/ Overflows
  <2>1. /\ Ends("raised", <<Absent>>, <<>>)
        /\ UNCHANGED <<top, call, observations, ran>> /\ frames # <<>>
    BY <1>5 DEF NodeRaises, LeafBreaks, Overflows, AtLeaf, Executing, Raises
  <2> QED
    BY <2>1, EndsKeeps DEF Ends, Endings
<1>6. CASE RefuseLeaf
  <2>1. /\ Ends(Gate(graph.script[current]), <<Absent>>, <<>>)
        /\ Gate(graph.script[current]) \in {"SKIPPED", "FAIL"}
    BY <1>6 DEF RefuseLeaf, Gate
  <2> QED
    BY <1>6, <2>1, EndsKeeps
    DEF RefuseLeaf, AtLeaf, Executing, Ends, Outcomes, Endings
<1>7. CASE EnterComposite
  BY <1>7, EnterCompositeKeeps DEF EnterComposite, Executing
<1>8. CASE Return
  <2>1. \/ UNCHANGED result
        \/ Ends("raised", <<Absent>>, <<>>)
        \/ /\ Ends(frame.last, frame.outputs[graph.output], <<>>)
           /\ frame.outputs[graph.output] # <<Absent>>
    BY <1>8 DEF Return
  <2>2. frame.outputs[graph.output] # <<Absent>> => frame.last = "PASS"
    <3>1. Good(frame) /\ Shape(graph) /\ graph = Graph[frame.of]
      BY <1>8, FrameFacts DEF Return, graph
    <3> QED
      BY <3>1 DEF Good, Shape
  <2>3. result'.status \in Endings \cup {"none"}
    BY <2>1, <2>2 DEF Ends, Outcomes, Endings
  <2> QED
    BY <1>8, <2>3, ReturnKeeps DEF Return
<1> QED
  BY <1>1, <1>2, <1>3, <1>4, <1>5, <1>6, <1>7, <1>8 DEF Quiet

(* A step that runs a body to a verdict. *)
LEMMA BodyFrame ==
  ASSUME TypeInv, RunLeaf
  PROVE  /\ UNCHANGED <<top, call>> /\ frames # <<>> /\ Paired
         /\ FramesInv'
         /\ Gate(graph.script[current]) = "PASS"
         /\ \E r \in Bodies :
              /\ r.script = graph.script[current]
              /\ ran' = Append(ran, r)
              /\ observations' = Append(observations, r.place)
              /\ r.status \in Outcomes
              /\ IF r.status = "PASS" THEN UNCHANGED result
                 ELSE result'.status = r.status
<1>1. Executing /\ UNCHANGED <<top, call>> /\ Gate(graph.script[current]) = "PASS"
      /\ Input(current) # <<Absent>>
  BY DEF RunLeaf, Runs, AtLeaf
<1>2. /\ current \in Nodes /\ graph.script[current] \in Scripts
      /\ Input(current) \in Values /\ frame.place \in Seq(Nodes)
  BY <1>1, CurrentFacts DEF TypeInv, Frames
<1>3. PICK status \in Outcomes :
        /\ ran' = Append(ran, [place |-> Append(frame.place, current),
                               script |-> graph.script[current],
                               input |-> Input(current), status |-> status])
        /\ observations' = Append(observations, Append(frame.place, current))
        /\ Passes(current, status, Append(Input(current), graph.script[current]))
  BY DEF RunLeaf, Runs
<1> DEFINE r == [place |-> Append(frame.place, current),
                 script |-> graph.script[current],
                 input |-> Input(current), status |-> status]
<1>4. r \in Bodies
  BY <1>2, AppendProperties DEF Bodies, Endings
<1>5. IF status = "PASS" THEN UNCHANGED result ELSE result'.status = status
  BY <1>3 DEF Passes, Becomes, Ends
<1>6. /\ r.script = graph.script[current] /\ ran' = Append(ran, r)
      /\ observations' = Append(observations, r.place) /\ r.status \in Outcomes
      /\ IF r.status = "PASS" THEN UNCHANGED result ELSE result'.status = r.status
  BY <1>3, <1>5
<1>7. frames # <<>> /\ Paired /\ FramesInv'
  BY <1>1, FrameFacts, RunLeafKeeps DEF TypeInv, Executing
<1> HIDE DEF r
<1> QED
  BY <1>1, <1>4, <1>6, <1>7

(* One whose body raises. *)
LEMMA RaiseFrame ==
  ASSUME TypeInv, BodyRaises
  PROVE  /\ UNCHANGED <<top, call, observations>> /\ frames # <<>> /\ Paired
         /\ FramesInv' /\ frames' = <<>> /\ result'.status = "raised"
         /\ Gate(graph.script[current]) = "PASS"
         /\ \E r \in Bodies : /\ r.script = graph.script[current]
                            /\ ran' = Append(ran, r)
<1>1. /\ Executing /\ UNCHANGED <<top, call, observations>>
      /\ Gate(graph.script[current]) = "PASS" /\ Input(current) # <<Absent>>
      /\ Ends("raised", <<Absent>>, <<>>)
  BY DEF BodyRaises, Runs, AtLeaf
<1>2. /\ current \in Nodes /\ graph.script[current] \in Scripts
      /\ Input(current) \in Values /\ frame.place \in Seq(Nodes)
  BY <1>1, CurrentFacts DEF TypeInv, Frames
<1> DEFINE r == [place |-> Append(frame.place, current),
                 script |-> graph.script[current],
                 input |-> Input(current), status |-> "raised"]
<1>3. r \in Bodies
  BY <1>2, AppendProperties DEF Bodies, Endings
<1>4. ran' = Append(ran, r) /\ r.script = graph.script[current]
  BY DEF BodyRaises, Runs
<1> HIDE DEF r
<1>5. FramesInv'
  BY <1>1, EndsKeeps DEF TypeInv, Executing
<1>6. frames # <<>> /\ Paired
  BY <1>1, FrameFacts DEF TypeInv, Executing
<1> QED
  BY <1>1, <1>3, <1>4, <1>5, <1>6 DEF Ends

LEMMA TypeStep == TypeInv /\ [Next]_vars => TypeInv'
<1> SUFFICES ASSUME TypeInv, [Next]_vars PROVE TypeInv'
  OBVIOUS
<1>1. CASE Quiet
  BY <1>1, QuietFrame DEF TypeInv
<1>2. CASE RunLeaf
  <2>1. PICK r \in Bodies :
          /\ ran' = Append(ran, r)
          /\ IF r.status = "PASS" THEN UNCHANGED result ELSE result'.status = r.status
    BY <1>2, BodyFrame
  <2>2. ran' \in Seq(Bodies)
    BY <2>1, AppendProperties DEF TypeInv
  <2>3. result'.status \in Endings \cup {"none"}
    BY <2>1 DEF TypeInv, Bodies
  <2> QED
    BY <1>2, <2>2, <2>3, BodyFrame DEF TypeInv
<1>3. CASE BodyRaises
  <2>1. PICK r \in Bodies : ran' = Append(ran, r)
    BY <1>3, RaiseFrame
  <2>2. ran' \in Seq(Bodies)
    BY <2>1, AppendProperties DEF TypeInv
  <2> QED
    BY <1>3, <2>2, RaiseFrame DEF TypeInv, Endings
<1>4. CASE UNCHANGED vars
  BY <1>4 DEF vars, TypeInv, FramesInv, Paired
<1> QED
  BY <1>1, <1>2, <1>3, <1>4 DEF Next, Quiet

(* The strengthening of TypeOK every step keeps: each execution under way  *)
(* is Good (execute, detect_cycle).                                        *)
THEOREM CompositeTypeInvTheorem == Spec => []TypeInv
  BY TypeInit, TypeStep, PTL DEF Spec

(* TypeOK: whatever graphs are nested, an execution is of a graph there    *)
(* is, colours and leaves its own nodes only, and its verdict is one.      *)
THEOREM CompositeTypeTheorem == Spec => []TypeOK
<1>1. TypeInv => TypeOK
  <2> SUFFICES ASSUME TypeInv PROVE TypeOK
    OBVIOUS
  <2>1. ASSUME NEW k \in DOMAIN frames
        PROVE  /\ frames[k].of \in Composites
               /\ frames[k].phase \in {"search", "gate", "run"}
               /\ frames[k].black \subseteq NodeSet(Graph[frames[k].of])
               /\ frames[k].left \subseteq NodeSet(Graph[frames[k].of])
               /\ frames[k].last \in Outcomes \cup {Absent}
    <3>1. Good(frames[k])
      BY LenProperties DEF TypeInv, FramesInv
    <3> QED
      BY <3>1 DEF Good, Frames, Searched, Outcomes
  <2>2. \A k \in DOMAIN ran : ran[k].script \in Scripts /\ ran[k].status \in Endings
    <3>1. \A k \in DOMAIN ran : ran[k] \in Bodies
      BY LenProperties, ElementOfSeq DEF TypeInv
    <3> QED
      BY <3>1 DEF Bodies
  <2> QED
    BY <2>1, <2>2 DEF TypeInv, TypeOK
<1> QED
  BY <1>1, CompositeTypeInvTheorem, PTL

(* BodiesBound: no body runs but through the gate of its own script, and   *)
(* the arguments are those of the outermost execute to the end.            *)
THEOREM BodiesBoundTheorem == Spec => []BodiesBound
<1> DEFINE Inv == TypeInv /\ BodiesBound
<1>1. Init => Inv
  <2>1. Init => BodiesBound
    BY DEF Init, BodiesBound
  <2> QED
    BY <2>1, TypeInit
<1>2. Inv /\ [Next]_vars => Inv'
  <2> SUFFICES ASSUME TypeInv, BodiesBound, [Next]_vars PROVE BodiesBound'
    BY TypeStep
  <2>1. CASE Quiet
    BY <2>1, QuietFrame DEF BodiesBound
  <2>2. CASE RunLeaf \/ BodyRaises
    <3> DEFINE s == graph.script[current]
               Bound(x) == /\ call.given = {"plan", "iface"} /\ call.pinned /\ call.iface
                           /\ call.hashes[ScriptName[x]] = Hash[x]
                           /\ call.locals = Local[x]
    <3>1. PICK r \in Bodies : r.script = s /\ ran' = Append(ran, r)
      BY <2>2, BodyFrame, RaiseFrame
    <3>2. Bound(s)
      BY <2>2, BodyFrame, RaiseFrame DEF Gate, Paired
    <3>3. \A k \in DOMAIN ran : Bound(ran[k].script)
      BY DEF BodiesBound
    <3>4. ran \in Seq(Bodies) /\ DOMAIN ran = 1..Len(ran) /\ Len(ran) \in Nat
      BY LenProperties DEF TypeInv
    <3>5. /\ DOMAIN ran' = 1..(Len(ran) + 1)
          /\ \A k \in 1..Len(ran) : ran'[k] = ran[k]
          /\ ran'[Len(ran) + 1] = r
      BY <3>1, <3>4, AppendProperties, LenProperties
    <3>6. \A k \in DOMAIN ran' : Bound(ran'[k].script)
      <4> SUFFICES ASSUME NEW k \in DOMAIN ran' PROVE Bound(ran'[k].script)
        OBVIOUS
      <4> HIDE DEF Bound, s
      <4>1. k \in 1..Len(ran) \/ k = Len(ran) + 1
        BY <3>4, <3>5
      <4> QED
        BY <4>1, <3>1, <3>2, <3>3, <3>4, <3>5
    <3>7. call' = call
      BY <2>2, BodyFrame, RaiseFrame
    <3> QED
      BY <3>6, <3>7 DEF BodiesBound
  <2>3. CASE UNCHANGED vars
    BY <2>3 DEF vars, BodiesBound
  <2> QED
    BY <2>1, <2>2, <2>3 DEF Next, Quiet
<1> QED
  BY <1>1, <1>2, PTL DEF Spec

-----------------------------------------------------------------------------
(* Observations, cycles and raises. *)

(* Unless execute raised, with one observation per body; and while it is   *)
(* under way every body was a PASS.                                        *)
Told ==
  /\ result.status # "raised" =>
       /\ observations = [k \in DOMAIN ran |-> ran[k].place]
       /\ \A k \in 1..(Len(ran) - 1) : ran[k].status = "PASS"
  /\ result.status = "none" => \A k \in 1..Len(ran) : ran[k].status = "PASS"

LEMMA ToldStep == TypeInv /\ Told /\ [Next]_vars => Told'
<1> SUFFICES ASSUME TypeInv, Told, [Next]_vars PROVE Told'
  OBVIOUS
<1>1. CASE Quiet
  <2>1. result.status = "none" /\ UNCHANGED <<observations, ran>>
    BY <1>1, QuietFrame DEF TypeInv, FramesInv
  <2> QED
    BY <2>1 DEF Told
<1>2. CASE RunLeaf
  <2>1. PICK r \in Bodies :
          /\ ran' = Append(ran, r)
          /\ observations' = Append(observations, r.place)
          /\ r.status \in Outcomes
          /\ IF r.status = "PASS" THEN UNCHANGED result
             ELSE result'.status = r.status
    BY <1>2, BodyFrame
  <2>2. ran \in Seq(Bodies) /\ DOMAIN ran = 1..Len(ran) /\ Len(ran) \in Nat
    BY LenProperties DEF TypeInv
  <2>3. /\ Len(ran') = Len(ran) + 1 /\ DOMAIN ran' = 1..(Len(ran) + 1)
        /\ \A k \in 1..Len(ran) : ran'[k] = ran[k]
        /\ ran'[Len(ran) + 1] = r
    BY <2>1, <2>2, AppendProperties, LenProperties
  <2>4. \A k \in 1..Len(ran) : ran[k].status = "PASS"
    BY <1>2, BodyFrame DEF Told, TypeInv, FramesInv
  <2>5. \A k \in 1..(Len(ran') - 1) : ran'[k].status = "PASS"
    BY <2>2, <2>3, <2>4
  <2>6. result'.status = "none" => \A k \in 1..Len(ran') : ran'[k].status = "PASS"
    <3> SUFFICES ASSUME result'.status = "none", NEW k \in 1..Len(ran')
                 PROVE  ran'[k].status = "PASS"
      OBVIOUS
    <3>1. r.status = "PASS"
      BY <2>1 DEF Bodies, Outcomes
    <3>2. k \in 1..Len(ran) \/ k = Len(ran) + 1
      BY <2>2, <2>3
    <3> QED
      BY <3>1, <3>2, <2>3, <2>4
  <2>7. observations' = [k \in DOMAIN ran' |-> ran'[k].place]
    <3> DEFINE places == [k \in DOMAIN ran |-> ran[k].place]
               more == [k \in DOMAIN ran' |-> ran'[k].place]
    <3>1. \A k \in 1..Len(ran) : ran[k] \in Bodies
      BY <2>2, ElementOfSeq
    <3>2. places \in Seq(Seq(Nodes)) /\ Len(places) = Len(ran)
      <4>1. places \in [1..Len(ran) -> Seq(Nodes)]
        BY <2>2, <3>1 DEF Bodies
      <4> HIDE DEF places
      <4> QED
        BY <2>2, <4>1
    <3>3. r.place \in Seq(Nodes)
      BY DEF Bodies
    <3>4. more \in Seq(Seq(Nodes)) /\ Len(more) = Len(ran) + 1
      <4>1. more \in [1..(Len(ran) + 1) -> Seq(Nodes)]
        BY <2>2, <2>3, <3>1, <3>3 DEF Bodies
      <4>2. Len(ran) + 1 \in Nat
        BY <2>2
      <4> HIDE DEF more
      <4> QED
        BY <4>1, <4>2
    <3>5. /\ Append(places, r.place) \in Seq(Seq(Nodes))
          /\ Len(Append(places, r.place)) = Len(ran) + 1
          /\ \A k \in 1..Len(ran) : Append(places, r.place)[k] = places[k]
          /\ Append(places, r.place)[Len(ran) + 1] = r.place
      <4> HIDE DEF places
      <4> QED
        BY <3>2, <3>3, AppendProperties
    <3>6. \A k \in 1..(Len(ran) + 1) : Append(places, r.place)[k] = more[k]
      <4> SUFFICES ASSUME NEW k \in 1..(Len(ran) + 1)
                   PROVE  Append(places, r.place)[k] = more[k]
        OBVIOUS
      <4>1. k \in 1..Len(ran) \/ k = Len(ran) + 1
        BY <2>2
      <4>2. \A j \in 1..Len(ran) : places[j] = more[j]
        BY <2>2, <2>3
      <4>3. more[Len(ran) + 1] = r.place
        BY <2>2, <2>3
      <4> HIDE DEF places, more
      <4> QED
        BY <4>1, <4>2, <4>3, <3>5
    <3>7. Append(places, r.place) = more
      <4> HIDE DEF places, more
      <4> QED
        BY <3>4, <3>5, <3>6, SeqEqual
    <3>8. observations = places
      BY <1>2, BodyFrame DEF Told, TypeInv, FramesInv
    <3> QED
      BY <3>7, <3>8, <2>1
  <2> QED
    BY <2>5, <2>6, <2>7 DEF Told
<1>3. CASE BodyRaises
  BY <1>3, RaiseFrame DEF Told
<1>4. CASE UNCHANGED vars
  BY <1>4 DEF vars, Told
<1> QED
  BY <1>1, <1>2, <1>3, <1>4 DEF Next, Quiet

(* ObservationsTellAll: early returns, nested ones too, lose no            *)
(* observation of a body that ran, and nothing runs after a body that was  *)
(* not a PASS.                                                             *)
THEOREM ObservationsTheorem == Spec => []ObservationsTellAll
<1>1. Init => Told
  <2> SUFFICES ASSUME Init PROVE Told
    OBVIOUS
  <2>1. observations = <<>> /\ ran = <<>> /\ Len(ran) = 0
    BY DEF Init
  <2>2. <<>> = [k \in DOMAIN <<>> |-> ran[k].place]
    OBVIOUS
  <2> QED
    BY <2>1, <2>2 DEF Told
<1>2. Told => ObservationsTellAll
  BY DEF Told, ObservationsTellAll
<1> QED
  BY <1>1, <1>2, ToldStep, CompositeTypeInvTheorem, PTL DEF Spec

(* What SearchEdge reports as a cycle is one. *)
LEMMA ReportIsCycle ==
  ASSUME TypeInv, SearchEdge, graph.edges[Least(Deepest.edges)][2] \in Gray
  PROVE  /\ Cyclic(graph)
         /\ result'.cycle[1] = result'.cycle[Len(result'.cycle)]
         /\ Len(result'.cycle) > 1
         /\ \A k \in 1..(Len(result'.cycle) - 1) :
              Edge(graph, result'.cycle[k], result'.cycle[k + 1])
<1> DEFINE e == Least(Deepest.edges)
           v == graph.edges[e][2]
           names == [k \in DOMAIN frame.path |-> frame.path[k].node]
           k0 == CHOOSE k \in DOMAIN names : names[k] = v
           c == Append(SubSeq(names, k0, Len(names)), v)
<1>1. result'.cycle = c
  <2>1. Ends("raised", <<Absent>>, c)
    BY DEF SearchEdge
  <2> HIDE DEF c
  <2> QED
    BY <2>1 DEF Ends
<1>2. /\ e \in frame.path[Len(frame.path)].edges
      /\ Shape(graph) /\ frame.path # <<>>
      /\ frame.path \in Seq(GrayNodes) /\ OnPath(graph, frame.path, frame.black)
      /\ DOMAIN frame.path = 1..Len(frame.path)
  BY EdgeFacts DEF SearchEdge, Searching, TypeInv
<1>3. \E k \in 1..Len(frame.path) : frame.path[k].node = v
  BY <1>2 DEF Gray
<1>4. /\ Cyclic(graph) /\ c[1] = c[Len(c)] /\ Len(c) > 1
      /\ \A k \in 1..(Len(c) - 1) : Edge(graph, c[k], c[k + 1])
  <2> HIDE DEF e
  <2> QED
    BY <1>2, <1>3, ClosedWalk
<1> HIDE DEF c
<1> QED
  BY <1>1, <1>4

(* CycleIsExact: when the search is over the graph has no cycle, whatever  *)
(* the order of its nodes and edges, and a cycle it reports is a walk      *)
(* along edges of the graph back to where it began (detect_cycle).         *)
THEOREM CycleTheorem == Spec => CycleIsExact
<1>1. ASSUME TypeInv, TypeInv', [Next]_vars
      PROVE  [/\ \A k \in DOMAIN frames' :
                   frames'[k].phase # "search" => ~Cyclic(Graph[frames'[k].of])
              /\ LET c == result'.cycle IN
                 result' # result /\ c # <<>> =>
                   /\ c[1] = c[Len(c)] /\ Len(c) > 1
                   /\ \A k \in 1..(Len(c) - 1) : Edge(graph, c[k], c[k + 1])]_vars
  <2>1. \A k \in DOMAIN frames' :
          frames'[k].phase # "search" => ~Cyclic(Graph[frames'[k].of])
    BY <1>1, LenProperties DEF TypeInv, FramesInv, Good
  <2>2. ASSUME Next, result' # result, result'.cycle # <<>>
        PROVE  /\ result'.cycle[1] = result'.cycle[Len(result'.cycle)]
               /\ Len(result'.cycle) > 1
               /\ \A k \in 1..(Len(result'.cycle) - 1) :
                    Edge(graph, result'.cycle[k], result'.cycle[k + 1])
    <3>1. SearchEdge /\ graph.edges[Least(Deepest.edges)][2] \in Gray
      <4>1. CASE SearchFrom \/ SearchBack \/ EnterComposite
        BY <2>2, <4>1 DEF SearchFrom, SearchBack, EnterComposite, Becomes
      <4>2. CASE SearchEdge
        <5>1. CASE graph.edges[Least(Deepest.edges)][2] \in Gray
          BY <4>2, <5>1
        <5>2. CASE graph.edges[Least(Deepest.edges)][2] \notin Gray
          <6>1. \/ Ends("raised", <<Absent>>, <<>>)
                \/ UNCHANGED result
            BY <4>2, <5>2 DEF SearchEdge, Becomes
          <6> QED
            BY <2>2, <6>1 DEF Ends
        <5> QED
          BY <5>1, <5>2
      <4>3. CASE RequirePair
        BY <2>2, <4>3 DEF RequirePair, Becomes, Ends
      <4>4. CASE NodeRaises \/ LeafBreaks \/ BodyRaises \/ Overflows
        BY <2>2, <4>4 DEF NodeRaises, LeafBreaks, BodyRaises, Overflows, Raises, Ends
      <4>5. CASE RefuseLeaf
        BY <2>2, <4>5 DEF RefuseLeaf, Ends
      <4>6. CASE RunLeaf
        BY <2>2, <4>6 DEF RunLeaf, Passes, Becomes, Ends
      <4>7. CASE Return
        BY <2>2, <4>7 DEF Return, Ends
      <4> QED
        BY <2>2, <4>1, <4>2, <4>3, <4>4, <4>5, <4>6, <4>7 DEF Next
    <3> QED
      BY <3>1, <1>1, ReportIsCycle
  <2> QED
    BY <1>1, <2>1, <2>2
<1> QED
  BY <1>1, CompositeTypeInvTheorem, PTL DEF Spec, CycleIsExact

(* A node of a forest of known modules has its input. *)
LEMMA SoundHasInput ==
  ASSUME TypeInv, Executing, Sound(graph)
  PROVE  /\ Input(current) # <<Absent>>
         /\ graph.kind[current] \notin {"missing", "other"}
<1>1. /\ Good(frame) /\ frame \in Frames /\ Shape(graph) /\ graph = Graph[frame.of]
      /\ current \in NodeSet(graph)
      /\ \A e \in Predecessors(graph, current) :
           graph.edges[e][1] \notin frame.left
  BY CurrentFacts DEF TypeInv
<1> DEFINE preds == Predecessors(graph, current)
<1>2. CASE preds = {}
  <2>1. Input(current) = frame.input /\ frame.input \in Values
    BY <1>1, <1>2 DEF Input, Frames
  <2> QED
    BY <1>1, <2>1, ValuesAreThere DEF Sound
<1>3. CASE preds # {}
  <2>1. preds \in SUBSET Nat
    BY <1>1, ShapeFacts DEF Predecessors
  <2>2. Least(preds) \in preds
    <3> HIDE DEF preds
    <3> QED
      BY <1>3, <2>1, LeastMember
  <2>3. preds = {Least(preds)}
    BY <1>1, <2>2 DEF Sound
  <2>4. Input(current) = frame.outputs[graph.edges[Least(preds)][1]]
    BY <1>3, <2>3 DEF Input
  <2>5. graph.edges[Least(preds)][1] \in NodeSet(graph) \ frame.left
    BY <1>1, <2>2 DEF Sound, Predecessors
  <2> QED
    BY <1>1, <2>4, <2>5 DEF Good, Sound
<1> QED
  BY <1>2, <1>3

(* SoundNeverRaises: on a forest of known modules that the stack holds,    *)
(* execute raises for what the leaf at hand does only, never for an order  *)
(* in which it would take its nodes.                                       *)
THEOREM SoundTheorem == Spec => SoundNeverRaises
<1>1. ASSUME TypeInv, [Next]_vars
      PROVE  [result'.status = "raised" /\ result.status # "raised" =>
                \/ ~Sound(graph) \/ Deep
                \/ AtLeaf /\ (Breaking(current) \/ Runs("raised"))]_vars
  <2> SUFFICES ASSUME Next, result'.status = "raised", result.status # "raised",
                      Sound(graph), ~Deep,
                      ~(AtLeaf /\ (Breaking(current) \/ Runs("raised")))
               PROVE  FALSE
    BY <1>1
  <2>1. result' # result
    OBVIOUS
  <2>2. CASE SearchFrom \/ SearchBack \/ EnterComposite
    BY <2>1, <2>2 DEF SearchFrom, SearchBack, EnterComposite, Becomes
  <2>3. CASE SearchEdge
    <3> DEFINE e == Least(Deepest.edges)
    <3>1. graph.edges[e][2] \in Gray \/ graph.edges[e][2] \notin NodeSet(graph)
      BY <2>1, <2>3 DEF SearchEdge, Becomes
    <3>2. e \in DOMAIN graph.edges
      <4>1. /\ e \in frame.path[Len(frame.path)].edges
            /\ frame.path # <<>> /\ frame.path \in Seq(GrayNodes)
            /\ OnPath(graph, frame.path, frame.black)
        BY <1>1, <2>3, EdgeFacts DEF SearchEdge, Searching, TypeInv
      <4>2. Len(frame.path) \in 1..Len(frame.path)
        BY <4>1, EmptySeq
      <4> QED
        BY <4>1, <4>2 DEF OnPath, GrayAt, Successors
    <3>3. graph.edges[e][2] \in NodeSet(graph)
      BY <3>2 DEF Sound
    <3>4. Cyclic(graph)
      BY <1>1, <2>3, <3>1, <3>3, ReportIsCycle
    <3> QED
      BY <3>4 DEF Sound
  <2>4. CASE RequirePair
    <3>1. frames # <<>> /\ Endless(graph)
      BY <2>1, <2>4 DEF RequirePair, Becomes, Ends
    <3> QED
      BY <1>1, <3>1, FrameFacts, SoundIsNotEndless DEF TypeInv
  <2>5. CASE NodeRaises
    BY <1>1, <2>5, SoundHasInput DEF NodeRaises
  <2>6. CASE RefuseLeaf
    BY <2>6 DEF RefuseLeaf, Gate, Ends
  <2>7. CASE RunLeaf
    <3>1. PICK r \in Bodies : /\ r.status \in Outcomes
                             /\ IF r.status = "PASS" THEN UNCHANGED result
                                ELSE result'.status = r.status
      BY <1>1, <2>7, BodyFrame
    <3> QED
      BY <2>1, <3>1 DEF Outcomes
  <2>8. CASE Return
    <3>1. frames # <<>> /\ frame.phase = "run" /\ frame.left = {}
      BY <2>8 DEF Return
    <3>2. Good(frame) /\ graph = Graph[frame.of] /\ Shape(graph)
      BY <1>1, <3>1, FrameFacts DEF TypeInv, graph
    <3>3. frame.outputs[graph.output] # <<Absent>> /\ frame.last = "PASS"
      BY <3>1, <3>2 DEF Good, Sound, Shape
    <3> QED
      BY <2>1, <2>8, <3>3 DEF Return, Ends
  <2>9. CASE LeafBreaks \/ BodyRaises \/ Overflows
    BY <2>9 DEF LeafBreaks, BodyRaises, Runs, Overflows
  <2> QED
    BY <2>2, <2>3, <2>4, <2>5, <2>6, <2>7, <2>8, <2>9 DEF Next
<1> QED
  BY <1>1, CompositeTypeInvTheorem, PTL DEF Spec, SoundNeverRaises

-----------------------------------------------------------------------------
(* The reference exists: what is defined by a monotone equation has a      *)
(* solution, whatever the graphs are.                                      *)

Monotone(T, D, V) ==
  LET F == [D -> SUBSET V]
  IN  /\ T \in [F -> F]
      /\ \A h, k \in F : (\A x \in D : h[x] \subseteq k[x])
                         => \A x \in D : T[h][x] \subseteq T[k][x]

LEMMA FixedPoint ==
  ASSUME NEW D, NEW V, NEW T, Monotone(T, D, V)
  PROVE  \E f \in [D -> SUBSET V] : f = T[f]
<1> USE DEF Monotone
<1> DEFINE F == [D -> SUBSET V]
           H == {h \in F : \A x \in D : h[x] \subseteq T[h][x]}
           f == [x \in D |-> {v \in V : \E h \in H : v \in h[x]}]
<1>1. f \in F /\ T[f] \in F
  <2>1. f \in F
    OBVIOUS
  <2> HIDE DEF f
  <2> QED
    BY <2>1
<1>2. \A h \in H : \A x \in D : h[x] \subseteq f[x]
  OBVIOUS
<1>3. \A x \in D : f[x] \subseteq T[f][x]
  <2> SUFFICES ASSUME NEW x \in D, NEW v \in f[x] PROVE v \in T[f][x]
    OBVIOUS
  <2>1. PICK h \in H : v \in h[x]
    OBVIOUS
  <2>2. h \in F /\ v \in T[h][x]
    BY <2>1
  <2> HIDE DEF f, H
  <2> QED
    BY <1>1, <1>2, <2>2
<1>4. \A x \in D : T[f][x] \subseteq f[x]
  <2> HIDE DEF f
  <2>1. T[T[f]] \in F /\ \A x \in D : T[f][x] \subseteq T[T[f]][x]
    BY <1>1, <1>3
  <2>2. T[f] \in H
    BY <1>1, <2>1
  <2> QED
    BY <1>2, <2>2
<1>5. f = T[f]
  <2> HIDE DEF f
  <2>1. \A x \in D : f[x] = T[f][x]
    BY <1>3, <1>4
  <2> QED
    BY <1>1, <2>1
<1> HIDE DEF f
<1> QED
  BY <1>1, <1>5

Spots == [of : Composites, place : Seq(Nodes)]
Spot(c, place) == [of |-> c, place |-> place]

(* The leaves of a node, where L has those of the composites. *)
Under(L, c, place, n) ==
  IF Graph[c].kind[n] = "composite"
    THEN L[Spot(Graph[c].inner[n], Append(place, n))]
    ELSE {Append(place, n)}

LEMMA LeavesOf ==
  ASSUME NEW c \in Composites, NEW place \in Seq(Nodes)
  PROVE  Leaves[Spot(c, place)]
           = UNION {Under(Leaves, c, place, n) : n \in NodeSet(Graph[c])}
<1> DEFINE All(h, at) == UNION {Under(h, at.of, at.place, n) :
                                  n \in NodeSet(Graph[at.of])}
           F == [Spots -> SUBSET Seq(Nodes)]
           T == [h \in F |-> [at \in Spots |-> All(h, at)]]
<1>1. ASSUME NEW at \in Spots, NEW n \in NodeSet(Graph[at.of])
      PROVE  /\ Append(at.place, n) \in Seq(Nodes)
             /\ Spot(Graph[at.of].inner[n], Append(at.place, n)) \in Spots
  <2>0. at.of \in Composites
    BY DEF Spots
  <2>1. Shape(Graph[at.of])
    BY <2>0, CompositeAssumption
  <2>2. n \in Nodes
    BY <2>1, ShapeFacts
  <2>3. Graph[at.of].inner[n] \in Composites
    BY <2>1, <2>2 DEF Shape
  <2> QED
    BY <2>2, <2>3, AppendProperties DEF Spots, Spot
<1>2. ASSUME NEW h \in F, NEW at \in Spots
      PROVE  All(h, at) \subseteq Seq(Nodes)
  BY <1>1 DEF Under
<1>3. ASSUME NEW h \in F, NEW k \in F, \A x \in Spots : h[x] \subseteq k[x],
             NEW at \in Spots
      PROVE  All(h, at) \subseteq All(k, at)
  BY <1>1, <1>3 DEF Under
<1>4. Monotone(T, Spots, Seq(Nodes))
  <2> HIDE DEF All
  <2> USE DEF Monotone
  <2> QED
    BY <1>2, <1>3
<1>5. \E f \in F : f = T[f]
  <2> HIDE DEF T
  <2> QED
    BY <1>4, FixedPoint
<1>6. \E f : f = [at \in Spots |-> All(f, at)]
  <2> HIDE DEF All
  <2> QED
    BY <1>5
<1>7. Leaves = CHOOSE f : f = [at \in Spots |-> All(f, at)]
  BY DEF Leaves, Under, Spot, Spots
<1>8. Leaves = [at \in Spots |-> All(Leaves, at)]
  <2> HIDE DEF All
  <2> QED
    BY <1>6, <1>7
<1>9. Spot(c, place) \in Spots /\ Spot(c, place).of = c
      /\ Spot(c, place).place = place
  BY DEF Spot, Spots
<1>10. Leaves[Spot(c, place)] = All(Leaves, Spot(c, place))
  <2> HIDE DEF All
  <2> QED
    BY <1>8, <1>9
<1> QED
  BY <1>9, <1>10

Points == [of : Composites, node : Nodes, input : Values]
Point(c, n, v) == [of |-> c, node |-> n, input |-> v]

(* What a node is given, and what it makes of that, where D has what the   *)
(* nodes make.                                                             *)
Inputs(D, c, n, v) ==
  LET above == {m \in Nodes : Edge(Graph[c], m, n)}
  IN  IF above = {} THEN {v} ELSE UNION {D[Point(c, m, v)] : m \in above}
Makes(D, c, n, v) ==
  LET inner == Graph[c].inner[n]
  IN  IF Graph[c].kind[n] = "composite"
        THEN UNION {D[Point(inner, Graph[inner].output, w)] :
                      w \in Inputs(D, c, n, v)}
        ELSE {Append(w, Graph[c].script[n]) : w \in Inputs(D, c, n, v)}

LEMMA DenotesOf ==
  ASSUME NEW c \in Composites, NEW n \in Nodes, NEW v \in Values
  PROVE  Denotes[Point(c, n, v)] = Makes(Denotes, c, n, v)
<1> DEFINE All(h, at) == Makes(h, at.of, at.node, at.input)
           F == [Points -> SUBSET Values]
           T == [h \in F |-> [at \in Points |-> All(h, at)]]
<1>1. ASSUME NEW at \in Points
      PROVE  /\ Graph[at.of].inner[at.node] \in Composites
             /\ Graph[at.of].script[at.node] \in Scripts
             /\ \A m \in Nodes : Point(at.of, m, at.input) \in Points
             /\ \A w \in Values :
                  LET inner == Graph[at.of].inner[at.node]
                  IN  Point(inner, Graph[inner].output, w) \in Points
  BY CompositeAssumption DEF Points, Point, Shape
<1>2. ASSUME NEW h \in F, NEW at \in Points
      PROVE  Inputs(h, at.of, at.node, at.input) \subseteq Values
  <2>1. at.input \in Values
    BY DEF Points
  <2>2. \A m \in Nodes : h[Point(at.of, m, at.input)] \subseteq Values
    BY <1>1
  <2> QED
    BY <2>1, <2>2 DEF Inputs
<1>3. ASSUME NEW h \in F, NEW at \in Points
      PROVE  All(h, at) \subseteq Values
  BY <1>1, <1>2, ValuesAreThere DEF Makes
<1>4. ASSUME NEW h \in F, NEW k \in F, \A x \in Points : h[x] \subseteq k[x],
             NEW at \in Points
      PROVE  All(h, at) \subseteq All(k, at)
  <2>1. Inputs(h, at.of, at.node, at.input)
          \subseteq Inputs(k, at.of, at.node, at.input)
    BY <1>1, <1>4 DEF Inputs
  <2> QED
    BY <1>1, <1>2, <1>4, <2>1 DEF Makes
<1>5. Monotone(T, Points, Values)
  <2> HIDE DEF All
  <2> USE DEF Monotone
  <2> QED
    BY <1>3, <1>4
<1>6. \E f \in F : f = T[f]
  <2> HIDE DEF T
  <2> QED
    BY <1>5, FixedPoint
<1>7. \E f : f = [at \in Points |-> All(f, at)]
  <2> HIDE DEF All
  <2> QED
    BY <1>6
<1>8. Denotes = CHOOSE f : f = [at \in Points |-> All(f, at)]
  BY DEF Denotes, Makes, Inputs, Points, Point, Values
<1>9. Denotes = [at \in Points |-> All(Denotes, at)]
  <2> HIDE DEF All
  <2> QED
    BY <1>7, <1>8
<1>10. Point(c, n, v) \in Points /\ Point(c, n, v).of = c
       /\ Point(c, n, v).node = n /\ Point(c, n, v).input = v
  BY DEF Point, Points
<1>11. Denotes[Point(c, n, v)] = All(Denotes, Point(c, n, v))
  <2> HIDE DEF All
  <2> QED
    BY <1>9, <1>10
<1> QED
  BY <1>10, <1>11

-----------------------------------------------------------------------------
(* What is under way and what is done. *)

(* h is the execution of a node of f. *)
Within(f, h) ==
  LET g == Graph[f.of]
      n == h.place[Len(h.place)]
  IN  /\ n \in f.left /\ h.place = Append(f.place, n)
      /\ g.kind[n] = "composite" /\ h.of = g.inner[n]
      /\ Inputs(Denotes, f.of, n, f.input) = {h.input}
      /\ \A j, k \in Predecessors(g, n) : j = k

NestInv ==
  /\ frames[1].of = top /\ frames[1].input = <<>>
  /\ \A k \in 1..Len(frames) : Len(frames[k].place) = k - 1
  /\ \A k \in 1..Len(frames) : \A j \in 1..k : \A i \in 1..(j - 1) :
       frames[j].place[i] = frames[k].place[i]
  /\ \A k \in 1..(Len(frames) - 1) : Within(frames[k], frames[k + 1])

(* A node that is done has the one value it denotes, and none else has. *)
Exact(f) ==
  LET g == Graph[f.of]
  IN  /\ \A n \in NodeSet(g) \ f.left :
           /\ Denotes[Point(f.of, n, f.input)] = {f.outputs[n]}
           /\ \A j, k \in Predecessors(g, n) : j = k
      /\ \A n \in Nodes : f.outputs[n] # <<Absent>> => n \in NodeSet(g) \ f.left

ExactInv == \A k \in 1..Len(frames) : Exact(frames[k])

(* p is below the node that is done in f. *)
DoneIn(f, p) ==
  \E n \in NodeSet(Graph[f.of]) \ f.left : p \in Under(Leaves, f.of, f.place, n)

HasRun(p) == \E j \in DOMAIN ran : ran[j].place = p

(* p is below the node x of the k-th execution, whose place is q. *)
Below(p, q, k, x) ==
  /\ Len(p) >= k /\ p[k] = x
  /\ \A i \in 1..(k - 1) : p[i] = q[i]

(* The leaves of what is done ran, each once, and nothing else: below a    *)
(* node left only what the execution within it has done.                   *)
RanInv ==
  /\ \A p : HasRun(p) <=> \E k \in 1..Len(frames) : DoneIn(frames[k], p)
  /\ \A j, k \in DOMAIN ran : ran[j].place = ran[k].place => j = k
  /\ \A j \in DOMAIN ran : \A k \in 1..Len(frames) : \A x \in frames[k].left :
       Below(ran[j].place, frames[k].place, k, x)
         => k < Len(frames) /\ frames[k + 1].place[k] = x

WholeInv ==
  /\ frames # <<>> => NestInv /\ ExactInv /\ RanInv
  /\ PassIsWhole

(* What the invariant says of an execution. *)
Alike(f, h) ==
  /\ f.of = h.of /\ f.place = h.place /\ f.input = h.input
  /\ f.left = h.left /\ f.outputs = h.outputs

LEMMA AlikeKeeps ==
  ASSUME TypeInv, frames # <<>>, NestInv, ExactInv, RanInv,
         UNCHANGED <<top, ran>>, Len(frames') = Len(frames),
         \A k \in 1..Len(frames) : Alike(frames'[k], frames[k])
  PROVE  NestInv' /\ ExactInv' /\ RanInv'
<1>1. Len(frames) \in Nat /\ Len(frames) > 0
  BY FrameFacts DEF TypeInv
<1>2. NestInv'
  <2>1. \A k \in 1..(Len(frames) - 1) : Within(frames'[k], frames'[k + 1])
    <3> SUFFICES ASSUME NEW k \in 1..(Len(frames) - 1)
                 PROVE  Within(frames'[k], frames'[k + 1])
      OBVIOUS
    <3>1. /\ Within(frames[k], frames[k + 1])
          /\ Alike(frames'[k], frames[k]) /\ Alike(frames'[k + 1], frames[k + 1])
      BY <1>1 DEF NestInv
    <3> QED
      BY <3>1 DEF Within, Alike
  <2>2. \A k \in 1..Len(frames) : /\ frames'[k].place = frames[k].place
                                  /\ frames'[k].of = frames[k].of
                                  /\ frames'[k].input = frames[k].input
    BY DEF Alike
  <2>3. 1 \in 1..Len(frames) /\ \A k \in 1..Len(frames) : 1..k \subseteq 1..Len(frames)
    BY <1>1
  <2>4. frames'[1].of = top' /\ frames'[1].input = <<>>
    BY <2>2, <2>3 DEF NestInv
  <2>5. \A k \in 1..Len(frames) : Len(frames'[k].place) = k - 1
    BY <2>2 DEF NestInv
  <2>6. \A k \in 1..Len(frames) : \A j \in 1..k : \A i \in 1..(j - 1) :
          frames'[j].place[i] = frames'[k].place[i]
    BY <2>2, <2>3 DEF NestInv
  <2> QED
    BY <2>1, <2>4, <2>5, <2>6 DEF NestInv
<1>3. ExactInv'
  <2> SUFFICES ASSUME NEW k \in 1..Len(frames) PROVE Exact(frames'[k])
    BY DEF ExactInv
  <2>1. Exact(frames[k]) /\ Alike(frames'[k], frames[k])
    BY DEF ExactInv
  <2> QED
    BY <2>1 DEF Exact, Alike
<1>4. \A p : HasRun(p)' <=> HasRun(p)
  BY DEF HasRun
<1>5. \A k \in 1..Len(frames) : \A p : DoneIn(frames'[k], p) <=> DoneIn(frames[k], p)
  BY DEF DoneIn, Alike
<1>6. \A k \in 1..Len(frames) : /\ frames'[k].left = frames[k].left
                                /\ frames'[k].place = frames[k].place
  BY DEF Alike
<1>7. RanInv'
  <2>1. \A j \in DOMAIN ran : \A k \in 1..Len(frames) : \A x \in frames'[k].left :
          Below(ran[j].place, frames'[k].place, k, x)
            => k < Len(frames) /\ frames'[k + 1].place[k] = x
    <3> SUFFICES ASSUME NEW j \in DOMAIN ran, NEW k \in 1..Len(frames),
                        NEW x \in frames'[k].left,
                        Below(ran[j].place, frames'[k].place, k, x)
                 PROVE  k < Len(frames) /\ frames'[k + 1].place[k] = x
      OBVIOUS
    <3>1. k < Len(frames) /\ frames[k + 1].place[k] = x
      BY <1>6 DEF RanInv
    <3>2. k + 1 \in 1..Len(frames)
      BY <1>1, <3>1
    <3> QED
      BY <3>1, <3>2, <1>6
  <2> QED
    BY <1>4, <1>5, <2>1 DEF RanInv
<1> QED
  BY <1>2, <1>3, <1>7

(* The input of the node execute is at is what the edges say it is given. *)
LEMMA InputIs ==
  ASSUME TypeInv, ExactInv, Executing, Input(current) # <<Absent>>
  PROVE  /\ Inputs(Denotes, frame.of, current, frame.input) = {Input(current)}
         /\ \A j, k \in Predecessors(graph, current) : j = k
<1> DEFINE preds == Predecessors(graph, current)
           above == {m \in Nodes : Edge(graph, m, current)}
<1>1. /\ Shape(graph) /\ graph = Graph[frame.of] /\ frame \in Frames
      /\ Exact(frame)
  BY CurrentFacts, FrameFacts DEF TypeInv, Executing, ExactInv, frame
<1>2. above = Above(graph, current)
  BY <1>1, AboveFacts
<1>3. CASE preds = {}
  <2>1. above = {}
    BY <1>2, <1>3 DEF Above
  <2> QED
    BY <1>1, <1>3, <2>1 DEF Input, Inputs
<1>4. CASE preds # {}
  <2> DEFINE e == Least(preds)
             m == graph.edges[e][1]
  <2>1. preds = {e} /\ Input(current) = frame.outputs[m]
    BY <1>4 DEF Input
  <2>2. above = {m}
    BY <1>2, <2>1 DEF Above
  <2>3. Denotes[Point(frame.of, m, frame.input)] = {frame.outputs[m]}
    <3>1. m \in Nodes /\ frame.outputs[m] # <<Absent>>
      BY <2>1, <2>2
    <3> HIDE DEF m
    <3> QED
      BY <3>1, <1>1 DEF Exact
  <2> HIDE DEF m, e
  <2>4. Inputs(Denotes, frame.of, current, frame.input) = {frame.outputs[m]}
    BY <1>1, <2>2, <2>3 DEF Inputs
  <2> QED
    BY <2>1, <2>4
<1> QED
  BY <1>3, <1>4

(* One more node is done. *)
Completes(f, h, n, data) ==
  /\ f \in Frames /\ n \in f.left /\ n \in NodeSet(Graph[f.of])
  /\ h.of = f.of /\ h.place = f.place /\ h.input = f.input
  /\ h.left = f.left \ {n} /\ h.outputs = [f.outputs EXCEPT ![n] = data]
  /\ Denotes[Point(f.of, n, f.input)] = {data}
  /\ \A j, k \in Predecessors(Graph[f.of], n) : j = k

LEMMA OneMoreDone ==
  ASSUME NEW f, NEW h, NEW n, NEW data, Exact(f), Completes(f, h, n, data)
  PROVE  /\ Exact(h)
         /\ \A p : DoneIn(h, p) <=>
                     DoneIn(f, p) \/ p \in Under(Leaves, f.of, f.place, n)
<1> USE DEF Completes
<1> DEFINE g == Graph[f.of]
<1>1. n \in Nodes /\ f.outputs \in [Nodes -> Values \cup {<<Absent>>}]
      /\ NodeSet(g) \subseteq Nodes
  BY CompositeAssumption, ShapeFacts DEF Frames
<1>2. \A m \in Nodes : h.outputs[m] = IF m = n THEN data ELSE f.outputs[m]
  BY <1>1
<1>3. NodeSet(g) \ h.left = (NodeSet(g) \ f.left) \cup {n}
  OBVIOUS
<1>4. Exact(h)
  <2>1. ASSUME NEW m \in NodeSet(g) \ h.left
        PROVE  /\ Denotes[Point(f.of, m, f.input)] = {h.outputs[m]}
               /\ \A j, k \in Predecessors(g, m) : j = k
    BY <1>1, <1>2, <1>3, <2>1 DEF Exact
  <2>2. ASSUME NEW m \in Nodes, h.outputs[m] # <<Absent>>
        PROVE  m \in NodeSet(g) \ h.left
    BY <1>2, <1>3, <2>2 DEF Exact
  <2> QED
    BY <2>1, <2>2 DEF Exact
<1> QED
  BY <1>3, <1>4 DEF DoneIn

(* The place of a node of the innermost execution. *)
LEMMA PlaceFacts ==
  ASSUME TypeInv, frames # <<>>, NestInv, NEW n \in Nodes
  PROVE  /\ Append(frame.place, n) \in Seq(Nodes)
         /\ Len(Append(frame.place, n)) = depth
         /\ Append(frame.place, n)[depth] = n
         /\ \A k \in 1..depth : \A i \in 1..(k - 1) :
              Append(frame.place, n)[i] = frames[k].place[i]
<1>1. /\ depth \in Nat /\ depth > 0 /\ depth = Len(frames) /\ frame = frames[depth]
      /\ frame.place \in Seq(Nodes)
  BY FrameFacts DEF TypeInv, Frames, frame
<1>2. Len(frame.place) = depth - 1
  BY <1>1 DEF NestInv
<1>3. /\ Append(frame.place, n) \in Seq(Nodes)
      /\ Len(Append(frame.place, n)) = depth
      /\ Append(frame.place, n)[depth] = n
      /\ \A i \in 1..(depth - 1) : Append(frame.place, n)[i] = frame.place[i]
  <2> DEFINE q == frame.place
  <2>1. q \in Seq(Nodes) /\ Len(q) = depth - 1
    BY <1>1, <1>2
  <2> HIDE DEF q
  <2>2. /\ Append(q, n) \in Seq(Nodes) /\ Len(Append(q, n)) = Len(q) + 1
        /\ \A i \in 1..Len(q) : Append(q, n)[i] = q[i]
        /\ Append(q, n)[Len(q) + 1] = n
    BY <2>1, AppendProperties
  <2>3. Append(q, n) \in Seq(Nodes) /\ Len(Append(q, n)) = depth
        /\ Append(q, n)[depth] = n
        /\ \A i \in 1..(depth - 1) : Append(q, n)[i] = q[i]
    BY <1>1, <2>1, <2>2
  <2> QED
    BY <2>3 DEF q
<1>4. ASSUME NEW k \in 1..depth, NEW i \in 1..(k - 1)
      PROVE  Append(frame.place, n)[i] = frames[k].place[i]
  <2>1. i \in 1..(depth - 1) /\ depth \in 1..Len(frames)
    BY <1>1
  <2>2. frames[k].place[i] = frame.place[i]
    BY <1>1, <2>1 DEF NestInv
  <2> QED
    BY <1>3, <2>1, <2>2
<1> QED
  BY <1>3, <1>4

LEMMA RunLeafWhole ==
  ASSUME TypeInv, frames # <<>>, NestInv, ExactInv, RanInv, RunLeaf,
         frames' # <<>>
  PROVE  NestInv' /\ ExactInv' /\ RanInv'
<1> DEFINE s == graph.script[current]
           data == Append(Input(current), s)
           P == Append(frame.place, current)
           done == [frame EXCEPT !.left = @ \ {current},
                                 !.outputs[current] = data, !.last = "PASS"]
<1>1. /\ Executing /\ Input(current) # <<Absent>> /\ top' = top
      /\ graph.kind[current] \in {"leaf", "async"}
  BY DEF RunLeaf, Runs, AtLeaf
<1>2. /\ depth \in Nat /\ depth \in 1..Len(frames) /\ depth = Len(frames)
      /\ frame = frames[depth] /\ frames \in Seq(Frames)
      /\ frame \in Frames /\ Good(frame) /\ graph = Graph[frame.of]
      /\ current \in frame.left /\ current \in NodeSet(graph) /\ current \in Nodes
      /\ Input(current) \in Values /\ s \in Scripts
  BY <1>1, FrameFacts, CurrentFacts DEF TypeInv, FramesInv, frame
<1>3. PICK status \in Outcomes :
        /\ ran' = Append(ran, [place |-> P, script |-> s,
                               input |-> Input(current), status |-> status])
        /\ Passes(current, status, data)
  BY DEF RunLeaf, Runs
<1> DEFINE r == [place |-> P, script |-> s, input |-> Input(current),
                 status |-> status]
<1>4. Becomes(done)
  <2>1. status = "PASS"
    BY <1>3 DEF Passes, Ends
  <2> QED
    BY <1>3, <2>1 DEF Passes
<1>5. /\ done \in Frames /\ done.of = frame.of /\ done.place = frame.place
      /\ done.input = frame.input /\ done.left = frame.left \ {current}
      /\ done.outputs = [frame.outputs EXCEPT ![current] = data]
  <2>1. data \in Values
    BY <1>2, ValuesAreThere
  <2> HIDE DEF data
  <2>2. Good(done)
    BY <1>2, <2>1, NodeIsDone
  <2> QED
    BY <1>2, <2>2 DEF Good, Frames
<1>6. Exact(frame) /\ Denotes[Point(frame.of, current, frame.input)] = {data}
      /\ \A j, k \in Predecessors(graph, current) : j = k
  <2>1. Inputs(Denotes, frame.of, current, frame.input) = {Input(current)}
        /\ \A j, k \in Predecessors(graph, current) : j = k
    BY <1>1, InputIs
  <2>2. Denotes[Point(frame.of, current, frame.input)]
          = Makes(Denotes, frame.of, current, frame.input)
    BY <1>2, DenotesOf DEF Frames
  <2>3. Makes(Denotes, frame.of, current, frame.input) = {data}
    BY <1>1, <1>2, <2>1 DEF Makes
  <2> QED
    BY <1>2, <2>1, <2>2, <2>3 DEF ExactInv
<1>7. /\ Exact(done)
      /\ \A p : DoneIn(done, p) <=> DoneIn(frame, p) \/ p = P
  <2>1. Under(Leaves, frame.of, frame.place, current) = {P}
    BY <1>1, <1>2 DEF Under
  <2> HIDE DEF done, data, P
  <2>2. /\ Exact(done)
        /\ \A p : DoneIn(done, p) <=>
               DoneIn(frame, p) \/ p \in Under(Leaves, frame.of, frame.place, current)
    <3>1. Completes(frame, done, current, data)
      BY <1>2, <1>5, <1>6 DEF Completes
    <3> QED
      BY <1>6, <3>1, OneMoreDone
  <2> QED
    BY <2>1, <2>2
<1> HIDE DEF done, data
<1>8. /\ Len(frames') = Len(frames)
      /\ \A k \in 1..Len(frames) : frames'[k] = IF k = depth THEN done ELSE frames[k]
  <2>1. frames' = [frames EXCEPT ![depth] = done]
    BY <1>4 DEF Becomes
  <2> QED
    BY <1>2, <1>5, <2>1, ExceptSeq
<1>9. /\ \A k \in 1..Len(frames) : /\ frames'[k].of = frames[k].of
                                   /\ frames'[k].place = frames[k].place
                                   /\ frames'[k].input = frames[k].input
                                   /\ frames'[k].left \subseteq frames[k].left
      /\ current \notin frames'[depth].left
      /\ \A k \in 1..(Len(frames) - 1) : frames'[k] = frames[k]
  BY <1>2, <1>5, <1>8
<1>10. NestInv'
  <2>1. \A k \in 1..(Len(frames) - 1) : Within(frames'[k], frames'[k + 1])
    <3> SUFFICES ASSUME NEW k \in 1..(Len(frames) - 1)
                 PROVE  Within(frames'[k], frames'[k + 1])
      OBVIOUS
    <3>1. /\ Within(frames[k], frames[k + 1]) /\ frames'[k] = frames[k]
          /\ k + 1 \in 1..Len(frames)
      BY <1>2, <1>9 DEF NestInv
    <3> QED
      BY <3>1, <1>9 DEF Within
  <2>2. 1 \in 1..Len(frames) /\ \A k \in 1..Len(frames) : 1..k \subseteq 1..Len(frames)
    BY <1>2
  <2>3. frames'[1].of = top' /\ frames'[1].input = <<>>
    BY <1>1, <1>9, <2>2 DEF NestInv
  <2>4. \A k \in 1..Len(frames) : Len(frames'[k].place) = k - 1
    BY <1>9 DEF NestInv
  <2>5. \A k \in 1..Len(frames) : \A j \in 1..k : \A i \in 1..(j - 1) :
          frames'[j].place[i] = frames'[k].place[i]
    <3> SUFFICES ASSUME NEW k \in 1..Len(frames), NEW j \in 1..k, NEW i \in 1..(j - 1)
                 PROVE  frames'[j].place[i] = frames'[k].place[i]
      OBVIOUS
    <3>1. j \in 1..Len(frames) /\ frames[j].place[i] = frames[k].place[i]
      BY <2>2 DEF NestInv
    <3> QED
      BY <3>1, <1>9
  <2> QED
    BY <1>8, <2>1, <2>3, <2>4, <2>5 DEF NestInv
<1>11. ExactInv'
  <2> SUFFICES ASSUME NEW k \in 1..Len(frames) PROVE Exact(frames'[k])
    BY <1>8 DEF ExactInv
  <2>1. CASE k = depth
    BY <1>7, <1>8, <2>1
  <2>2. CASE k # depth
    BY <1>8, <2>2 DEF ExactInv
  <2> QED
    BY <2>1, <2>2
<1>12. /\ DOMAIN ran = 1..Len(ran) /\ Len(ran) \in Nat
       /\ DOMAIN ran' = 1..(Len(ran) + 1)
       /\ \A j \in 1..Len(ran) : ran'[j] = ran[j]
       /\ ran'[Len(ran) + 1].place = P
  <2>1. ran \in Seq(Bodies) /\ r \in Bodies /\ r.place = P
    <3>1. status \in Endings
      BY DEF Endings
    <3>2. P \in Seq(Nodes)
      BY <1>2, PlaceFacts
    <3> QED
      BY <1>2, <3>1, <3>2 DEF TypeInv, Bodies
  <2>2. ran' = Append(ran, r)
    BY <1>3
  <2> HIDE DEF r
  <2> QED
    BY <2>1, <2>2, AppendProperties, LenProperties
<1>13. \A p : HasRun(p)' <=> HasRun(p) \/ p = P
  <2> HIDE DEF P
  <2>1. \A j \in 1..(Len(ran) + 1) : j \in 1..Len(ran) \/ j = Len(ran) + 1
    BY <1>12
  <2>2. 1..Len(ran) \subseteq 1..(Len(ran) + 1) /\ Len(ran) + 1 \in 1..(Len(ran) + 1)
    BY <1>12
  <2> QED
    BY <1>12, <2>1, <2>2 DEF HasRun
<1>14. ~HasRun(P)
  <2> SUFFICES ASSUME NEW j \in DOMAIN ran, ran[j].place = P PROVE FALSE
    BY DEF HasRun
  <2>1. /\ Len(P) = depth /\ P[depth] = current
        /\ \A i \in 1..(depth - 1) : P[i] = frames[depth].place[i]
    BY <1>2, PlaceFacts
  <2> HIDE DEF P
  <2>2. Below(ran[j].place, frames[depth].place, depth, current)
    BY <1>2, <2>1 DEF Below
  <2> QED
    BY <1>2, <2>2 DEF RanInv
<1>15. RanInv'
  <2>1. \A p : HasRun(p)' <=> \E k \in 1..Len(frames') : DoneIn(frames'[k], p)
    <3> SUFFICES ASSUME NEW p
                 PROVE  (HasRun(p) \/ p = P)
                          <=> \E k \in 1..Len(frames) : DoneIn(frames'[k], p)
      BY <1>8, <1>13
    <3>1. HasRun(p) <=> \E k \in 1..Len(frames) : DoneIn(frames[k], p)
      BY DEF RanInv
    <3> QED
      BY <1>2, <1>7, <1>8, <3>1
  <2>2. \A j, k \in DOMAIN ran' : ran'[j].place = ran'[k].place => j = k
    <3> HIDE DEF P
    <3> SUFFICES ASSUME NEW j \in 1..(Len(ran) + 1), NEW k \in 1..(Len(ran) + 1),
                        ran'[j].place = ran'[k].place
                 PROVE  j = k
      BY <1>12
    <3>1. (j \in 1..Len(ran) \/ j = Len(ran) + 1)
          /\ (k \in 1..Len(ran) \/ k = Len(ran) + 1)
      BY <1>12
    <3>2. \A i \in 1..Len(ran) : ran[i].place # P
      BY <1>12, <1>14 DEF HasRun
    <3> QED
      BY <1>12, <3>1, <3>2 DEF RanInv
  <2>3. ASSUME NEW j \in DOMAIN ran', NEW k \in 1..Len(frames),
               NEW x \in frames'[k].left,
               Below(ran'[j].place, frames'[k].place, k, x)
        PROVE  k < Len(frames) /\ frames'[k + 1].place[k] = x
    <3>1. Below(ran'[j].place, frames[k].place, k, x)
      BY <2>3, <1>9
    <3>2. x \in frames[k].left
      BY <1>9
    <3>3. CASE j \in 1..Len(ran)
      <4>1. k < Len(frames) /\ frames[k + 1].place[k] = x
        BY <3>1, <3>2, <3>3, <1>12 DEF RanInv
      <4>2. k + 1 \in 1..Len(frames)
        BY <1>2, <4>1
      <4> QED
        BY <4>1, <4>2, <1>9
    <3>4. CASE j = Len(ran) + 1
      <4>1. Below(P, frames[k].place, k, x)
        BY <3>1, <3>4, <1>12
      <4>2. CASE k = depth
        <5>1. x = current
          BY <1>2, <4>1, <4>2, PlaceFacts DEF Below
        <5> QED
          BY <1>9, <2>3, <4>2, <5>1
      <4>3. CASE k # depth
        <5>1. k < Len(frames) /\ k + 1 \in 1..depth /\ k \in 1..((k + 1) - 1)
              /\ k + 1 \in 1..Len(frames)
          BY <1>2, <4>3
        <5>2. P[k] = frames[k + 1].place[k]
          BY <1>2, <5>1, PlaceFacts
        <5>3. P[k] = x
          BY <4>1 DEF Below
        <5> QED
          BY <5>1, <5>2, <5>3, <1>9
      <4> QED
        BY <4>2, <4>3
    <3> QED
      BY <1>12, <3>3, <3>4
  <2> QED
    BY <1>8, <2>1, <2>2, <2>3 DEF RanInv
<1> QED
  BY <1>10, <1>11, <1>15

LEMMA EnterWhole ==
  ASSUME TypeInv, frames # <<>>, NestInv, ExactInv, RanInv, EnterComposite
  PROVE  NestInv' /\ ExactInv' /\ RanInv'
<1> DEFINE P == Append(frame.place, current)
           c == graph.inner[current]
           new == Frame(c, P, Input(current))
<1>1. /\ Executing /\ Input(current) # <<Absent>> /\ UNCHANGED <<top, ran>>
      /\ graph.kind[current] = "composite" /\ frames' = Append(frames, new)
  BY DEF EnterComposite
<1>2. /\ depth \in Nat /\ depth \in 1..Len(frames) /\ depth = Len(frames)
      /\ frame = frames[depth] /\ frames \in Seq(Frames)
      /\ frame \in Frames /\ graph = Graph[frame.of]
      /\ current \in frame.left /\ current \in Nodes
      /\ Input(current) \in Values /\ c \in Composites
  BY <1>1, FrameFacts, CurrentFacts DEF TypeInv, FramesInv, frame
<1>3. /\ P \in Seq(Nodes) /\ Len(P) = depth /\ P[depth] = current
      /\ \A k \in 1..depth : \A i \in 1..(k - 1) : P[i] = frames[k].place[i]
  BY <1>1, <1>2, PlaceFacts
<1>4. /\ new \in Frames /\ new.of = c /\ new.place = P
      /\ new.input = Input(current) /\ new.left = NodeSet(Graph[c])
      /\ \A n \in Nodes : new.outputs[n] = <<Absent>>
  <2> HIDE DEF P
  <2>1. Good(new)
    BY <1>2, <1>3, FrameIsGood
  <2> QED
    BY <2>1 DEF Good, Frame
<1>5. Within(frame, new)
  <2>1. /\ Inputs(Denotes, frame.of, current, frame.input) = {Input(current)}
        /\ \A j, k \in Predecessors(graph, current) : j = k
    BY <1>1, InputIs
  <2>2. new.place[Len(new.place)] = current /\ new.place = P
    BY <1>3, <1>4
  <2> HIDE DEF new
  <2> QED
    BY <1>1, <1>2, <1>4, <2>1, <2>2 DEF Within
<1>6. Exact(new) /\ \A p : ~DoneIn(new, p)
  <2> HIDE DEF new
  <2> QED
    BY <1>4 DEF Exact, DoneIn
<1> HIDE DEF new, c
<1>7. /\ Len(frames') = depth + 1
      /\ \A k \in 1..depth : frames'[k] = frames[k]
      /\ frames'[depth + 1] = new
      /\ \A k \in 1..(depth + 1) : k \in 1..depth \/ k = depth + 1
      /\ \A k \in 1..depth : k \in 1..(depth + 1)
  BY <1>1, <1>2, <1>4, AppendProperties
<1> HIDE DEF P
<1>8. NestInv'
  <2>1. frames'[1].of = top' /\ frames'[1].input = <<>>
    BY <1>1, <1>2, <1>7 DEF NestInv
  <2>2. \A k \in 1..(depth + 1) : Len(frames'[k].place) = k - 1
    BY <1>2, <1>3, <1>4, <1>7 DEF NestInv
  <2>3. ASSUME NEW k \in 1..(depth + 1), NEW j \in 1..k, NEW i \in 1..(j - 1)
        PROVE  frames'[j].place[i] = frames'[k].place[i]
    <3>1. CASE k \in 1..depth
      <4>1. j \in 1..depth
        BY <1>2, <3>1
      <4>2. frames[j].place[i] = frames[k].place[i]
        BY <1>2, <3>1 DEF NestInv
      <4> QED
        BY <1>7, <3>1, <4>1, <4>2
    <3>2. CASE k = depth + 1 /\ j \in 1..depth
      <4>1. P[i] = frames[j].place[i]
        BY <1>3, <3>2
      <4> QED
        BY <1>4, <1>7, <3>2, <4>1
    <3>3. CASE k = depth + 1 /\ j = depth + 1
      BY <3>3
    <3> QED
      BY <1>2, <1>7, <3>1, <3>2, <3>3
  <2>4. ASSUME NEW k \in 1..depth
        PROVE  Within(frames'[k], frames'[k + 1])
    <3>1. CASE k = depth
      BY <1>2, <1>5, <1>7, <3>1
    <3>2. CASE k # depth
      <4>1. k \in 1..(Len(frames) - 1) /\ k + 1 \in 1..depth
        BY <1>2, <3>2
      <4> QED
        BY <1>7, <4>1 DEF NestInv
    <3> QED
      BY <3>1, <3>2
  <2>5. (depth + 1) - 1 = depth
    BY <1>2
  <2> QED
    BY <1>7, <2>1, <2>2, <2>3, <2>4, <2>5 DEF NestInv
<1>9. ExactInv'
  BY <1>2, <1>6, <1>7 DEF ExactInv
<1>10. \A p : HasRun(p)' <=> HasRun(p)
  BY <1>1 DEF HasRun
<1>11. RanInv'
  <2>1. \A p : HasRun(p)' <=> \E k \in 1..Len(frames') : DoneIn(frames'[k], p)
    <3> SUFFICES ASSUME NEW p
                 PROVE  HasRun(p) <=> \E k \in 1..(depth + 1) : DoneIn(frames'[k], p)
      BY <1>7, <1>10
    <3>1. HasRun(p) <=> \E k \in 1..depth : DoneIn(frames[k], p)
      BY <1>2 DEF RanInv
    <3> QED
      BY <1>6, <1>7, <3>1
  <2>2. ASSUME NEW j \in DOMAIN ran, NEW k \in 1..(depth + 1),
               NEW x \in frames'[k].left,
               Below(ran[j].place, frames'[k].place, k, x)
        PROVE  k < depth + 1 /\ frames'[k + 1].place[k] = x
    <3>1. CASE k \in 1..depth
      <4>1. x \in frames[k].left /\ Below(ran[j].place, frames[k].place, k, x)
        BY <1>7, <2>2, <3>1
      <4>2. k < depth /\ frames[k + 1].place[k] = x
        BY <1>2, <3>1, <4>1 DEF RanInv
      <4> QED
        BY <1>2, <1>7, <4>2
    <3>2. CASE k = depth + 1
      <4>1. Below(ran[j].place, P, depth + 1, x)
        BY <1>4, <1>7, <2>2, <3>2
      <4>2. Below(ran[j].place, frames[depth].place, depth, current)
        <5>1. /\ Len(ran[j].place) >= depth + 1
              /\ \A i \in 1..((depth + 1) - 1) : ran[j].place[i] = P[i]
          BY <4>1 DEF Below
        <5>2. \A i \in 1..depth : ran[j].place[i] = P[i]
          BY <1>2, <5>1
        <5>3. Len(ran[j].place) \in Nat
          <6>1. ran[j] \in Bodies
            BY ElementOfSeq, LenProperties DEF TypeInv
          <6> QED
            BY <6>1, LenProperties DEF Bodies
        <5>4. Len(ran[j].place) >= depth
          BY <1>2, <5>1, <5>3
        <5>5. \A i \in 1..(depth - 1) : i \in 1..depth
          BY <1>2
        <5> QED
          BY <1>2, <1>3, <5>2, <5>4, <5>5 DEF Below
      <4> QED
        BY <1>2, <4>2 DEF RanInv
    <3> QED
      BY <1>7, <3>1, <3>2
  <2>3. UNCHANGED ran
    BY <1>1
  <2> QED
    BY <1>7, <2>1, <2>2, <2>3 DEF RanInv
<1> QED
  BY <1>8, <1>9, <1>11

(* What an execution without a node left has made. *)
LEMMA AllDone ==
  ASSUME TypeInv, NestInv, ExactInv, RanInv, frames # <<>>, frame.left = {},
         frame.outputs[graph.output] # <<Absent>>
  PROVE  /\ Denotes[Point(frame.of, graph.output, frame.input)]
              = {frame.outputs[graph.output]}
         /\ \A p : DoneIn(frame, p) <=> p \in Leaves[Spot(frame.of, frame.place)]
         /\ \A n \in NodeSet(graph) : \A j, k \in Predecessors(graph, n) : j = k
<1>1. /\ frame \in Frames /\ graph = Graph[frame.of] /\ Shape(graph)
      /\ Exact(frame)
  BY FrameFacts DEF TypeInv, ExactInv, graph, frame
<1>2. graph.output \in Nodes
  BY <1>1 DEF Shape
<1>3. Leaves[Spot(frame.of, frame.place)]
        = UNION {Under(Leaves, frame.of, frame.place, n) : n \in NodeSet(graph)}
  BY <1>1, LeavesOf DEF Frames
<1>4. \A p : DoneIn(frame, p) <=> p \in Leaves[Spot(frame.of, frame.place)]
  BY <1>1, <1>3 DEF DoneIn
<1> QED
  BY <1>1, <1>2, <1>4 DEF Exact

LEMMA NestedReturnWhole ==
  ASSUME TypeInv, frames # <<>>, NestInv, ExactInv, RanInv, Return,
         frames' # <<>>
  PROVE  NestInv' /\ ExactInv' /\ RanInv'
<1> DEFINE data == frame.outputs[graph.output]
           node == frame.place[Len(frame.place)]
           d == depth - 1
           front == SubSeq(frames, 1, d)
           f == frames[d]
           done == [f EXCEPT !.left = @ \ {node}, !.outputs[node] = data,
                             !.last = frame.last]
<1>1. /\ frame.left = {} /\ UNCHANGED <<top, ran>> /\ data # <<Absent>>
      /\ depth # 1
      /\ frames' = [front EXCEPT ![d].left = @ \ {node},
                                 ![d].outputs[node] = data,
                                 ![d].last = frame.last]
  BY DEF Return, Ends
<1>2. /\ depth \in Nat /\ depth \in 1..Len(frames) /\ depth = Len(frames)
      /\ frame = frames[depth] /\ frames \in Seq(Frames)
      /\ frame \in Frames /\ graph = Graph[frame.of] /\ Shape(graph)
  BY FrameFacts DEF TypeInv, FramesInv, frame, graph
<1>3. /\ d \in Nat /\ d \in 1..d /\ d \in 1..Len(frames) /\ depth = d + 1
      /\ 1 \in 1..d /\ \A k \in 1..d : k \in 1..Len(frames)
      /\ d \in 1..(Len(frames) - 1) /\ d = Len(frames) - 1
  <2>1. depth # 1
    BY <1>1
  <2>2. depth \in Nat /\ depth = Len(frames) /\ depth > 1
    BY <1>2, <2>1
  <2> QED
    BY <2>2
<1>4. /\ front \in Seq(Frames) /\ Len(front) = d
      /\ \A k \in 1..d : front[k] = frames[k]
  BY <1>2, <1>3, Front
<1>5. f \in Frames /\ Exact(f) /\ Good(f) /\ Within(f, frame)
  BY <1>2, <1>3 DEF ExactInv, NestInv, TypeInv, FramesInv, Good
<1>6. /\ node \in f.left /\ node \in NodeSet(Graph[f.of]) /\ node \in Nodes
      /\ frame.place = Append(f.place, node) /\ f.place \in Seq(Nodes)
      /\ Graph[f.of].kind[node] = "composite"
      /\ frame.of = Graph[f.of].inner[node]
      /\ Inputs(Denotes, f.of, node, f.input) = {frame.input}
      /\ \A j, k \in Predecessors(Graph[f.of], node) : j = k
  BY <1>5 DEF Within, Good, Frames
<1>7. data \in Values /\ frame.last \in {"PASS", Absent}
  BY <1>1, <1>2 DEF Frames, Shape
<1> HIDE DEF data, node, d, front, f
<1>8. /\ done \in Frames /\ done.of = f.of /\ done.place = f.place
      /\ done.input = f.input /\ done.left = f.left \ {node}
      /\ done.outputs = [f.outputs EXCEPT ![node] = data]
  <2> DEFINE out == [f.outputs EXCEPT ![node] = data]
  <2>1. out \in [Nodes -> Values \cup {<<Absent>>}]
    BY <1>5, <1>6, <1>7 DEF Frames
  <2>2. done = [f EXCEPT !.left = f.left \ {node}, !.outputs = out,
                         !.last = frame.last]
    OBVIOUS
  <2> HIDE DEF out
  <2>3. f.left \ {node} \in SUBSET Nodes
    BY <1>5 DEF Frames
  <2>4. /\ done \in Frames /\ done.of = f.of /\ done.place = f.place
        /\ done.input = f.input /\ done.left = f.left \ {node}
        /\ done.outputs = out
    BY <1>5, <1>7, <2>1, <2>2, <2>3 DEF Frames
  <2> QED
    BY <2>4 DEF out
<1>9. frames' = [front EXCEPT ![d] = done]
  <2>1. front[d] = f
    BY <1>3, <1>4 DEF f
  <2>2. frames' = [front EXCEPT ![d] =
                     [front[d] EXCEPT !.left = @ \ {node}, !.outputs[node] = data,
                                      !.last = frame.last]]
    BY <1>1
  <2> QED
    BY <2>1, <2>2
<1>10. /\ Len(frames') = d
       /\ \A k \in 1..d : frames'[k] = IF k = d THEN done ELSE frames[k]
  <2> HIDE DEF done
  <2> QED
    BY <1>3, <1>4, <1>8, <1>9, ExceptSeq
<1>11. /\ Denotes[Point(frame.of, graph.output, frame.input)] = {data}
       /\ \A p : DoneIn(frame, p) <=> p \in Leaves[Spot(frame.of, frame.place)]
  BY <1>1, AllDone DEF data
<1>12. /\ Exact(done)
       /\ \A p : DoneIn(done, p) <=> DoneIn(f, p) \/ DoneIn(frame, p)
  <2>1. Denotes[Point(f.of, node, f.input)] = {data}
    <3>1. Denotes[Point(f.of, node, f.input)] = Makes(Denotes, f.of, node, f.input)
      BY <1>5, <1>6, DenotesOf DEF Frames
    <3>2. Makes(Denotes, f.of, node, f.input)
            = Denotes[Point(frame.of, graph.output, frame.input)]
      BY <1>2, <1>6 DEF Makes
    <3> QED
      BY <3>1, <3>2, <1>11
  <2>2. Completes(f, done, node, data)
    <3> HIDE DEF done
    <3> QED
      BY <1>5, <1>6, <1>8, <2>1 DEF Completes
  <2>3. Under(Leaves, f.of, f.place, node) = Leaves[Spot(frame.of, frame.place)]
    BY <1>6 DEF Under
  <2> HIDE DEF done
  <2>4. /\ Exact(done)
        /\ \A p : DoneIn(done, p) <=>
               DoneIn(f, p) \/ p \in Under(Leaves, f.of, f.place, node)
    BY <1>5, <2>2, OneMoreDone
  <2> QED
    BY <2>3, <2>4, <1>11
<1> HIDE DEF done
<1>13. /\ \A k \in 1..d : /\ frames'[k].of = frames[k].of
                          /\ frames'[k].place = frames[k].place
                          /\ frames'[k].input = frames[k].input
                          /\ frames'[k].left \subseteq frames[k].left
       /\ node \notin frames'[d].left
       /\ \A k \in 1..(d - 1) : frames'[k] = frames[k]
  <2>1. ASSUME NEW k \in 1..d
        PROVE  /\ frames'[k].of = frames[k].of
               /\ frames'[k].place = frames[k].place
               /\ frames'[k].input = frames[k].input
               /\ frames'[k].left \subseteq frames[k].left
    <3>1. CASE k = d
      BY <1>8, <1>10, <3>1 DEF f
    <3>2. CASE k # d
      BY <1>10, <3>2
    <3> QED
      BY <3>1, <3>2
  <2>2. node \notin frames'[d].left
    BY <1>3, <1>8, <1>10
  <2>3. \A k \in 1..(d - 1) : k \in 1..d /\ k # d
    BY <1>3
  <2> QED
    BY <2>1, <2>2, <2>3, <1>10
<1>14. NestInv'
  <2>1. ASSUME NEW k \in 1..(d - 1) PROVE Within(frames'[k], frames'[k + 1])
    <3>1. k \in 1..(Len(frames) - 1) /\ k + 1 \in 1..d
      BY <1>3
    <3>2. Within(frames[k], frames[k + 1]) /\ frames'[k] = frames[k]
      BY <1>13, <3>1 DEF NestInv
    <3> QED
      BY <3>1, <3>2, <1>13 DEF Within
  <2>2. frames'[1].of = top' /\ frames'[1].input = <<>>
    BY <1>1, <1>3, <1>13 DEF NestInv
  <2>3. \A k \in 1..d : Len(frames'[k].place) = k - 1
    BY <1>3, <1>13 DEF NestInv
  <2>4. ASSUME NEW k \in 1..d, NEW j \in 1..k, NEW i \in 1..(j - 1)
        PROVE  frames'[j].place[i] = frames'[k].place[i]
    <3>1. j \in 1..d /\ k \in 1..Len(frames)
      BY <1>3
    <3>2. frames[j].place[i] = frames[k].place[i]
      BY <3>1 DEF NestInv
    <3> QED
      BY <3>1, <3>2, <1>13
  <2> QED
    BY <1>10, <2>1, <2>2, <2>3, <2>4 DEF NestInv
<1>15. ExactInv'
  <2> SUFFICES ASSUME NEW k \in 1..d PROVE Exact(frames'[k])
    BY <1>10 DEF ExactInv
  <2>1. CASE k = d
    BY <1>10, <1>12, <2>1
  <2>2. CASE k # d
    BY <1>3, <1>10, <2>2 DEF ExactInv
  <2> QED
    BY <2>1, <2>2
<1>16. \A p : HasRun(p)' <=> HasRun(p)
  BY <1>1 DEF HasRun
<1>17. RanInv'
  <2>1. ASSUME NEW p
        PROVE  HasRun(p) <=> \E k \in 1..d : DoneIn(frames'[k], p)
    <3>1. HasRun(p) <=> \E k \in 1..(d + 1) : DoneIn(frames[k], p)
      BY <1>2, <1>3 DEF RanInv
    <3>2. /\ \A k \in 1..(d + 1) : k = d + 1 \/ k = d \/ (k \in 1..d /\ k # d)
          /\ d + 1 \in 1..(d + 1) /\ \A k \in 1..d : k \in 1..(d + 1)
      BY <1>3
    <3>3. frames[d + 1] = frame /\ frames[d] = f
      BY <1>2, <1>3 DEF f
    <3> QED
      BY <1>3, <1>10, <1>12, <3>1, <3>2, <3>3
  <2>2. ASSUME NEW j \in DOMAIN ran, NEW k \in 1..d, NEW x \in frames'[k].left,
               Below(ran[j].place, frames'[k].place, k, x)
        PROVE  k < d /\ frames'[k + 1].place[k] = x
    <3>1. x \in frames[k].left /\ Below(ran[j].place, frames[k].place, k, x)
      BY <1>13, <2>2
    <3>2. frames[k + 1].place[k] = x
      BY <1>3, <3>1 DEF RanInv
    <3>3. k # d
      <4> SUFFICES ASSUME k = d PROVE FALSE
        OBVIOUS
      <4>1. frame.place[d] = x
        BY <1>2, <1>3, <3>2
      <4>2. Len(frame.place) = d
        <5>1. Len(frames[depth].place) = depth - 1
          BY <1>2 DEF NestInv
        <5> QED
          BY <1>2, <1>3, <5>1
      <4> QED
        BY <1>13, <2>2, <4>1, <4>2 DEF node
    <3>4. k < d /\ k + 1 \in 1..d
      BY <1>3, <3>3
    <3> QED
      BY <1>13, <3>2, <3>4
  <2>3. UNCHANGED ran
    BY <1>1
  <2> QED
    BY <1>10, <1>16, <2>1, <2>2, <2>3 DEF RanInv
<1> QED
  BY <1>14, <1>15, <1>17

(* What the outermost execute returns. *)
LEMMA LastReturnWhole ==
  ASSUME TypeInv, frames # <<>>, NestInv, ExactInv, RanInv, Return,
         result'.status = "PASS"
  PROVE  PassIsWhole'
<1>1. /\ frame.left = {} /\ UNCHANGED <<top, ran>>
      /\ frame.outputs[graph.output] # <<Absent>> /\ depth = 1
      /\ result'.data = frame.outputs[graph.output]
  <2>1. /\ frame.left = {} /\ UNCHANGED <<top, ran>>
    BY DEF Return
  <2>2. result.status = "none"
    BY FrameFacts DEF TypeInv
  <2> QED
    BY <2>1, <2>2 DEF Return, Ends
<1>2. /\ Len(frames) = 1 /\ frame = frames[1] /\ graph = Graph[frame.of]
      /\ frame.place \in Seq(Nodes)
  BY <1>1, FrameFacts DEF TypeInv, frame, graph, Frames
<1>3. frame.of = top /\ frame.input = <<>> /\ Len(frame.place) = 0
  BY <1>2 DEF NestInv
<1>4. frame.place = <<>>
  <2> DEFINE q == frame.place
  <2>1. q \in Seq(Nodes) /\ Len(q) = 0
    BY <1>2, <1>3
  <2> HIDE DEF q
  <2>2. q = <<>>
    BY <2>1, EmptySeq
  <2> QED
    BY <2>2 DEF q
<1>5. /\ Denotes[Point(top, Graph[top].output, <<>>)] = {result'.data}
      /\ \A p : DoneIn(frame, p) <=> p \in Leaves[Spot(top, <<>>)]
      /\ \A n \in NodeSet(Graph[top]) :
           \A j, k \in Predecessors(Graph[top], n) : j = k
  BY <1>1, <1>2, <1>3, <1>4, AllDone
<1>6. \A p : HasRun(p) <=> p \in Leaves[Spot(top, <<>>)]
  BY <1>2, <1>5 DEF RanInv
<1>7. {ran[k].place : k \in DOMAIN ran} = Leaves[Spot(top, <<>>)]
  BY <1>6 DEF HasRun
<1>8. \A j, k \in DOMAIN ran : ran[j].place = ran[k].place => j = k
  BY DEF RanInv
<1> QED
  BY <1>1, <1>5, <1>7, <1>8 DEF PassIsWhole, Point, Spot

(* A step of the search, or the gate of the pair: nothing is done. *)
LEMMA SearchWhole ==
  ASSUME TypeInv, frames # <<>>, NestInv, ExactInv, RanInv,
         SearchFrom \/ SearchEdge \/ SearchBack \/ RequirePair,
         frames' # <<>>
  PROVE  NestInv' /\ ExactInv' /\ RanInv'
<1>1. UNCHANGED <<top, ran>>
  BY DEF SearchFrom, SearchEdge, SearchBack, RequirePair
<1>2. /\ depth \in 1..Len(frames) /\ frame = frames[depth]
      /\ frame \in Frames /\ frames \in Seq(Frames)
  BY FrameFacts DEF TypeInv, FramesInv, frame
<1>3. \E f : Becomes(f) /\ Alike(f, frame)
  <2> DEFINE phased(x) == [frame EXCEPT !.phase = x]
             pathed(x) == [frame EXCEPT !.path = x]
             blackened(x, y) == [frame EXCEPT !.black = y, !.path = x]
  <2>0. \A x, y : /\ Alike(phased(x), frame) /\ Alike(pathed(x), frame)
                  /\ Alike(blackened(x, y), frame)
    BY <1>2 DEF Alike, Frames
  <2>1. CASE SearchFrom
    <3>1. PICK path : Becomes(phased("gate"))
                        \/ Becomes(pathed(path))
      BY <2>1 DEF SearchFrom
    <3> HIDE DEF phased, pathed, blackened
    <3> QED
      BY <2>0, <3>1
  <2>2. CASE SearchEdge
    <3>1. PICK path : Becomes(pathed(path))
      BY <2>2 DEF SearchEdge, Ends
    <3> HIDE DEF phased, pathed, blackened
    <3> QED
      BY <2>0, <3>1
  <2>3. CASE SearchBack
    <3>1. PICK path, black : Becomes(blackened(path, black))
      BY <2>3 DEF SearchBack
    <3> HIDE DEF phased, pathed, blackened
    <3> QED
      BY <2>0, <3>1
  <2>4. CASE RequirePair
    <3>1. Becomes(phased("run"))
      BY <2>4 DEF RequirePair, Ends
    <3> HIDE DEF phased, pathed, blackened
    <3> QED
      BY <2>0, <3>1
  <2> QED
    BY <2>1, <2>2, <2>3, <2>4
<1>4. PICK f : Becomes(f) /\ Alike(f, frame)
  BY <1>3
<1>5. frames' = [frames EXCEPT ![depth] = f]
  BY <1>4 DEF Becomes
<1>6. /\ Len(frames') = Len(frames)
      /\ \A k \in 1..Len(frames) : frames'[k] = IF k = depth THEN f ELSE frames[k]
  BY <1>2, <1>5, LenProperties
<1>7. \A k \in 1..Len(frames) : Alike(frames'[k], frames[k])
  BY <1>2, <1>4, <1>6 DEF Alike
<1> QED
  BY <1>1, <1>6, <1>7, AlikeKeeps

LEMMA WholeStep == TypeInv /\ WholeInv /\ [Next]_vars => WholeInv'
<1> SUFFICES ASSUME TypeInv, WholeInv, [Next]_vars PROVE WholeInv'
  OBVIOUS
<1>1. ASSUME Next, frames' # <<>> PROVE NestInv' /\ ExactInv' /\ RanInv'
  <2>1. frames # <<>>
    BY <1>1, QuietFrame, BodyFrame, RaiseFrame DEF Next, Quiet
  <2>2. NestInv /\ ExactInv /\ RanInv
    BY <2>1 DEF WholeInv
  <2>3. CASE NodeRaises \/ LeafBreaks \/ BodyRaises \/ Overflows
    BY <1>1, <2>3 DEF NodeRaises, LeafBreaks, BodyRaises, Overflows, Raises, Ends
  <2>4. CASE RefuseLeaf
    BY <1>1, <2>4 DEF RefuseLeaf, Ends
  <2> QED
    BY <1>1, <2>1, <2>2, <2>3, <2>4, SearchWhole, RunLeafWhole, EnterWhole,
       NestedReturnWhole DEF Next
<1>2. ASSUME Next PROVE PassIsWhole'
  <2> SUFFICES ASSUME result'.status = "PASS" PROVE PassIsWhole'
    BY DEF PassIsWhole
  <2>1. frames # <<>>
    BY <1>2, QuietFrame, BodyFrame, RaiseFrame DEF Next, Quiet
  <2>2. result.status = "none" /\ NestInv /\ ExactInv /\ RanInv
    BY <2>1, FrameFacts DEF WholeInv, TypeInv
  <2>3. Return
    <3>1. CASE SearchFrom \/ SearchBack \/ EnterComposite
      BY <2>2, <3>1 DEF SearchFrom, SearchBack, EnterComposite, Becomes
    <3>2. CASE SearchEdge
      BY <2>2, <3>2 DEF SearchEdge, Becomes, Ends
    <3>3. CASE RequirePair
      BY <2>2, <3>3 DEF RequirePair, Becomes, Ends
    <3>4. CASE NodeRaises \/ LeafBreaks \/ BodyRaises \/ Overflows
      BY <2>2, <3>4 DEF NodeRaises, LeafBreaks, BodyRaises, Overflows, Raises, Ends
    <3>5. CASE RefuseLeaf
      BY <2>2, <3>5 DEF RefuseLeaf, Ends
    <3>6. CASE RunLeaf
      <4>1. PICK r \in Bodies : IF r.status = "PASS" THEN UNCHANGED result
                              ELSE result'.status = r.status
        BY <3>6, BodyFrame
      <4> QED
        BY <2>2, <4>1
    <3> QED
      BY <1>2, <3>1, <3>2, <3>3, <3>4, <3>5, <3>6 DEF Next
  <2> QED
    BY <2>1, <2>2, <2>3, LastReturnWhole
<1>3. CASE UNCHANGED vars
  <2>1. PassIsWhole'
    BY <1>3 DEF vars, WholeInv, PassIsWhole
  <2>2. ASSUME frames # <<>> PROVE NestInv' /\ ExactInv' /\ RanInv'
    <3>1. NestInv /\ ExactInv /\ RanInv /\ UNCHANGED <<top, ran>>
          /\ frames' = frames
      BY <1>3, <2>2 DEF WholeInv, vars
    <3>2. \A k \in 1..Len(frames) : Alike(frames'[k], frames[k])
      BY <3>1 DEF Alike
    <3> QED
      BY <2>2, <3>1, <3>2, AlikeKeeps
  <2>3. frames' = frames
    BY <1>3 DEF vars
  <2> QED
    BY <2>1, <2>2, <2>3 DEF WholeInv
<1> QED
  BY <1>1, <1>2, <1>3 DEF WholeInv

LEMMA WholeInit == Init => WholeInv
<1> SUFFICES ASSUME Init PROVE WholeInv
  OBVIOUS
<1> DEFINE f == Frame(top, <<>>, <<>>)
<1>1. frames = <<f>> /\ ran = <<>> /\ result.status # "PASS"
  BY DEF Init
<1>2. /\ f.of = top /\ f.input = <<>> /\ f.place = <<>>
      /\ f.left = NodeSet(Graph[top])
      /\ \A n \in Nodes : f.outputs[n] = <<Absent>>
  BY DEF Frame
<1> HIDE DEF f
<1>3. Len(frames) = 1 /\ frames[1] = f /\ DOMAIN ran = {} /\ Len(f.place) = 0
  BY <1>1, <1>2
<1>4. NestInv
  BY <1>2, <1>3 DEF NestInv
<1>5. Exact(f) /\ \A p : ~DoneIn(f, p)
  BY <1>2 DEF Exact, DoneIn
<1>6. ExactInv /\ RanInv
  BY <1>3, <1>5 DEF ExactInv, RanInv, HasRun
<1> QED
  BY <1>1, <1>4, <1>6 DEF WholeInv, PassIsWhole

(* PassIsWhole: behind a PASS, whatever is nested in what, every leaf ran  *)
(* and ran once, and the data is the value the edges lead to the output,   *)
(* though only the verdict of the last node is looked at (execute).        *)
THEOREM WholeTheorem == Spec => []PassIsWhole
<1>1. WholeInv => PassIsWhole
  BY DEF WholeInv
<1> QED
  BY <1>1, WholeInit, WholeStep, CompositeTypeInvTheorem, PTL DEF Spec
=============================================================================
