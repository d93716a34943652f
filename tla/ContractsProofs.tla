-------------------------- MODULE ContractsProofs --------------------------
(***************************************************************************)
(* For every set of declarations, every chain of them and every defaults:  *)
(* what a resolution of policies demands is what the policies on the chain *)
(* demand.  The invariant is the order behind compare_provided_required:   *)
(* an effective value is a bound of each value it was resolved from.       *)
(* For every schema and record, what the two validators and the filling    *)
(* say; for every sequence of interfaces, what a migration plan names.     *)
(***************************************************************************)
EXTENDS Contracts, TLAPS

(* effective demands at least what declared does. *)
Bounds(k, effective_, declared) ==
  /\ k \in LeastFields /\ declared # Absent =>
       effective_ # Absent /\ effective_ <= declared
  /\ k \in GreatestFields /\ declared # Absent =>
       effective_ # Absent /\ effective_ >= declared
  /\ k \in JoinedFields => Listed(declared) \subseteq Listed(effective_)
  /\ k \in StrengthenedFields => (declared = TRUE => effective_ = TRUE)
  /\ k \in RankedFields /\ Ranked(k, declared) =>
       Rank(k, effective_) >= Rank(k, declared)

BoundInv ==
  \A k \in StrategyFields \ CommonFields : \A i \in DOMAIN chain :
    Bounds(k, Get(effective, k), Get(chain[i], k))

ChainType == chain \in Seq(Declarations \cup Roots)

Invariant == TypeOK /\ ChainType /\ BoundInv /\ NothingInvented
-----------------------------------------------------------------------------
(* The ranks of a field are numbers, and what has none is below them all. *)
LEMMA RankType ==
  ASSUME NEW k \in RankedFields, NEW value
  PROVE  Rank(k, value) \in Int /\ (Rank(k, value) >= 0 <=> Ranked(k, value))
<1>1. CASE k = "history"
  BY <1>1 DEF Rank, Ranked, Ranks
<1>2. CASE k = "network"
  BY <1>2 DEF Rank, Ranked, Ranks
<1>3. CASE k = "security"
  BY <1>3 DEF Rank, Ranked, Ranks
<1> QED BY <1>1, <1>2, <1>3 DEF RankedFields

(* Each field has one strategy. *)
LEMMA OneStrategy ==
  /\ \A k \in LeastFields : k \notin GreatestFields \cup CommonFields \cup
       JoinedFields \cup StrengthenedFields \cup RankedFields
  /\ \A k \in GreatestFields : k \notin LeastFields \cup CommonFields \cup
       JoinedFields \cup StrengthenedFields \cup RankedFields
  /\ \A k \in CommonFields : k \notin LeastFields \cup GreatestFields \cup
       JoinedFields \cup StrengthenedFields \cup RankedFields
  /\ \A k \in JoinedFields : k \notin LeastFields \cup GreatestFields \cup
       CommonFields \cup StrengthenedFields \cup RankedFields
  /\ \A k \in StrengthenedFields : k \notin LeastFields \cup GreatestFields \cup
       CommonFields \cup JoinedFields \cup RankedFields
  /\ \A k \in RankedFields : k \notin LeastFields \cup GreatestFields \cup
       CommonFields \cup JoinedFields \cup StrengthenedFields
BY DEF LeastFields, GreatestFields, CommonFields, JoinedFields, StrengthenedFields, RankedFields

(* What a value, a merge, a comparison and a bound are for each kind of    *)
(* field: the cases of the definitions taken apart.                        *)
LEMMA ValueCases ==
  ASSUME NEW k \in StrategyFields, NEW value, IsValue(k, value), value # Absent
  PROVE  /\ k \in LeastFields \cup GreatestFields => value \in Int
         /\ k \in CommonFields \cup JoinedFields => value \subseteq Things
         /\ k \in StrengthenedFields => value \in BOOLEAN
BY OneStrategy DEF IsValue, StrategyFields

LEMMA LeastCases ==
  ASSUME NEW k \in LeastFields, NEW one, NEW other
  PROVE  /\ Merge(k, one, other) =
              IF one = Absent THEN other
              ELSE IF other = Absent THEN one
              ELSE IF other < one THEN other ELSE one
         /\ Meets(k, one, other) <=>
              (other # Absent => one # Absent /\ one <= other)
         /\ Bounds(k, one, other) <=>
              (other # Absent => one # Absent /\ one <= other)
<1>1. Merge(k, one, other) =
              IF one = Absent THEN other
              ELSE IF other = Absent THEN one
              ELSE IF other < one THEN other ELSE one
  BY OneStrategy DEF Merge
<1>2. Meets(k, one, other) <=>
              (other # Absent => one # Absent /\ one <= other)
  BY OneStrategy DEF Meets
<1>3. Bounds(k, one, other) <=>
              (other # Absent => one # Absent /\ one <= other)
  BY OneStrategy DEF Bounds
<1> QED BY <1>1, <1>2, <1>3

LEMMA GreatestCases ==
  ASSUME NEW k \in GreatestFields, NEW one, NEW other
  PROVE  /\ Merge(k, one, other) =
              IF one = Absent THEN other
              ELSE IF other = Absent THEN one
              ELSE IF other > one THEN other ELSE one
         /\ Meets(k, one, other) <=>
              (other # Absent => one # Absent /\ one >= other)
         /\ Bounds(k, one, other) <=>
              (other # Absent => one # Absent /\ one >= other)
<1>1. Merge(k, one, other) =
              IF one = Absent THEN other
              ELSE IF other = Absent THEN one
              ELSE IF other > one THEN other ELSE one
  BY OneStrategy DEF Merge
<1>2. Meets(k, one, other) <=>
              (other # Absent => one # Absent /\ one >= other)
  BY OneStrategy DEF Meets
<1>3. Bounds(k, one, other) <=>
              (other # Absent => one # Absent /\ one >= other)
  BY OneStrategy DEF Bounds
<1> QED BY <1>1, <1>2, <1>3

LEMMA JoinedCases ==
  ASSUME NEW k \in JoinedFields, NEW one, NEW other
  PROVE  /\ Merge(k, one, other) =
              Listed(one) \cup Listed(other)
         /\ Meets(k, one, other) <=>
              (Listed(one) \cap Listed(other) = {})
         /\ Bounds(k, one, other) <=>
              (Listed(other) \subseteq Listed(one))
<1>1. Merge(k, one, other) =
              Listed(one) \cup Listed(other)
  BY OneStrategy DEF Merge
<1>2. Meets(k, one, other) <=>
              (Listed(one) \cap Listed(other) = {})
  BY OneStrategy DEF Meets
<1>3. Bounds(k, one, other) <=>
              (Listed(other) \subseteq Listed(one))
  BY OneStrategy DEF Bounds
<1> QED BY <1>1, <1>2, <1>3

LEMMA StrengthenedMerge ==
  \A k \in StrengthenedFields : \A one, other :
    /\ one = TRUE \/ other = TRUE => Merge(k, one, other) = TRUE
    /\ one # TRUE /\ other # TRUE => Merge(k, one, other) = FALSE
BY OneStrategy DEF Merge, Truth

LEMMA StrengthenedMeets ==
  \A k \in StrengthenedFields : \A one, other :
    Meets(k, one, other) <=> (other = TRUE => one = TRUE)
BY OneStrategy DEF Meets, Truth

LEMMA StrengthenedBounds ==
  \A k \in StrengthenedFields : \A one, other :
    Bounds(k, one, other) <=> (other = TRUE => one = TRUE)
BY OneStrategy DEF Bounds

LEMMA RankedCases ==
  ASSUME NEW k \in RankedFields, NEW one, NEW other
  PROVE  /\ Merge(k, one, other) =
              IF ~Ranked(k, one) THEN IF Ranked(k, other) THEN other ELSE Absent
              ELSE IF Rank(k, one) >= Rank(k, other) THEN one ELSE other
         /\ Meets(k, one, other) <=>
              (other # Absent => one # Absent /\ Rank(k, one) >= Rank(k, other))
         /\ Bounds(k, one, other) <=>
              (Ranked(k, other) => Rank(k, one) >= Rank(k, other))
<1>1. Merge(k, one, other) =
              IF ~Ranked(k, one) THEN IF Ranked(k, other) THEN other ELSE Absent
              ELSE IF Rank(k, one) >= Rank(k, other) THEN one ELSE other
  BY OneStrategy DEF Merge
<1>2. Meets(k, one, other) <=>
              (other # Absent => one # Absent /\ Rank(k, one) >= Rank(k, other))
  BY OneStrategy DEF Meets
<1>3. Bounds(k, one, other) <=>
              (Ranked(k, other) => Rank(k, one) >= Rank(k, other))
  BY OneStrategy DEF Bounds
<1> QED BY <1>1, <1>2, <1>3

LEMMA CommonCases ==
  ASSUME NEW k \in CommonFields, NEW one, NEW other
  PROVE  /\ Merge(k, one, other) = Listed(one) \cap Listed(other)
         /\ Meets(k, one, other) <=> Listed(other) \subseteq Listed(one)
<1>1. Merge(k, one, other) = Listed(one) \cap Listed(other)
  BY OneStrategy DEF Merge
<1>2. Meets(k, one, other) <=> Listed(other) \subseteq Listed(one)
  BY OneStrategy DEF Meets
<1> QED BY <1>1, <1>2

LEMMA AbsentUnranked ==
  ASSUME NEW k \in RankedFields
  PROVE  ~Ranked(k, Absent)
BY ContractsAssumption

(* A default, a merge and a child of a field are values of that field. *)
LEMMA MergeType ==
  ASSUME NEW k \in StrategyFields, NEW parent, NEW child,
         IsValue(k, parent), IsValue(k, child)
  PROVE  IsValue(k, Merge(k, parent, child))
<1> DEFINE merged == Merge(k, parent, child)
<1>1. CASE k \in LeastFields
  <2>1. merged \in {parent, child}
    BY <1>1, LeastCases
  <2> QED BY <2>1
<1>2. CASE k \in GreatestFields
  <2>1. merged \in {parent, child}
    BY <1>2, GreatestCases
  <2> QED BY <2>1
<1>3. CASE k \in CommonFields \cup JoinedFields
  <2>1. Listed(parent) \subseteq Things /\ Listed(child) \subseteq Things
    BY <1>3, ValueCases DEF Listed
  <2>2. merged \subseteq Things
    BY <1>3, <2>1, CommonCases, JoinedCases
  <2> QED BY <1>3, <2>2 DEF IsValue
<1>4. CASE k \in StrengthenedFields
  <2>1. merged \in BOOLEAN
    BY <1>4, StrengthenedMerge
  <2> QED BY <1>4, <2>1 DEF IsValue
<1>5. CASE k \in RankedFields
  <2>1. merged \in {parent, child, Absent}
    BY <1>5, RankedCases
  <2> QED BY <2>1 DEF IsValue
<1> QED BY <1>1, <1>2, <1>3, <1>4, <1>5 DEF StrategyFields

LEMMA ResolveType ==
  ASSUME NEW k, NEW parent, NEW child, NEW default,
         IsValue(k, parent), IsValue(k, child), IsValue(k, default)
  PROVE  IsValue(k, ResolveField(k, parent, child, default))
<1>1. CASE k \in StrategyFields
  <2>1. ResolveField(k, parent, child, default) \in {Merge(k, parent, child), default}
    BY <1>1 DEF ResolveField
  <2> QED BY <1>1, <2>1, MergeType
<1>2. CASE k \notin StrategyFields
  BY <1>2 DEF IsValue
<1> QED BY <1>1, <1>2

(* A merged value bounds both of its sides; a default stands in for a      *)
(* value that bounds nothing.                                              *)
LEMMA ResolveBounds ==
  ASSUME NEW k \in StrategyFields \ CommonFields,
         NEW parent, NEW child, NEW default, NEW declared,
         IsValue(k, parent), IsValue(k, child), IsValue(k, declared),
         Bounds(k, parent, declared) \/ declared = child
  PROVE  Bounds(k, ResolveField(k, parent, child, default), declared)
<1> DEFINE merged == Merge(k, parent, child)
<1>1. ResolveField(k, parent, child, default) = IF merged = Absent THEN default ELSE merged
  BY DEF ResolveField
<1>2. Bounds(k, merged, declared)
  <2>1. CASE k \in LeastFields
    <3>1. \A value \in {parent, child, declared} : value = Absent \/ value \in Int
      BY <2>1, ValueCases
    <3>2. merged = IF parent = Absent THEN child
                   ELSE IF child = Absent THEN parent
                   ELSE IF child < parent THEN child ELSE parent
      BY <2>1, LeastCases
    <3>3. \A one, other : Bounds(k, one, other)
                             <=> (other # Absent => one # Absent /\ one <= other)
      BY <2>1, LeastCases
    <3> HIDE DEF merged
    <3> QED BY <3>1, <3>2, <3>3
  <2>2. CASE k \in GreatestFields
    <3>1. \A value \in {parent, child, declared} : value = Absent \/ value \in Int
      BY <2>2, ValueCases
    <3>2. merged = IF parent = Absent THEN child
                   ELSE IF child = Absent THEN parent
                   ELSE IF child > parent THEN child ELSE parent
      BY <2>2, GreatestCases
    <3>3. \A one, other : Bounds(k, one, other)
                             <=> (other # Absent => one # Absent /\ one >= other)
      BY <2>2, GreatestCases
    <3> HIDE DEF merged
    <3> QED BY <3>1, <3>2, <3>3
  <2>3. CASE k \in JoinedFields
    <3>1. Listed(merged) = Listed(parent) \cup Listed(child)
      <4>1. merged = Listed(parent) \cup Listed(child)
        BY <2>3, JoinedCases
      <4>2. Listed(parent) \cup Listed(child) \subseteq Things
        BY <2>3, ValueCases DEF Listed
      <4>3. merged # Absent
        BY <4>1, <4>2, ContractsAssumption
      <4> HIDE DEF merged
      <4> QED BY <4>1, <4>3 DEF Listed
    <3> QED BY <2>3, <3>1, JoinedCases
  <2>4. CASE k \in StrengthenedFields
    <3>1. parent = TRUE \/ child = TRUE => merged = TRUE
      BY <2>4, StrengthenedMerge
    <3>2. \A one, other : Bounds(k, one, other) <=> (other = TRUE => one = TRUE)
      BY <2>4, StrengthenedBounds
    <3> HIDE DEF merged
    <3> QED BY <3>1, <3>2
  <2>5. CASE k \in RankedFields
    <3>1. \A value : Rank(k, value) \in Int /\ (Rank(k, value) >= 0 <=> Ranked(k, value))
      BY <2>5, RankType
    <3>2. merged = IF ~Ranked(k, parent) THEN IF Ranked(k, child) THEN child ELSE Absent
                   ELSE IF Rank(k, parent) >= Rank(k, child) THEN parent ELSE child
      BY <2>5, RankedCases
    <3>3. \A one, other : Bounds(k, one, other)
                             <=> (Ranked(k, other) => Rank(k, one) >= Rank(k, other))
      BY <2>5, RankedCases
    <3> HIDE DEF merged
    <3> QED BY <3>1, <3>2, <3>3
  <2> QED BY <2>1, <2>2, <2>3, <2>4, <2>5 DEF StrategyFields
<1>3. ASSUME merged = Absent PROVE Bounds(k, default, declared)
  <2>1. Bounds(k, Absent, declared)
    BY <1>2, <1>3
  <2>2. CASE k \in LeastFields
    BY <2>1, <2>2, LeastCases
  <2>3. CASE k \in GreatestFields
    BY <2>1, <2>3, GreatestCases
  <2>4. CASE k \in JoinedFields
    BY <2>1, <2>4, JoinedCases DEF Listed
  <2>5. CASE k \in StrengthenedFields
    <3>1. Absent # TRUE
      BY ContractsAssumption
    <3> QED BY <2>1, <2>5, <3>1, StrengthenedBounds
  <2>6. CASE k \in RankedFields
    <3>1. \A value : Rank(k, value) \in Int /\ (Rank(k, value) >= 0 <=> Ranked(k, value))
      BY <2>6, RankType
    <3>2. ~Ranked(k, Absent)
      BY <2>6, AbsentUnranked
    <3>3. \A one, other : Bounds(k, one, other)
                             <=> (Ranked(k, other) => Rank(k, one) >= Rank(k, other))
      BY <2>6, RankedCases
    <3> QED BY <2>1, <3>1, <3>2, <3>3
  <2> QED BY <2>2, <2>3, <2>4, <2>5, <2>6 DEF StrategyFields
<1> HIDE DEF merged
<1> QED BY <1>1, <1>2, <1>3

(* Whoever meets a bound meets what it bounds. *)
LEMMA BoundsMeet ==
  ASSUME NEW k \in StrategyFields \ CommonFields,
         NEW provided, NEW bound, NEW declared,
         IsValue(k, provided), IsValue(k, bound), IsValue(k, declared),
         Bounds(k, bound, declared), Counts(k, declared), Meets(k, provided, bound)
  PROVE  Meets(k, provided, declared)
<1>1. CASE k \in LeastFields
  <2>1. \A value \in {provided, bound, declared} : value = Absent \/ value \in Int
    BY <1>1, ValueCases
  <2>2. \A one, other : /\ Bounds(k, one, other)
                             <=> (other # Absent => one # Absent /\ one <= other)
                        /\ Meets(k, one, other)
                             <=> (other # Absent => one # Absent /\ one <= other)
    BY <1>1, LeastCases
  <2> QED BY <2>1, <2>2
<1>2. CASE k \in GreatestFields
  <2>1. \A value \in {provided, bound, declared} : value = Absent \/ value \in Int
    BY <1>2, ValueCases
  <2>2. \A one, other : /\ Bounds(k, one, other)
                             <=> (other # Absent => one # Absent /\ one >= other)
                        /\ Meets(k, one, other)
                             <=> (other # Absent => one # Absent /\ one >= other)
    BY <1>2, GreatestCases
  <2> QED BY <2>1, <2>2
<1>3. CASE k \in JoinedFields
  <2>1. Listed(declared) \subseteq Listed(bound)
    BY <1>3, JoinedCases
  <2>2. Listed(provided) \cap Listed(bound) = {}
    BY <1>3, JoinedCases
  <2>3. Listed(provided) \cap Listed(declared) = {}
    BY <2>1, <2>2
  <2> QED BY <1>3, <2>3, JoinedCases
<1>4. CASE k \in StrengthenedFields
  BY <1>4, StrengthenedBounds, StrengthenedMeets
<1>5. CASE k \in RankedFields
  <2>1. \A one, other :
          /\ Bounds(k, one, other) <=> (Ranked(k, other) => Rank(k, one) >= Rank(k, other))
          /\ Meets(k, one, other) <=>
               (other # Absent => one # Absent /\ Rank(k, one) >= Rank(k, other))
    BY <1>5, RankedCases
  <2>2. \A value : Rank(k, value) \in Int /\ (Rank(k, value) >= 0 <=> Ranked(k, value))
    BY <1>5, RankType
  <2>3. ~Ranked(k, Absent)
    BY <1>5, AbsentUnranked
  <2>4. declared = Absent \/ Ranked(k, declared)
    BY <1>5 DEF Counts
  <2> QED BY <2>1, <2>2, <2>3, <2>4
<1> QED BY <1>1, <1>2, <1>3, <1>4, <1>5 DEF StrategyFields

(* Whoever meets both sides and the default meets what they resolve to. *)
LEMMA MeetsResolved ==
  ASSUME NEW k \in StrategyFields,
         NEW provided, NEW parent, NEW child, NEW default,
         Meets(k, provided, parent), Meets(k, provided, child),
         Meets(k, provided, default)
  PROVE  Meets(k, provided, ResolveField(k, parent, child, default))
<1> DEFINE merged == Merge(k, parent, child)
<1>1. ResolveField(k, parent, child, default) \in {merged, default}
  BY DEF ResolveField
<1>2. Meets(k, provided, merged)
  <2>1. CASE k \in LeastFields
    <3>1. merged \in {parent, child}
      BY <2>1, LeastCases
    <3> QED BY <3>1
  <2>2. CASE k \in GreatestFields
    <3>1. merged \in {parent, child}
      BY <2>2, GreatestCases
    <3> QED BY <3>1
  <2>3. CASE k \in CommonFields
    <3>1. merged = Listed(parent) \cap Listed(child) /\ Listed(merged) \subseteq merged
      BY <2>3, CommonCases DEF Listed
    <3>2. Listed(parent) \subseteq Listed(provided)
      BY <2>3, CommonCases
    <3>3. Listed(merged) \subseteq Listed(provided)
      <4> HIDE DEF merged
      <4> QED BY <3>1, <3>2
    <3> QED BY <2>3, <3>3, CommonCases
  <2>4. CASE k \in JoinedFields
    <3>1. merged = Listed(parent) \cup Listed(child) /\ Listed(merged) \subseteq merged
      BY <2>4, JoinedCases DEF Listed
    <3>2. Listed(provided) \cap Listed(parent) = {} /\ Listed(provided) \cap Listed(child) = {}
      BY <2>4, JoinedCases
    <3>3. Listed(provided) \cap Listed(merged) = {}
      <4> HIDE DEF merged
      <4> QED BY <3>1, <3>2
    <3> QED BY <2>4, <3>3, JoinedCases
  <2>5. CASE k \in StrengthenedFields
    <3>1. parent = TRUE \/ child = TRUE => provided = TRUE
      BY <2>5, StrengthenedMeets
    <3>2. ASSUME parent # TRUE, child # TRUE PROVE merged = FALSE
      BY <2>5, <3>2, OneStrategy DEF Merge, Truth
    <3>3. CASE parent = TRUE \/ child = TRUE
      BY <2>5, <3>1, <3>3, StrengthenedMeets
    <3>4. CASE merged = FALSE
      BY <2>5, <3>4, StrengthenedMeets
    <3> QED BY <3>2, <3>3, <3>4
  <2>6. CASE k \in RankedFields
    <3>1. merged \in {parent, child, Absent}
      BY <2>6, RankedCases
    <3>2. Meets(k, provided, Absent)
      BY <2>6, RankedCases
    <3> HIDE DEF merged
    <3> QED BY <3>1, <3>2
  <2> QED BY <2>1, <2>2, <2>3, <2>4, <2>5, <2>6 DEF StrategyFields
<1> HIDE DEF merged
<1> QED BY <1>1, <1>2
-----------------------------------------------------------------------------
(* A field that no side has is no field of the resolved policy. *)
LEMMA ResolvedFields ==
  ASSUME NEW parent, NEW child, NEW k
  PROVE  LET resolved == ResolvePolicy(parent, child, Defaults)
         IN  \/ Get(resolved, k) = ResolveField(k, Get(parent, k), Get(child, k),
                                               Get(Defaults, k))
             \/ /\ Get(resolved, k) = Absent
                /\ Get(parent, k) = Absent
                /\ Get(child, k) = Absent
BY DEF ResolvePolicy, Get

LEMMA GetType ==
  ASSUME NEW policy, Typed(policy), NEW k
  PROVE  IsValue(k, Get(policy, k))
BY DEF Typed, Get, IsValue

LEMMA ResolvedType ==
  ASSUME NEW parent, NEW child, Typed(parent), Typed(child)
  PROVE  Typed(ResolvePolicy(parent, child, Defaults))
<1> DEFINE resolved == ResolvePolicy(parent, child, Defaults)
<1>1. SUFFICES ASSUME NEW k \in DOMAIN resolved
               PROVE  IsValue(k, resolved[k])
  BY DEF Typed
<1>2. resolved[k] = ResolveField(k, Get(parent, k), Get(child, k), Get(Defaults, k))
  BY DEF ResolvePolicy
<1>3. /\ IsValue(k, Get(parent, k))
      /\ IsValue(k, Get(child, k))
      /\ IsValue(k, Get(Defaults, k))
  BY GetType, ContractsAssumption
<1> HIDE DEF resolved
<1> QED BY <1>2, <1>3, ResolveType

(* Every reachable state satisfies the invariant. *)
LEMMA InvariantInit == Init => Invariant
<1> SUFFICES ASSUME Init PROVE Invariant
  OBVIOUS
<1>1. chain = <<>> /\ effective = <<>> /\ conflict = FALSE
  BY DEF Init
<1>2. DOMAIN chain = {} /\ DOMAIN effective = {}
  BY <1>1
<1>3. TypeOK
  BY <1>1, <1>2 DEF TypeOK, Typed
<1>4. ChainType
  BY <1>1 DEF ChainType
<1> QED BY <1>1, <1>2, <1>3, <1>4 DEF Invariant, BoundInv, NothingInvented

LEMMA BeginStep ==
  ASSUME Invariant, NEW root \in Roots, Begin(root)
  PROVE  Invariant'
<1>1. /\ chain' = <<root>>
      /\ effective' = root
      /\ conflict' = FALSE
  BY DEF Begin
<1>2. Typed(root)
  BY ContractsAssumption
<1>3. DOMAIN chain' = {1} /\ chain'[1] = root
  BY <1>1
<1>4. TypeOK' /\ ChainType'
  <2>1. TypeOK'
    BY <1>1, <1>2, <1>3 DEF TypeOK
  <2>2. <<root>> \in Seq(Declarations \cup Roots)
    OBVIOUS
  <2> QED BY <1>1, <2>1, <2>2 DEF ChainType
<1>5. ASSUME NEW k \in StrategyFields \ CommonFields, NEW value, IsValue(k, value)
      PROVE  Bounds(k, value, value)
  <2>1. CASE k \in LeastFields
    BY <1>5, <2>1, LeastCases, ValueCases
  <2>2. CASE k \in GreatestFields
    BY <1>5, <2>2, GreatestCases, ValueCases
  <2>3. CASE k \in JoinedFields
    BY <2>3, JoinedCases
  <2>4. CASE k \in StrengthenedFields
    BY <2>4, StrengthenedBounds
  <2>5. CASE k \in RankedFields
    BY <2>5, RankedCases, RankType
  <2> QED BY <2>1, <2>2, <2>3, <2>4, <2>5 DEF StrategyFields
<1>6. BoundInv'
  BY <1>1, <1>2, <1>3, <1>5, GetType DEF BoundInv
<1>7. NothingInvented'
  BY <1>1, <1>3 DEF NothingInvented
<1> QED BY <1>4, <1>6, <1>7 DEF Invariant

LEMMA InheritStep ==
  ASSUME Invariant, NEW policy \in Declarations, Inherit(policy)
  PROVE  Invariant'
<1>1. CASE Conflicts(effective, policy)
  <2>1. conflict' = TRUE /\ UNCHANGED <<chain, effective>>
    BY <1>1 DEF Inherit
  <2> QED BY <2>1 DEF Invariant, TypeOK, ChainType, BoundInv, NothingInvented
<1>2. CASE ~Conflicts(effective, policy)
  <2>1. /\ chain' = Append(chain, policy)
        /\ effective' = ResolvePolicy(effective, policy, Defaults)
        /\ conflict' = conflict
        /\ chain # <<>>
    BY <1>2 DEF Inherit
  <2>2. chain \in Seq(Declarations \cup Roots) /\ TypeOK /\ BoundInv /\ NothingInvented
    BY DEF Invariant, ChainType
  <2>3. Typed(effective) /\ Typed(policy)
    BY <2>2, ContractsAssumption DEF TypeOK
  <2>4. ASSUME NEW i \in DOMAIN chain'
        PROVE  (i \in DOMAIN chain /\ chain'[i] = chain[i]) \/ chain'[i] = policy
    BY <2>1, <2>2, <2>4
  <2>5. ASSUME NEW i \in DOMAIN chain
        PROVE  i \in DOMAIN chain' /\ chain'[i] = chain[i]
    BY <2>1, <2>2, <2>5
  <2>6. Len(chain) + 1 \in DOMAIN chain' /\ chain'[Len(chain) + 1] = policy
    BY <2>1, <2>2
  <2>7. Typed(effective')
    BY <2>1, <2>3, ResolvedType
  <2>8. TypeOK' /\ ChainType'
    <3>1. \A i \in DOMAIN chain' : Typed(chain'[i])
      BY <2>2, <2>3, <2>4 DEF TypeOK
    <3>2. chain' \in Seq(Declarations \cup Roots)
      BY <2>1, <2>2
    <3> QED BY <2>1, <2>2, <2>7, <3>1, <3>2 DEF TypeOK, ChainType
  <2>9. BoundInv'
    <3>1. SUFFICES ASSUME NEW k \in StrategyFields \ CommonFields,
                          NEW i \in DOMAIN chain'
                   PROVE  Bounds(k, Get(effective', k), Get(chain'[i], k))
      BY DEF BoundInv
    <3> DEFINE old == Get(effective, k)
               new == Get(effective', k)
               child == Get(policy, k)
               declared == Get(chain'[i], k)
    <3>2. IsValue(k, old) /\ IsValue(k, child) /\ IsValue(k, declared)
      BY <2>3, <2>8, GetType DEF TypeOK
    <3>3. Bounds(k, old, declared) \/ declared = child
      BY <2>2, <2>4 DEF BoundInv
    <3>4. \/ new = ResolveField(k, old, child, Get(Defaults, k))
          \/ new = Absent /\ old = Absent /\ child = Absent
      BY <2>1, ResolvedFields
    <3>5. Bounds(k, Absent, Absent)
      <4>1. CASE k \in LeastFields
        BY <4>1, LeastCases
      <4>2. CASE k \in GreatestFields
        BY <4>2, GreatestCases
      <4>3. CASE k \in JoinedFields
        BY <4>3, JoinedCases
      <4>4. CASE k \in StrengthenedFields
        BY <4>4, StrengthenedBounds
      <4>5. CASE k \in RankedFields
        BY <4>5, RankedCases, AbsentUnranked
      <4> QED BY <4>1, <4>2, <4>3, <4>4, <4>5 DEF StrategyFields
    <3> HIDE DEF old, new, child, declared
    <3>6. Bounds(k, new, declared)
      BY <3>2, <3>3, <3>4, <3>5, ResolveBounds
    <3> QED BY <3>6 DEF new, declared
  <2>10. NothingInvented'
    <3>1. SUFFICES ASSUME NEW k \in StrategyFields, NEW provided \in Provisions[k],
                          Meets(k, provided, Get(Defaults, k)),
                          \A i \in DOMAIN chain' : Meets(k, provided, Get(chain'[i], k))
                   PROVE  Meets(k, provided, Get(effective', k))
      BY DEF NothingInvented
    <3>2. Meets(k, provided, Get(effective, k))
      BY <2>1, <2>2, <2>5, <3>1 DEF NothingInvented
    <3>3. Meets(k, provided, Get(policy, k))
      BY <2>6, <3>1
    <3>4. \/ Get(effective', k) = ResolveField(k, Get(effective, k), Get(policy, k),
                                              Get(Defaults, k))
          \/ Get(effective', k) = Absent /\ Get(effective, k) = Absent
      BY <2>1, ResolvedFields
    <3> QED BY <3>1, <3>2, <3>3, <3>4, MeetsResolved
  <2> QED BY <2>8, <2>9, <2>10 DEF Invariant
<1> QED BY <1>1, <1>2

LEMMA InvariantStep == Invariant /\ [Next]_vars => Invariant'
<1> SUFFICES ASSUME Invariant, [Next]_vars PROVE Invariant'
  OBVIOUS
<1>1. CASE UNCHANGED <<chain, effective, conflict>>
  BY <1>1 DEF Invariant, TypeOK, ChainType, BoundInv, NothingInvented
<1>2. ASSUME NEW root \in Roots, Begin(root) PROVE Invariant'
  BY <1>2, BeginStep
<1>3. ASSUME NEW policy \in Declarations, Inherit(policy) PROVE Invariant'
  BY <1>3, InheritStep
<1>4. ASSUME NEW interface \in Interfaces, Publish(interface)
      PROVE  UNCHANGED <<chain, effective, conflict>>
  BY <1>4 DEF Publish
<1>5. ASSUME NEW schema \in Schemas, NEW value \in Records, Check(schema, value)
      PROVE  UNCHANGED <<chain, effective, conflict>>
  BY <1>5 DEF Check
<1>6. CASE UNCHANGED vars
  BY <1>1, <1>6 DEF vars
<1> QED BY <1>1, <1>2, <1>3, <1>4, <1>5, <1>6 DEF Next

LEMMA InvariantTheorem == Spec => []Invariant
BY InvariantInit, InvariantStep, PTL DEF Spec

(* Whatever is declared, defaulted and provided: who keeps the effective   *)
(* policy of a chain keeps each policy of the chain (resolve_policy,       *)
(* compare_provided_required).                                             *)
THEOREM SubstitutableTheorem == Spec => []Substitutable
<1>1. Invariant => Substitutable
  <2> SUFFICES ASSUME Invariant,
                      NEW k \in StrategyFields \ CommonFields,
                      NEW i \in DOMAIN chain,
                      NEW provided \in Provisions[k],
                      Counts(k, Get(chain[i], k)),
                      Meets(k, provided, Get(effective, k))
               PROVE  Meets(k, provided, Get(chain[i], k))
    BY DEF Substitutable
  <2>1. /\ IsValue(k, Get(effective, k))
        /\ IsValue(k, Get(chain[i], k))
    BY GetType DEF Invariant, TypeOK
  <2>2. IsValue(k, provided)
    BY ContractsAssumption
  <2>3. Bounds(k, Get(effective, k), Get(chain[i], k))
    BY DEF Invariant, BoundInv
  <2> QED BY <2>1, <2>2, <2>3, BoundsMeet
<1> QED BY <1>1, InvariantTheorem, PTL

(* And nothing is asked for that no policy of the chain and no default     *)
(* asks for.                                                               *)
THEOREM NothingInventedTheorem == Spec => []NothingInvented
<1>1. Invariant => NothingInvented
  BY DEF Invariant
<1> QED BY <1>1, InvariantTheorem, PTL

-----------------------------------------------------------------------------
(* Records *)

(* What is remembered of a check is one check's. *)
CheckedInv ==
  checked.valid \/ checked.json =>
    /\ checked.valid = Validate(checked.schema, checked.value)
    /\ checked.json = JsonSchema(checked.schema, checked.value)

LEMMA CheckedInvariant == Spec => []CheckedInv
<1>1. Init => CheckedInv
  BY DEF Init, NotChecked, CheckedInv
<1>2. CheckedInv /\ [Next]_vars => CheckedInv'
  <2> SUFFICES ASSUME CheckedInv, [Next]_vars PROVE CheckedInv'
    OBVIOUS
  <2>1. CASE checked' = checked
    BY <2>1 DEF CheckedInv
  <2>2. ASSUME NEW schema \in Schemas, NEW value \in Records,
               Check(schema, value)
        PROVE  CheckedInv'
    <3> DEFINE valid == Validate(schema, value)
               json == JsonSchema(schema, value)
    <3>1. checked' = [schema |-> schema, value |-> value,
                      valid |-> valid, json |-> json]
      BY <2>2 DEF Check
    <3>2. checked'.schema = schema /\ checked'.value = value
      BY <3>1
    <3> HIDE DEF valid, json
    <3>3. checked'.valid = valid /\ checked'.json = json
      BY <3>1
    <3> QED
      BY <3>2, <3>3 DEF CheckedInv, valid, json
  <2> QED
    BY <2>1, <2>2 DEF Next, Begin, Inherit, Publish, vars
<1> QED
  BY <1>1, <1>2, PTL DEF Spec

(* The two ways to look at a type. *)
LEMMA TypesAgree ==
  ASSUME NEW type, NEW kind
  PROVE  /\ type \in OutputTypes /\ TypeMatches(type, kind) =>
              IsInstance(type, kind)
         /\ /\ type \in {"int", "float", "str", "bool"}
            /\ ~(type \in {"int", "float"} /\ kind = "bool")
            /\ IsInstance(type, kind)
            => type \in OutputTypes /\ TypeMatches(type, kind)
  BY DEF OutputTypes, TypeMatches, PythonType, IsInstance

LEMMA ValidField ==
  ASSUME NEW schema, NEW value, Validate(schema, value),
         NEW name \in DOMAIN schema
  PROVE  /\ IsDict(value)
         /\ name \notin DOMAIN value.data => ~Needed(schema[name])
         /\ name \in DOMAIN value.data =>
              CheckType(value.data[name], schema[name])
  BY DEF Validate, ValidateWith

(* The agreement theorem: for every schema and every record, what          *)
(* RecordSchema.validate accepts the json_schema rule for the same fields  *)
(* accepts, and they part only over a bool for a number or a type that     *)
(* json_schema does not look at.                                           *)
THEOREM AgreementTheorem == Spec => []ValidatorsAgree
<1>1. CheckedInv => ValidatorsAgree
  <2> SUFFICES ASSUME CheckedInv PROVE ValidatorsAgree
    OBVIOUS
  <2> DEFINE schema == checked.schema
             value == checked.value
  <2>1. ASSUME checked.valid PROVE checked.json
    <3>1. Validate(schema, value)
      BY <2>1 DEF CheckedInv
    <3>2. \A name \in DOMAIN schema : name \in DOMAIN value.data =>
            IsInstance(schema[name].type, value.data[name].kind)
      BY <3>1, ValidField, TypesAgree DEF CheckType
    <3>3. JsonSchema(schema, value)
      <4>1. IsDict(value)
        BY <3>1 DEF Validate, ValidateWith
      <4> QED
        BY <3>1, <3>2, <4>1, ValidField DEF JsonSchema
    <3> QED
      BY <2>1, <3>3 DEF CheckedInv
  <2>2. ASSUME checked.json,
               \A name \in DOMAIN schema \cap DOMAIN value.data :
                 ~Loose(schema[name], value.data[name])
        PROVE  checked.valid
    <3>1. JsonSchema(schema, value)
      BY <2>2 DEF CheckedInv
    <3>2. ASSUME NEW name \in DOMAIN schema, name \in DOMAIN value.data
          PROVE  /\ CheckType(value.data[name], schema[name])
                 /\ schema[name].type # "record"
      <4>1. IsInstance(schema[name].type, value.data[name].kind)
        BY <3>1, <3>2 DEF JsonSchema
      <4> QED
        BY <2>2, <3>2, <4>1, TypesAgree DEF Loose, CheckType
    <3>3. Validate(schema, value)
      BY <3>1, <3>2 DEF Validate, ValidateWith, JsonSchema
    <3> QED
      BY <2>2, <3>3 DEF CheckedInv
  <2> QED
    BY <2>1, <2>2 DEF ValidatorsAgree
<1> QED
  BY <1>1, CheckedInvariant, PTL

(* One field of a record, with what is inside of it. *)
Holds(field, value) ==
  /\ CheckType(value, field)
  /\ field.type = "record" /\ field.fields # Absent =>
       ValidateFlat(field.fields, value)

LEMMA ValidateIs ==
  ASSUME NEW schema, NEW value
  PROVE  Validate(schema, value) <=>
           /\ IsDict(value)
           /\ \A name \in DOMAIN schema :
                /\ name \notin DOMAIN value.data => ~Needed(schema[name])
                /\ name \in DOMAIN value.data =>
                     Holds(schema[name], value.data[name])
  BY DEF Validate, ValidateWith, Holds

(* The filling theorem: with defaults of their fields' types, what         *)
(* validate returns is valid and is returned by validate unchanged         *)
(* (RecordSchema.validate).                                                *)
THEOREM FillingTheorem == Spec => []FillIsStable
<1>1. CheckedInv => FillIsStable
  <2> SUFFICES ASSUME CheckedInv, checked.valid, SoundDefaults(checked.schema)
               PROVE  LET filled == Filled(checked.schema, checked.value)
                      IN  /\ Validate(checked.schema, filled)
                          /\ Filled(checked.schema, filled) = filled
    BY DEF FillIsStable
  <2> DEFINE schema == checked.schema
             value == checked.value
             filled == Filled(schema, value)
             missing == {name \in DOMAIN schema : /\ name \notin DOMAIN value.data
                                                 /\ schema[name].default # Absent}
  <2>1. /\ IsDict(value)
        /\ \A name \in DOMAIN schema :
             /\ name \notin DOMAIN value.data => ~Needed(schema[name])
             /\ name \in DOMAIN value.data => Holds(schema[name], value.data[name])
    BY ValidateIs DEF CheckedInv
  <2>2. /\ filled.kind = "dict"
        /\ filled.data = [name \in DOMAIN value.data \cup missing |->
                            IF name \in missing THEN schema[name].default
                            ELSE value.data[name]]
    BY DEF Filled
  <2> HIDE DEF filled
  <2>3. DOMAIN filled.data = DOMAIN value.data \cup missing
    BY <2>2
  <2>4. ASSUME NEW name \in missing
        PROVE  Holds(schema[name], schema[name].default)
    <3> DEFINE one == [n \in {name} |-> schema[n]]
               record == [kind |-> "dict",
                          data |-> [n \in {name} |-> schema[n].default]]
    <3>1. Validate(one, record)
      BY DEF SoundDefaults
    <3>2. name \in DOMAIN one /\ name \in DOMAIN record.data
      OBVIOUS
    <3>3. one[name] = schema[name] /\ record.data[name] = schema[name].default
      OBVIOUS
    <3> HIDE DEF one, record
    <3> QED
      BY <3>1, <3>2, <3>3, ValidateIs
  <2>5. Validate(schema, filled)
    <3>1. ASSUME NEW name \in DOMAIN schema, name \in DOMAIN filled.data
          PROVE  Holds(schema[name], filled.data[name])
      BY <2>1, <2>2, <2>3, <2>4, <3>1
    <3>2. ASSUME NEW name \in DOMAIN schema, name \notin DOMAIN filled.data
          PROVE  ~Needed(schema[name])
      BY <2>1, <2>3, <3>2
    <3>3. IsDict(filled)
      BY <2>2 DEF IsDict
    <3> QED
      BY <3>1, <3>2, <3>3, ValidateIs
  <2>6. Filled(schema, filled) = filled
    <3> DEFINE none == {name \in DOMAIN schema :
                          /\ name \notin DOMAIN filled.data
                          /\ schema[name].default # Absent}
    <3>1. none = {}
      BY <2>3
    <3>2. Filled(schema, filled) =
            [kind |-> "dict",
             data |-> [name \in DOMAIN filled.data \cup none |->
                         IF name \in none THEN schema[name].default
                         ELSE filled.data[name]]]
      BY DEF Filled
    <3> HIDE DEF none
    <3>3. Filled(schema, filled) =
            [kind |-> "dict",
             data |-> [name \in DOMAIN filled.data |-> filled.data[name]]]
      BY <3>1, <3>2
    <3>4. filled.data = [name \in DOMAIN filled.data |-> filled.data[name]]
      BY <2>2
    <3>5. filled = [kind |-> "dict", data |-> filled.data]
      BY DEF Filled, filled
    <3> QED
      BY <3>3, <3>4, <3>5
  <2> QED
    BY <2>5, <2>6 DEF filled
<1> QED
  BY <1>1, CheckedInvariant, PTL

-----------------------------------------------------------------------------
(* Migrations *)

Interfaced(section) == \A k \in DOMAIN section : section[k] # Absent

(* The plan is that of the two interfaces. *)
PlanInv ==
  /\ plan = PlanMigration(previous, published)
  /\ Interfaced(previous.inputs) /\ Interfaced(previous.outputs)
  /\ Interfaced(published.inputs) /\ Interfaced(published.outputs)

LEMMA NoSteps == PlanMigration(Nothing, Nothing) = {}
<1>1. \A section \in Sections : Nothing[section] = <<>>
  BY DEF Nothing, Sections
<1>2. \A section : SectionSteps(section, <<>>, <<>>) = {}
  BY DEF SectionSteps
<1> QED
  BY <1>1, <1>2 DEF PlanMigration

LEMMA PlanInvariant == Spec => []PlanInv
<1>1. Init => PlanInv
  <2> SUFFICES ASSUME Init PROVE PlanInv
    OBVIOUS
  <2>1. DOMAIN <<>> = {}
    OBVIOUS
  <2>2. Interfaced(Nothing.inputs) /\ Interfaced(Nothing.outputs)
    BY <2>1 DEF Interfaced, Nothing
  <2> QED
    BY <2>2, NoSteps DEF Init, PlanInv
<1>2. PlanInv /\ [Next]_vars => PlanInv'
  <2> SUFFICES ASSUME PlanInv, [Next]_vars PROVE PlanInv'
    OBVIOUS
  <2>1. CASE UNCHANGED <<plan, previous, published>>
    BY <2>1 DEF PlanInv
  <2>2. ASSUME NEW interface \in Interfaces, Publish(interface)
        PROVE  PlanInv'
    <3> DEFINE new == [inputs |-> interface.inputs,
                       outputs |-> interface.outputs,
                       constraints |-> effective]
    <3>1. /\ previous' = published /\ published' = new
          /\ plan' = PlanMigration(published, new)
      BY <2>2 DEF Publish
    <3>2. Interfaced(interface.inputs) /\ Interfaced(interface.outputs)
      BY ContractsAssumption DEF Interfaced
    <3>3. new.inputs = interface.inputs /\ new.outputs = interface.outputs
      OBVIOUS
    <3> HIDE DEF new
    <3> QED
      BY <3>1, <3>2, <3>3 DEF PlanInv
  <2> QED
    BY <2>1, <2>2 DEF Next, Begin, Inherit, Check, vars
<1> QED
  BY <1>1, <1>2, PTL DEF Spec

(* A key that reads differently has its step. *)
LEMMA StepFor ==
  ASSUME NEW section \in Sections, NEW k,
         k \in DOMAIN previous[section] \cup DOMAIN published[section],
         Get(previous[section], k) # Get(published[section], k), PlanInv
  PROVE  \E step \in plan :
           /\ step.section = section /\ step.key = k
           /\ step.action = CASE Get(previous[section], k) = Absent -> "add_field"
                              [] Get(published[section], k) = Absent -> "remove_field"
                              [] OTHER -> "change_type"
           /\ step.reversible =
                (step.action = "change_type" /\ section # "constraints" =>
                   CompareTypes(Get(previous[section], k),
                                Get(published[section], k)) # "BREAKING")
<1> DEFINE old == previous[section]
           new == published[section]
           action == CASE Get(old, k) = Absent -> "add_field"
                       [] Get(new, k) = Absent -> "remove_field"
                       [] OTHER -> "change_type"
           reversible == action = "change_type" /\ section # "constraints" =>
                           CompareTypes(Get(old, k), Get(new, k)) # "BREAKING"
           step == [action |-> action, section |-> section, key |-> k,
                    reversible |-> reversible]
<1>1. step \in SectionSteps(section, old, new)
  BY DEF SectionSteps
<1>2. step \in plan
  BY <1>1 DEF PlanInv, PlanMigration
<1> QED
  BY <1>2

(* Types that may follow one another widen. *)
LEMMA Widens ==
  ASSUME NEW old, NEW new, new \in OutputTypes, NEW kind,
         CompareTypes(old, new) # "BREAKING", Accepts(old, kind)
  PROVE  Accepts(new, kind)
  BY ContractsAssumption
     DEF CompareTypes, Accepts, TypeMatches, PythonType, OutputTypes

(* What nobody asks for everybody provides. *)
LEMMA AbsentMet ==
  ASSUME NEW k \in StrategyFields, NEW provided
  PROVE  Meets(k, provided, Absent)
  BY ContractsAssumption
     DEF Meets, Listed, Truth, StrategyFields, LeastFields, GreatestFields,
         CommonFields, JoinedFields, StrengthenedFields, RankedFields

(* The migration theorem: for every sequence of interfaces and policies, a *)
(* step of the plan tells of each key that comes, goes or stops accepting, *)
(* and of each constraint that stops a provider (plan_migration).          *)
THEOREM MigrationTheorem == Spec => []NoSilentBreak
<1>1. PlanInv => NoSilentBreak
  <2> SUFFICES ASSUME PlanInv PROVE NoSilentBreak
    OBVIOUS
  <2>1. ASSUME NEW section \in {"inputs", "outputs"},
               NEW k \in DOMAIN previous[section] \cup DOMAIN published[section],
               k \notin DOMAIN previous[section] \cap DOMAIN published[section]
        PROVE  \E step \in plan : /\ step.section = section /\ step.key = k
                                  /\ step.action # "change_type"
    <3>1. /\ Get(previous[section], k) # Get(published[section], k)
          /\ \/ Get(previous[section], k) = Absent
             \/ Get(published[section], k) = Absent
      BY <2>1 DEF PlanInv, Interfaced, Get
    <3> QED
      BY <3>1, StepFor DEF Sections
  <2>2. ASSUME NEW section \in {"inputs", "outputs"},
               NEW k \in DOMAIN previous[section] \cap DOMAIN published[section],
               published[section][k] \in OutputTypes,
               NEW kind \in Kinds,
               Accepts(previous[section][k], kind),
               ~Accepts(published[section][k], kind)
        PROVE  \E step \in plan : /\ step.section = section /\ step.key = k
                                  /\ ~step.reversible
    <3>1. /\ Get(previous[section], k) = previous[section][k]
          /\ Get(published[section], k) = published[section][k]
          /\ previous[section][k] # Absent /\ published[section][k] # Absent
      BY <2>2 DEF PlanInv, Interfaced, Get
    <3>2. previous[section][k] # published[section][k]
      BY <2>2
    <3>3. CompareTypes(previous[section][k], published[section][k]) = "BREAKING"
      BY <2>2, Widens
    <3>4. section \in Sections /\ section # "constraints"
      BY DEF Sections
    <3>5. PICK step \in plan :
            /\ step.section = section /\ step.key = k
            /\ step.action = CASE Get(previous[section], k) = Absent -> "add_field"
                               [] Get(published[section], k) = Absent -> "remove_field"
                               [] OTHER -> "change_type"
            /\ step.reversible =
                 (step.action = "change_type" /\ section # "constraints" =>
                    CompareTypes(Get(previous[section], k),
                                 Get(published[section], k)) # "BREAKING")
      BY <3>1, <3>2, <3>4, StepFor
    <3>6. step.action = "change_type"
      BY <3>1, <3>5
    <3>7. ~step.reversible
      BY <3>1, <3>3, <3>4, <3>5, <3>6
    <3> QED
      BY <3>5, <3>7
  <2>3. ASSUME NEW k \in StrategyFields, NEW provided \in Provisions[k],
               Meets(k, provided, Get(previous.constraints, k)),
               ~Meets(k, provided, Get(published.constraints, k))
        PROVE  \E step \in plan : /\ step.section = "constraints" /\ step.key = k
                                  /\ step.action # "remove_field"
    <3>1. /\ Get(previous.constraints, k) # Get(published.constraints, k)
          /\ Get(published.constraints, k) # Absent
      BY <2>3, AbsentMet
    <3>2. k \in DOMAIN previous.constraints \cup DOMAIN published.constraints
      BY <3>1 DEF Get
    <3> QED
      BY <3>1, <3>2, StepFor DEF Sections
  <2> QED
    BY <2>1, <2>2, <2>3 DEF NoSilentBreak
<1> QED
  BY <1>1, PlanInvariant, PTL
=============================================================================
