------------------------------ MODULE NatFacts ------------------------------
(***************************************************************************)
(* Facts about numbers that the proofs share: a non-empty set of naturals  *)
(* has a least element, which is how a proof here argues by induction, and *)
(* sets that correspond one to one are equally large.                      *)
(***************************************************************************)
EXTENDS Integers, FiniteSetTheorems, FunctionTheorems, TLAPS

(* A non-empty set of naturals has a least element (the strict inclusion   *)
(* of its initial segments is well founded).                               *)
LEMMA LeastElement ==
  ASSUME NEW T \in SUBSET Nat, T # {}
  PROVE  \E m \in T : \A x \in T : m <= x
<1> DEFINE Seg(x) == {y \in T : y <= x}
           F == {Seg(x) : x \in T}
           R == StrictSubsetOrdering(Nat)
<1>1. ASSUME NEW x \in T PROVE Seg(x) \in FiniteSubsetsOf(Nat)
  <2>1. IsFiniteSet(Seg(x))
    <3>1. Seg(x) \in SUBSET Nat /\ x \in Nat /\ \A s \in Seg(x) : s <= x
      OBVIOUS
    <3> QED BY <3>1, FS_BoundedSetOfNaturals
  <2> QED BY <2>1 DEF FiniteSubsetsOf
<1>2. F \subseteq FiniteSubsetsOf(Nat) /\ F # {}
  BY <1>1
<1>3. IsWellFoundedOn(R, FiniteSubsetsOf(Nat))
  BY FS_StrictSubsetOrderingWellFounded
<1>4. \E S \in F : \A U \in F : <<U, S>> \notin R
  BY <1>2, <1>3, WFMin
<1>5. PICK m \in T : \A x \in T : <<Seg(x), Seg(m)>> \notin R
  BY <1>4
<1>6. ASSUME NEW x \in T, ~ (m <= x) PROVE FALSE
  <2>0. m \in Nat /\ x \in Nat /\ x < m
    BY <1>6
  <2>a. \A y \in T : y <= x => y <= m
    BY <2>0
  <2>b. m <= m /\ ~ (m <= x)
    BY <2>0
  <2>1. Seg(x) \subseteq Seg(m) /\ m \in Seg(m) /\ m \notin Seg(x)
    BY <2>a, <2>b
  <2>2. Seg(x) # Seg(m)
    BY <2>1
  <2>3. Seg(x) \in SUBSET Nat /\ Seg(m) \in SUBSET Nat
    OBVIOUS
  <2>4. <<Seg(x), Seg(m)>> \in R
    BY <2>1, <2>2, <2>3 DEF StrictSubsetOrdering
  <2> QED BY <2>4, <1>5
<1> QED BY <1>6

(* Sets that correspond one to one are equally large.                      *)
LEMMA OneToOneCount ==
  ASSUME NEW S, NEW T, NEW f \in [S -> T], IsFiniteSet(S),
         \A a, b \in S : f[a] = f[b] => a = b,
         \A t \in T : \E a \in S : f[a] = t
  PROVE  IsFiniteSet(T) /\ Cardinality(T) = Cardinality(S)
<1>1. f \in Bijection(S, T)
  BY Fun_IsBij
<1>2. ExistsBijection(S, T)
  BY <1>1 DEF ExistsBijection
<1> QED BY <1>2, FS_Bijection

(* One element less or more. *)
LEMMA AddRemoveCount ==
  ASSUME NEW S, IsFiniteSet(S), NEW x
  PROVE  /\ IsFiniteSet(S \ {x}) /\ Cardinality(S \ {x}) \in Nat /\ Cardinality(S) \in Nat
         /\ Cardinality(S) <= Cardinality(S \ {x}) + 1
         /\ x \notin S => Cardinality(S \cup {x}) = Cardinality(S) + 1
<1>1. IsFiniteSet(S \ {x}) /\ Cardinality(S) \in Nat
  BY FS_RemoveElement, FS_CardinalityType
<1>2. Cardinality(S \ {x}) \in Nat
  BY <1>1, FS_CardinalityType
<1>3. Cardinality(S \ {x}) = IF x \in S THEN Cardinality(S) - 1 ELSE Cardinality(S)
  BY FS_RemoveElement
<1>4. Cardinality(S \cup {x}) = IF x \in S THEN Cardinality(S) ELSE Cardinality(S) + 1
  BY FS_AddElement
<1>5. Cardinality(S) <= Cardinality(S \ {x}) + 1
  BY <1>1, <1>2, <1>3
<1> QED BY <1>1, <1>2, <1>4, <1>5
=============================================================================
