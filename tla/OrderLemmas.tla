----------------------------- MODULE OrderLemmas -----------------------------
(* Facts about numbers the proofs need and the theorem library does not have. *)
EXTENDS Integers, FiniteSetTheorems, TLAPS

\* Every set of naturals has a least element. (The one among the finite sets of
\* smaller elements that has no smaller one is empty.)
LEMMA LeastElement ==
    ASSUME NEW T \in SUBSET Nat, T # {}
    PROVE  \E x \in T : \A y \in T : x <= y
<1> DEFINE Below(n) == {z \in T : z < n}
           R        == StrictSubsetOrdering(Nat)
<1>0. \A x \in T : x \in Nat
  OBVIOUS
<1>1. \A x \in T : Below(x) \in FiniteSubsetsOf(Nat)
  <2> TAKE x \in T
  <2>1. IsFiniteSet(0..x)
    BY <1>0, FS_Interval
  <2>2. Below(x) \in SUBSET (0..x)
    <3>1. \A z \in T : z < x => z \in 0..x
      BY <1>0
    <3> QED BY <3>1
  <2>3. IsFiniteSet(Below(x))
    BY <2>1, <2>2, FS_Subset
  <2> QED BY <2>3 DEF FiniteSubsetsOf
<1>2. {Below(x) : x \in T} \subseteq FiniteSubsetsOf(Nat) /\ {Below(x) : x \in T} # {}
  BY <1>1
<1>3. PICK B \in {Below(x) : x \in T} : \A C1 \in {Below(x) : x \in T} : ~ (<<C1, B>> \in R)
  <2> HIDE DEF R, Below
  <2>1. IsWellFoundedOn(R, FiniteSubsetsOf(Nat))
    BY FS_StrictSubsetOrderingWellFounded DEF R
  <2> QED BY <1>2, <2>1, WFMin, Zenon
<1>4. PICK x \in T : B = Below(x)
  BY <1>3
<1>5. ASSUME NEW y \in T, y < x PROVE FALSE
  <2>1. Below(y) \subseteq Below(x) /\ y \in Below(x) /\ y \notin Below(y)
    <3>1. \A z \in T : z < y => z < x
      BY <1>0, <1>5
    <3>2. ~ (y < y)
      BY <1>0
    <3> QED BY <1>5, <3>1, <3>2
  <2>2. Below(y) \in SUBSET Nat /\ Below(x) \in SUBSET Nat /\ Below(y) # Below(x)
    BY <2>1
  <2>3. <<Below(y), Below(x)>> \in R
    <3> HIDE DEF Below
    <3> QED BY <2>1, <2>2 DEF StrictSubsetOrdering
  <2> QED BY <2>3, <1>3, <1>4
<1> QED BY <1>0, <1>5
=============================================================================
