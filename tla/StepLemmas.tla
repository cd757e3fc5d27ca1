----------------------------- MODULE StepLemmas -----------------------------
(***************************************************************************)
(* What one lifecycle step does to a ledger, for any ledger and any        *)
(* privileges: the facts the proofs about whole instructions start from.   *)
(*                                                                         *)
(* The first part is about SumFunctionOnSet, the fold of the community     *)
(* modules behind Supply: a sum over a finite set does not depend on the   *)
(* order in which the fold takes the elements. The library's induction     *)
(* theorems take the induction hypothesis as an operator; here it is a     *)
(* set, of which LeastElement and MinimalSet give a counterexample.        *)
(***************************************************************************)
EXTENDS LifecycleSteps, OrderLemmas

\* A set of subsets of a finite set has a minimal element.
LEMMA MinimalSet ==
    ASSUME NEW S, IsFiniteSet(S), NEW M \in SUBSET SUBSET S, M # {}
    PROVE  \E T \in M : \A U \in M : U \subseteq T => U = T
<1> DEFINE R == StrictSubsetOrdering(S)
<1>1. M \subseteq FiniteSubsetsOf(S)
  BY FS_Subset DEF FiniteSubsetsOf
<1>2. IsWellFoundedOn(R, FiniteSubsetsOf(S))
  BY FS_StrictSubsetOrderingWellFounded
<1>3. PICK T \in M : \A U \in M : ~ (<<U, T>> \in R)
  <2> HIDE DEF R
  <2> QED BY <1>1, <1>2, WFMin, Zenon
<1>4. ASSUME NEW U \in M, U \subseteq T, U # T PROVE <<U, T>> \in R
  BY <1>4 DEF StrictSubsetOrdering
<1>5. \A U \in M : U \subseteq T => U = T
  <2> HIDE DEF R
  <2> QED BY <1>3, <1>4
<1> QED BY <1>3, <1>5

-----------------------------------------------------------------------------
(* The recursive function inside the fold exists.                          *)

\* The element the fold takes out first.
Taken(s) == CHOOSE x \in s : TRUE

LEMMA TakenIn == ASSUME NEW s, s # {} PROVE Taken(s) \in s
  BY DEF Taken

\* One step of the fold, from the partial sums g.
FoldStep(f, g, s) == IF s = {} THEN 0 ELSE f[Taken(s)] + g[s \ {Taken(s)}]

\* g holds the sums over the members of D.
PartialSums(f, g, D) == g = [s \in D |-> FoldStep(f, g, s)]

LEMMA SumIsFold ==
    ASSUME NEW f, NEW S
    PROVE  SumFunctionOnSet(f, S) = (CHOOSE g : PartialSums(f, g, SUBSET S))[S]
  BY DEF SumFunctionOnSet, FoldFunctionOnSet, MapThenFoldSet, PartialSums,
         FoldStep, Taken

\* By induction on the size of the sets: larger ones only look at smaller ones.
LEMMA PartialSumsExist ==
    ASSUME NEW f, NEW S, IsFiniteSet(S)
    PROVE  \E g : PartialSums(f, g, SUBSET S)
<1> DEFINE Small(n) == {s \in SUBSET S : Cardinality(s) <= n}
           Bad      == {n \in Nat : ~ \E g : PartialSums(f, g, Small(n))}
<1>1. \A s \in SUBSET S : IsFiniteSet(s) /\ Cardinality(s) \in Nat
                          /\ Cardinality(s) <= Cardinality(S)
  BY FS_Subset, FS_CardinalityType
<1>2. Cardinality(S) \in Nat /\ SUBSET S = Small(Cardinality(S))
  BY <1>1, FS_CardinalityType
<1>3. ASSUME NEW s \in SUBSET S, s # {}
      PROVE  /\ s \ {Taken(s)} \in SUBSET S
             /\ Cardinality(s \ {Taken(s)}) = Cardinality(s) - 1
  BY <1>1, <1>3, TakenIn, FS_RemoveElement
<1>4. SUFFICES ASSUME Bad # {} PROVE FALSE
  <2>1. Cardinality(S) \notin Bad => \E g : PartialSums(f, g, Small(Cardinality(S)))
    BY <1>2
  <2> HIDE DEF Small, Bad
  <2> QED BY <1>2, <2>1
<1>5. PICK n \in Bad : \A m \in Bad : n <= m
  <2> HIDE DEF Bad
  <2>1. Bad \in SUBSET Nat
    BY DEF Bad
  <2> QED BY <1>4, <2>1, LeastElement
<1>6. CASE n = 0
  <2> DEFINE g == [s \in Small(0) |-> 0]
  <2>1. \A s \in Small(0) : s = {}
    BY <1>1, FS_EmptySet
  <2>2. PartialSums(f, g, Small(0))
    BY <2>1 DEF PartialSums, FoldStep
  <2> QED BY <1>5, <1>6, <2>2
<1>7. CASE n # 0
  <2>1. n - 1 \in Nat /\ n - 1 \notin Bad
    <3>1. n \in Nat
      BY <1>5
    <3> HIDE DEF Bad
    <3> QED BY <1>5, <1>7, <3>1
  <2>2. PICK g : PartialSums(f, g, Small(n - 1))
    <3> HIDE DEF Small
    <3> QED BY <2>1
  <2> DEFINE h == [s \in Small(n) |-> FoldStep(f, g, s)]
  <2>3. \A s \in Small(n - 1) : s \in Small(n) /\ g[s] = h[s]
    <3>1. \A s \in Small(n - 1) : s \in Small(n)
      BY <1>1, <2>1
    <3>2. \A s \in Small(n - 1) : g[s] = FoldStep(f, g, s)
      <4> HIDE DEF Small
      <4> QED BY <2>2 DEF PartialSums
    <3> HIDE DEF Small
    <3> QED BY <3>1, <3>2
  <2>4. ASSUME NEW s \in Small(n) PROVE FoldStep(f, g, s) = FoldStep(f, h, s)
    <3>1. s # {} => s \ {Taken(s)} \in Small(n - 1)
      BY <1>1, <1>3
    <3> HIDE DEF Small, h
    <3> QED BY <2>3, <3>1 DEF FoldStep
  <2>5. PartialSums(f, h, Small(n))
    <3>1. h = [s \in Small(n) |-> FoldStep(f, h, s)]
      <4> HIDE DEF Small
      <4> QED BY <2>4
    <3> HIDE DEF h, Small
    <3> QED BY <3>1 DEF PartialSums
  <2> HIDE DEF h, Small
  <2> QED BY <2>5, <1>5
<1> QED BY <1>6, <1>7

\* What the sums are over a subset does not depend on the set they are part of.
LEMMA PartialSumsAgree ==
    ASSUME NEW f, NEW S, IsFiniteSet(S), NEW T \in SUBSET S, NEW g, NEW h,
           PartialSums(f, g, SUBSET S), PartialSums(f, h, SUBSET T)
    PROVE  \A s \in SUBSET T : g[s] = h[s]
<1> DEFINE Bad == {s \in SUBSET T : g[s] # h[s]}
<1>1. \A s \in SUBSET T : g[s] = FoldStep(f, g, s) /\ h[s] = FoldStep(f, h, s)
  BY DEF PartialSums
<1>2. IsFiniteSet(T) /\ Bad \in SUBSET SUBSET T
  BY FS_Subset
<1>3. SUFFICES ASSUME Bad # {} PROVE FALSE
  OBVIOUS
<1>4. PICK s \in Bad : \A u \in Bad : u \subseteq s => u = s
  <2> HIDE DEF Bad
  <2> QED BY <1>2, <1>3, MinimalSet
<1>5. s # {}
  BY <1>1, <1>4 DEF FoldStep
<1>6. s \ {Taken(s)} \in SUBSET T /\ s \ {Taken(s)} # s
  BY <1>5, TakenIn
<1>7. g[s \ {Taken(s)}] = h[s \ {Taken(s)}]
  BY <1>4, <1>6
<1> QED BY <1>1, <1>4, <1>7 DEF FoldStep

-----------------------------------------------------------------------------
(* Sums over a set.                                                        *)

LEMMA SumEmpty ==
    ASSUME NEW f
    PROVE  SumFunctionOnSet(f, {}) = 0
<1> DEFINE Sums(g) == PartialSums(f, g, SUBSET {})
<1>1. \E g : Sums(g)
  BY PartialSumsExist, FS_EmptySet
<1>2. PartialSums(f, CHOOSE g : Sums(g), SUBSET {})
  <2>1. Sums(CHOOSE g : Sums(g))
    <3> HIDE DEF Sums
    <3> QED BY <1>1
  <2> QED BY <2>1
<1> DEFINE e == CHOOSE g : Sums(g)
<1>3. SumFunctionOnSet(f, {}) = e[{}]
  BY SumIsFold
<1> HIDE DEF e
<1> QED BY <1>2, <1>3 DEF PartialSums, FoldStep, e

\* The equation the fold is defined by.
LEMMA SumTaken ==
    ASSUME NEW f, NEW S, IsFiniteSet(S), S # {}
    PROVE  SumFunctionOnSet(f, S)
             = f[Taken(S)] + SumFunctionOnSet(f, S \ {Taken(S)})
<1> DEFINE T == S \ {Taken(S)}
           g == CHOOSE e : PartialSums(f, e, SUBSET S)
           h == CHOOSE e : PartialSums(f, e, SUBSET T)
<1>1. IsFiniteSet(T) /\ T \in SUBSET S
  BY FS_Subset
<1>2. PartialSums(f, g, SUBSET S) /\ PartialSums(f, h, SUBSET T)
  BY <1>1, PartialSumsExist
<1>3. SumFunctionOnSet(f, S) = g[S] /\ SumFunctionOnSet(f, T) = h[T]
  BY SumIsFold
<1>4. T \in SUBSET T /\ S \in SUBSET S
  OBVIOUS
<1>5. g[S] = f[Taken(S)] + g[T]
  <2> HIDE DEF g
  <2> QED BY <1>2 DEF PartialSums, FoldStep
<1> HIDE DEF g, h
<1>6. g[T] = h[T]
  <2> HIDE DEF T
  <2> QED BY <1>1, <1>2, <1>4, PartialSumsAgree
<1> QED BY <1>3, <1>5, <1>6

LEMMA SumType ==
    ASSUME NEW S, IsFiniteSet(S), NEW f, \A x \in S : f[x] \in Int
    PROVE  SumFunctionOnSet(f, S) \in Int
<1> DEFINE Bad == {s \in SUBSET S : SumFunctionOnSet(f, s) \notin Int}
<1>1. Bad \in SUBSET SUBSET S
  OBVIOUS
<1>2. SUFFICES ASSUME Bad # {} PROVE FALSE
  OBVIOUS
<1>3. PICK s \in Bad : \A u \in Bad : u \subseteq s => u = s
  <2> HIDE DEF Bad
  <2> QED BY <1>1, <1>2, MinimalSet
<1>4. IsFiniteSet(s) /\ s # {}
  <2>1. SumFunctionOnSet(f, {}) \in Int
    BY SumEmpty
  <2> QED BY <1>3, <2>1, FS_Subset
<1>5. Taken(s) \in s /\ s \ {Taken(s)} \in SUBSET S /\ s \ {Taken(s)} # s
  BY <1>3, <1>4, TakenIn
<1>6. SumFunctionOnSet(f, s \ {Taken(s)}) \in Int
  BY <1>3, <1>5
<1> QED BY <1>3, <1>4, <1>5, <1>6, SumTaken

\* Any element can be taken out first.
LEMMA SumRemove ==
    ASSUME NEW S, IsFiniteSet(S), NEW f, \A x \in S : f[x] \in Int,
           NEW x \in S
    PROVE  SumFunctionOnSet(f, S) = f[x] + SumFunctionOnSet(f, S \ {x})
<1> DEFINE Sum(s) == SumFunctionOnSet(f, s)
           Bad == {s \in SUBSET S : \E y \in s : Sum(s) # f[y] + Sum(s \ {y})}
<1>1. SUFFICES ASSUME Bad # {} PROVE FALSE
  OBVIOUS
<1>2. PICK s \in Bad : \A u \in Bad : u \subseteq s => u = s
  <2>1. Bad \in SUBSET SUBSET S
    OBVIOUS
  <2> HIDE DEF Bad
  <2> QED BY <1>1, <2>1, MinimalSet
<1>3. PICK y \in s : Sum(s) # f[y] + Sum(s \ {y})
  BY <1>2
<1> DEFINE p == Taken(s)
           rest == s \ {p, y}
<1>4. \A u \in SUBSET S : IsFiniteSet(u) /\ Sum(u) \in Int
  BY FS_Subset, SumType
<1> HIDE DEF Sum
<1>5. p \in s /\ s \in SUBSET S
  BY <1>2, <1>3, TakenIn
<1>6. Sum(s) = f[p] + Sum(s \ {p})
  BY <1>3, <1>4, <1>5, SumTaken DEF Sum
<1> HIDE DEF p
<1>7. p # y
  BY <1>3, <1>6
<1>8. Sum(s \ {p}) = f[y] + Sum(rest)
  <2>1. s \ {p} \in SUBSET S /\ s \ {p} # s /\ y \in s \ {p} /\ (s \ {p}) \ {y} = rest
    BY <1>5, <1>7
  <2> QED BY <1>2, <2>1
<1>9. Sum(s \ {y}) = f[p] + Sum(rest)
  <2>1. s \ {y} \in SUBSET S /\ s \ {y} # s /\ p \in s \ {y} /\ (s \ {y}) \ {p} = rest
    BY <1>5, <1>7
  <2> QED BY <1>2, <2>1
<1>10. f[p] \in Int /\ f[y] \in Int /\ Sum(rest) \in Int
  BY <1>4, <1>5
<1> QED BY <1>3, <1>6, <1>8, <1>9, <1>10

\* A sum only looks at the values over its set.
LEMMA SumCongruence ==
    ASSUME NEW S, IsFiniteSet(S), NEW f, NEW g, \A x \in S : f[x] = g[x]
    PROVE  SumFunctionOnSet(f, S) = SumFunctionOnSet(g, S)
<1> DEFINE Bad == {s \in SUBSET S : SumFunctionOnSet(f, s) # SumFunctionOnSet(g, s)}
<1>1. SUFFICES ASSUME Bad # {} PROVE FALSE
  OBVIOUS
<1>2. PICK s \in Bad : \A u \in Bad : u \subseteq s => u = s
  <2>1. Bad \in SUBSET SUBSET S
    OBVIOUS
  <2> HIDE DEF Bad
  <2> QED BY <1>1, <2>1, MinimalSet
<1>3. s # {} /\ IsFiniteSet(s)
  BY <1>2, SumEmpty, FS_Subset
<1>4. Taken(s) \in s /\ s \ {Taken(s)} \in SUBSET S /\ s \ {Taken(s)} # s
  BY <1>2, <1>3, TakenIn
<1>5. SumFunctionOnSet(f, s \ {Taken(s)}) = SumFunctionOnSet(g, s \ {Taken(s)})
  BY <1>2, <1>4
<1> QED BY <1>2, <1>3, <1>4, <1>5, SumTaken

-----------------------------------------------------------------------------
(* How a sum changes.                                                      *)

\* One value changes.
LEMMA SumChange ==
    ASSUME NEW S, IsFiniteSet(S), NEW f, NEW g,
           \A k \in S : f[k] \in Int /\ g[k] \in Int,
           NEW x \in S, \A k \in S \ {x} : g[k] = f[k]
    PROVE  SumFunctionOnSet(g, S) = SumFunctionOnSet(f, S) + (g[x] - f[x])
<1>1. IsFiniteSet(S \ {x}) /\ \A k \in S \ {x} : f[k] \in Int /\ g[k] \in Int
  BY FS_RemoveElement
<1>2. SumFunctionOnSet(f, S) = f[x] + SumFunctionOnSet(f, S \ {x})
  BY SumRemove
<1>3. SumFunctionOnSet(g, S) = g[x] + SumFunctionOnSet(g, S \ {x})
  BY SumRemove
<1>4. SumFunctionOnSet(g, S \ {x}) = SumFunctionOnSet(f, S \ {x})
  BY <1>1, SumCongruence
<1>5. SumFunctionOnSet(f, S \ {x}) \in Int
  BY <1>1, SumType
<1> QED BY <1>2, <1>3, <1>4, <1>5

\* Two values change.
LEMMA SumExchange ==
    ASSUME NEW S, IsFiniteSet(S), NEW f, NEW g,
           \A k \in S : f[k] \in Int /\ g[k] \in Int,
           NEW x \in S, NEW y \in S, x # y,
           \A k \in S \ {x, y} : g[k] = f[k]
    PROVE  SumFunctionOnSet(g, S)
             = SumFunctionOnSet(f, S) + (g[x] - f[x]) + (g[y] - f[y])
<1> DEFINE T == S \ {x}
<1>1. IsFiniteSet(T) /\ y \in T /\ \A k \in T : f[k] \in Int /\ g[k] \in Int
  BY FS_RemoveElement
<1>2. SumFunctionOnSet(f, S) = f[x] + SumFunctionOnSet(f, T)
  BY SumRemove
<1>3. SumFunctionOnSet(g, S) = g[x] + SumFunctionOnSet(g, T)
  BY SumRemove
<1>4. \A k \in T \ {y} : g[k] = f[k]
  OBVIOUS
<1>5. SumFunctionOnSet(f, T) \in Int
  BY <1>1, SumType
<1> HIDE DEF T
<1>6. SumFunctionOnSet(g, T) = SumFunctionOnSet(f, T) + (g[y] - f[y])
  BY <1>1, <1>4, SumChange
<1> QED BY <1>1, <1>2, <1>3, <1>5, <1>6

-----------------------------------------------------------------------------
(* Creation.                                                               *)

\* In ledger b, `key` was created from nothing by `payer`, who signed.
CreatedBy(a, b, p, key, payer, rent, len, disc) ==
    /\ key # payer
    /\ {key, payer} \subseteq p.signers
    /\ a[key].lamports = 0 /\ a[key].len = 0 /\ a[key].owner = "system"
    /\ a[payer].owner = "system" /\ a[payer].len = 0
    /\ b \in Ledger
    /\ b[key] = [lamports |-> rent, owner |-> "program",
                 len |-> len, disc |-> disc]
    /\ b[payer] = [a[payer] EXCEPT !.lamports = @ - rent]
    /\ \A k \in Keys \ {key, payer} : b[k] = a[k]

LEMMA CreateAccountEffect ==
    ASSUME NEW a \in Ledger, NEW from \in Keys, NEW to \in Keys,
           NEW rent \in Nat, rent # 0, NEW len \in Lens,
           NEW owner \in Owners, NEW p,
           CanCreateAccount(a, from, to, rent, p)
    PROVE  LET b == CreateAccount(a, from, to, rent, len, owner)
           IN  /\ from # to
               /\ b \in Ledger
               /\ b[to] = [lamports |-> rent, owner |-> owner,
                           len |-> len, disc |-> "zero"]
               /\ b[from] = [a[from] EXCEPT !.lamports = @ - rent]
               /\ \A k \in Keys \ {from, to} : b[k] = a[k]
  BY DEF CreateAccount, CanCreateAccount, Ledger, Account, Discs

LEMMA InitStepEffect ==
    ASSUME NEW a \in Ledger, NEW payer \in Keys, NEW new \in Keys,
           NEW rent \in Nat, rent # 0, NEW space \in Nat,
           space + DiscriminatorLen \in Lens, NEW p,
           InitStep(a, payer, new, rent, space, p).ok
    PROVE  LET b == InitStep(a, payer, new, rent, space, p).out
           IN CreatedBy(a, b, p, new, payer, rent,
                        space + DiscriminatorLen, "zero")
  <1> DEFINE c == CreateAccount(a, payer, new, rent,
                                space + DiscriminatorLen, "program")
             b == [c EXCEPT ![new].disc = "zero"]
  <1>1. CanCreateAccount(a, payer, new, rent, p)
    BY DEF InitStep, Failed
  <1>2. InitStep(a, payer, new, rent, space, p).out = b
    BY <1>1 DEF InitStep, Done
  <1>3. /\ payer # new
        /\ c \in Ledger
        /\ c[new] = [lamports |-> rent, owner |-> "program",
                     len |-> space + DiscriminatorLen, disc |-> "zero"]
        /\ c[payer] = [a[payer] EXCEPT !.lamports = @ - rent]
        /\ \A k \in Keys \ {payer, new} : c[k] = a[k]
    <2>1. "program" \in Owners /\ space + DiscriminatorLen \in Lens
      BY DEF Owners
    <2>2. QED
      BY <1>1, <2>1, CreateAccountEffect, SMTT(20)
  <1>4. b = c
    BY <1>3 DEF Ledger, Account
  <1> HIDE DEF c
  <1>5. QED
    BY <1>1, <1>2, <1>3, <1>4 DEF CreatedBy, CanCreateAccount

\* The zeroing of the discriminator changes nothing after a creation.
LEMMA InitStepCall ==
    ASSUME NEW a \in Ledger, NEW payer \in Keys, NEW new \in Keys,
           NEW rent \in Nat, rent # 0, NEW space \in Nat,
           space + DiscriminatorLen \in Lens, NEW p,
           InitStep(a, payer, new, rent, space, p).ok
    PROVE  InitStep(a, payer, new, rent, space, p).cpi
             = InitStep(a, payer, new, rent, space, p).out
  <1> DEFINE len == space + DiscriminatorLen
             c == CreateAccount(a, payer, new, rent, len, "program")
             b == [c EXCEPT ![new].disc = "zero"]
  <1>1. CanCreateAccount(a, payer, new, rent, p)
    BY DEF InitStep, Failed
  <1>2. InitStep(a, payer, new, rent, space, p) = Done(c, b)
    BY <1>1 DEF InitStep
  <1>3. /\ payer # new
        /\ c \in Ledger
        /\ c[new] = [lamports |-> rent, owner |-> "program",
                     len |-> len, disc |-> "zero"]
        /\ c[payer] = [a[payer] EXCEPT !.lamports = @ - rent]
        /\ \A k \in Keys \ {payer, new} : c[k] = a[k]
    <2>1. "program" \in Owners /\ len \in Lens
      BY DEF Owners
    <2> HIDE DEF len
    <2>2. QED
      BY <1>1, <2>1, CreateAccountEffect, SMTT(20)
  <1>4. b = c
    BY <1>3 DEF Ledger, Account
  <1> HIDE DEF b, c
  <1>5. QED
    BY <1>2, <1>4 DEF Done

\* init_if_needed has either created the account or accepted it as it is.
LEMMA InitIfNeededStepEffect ==
    ASSUME NEW a \in Ledger, NEW payer \in Keys, NEW target \in Keys,
           NEW rent \in Nat, rent # 0, NEW space \in Nat,
           space + DiscriminatorLen \in Lens, NEW p,
           InitIfNeededStep(a, payer, target, rent, space, p).ok
    PROVE  LET res == InitIfNeededStep(a, payer, target, rent, space, p)
               len == space + DiscriminatorLen
           IN  \/ /\ NeedsInit(a[target])
                  /\ CreatedBy(a, res.out, p, target, payer, rent, len,
                               "counter")
                  /\ res.cpi \in Ledger
                  /\ \A k \in Keys : /\ res.cpi[k].lamports = res.out[k].lamports
                                     /\ res.cpi[k].owner = res.out[k].owner
                  /\ \A k \in Keys \ {target, payer} : res.cpi[k] = a[k]
               \/ /\ ~NeedsInit(a[target])
                  /\ res.out = a /\ res.cpi = a
                  /\ a[target].owner = "program" /\ a[target].len >= len
  <1> DEFINE len == space + DiscriminatorLen
             c == CreateAccount(a, payer, target, rent, len, "program")
             b == [c EXCEPT ![target].disc = "counter"]
             can == CanCreateAccount(a, payer, target, rent, p)
             fresh == NeedsInit(a[target])
             accepts == a[target].owner = "program" /\ a[target].len >= len
             res == InitIfNeededStep(a, payer, target, rent, space, p)
  <1>1. \/ fresh /\ can /\ res = Done(c, b)
        \/ ~fresh /\ accepts /\ res = Done(a, a)
        \/ res = Failed(a)
    BY DEF InitIfNeededStep
  <1>2. can => /\ CreatedBy(a, b, p, target, payer, rent, len, "counter")
               /\ c \in Ledger
               /\ \A k \in Keys : /\ c[k].lamports = b[k].lamports
                                  /\ c[k].owner = b[k].owner
               /\ \A k \in Keys \ {target, payer} : c[k] = a[k]
    <2> SUFFICES ASSUME can
        PROVE  /\ CreatedBy(a, b, p, target, payer, rent, len, "counter")
               /\ c \in Ledger
               /\ \A k \in Keys : /\ c[k].lamports = b[k].lamports
                                  /\ c[k].owner = b[k].owner
               /\ \A k \in Keys \ {target, payer} : c[k] = a[k]
      OBVIOUS
    <2>1. len \in Lens /\ "program" \in Owners
      BY DEF Owners
    <2>2. /\ payer # target
          /\ c \in Ledger
          /\ c[target] = [lamports |-> rent, owner |-> "program",
                          len |-> len, disc |-> "zero"]
          /\ c[payer] = [a[payer] EXCEPT !.lamports = @ - rent]
          /\ \A k \in Keys \ {payer, target} : c[k] = a[k]
      <3> HIDE DEF len
      <3>1. QED
        BY <2>1, CreateAccountEffect, SMTT(20)
    <2> HIDE DEF c
    <2>3. /\ b \in Ledger
          /\ b[target] = [lamports |-> rent, owner |-> "program",
                          len |-> len, disc |-> "counter"]
          /\ \A k \in Keys \ {target} : b[k] = c[k]
      BY <2>2 DEF Ledger, Account, Discs
    <2> HIDE DEF b, len
    <2>4. CreatedBy(a, b, p, target, payer, rent, len, "counter")
      BY <2>2, <2>3 DEF CreatedBy, CanCreateAccount
    <2>5. QED
      BY <2>2, <2>3, <2>4
  <1> HIDE DEF c, b, can, fresh, accepts, len
  <1>3. QED
    BY <1>1, <1>2 DEF Done, Failed, fresh, accepts, len

\* The privileges of a creation signed for with the seeds.
Seeded(p) == [p EXCEPT !.signers = @ \union {Pda}]

\* With seeds, only the address they derive to is ever created.
LEMMA SeededInitIfNeededStepEffect ==
    ASSUME NEW a \in Ledger, NEW payer \in Keys, NEW target \in Keys,
           NEW rent \in Nat, rent # 0, NEW space \in Nat,
           space + DiscriminatorLen \in Lens, NEW p,
           SeededInitIfNeededStep(a, payer, target, rent, space, p).ok
    PROVE  LET res == SeededInitIfNeededStep(a, payer, target, rent, space, p)
               len == space + DiscriminatorLen
           IN  \/ /\ NeedsInit(a[target]) /\ target = Pda
                  /\ CreatedBy(a, res.out, Seeded(p), target, payer, rent, len,
                               "counter")
                  /\ res.cpi \in Ledger
                  /\ \A k \in Keys : /\ res.cpi[k].lamports = res.out[k].lamports
                                     /\ res.cpi[k].owner = res.out[k].owner
                  /\ \A k \in Keys \ {target, payer} : res.cpi[k] = a[k]
               \/ /\ ~NeedsInit(a[target])
                  /\ res.out = a /\ res.cpi = a
                  /\ a[target].owner = "program" /\ a[target].len >= len
  <1> DEFINE seed == Seeded(p)
             res == InitIfNeededStep(a, payer, target, rent, space, seed)
  <1>1. /\ ~(NeedsInit(a[target]) /\ target # Pda)
        /\ SeededInitIfNeededStep(a, payer, target, rent, space, p) = res
    BY DEF SeededInitIfNeededStep, Failed, Seeded
  <1>2. res.ok
    BY <1>1
  <1> HIDE DEF seed
  <1>3. \/ /\ NeedsInit(a[target])
           /\ CreatedBy(a, res.out, seed, target, payer, rent,
                        space + DiscriminatorLen, "counter")
           /\ res.cpi \in Ledger
           /\ \A k \in Keys : /\ res.cpi[k].lamports = res.out[k].lamports
                              /\ res.cpi[k].owner = res.out[k].owner
           /\ \A k \in Keys \ {target, payer} : res.cpi[k] = a[k]
        \/ /\ ~NeedsInit(a[target])
           /\ res.out = a /\ res.cpi = a
           /\ a[target].owner = "program"
           /\ a[target].len >= space + DiscriminatorLen
    BY <1>2, InitIfNeededStepEffect
  <1> HIDE DEF res
  <1>4. QED
    BY <1>1, <1>3 DEF seed

-----------------------------------------------------------------------------
(* close.                                                                  *)

ClosedInto(a, b, key, dest) ==
    /\ b \in Ledger
    /\ b[key] = [a[key] EXCEPT !.lamports = 0,
                              !.disc = Prefix(a[key].len, "closed")]
    /\ dest # key =>
         b[dest] = [a[dest] EXCEPT !.lamports = @ + a[key].lamports]
    /\ \A k \in Keys \ {key, dest} : b[k] = a[k]

LEMMA CloseStepEffect ==
    ASSUME NEW a \in Ledger, NEW key \in Keys, NEW dest \in Keys
    PROVE  LET res == CloseStep(a, key, dest)
           IN  res.ok = TRUE /\ res.cpi = a /\ ClosedInto(a, res.out, key, dest)
  <1> DEFINE c == [a EXCEPT ![dest].lamports = @ + a[key].lamports]
             d == Prefix(a[key].len, "closed")
             b == [c EXCEPT ![key].lamports = 0, ![key].disc = d]
  <1>1. d \in Discs
    BY DEF Prefix, Discs
  <1>2. CloseStep(a, key, dest) = [ok |-> TRUE, cpi |-> a, out |-> b]
    BY DEF CloseStep, Done
  <1> HIDE DEF d
  <1>3. /\ c \in Ledger
        /\ c[dest] = [a[dest] EXCEPT !.lamports = @ + a[key].lamports]
        /\ \A k \in Keys \ {dest} : c[k] = a[k]
    BY DEF Ledger, Account
  <1>4. [c[key] EXCEPT !.lamports = 0, !.disc = d]
          = [a[key] EXCEPT !.lamports = 0, !.disc = d]
    BY <1>3 DEF Ledger, Account
  <1>5. b = [c EXCEPT ![key] = [c[key] EXCEPT !.lamports = 0, !.disc = d]]
    BY <1>3 DEF Ledger, Account
  <1>6. [c[key] EXCEPT !.lamports = 0, !.disc = d] \in Account
    BY <1>1, <1>3 DEF Ledger, Account
  <1> HIDE DEF c
  <1>7. /\ b \in Ledger
        /\ b[key] = [c[key] EXCEPT !.lamports = 0, !.disc = d]
        /\ \A k \in Keys \ {key} : b[k] = c[k]
    BY <1>3, <1>5, <1>6 DEF Ledger
  <1> HIDE DEF b
  <1>8. ClosedInto(a, b, key, dest)
    BY <1>3, <1>4, <1>7 DEF ClosedInto, d
  <1>9. QED
    BY <1>2, <1>8

-----------------------------------------------------------------------------
(* realloc.                                                                *)

\* What a realloc to newlen leaves, `cpi` being the ledger after the top-up.
Resized(a, b, p, vault, payer, newlen) ==
    LET min == MinimumBalance[newlen]
    IN  /\ b \in Ledger
        /\ b[vault].len = newlen
        /\ b[vault].owner = a[vault].owner
        /\ b[vault].disc = a[vault].disc
        /\ b[vault].lamports >= min /\ b[vault].lamports >= a[vault].lamports
        /\ a[vault].len # newlen => a[vault].owner = "program"
        /\ b[payer] = [a[payer] EXCEPT !.lamports = b[payer].lamports]
        /\ \/ b[payer] = a[payer]
           \/ payer \in p.signers /\ a[payer].owner = "system"
        /\ \A k \in Keys \ {vault, payer} : b[k] = a[k]

LEMMA MoveLamportsEffect ==
    ASSUME NEW a \in Ledger, NEW from \in Keys, NEW to \in Keys,
           NEW n \in Nat, n <= a[from].lamports
    PROVE  LET b == MoveLamports(a, from, to, n)
           IN  /\ b \in Ledger
               /\ from = to => b = a
               /\ from # to =>
                    /\ b[from] = [a[from] EXCEPT !.lamports = @ - n]
                    /\ b[to] = [a[to] EXCEPT !.lamports = @ + n]
               /\ \A k \in Keys \ {from, to} : b[k] = a[k]
  <1> DEFINE c == [a EXCEPT ![from].lamports = @ - n]
             b == [c EXCEPT ![to].lamports = @ + n]
  <1>1. /\ c \in Ledger
        /\ c[from] = [a[from] EXCEPT !.lamports = @ - n]
        /\ \A k \in Keys \ {from} : c[k] = a[k]
    BY DEF Ledger, Account
  <1> HIDE DEF c
  <1>2. /\ b \in Ledger
        /\ b[to] = [c[to] EXCEPT !.lamports = @ + n]
        /\ \A k \in Keys \ {to} : b[k] = c[k]
    BY <1>1 DEF Ledger, Account
  <1> HIDE DEF b
  <1>3. CASE from = to
    <2>1. b[to] = a[to]
      BY <1>1, <1>2, <1>3 DEF Ledger, Account
    <2>2. \A k \in Keys : b[k] = a[k]
      BY <1>1, <1>2, <1>3, <2>1
    <2>3. b = a
      BY <1>2, <2>2 DEF Ledger
    <2>4. QED
      BY <1>2, <1>3, <2>3 DEF MoveLamports, b, c
  <1>4. CASE from # to
    BY <1>1, <1>2, <1>4 DEF MoveLamports, b, c
  <1>5. QED
    BY <1>3, <1>4

\* A realloc that returns Ok, its two accounts being one or not.
LEMMA ReallocStepCases ==
    ASSUME NEW a \in Ledger, NEW vault \in Keys, NEW payer \in Keys,
           NEW newlen \in Lens, newlen # 0, NEW p,
           ReallocStep(a, vault, payer, newlen, p).ok
    PROVE  LET c == ReallocStep(a, vault, payer, newlen, p).cpi
               b == ReallocStep(a, vault, payer, newlen, p).out
               min == MinimumBalance[newlen]
           IN  /\ c \in Ledger /\ b \in Ledger
               /\ b[vault] = [c[vault] EXCEPT !.len = newlen]
               /\ \A k \in Keys \ {vault} : b[k] = c[k]
               /\ a[vault].lamports >= min => c = a
               /\ a[vault].lamports < min =>
                    /\ CanTransfer(a, payer, vault, min - a[vault].lamports, p)
                    /\ payer = vault => c = a
                    /\ payer # vault =>
                         /\ c[payer] = [a[payer] EXCEPT
                                          !.lamports = @ - (min - a[vault].lamports)]
                         /\ c[vault] = [a[vault] EXCEPT !.lamports = min]
                    /\ \A k \in Keys \ {vault, payer} : c[k] = a[k]
  <1> DEFINE min   == MinimumBalance[newlen]
             short == a[vault].lamports < min
             delta == min - a[vault].lamports
             c     == IF short THEN MoveLamports(a, payer, vault, delta) ELSE a
             d     == Prefix(newlen, a[vault].disc)
             b     == [c EXCEPT ![vault].len = newlen, ![vault].disc = d]
  <1>1. min \in Nat /\ a[vault].lamports \in Nat /\ a[payer].lamports \in Nat
    BY RentAssumption DEF Ledger, Account
  <1>2. short => CanTransfer(a, payer, vault, delta, p)
    BY DEF ReallocStep, Failed
  <1>3. ReallocStep(a, vault, payer, newlen, p)
          = [ok |-> TRUE, cpi |-> c, out |-> b]
    BY <1>2 DEF ReallocStep, Resize, Done
  <1> HIDE DEF min
  <1>4. short => /\ c \in Ledger
                 /\ payer = vault => c = a
                 /\ payer # vault =>
                      /\ c[payer] = [a[payer] EXCEPT !.lamports = @ - delta]
                      /\ c[vault] = [a[vault] EXCEPT !.lamports = min]
                 /\ \A k \in Keys \ {vault, payer} : c[k] = a[k]
    <2> SUFFICES ASSUME short
        PROVE  /\ c \in Ledger
               /\ payer = vault => c = a
               /\ payer # vault =>
                    /\ c[payer] = [a[payer] EXCEPT !.lamports = @ - delta]
                    /\ c[vault] = [a[vault] EXCEPT !.lamports = min]
               /\ \A k \in Keys \ {vault, payer} : c[k] = a[k]
      OBVIOUS
    <2>1. delta \in Nat /\ delta <= a[payer].lamports
      BY <1>1, <1>2 DEF CanTransfer
    <2>2. /\ c \in Ledger
          /\ payer = vault => c = a
          /\ payer # vault =>
               /\ c[payer] = [a[payer] EXCEPT !.lamports = @ - delta]
               /\ c[vault] = [a[vault] EXCEPT !.lamports = @ + delta]
          /\ \A k \in Keys \ {payer, vault} : c[k] = a[k]
      BY <2>1, MoveLamportsEffect
    <2>3. a[vault].lamports + delta = min
      BY <1>1
    <2> HIDE DEF c, delta
    <2>4. QED
      BY <2>2, <2>3 DEF Ledger, Account
  <1>5. c \in Ledger /\ c[vault].disc = a[vault].disc
    <2> HIDE DEF c
    <2>1. ~short => c = a
      BY DEF c
    <2>2. QED
      BY <1>4, <2>1 DEF Ledger, Account
  <1>6. ~short => c = a
    OBVIOUS
  <1>7. d = c[vault].disc
    BY <1>5 DEF Prefix
  <1> HIDE DEF c, d
  <1>8. /\ b \in Ledger
        /\ b[vault] = [c[vault] EXCEPT !.len = newlen]
        /\ \A k \in Keys \ {vault} : b[k] = c[k]
    <2>1. b[vault] = [c[vault] EXCEPT !.len = newlen, !.disc = d]
      BY <1>5 DEF Ledger, Account
    <2>2. [c[vault] EXCEPT !.len = newlen, !.disc = d]
            = [c[vault] EXCEPT !.len = newlen]
      BY <1>5, <1>7 DEF Ledger, Account
    <2>3. d \in Discs
      BY <1>5, <1>7 DEF Ledger, Account
    <2>4. QED
      BY <1>5, <2>1, <2>2, <2>3 DEF Ledger, Account
  <1> HIDE DEF b
  <1>9. QED
    BY <1>1, <1>2, <1>3, <1>4, <1>5, <1>6, <1>8 DEF short, delta, min

LEMMA ReallocStepEffect ==
    ASSUME NEW a \in Ledger, NEW vault \in Keys, NEW payer \in Keys,
           vault # payer, NEW newlen \in Lens, newlen # 0, NEW p,
           ReallocStep(a, vault, payer, newlen, p).ok,
           WritesOwned(ReallocStep(a, vault, payer, newlen, p).cpi,
                       ReallocStep(a, vault, payer, newlen, p).out, p)
    PROVE  Resized(a, ReallocStep(a, vault, payer, newlen, p).out, p,
                   vault, payer, newlen)
  <1> DEFINE min   == MinimumBalance[newlen]
             short == a[vault].lamports < min
             delta == min - a[vault].lamports
             c     == IF short THEN MoveLamports(a, payer, vault, delta) ELSE a
             d     == Prefix(newlen, a[vault].disc)
             b     == [c EXCEPT ![vault].len = newlen, ![vault].disc = d]
  <1>1. min \in Nat /\ a[vault].lamports \in Nat
    BY RentAssumption DEF Ledger, Account
  <1>2. short => CanTransfer(a, payer, vault, delta, p)
    BY DEF ReallocStep, Failed
  <1>3. ReallocStep(a, vault, payer, newlen, p)
          = [ok |-> TRUE, cpi |-> c, out |-> b]
    BY <1>2 DEF ReallocStep, Resize, Done
  <1>4. WritesOwned(c, b, p)
    BY <1>3
  <1> HIDE DEF min
  <1>5. /\ c \in Ledger
        /\ c[vault].lamports >= min /\ c[vault].lamports >= a[vault].lamports
        /\ c[vault].owner = a[vault].owner /\ c[vault].len = a[vault].len
        /\ c[vault].disc = a[vault].disc
        /\ c[payer] = [a[payer] EXCEPT !.lamports = c[payer].lamports]
        /\ \/ c[payer] = a[payer]
           \/ payer \in p.signers /\ a[payer].owner = "system"
        /\ \A k \in Keys \ {vault, payer} : c[k] = a[k]
    <2>1. CASE short
      <3>1. delta \in Nat /\ delta <= a[payer].lamports
        BY <1>1, <1>2, <2>1 DEF CanTransfer
      <3>2. /\ c \in Ledger
            /\ c[payer] = [a[payer] EXCEPT !.lamports = @ - delta]
            /\ c[vault] = [a[vault] EXCEPT !.lamports = @ + delta]
            /\ \A k \in Keys \ {payer, vault} : c[k] = a[k]
        BY <2>1, <3>1, MoveLamportsEffect
      <3>3. payer \in p.signers /\ a[payer].owner = "system"
        BY <1>2, <2>1 DEF CanTransfer
      <3> HIDE DEF c
      <3>4. QED
        BY <1>1, <2>1, <3>2, <3>3 DEF Ledger, Account
    <2>2. CASE ~short
      BY <1>1, <2>2 DEF Ledger, Account
    <2>3. QED
      BY <2>1, <2>2
  <1> HIDE DEF c, short, delta
  <1>6. /\ b \in Ledger
        /\ b[vault] = [c[vault] EXCEPT !.len = newlen]
        /\ \A k \in Keys \ {vault} : b[k] = c[k]
    <2>1. d = c[vault].disc /\ d \in Discs
      BY <1>5 DEF Prefix, Ledger, Account
    <2> HIDE DEF d
    <2>0. c \in Ledger
      BY <1>5
    <2>2. /\ b \in Ledger
          /\ b[vault] = [c[vault] EXCEPT !.len = newlen, !.disc = d]
          /\ \A k \in Keys \ {vault} : b[k] = c[k]
      BY <2>0, <2>1 DEF Ledger, Account
    <2>3. [c[vault] EXCEPT !.len = newlen, !.disc = d]
            = [c[vault] EXCEPT !.len = newlen]
      BY <1>5, <2>1 DEF Ledger, Account
    <2>4. QED
      BY <2>2, <2>3
  <1>7. a[vault].len # newlen => a[vault].owner = "program"
    BY <1>4, <1>5, <1>6 DEF WritesOwned, Ledger, Account
  <1> HIDE DEF b
  <1>8. Resized(a, b, p, vault, payer, newlen)
    BY <1>5, <1>6, <1>7 DEF Resized, min, Ledger, Account
  <1>9. QED
    BY <1>3, <1>8

\* The whole effect of a realloc between two accounts: max(lamports, minimum),
\* the difference paid by the payer.
ToppedUp(a, b, vault, payer, newlen) ==
    LET min   == MinimumBalance[newlen]
        delta == IF a[vault].lamports < min THEN min - a[vault].lamports ELSE 0
    IN  /\ delta \in Nat /\ delta <= a[payer].lamports
        /\ b \in Ledger
        /\ b[vault] = [a[vault] EXCEPT !.lamports = @ + delta, !.len = newlen]
        /\ b[payer] = [a[payer] EXCEPT !.lamports = @ - delta]
        /\ \A k \in Keys \ {vault, payer} : b[k] = a[k]

LEMMA ReallocTopsUp ==
    ASSUME NEW a \in Ledger, NEW vault \in Keys, NEW payer \in Keys,
           vault # payer, NEW newlen \in Lens, newlen # 0, NEW p,
           ReallocStep(a, vault, payer, newlen, p).ok
    PROVE  ToppedUp(a, ReallocStep(a, vault, payer, newlen, p).out,
                    vault, payer, newlen)
  <1> DEFINE c == ReallocStep(a, vault, payer, newlen, p).cpi
             b == ReallocStep(a, vault, payer, newlen, p).out
             min == MinimumBalance[newlen]
             delta == IF a[vault].lamports < min THEN min - a[vault].lamports ELSE 0
  <1>1. /\ b \in Ledger
        /\ b[vault] = [c[vault] EXCEPT !.len = newlen]
        /\ \A k \in Keys \ {vault} : b[k] = c[k]
        /\ a[vault].lamports >= min => c = a
        /\ a[vault].lamports < min =>
             /\ CanTransfer(a, payer, vault, min - a[vault].lamports, p)
             /\ c[payer] = [a[payer] EXCEPT
                              !.lamports = @ - (min - a[vault].lamports)]
             /\ c[vault] = [a[vault] EXCEPT !.lamports = min]
             /\ \A k \in Keys \ {vault, payer} : c[k] = a[k]
    BY ReallocStepCases
  <1>2. /\ min \in Nat /\ a[vault] \in Account /\ a[payer] \in Account
        /\ a[vault].lamports \in Nat /\ a[payer].lamports \in Nat
    BY RentAssumption DEF Ledger, Account
  <1> HIDE DEF b, c, min
  <1>3. CASE a[vault].lamports < min
    <2>1. delta = min - a[vault].lamports /\ delta \in Nat
          /\ a[vault].lamports + delta = min
      BY <1>2, <1>3
    <2>2. delta <= a[payer].lamports
      BY <1>1, <1>3, <2>1 DEF CanTransfer
    <2> HIDE DEF delta
    <2>3. /\ b[vault] = [a[vault] EXCEPT !.lamports = @ + delta, !.len = newlen]
          /\ b[payer] = [a[payer] EXCEPT !.lamports = @ - delta]
      BY <1>1, <1>2, <1>3, <2>1 DEF Account
    <2>4. \A k \in Keys \ {vault, payer} : b[k] = a[k]
      BY <1>1, <1>3
    <2>5. QED
      BY <1>1, <2>1, <2>2, <2>3, <2>4 DEF ToppedUp, b, min, delta
  <1>4. CASE ~(a[vault].lamports < min)
    <2>1. delta = 0 /\ c = a
      BY <1>1, <1>2, <1>4
    <2>2. a[vault].lamports + delta = a[vault].lamports
          /\ a[payer].lamports - delta = a[payer].lamports
          /\ delta \in Nat /\ delta <= a[payer].lamports
      BY <1>2, <2>1
    <2> HIDE DEF delta
    <2>3. /\ b[vault] = [a[vault] EXCEPT !.lamports = @ + delta, !.len = newlen]
          /\ b[payer] = [a[payer] EXCEPT !.lamports = @ - delta]
      <3>1. b[vault] = [a[vault] EXCEPT !.len = newlen] /\ b[payer] = a[payer]
        BY <1>1, <2>1
      <3>2. [a[payer] EXCEPT !.lamports = @ - delta] = a[payer]
        BY <1>2, <2>2 DEF Account
      <3>3. [a[vault] EXCEPT !.lamports = @ + delta, !.len = newlen]
              = [a[vault] EXCEPT !.len = newlen]
        BY <1>2, <2>2 DEF Account
      <3>4. QED
        BY <3>1, <3>2, <3>3
    <2>4. \A k \in Keys \ {vault, payer} : b[k] = a[k]
      BY <1>1, <2>1
    <2>5. QED
      BY <1>1, <2>2, <2>3, <2>4 DEF ToppedUp, b, min, delta
  <1>5. QED
    BY <1>3, <1>4

-----------------------------------------------------------------------------
(* What the steps do to the lamports of all accounts together.             *)

LEMMA SupplyIsSum ==
    ASSUME NEW a
    PROVE  Supply(a) = SumFunctionOnSet([k \in Keys |-> a[k].lamports], Keys)
  BY DEF Supply, SumFunction

LEMMA SupplyType ==
    ASSUME NEW a \in Ledger
    PROVE  Supply(a) \in Int
  <1> DEFINE f == [k \in Keys |-> a[k].lamports]
  <1>1. \A k \in Keys : f[k] \in Int
    BY DEF Ledger, Account
  <1> HIDE DEF f
  <1>2. SumFunctionOnSet(f, Keys) \in Int
    BY <1>1, KeysAssumption, SumType
  <1>3. QED
    BY <1>2, SupplyIsSum DEF f

\* Only balances count.
LEMMA SameSupply ==
    ASSUME NEW a, NEW b, \A k \in Keys : b[k].lamports = a[k].lamports
    PROVE  Supply(b) = Supply(a)
  <1>1. [k \in Keys |-> b[k].lamports] = [k \in Keys |-> a[k].lamports]
    OBVIOUS
  <1>2. QED
    BY <1>1 DEF Supply

\* One balance changes.
LEMMA SupplyChange ==
    ASSUME NEW a \in Ledger, NEW b \in Ledger, NEW x \in Keys,
           \A k \in Keys \ {x} : b[k].lamports = a[k].lamports
    PROVE  Supply(b) = Supply(a) + (b[x].lamports - a[x].lamports)
  <1> DEFINE f == [k \in Keys |-> a[k].lamports]
             g == [k \in Keys |-> b[k].lamports]
  <1>1. \A k \in Keys : f[k] \in Int /\ g[k] \in Int
    BY DEF Ledger, Account
  <1>2. \A k \in Keys \ {x} : g[k] = f[k]
    OBVIOUS
  <1>3. f[x] = a[x].lamports /\ g[x] = b[x].lamports
    OBVIOUS
  <1> HIDE DEF f, g
  <1>4. SumFunctionOnSet(g, Keys) = SumFunctionOnSet(f, Keys) + (g[x] - f[x])
    BY <1>1, <1>2, KeysAssumption, SumChange
  <1>5. QED
    BY <1>3, <1>4, SupplyIsSum DEF f, g

\* Two balances change.
LEMMA SupplyExchange ==
    ASSUME NEW a \in Ledger, NEW b \in Ledger,
           NEW x \in Keys, NEW y \in Keys, x # y,
           \A k \in Keys \ {x, y} : b[k].lamports = a[k].lamports
    PROVE  Supply(b) = Supply(a) + (b[x].lamports - a[x].lamports)
                                 + (b[y].lamports - a[y].lamports)
  <1> DEFINE f == [k \in Keys |-> a[k].lamports]
             g == [k \in Keys |-> b[k].lamports]
  <1>1. \A k \in Keys : f[k] \in Int /\ g[k] \in Int
    BY DEF Ledger, Account
  <1>2. \A k \in Keys \ {x, y} : g[k] = f[k]
    OBVIOUS
  <1>3. /\ f[x] = a[x].lamports /\ g[x] = b[x].lamports
        /\ f[y] = a[y].lamports /\ g[y] = b[y].lamports
    OBVIOUS
  <1> HIDE DEF f, g
  <1>4. SumFunctionOnSet(g, Keys)
          = SumFunctionOnSet(f, Keys) + (g[x] - f[x]) + (g[y] - f[y])
    BY <1>1, <1>2, KeysAssumption, SumExchange
  <1>5. QED
    BY <1>3, <1>4, SupplyIsSum DEF f, g

\* Lamports move between two accounts.
LEMMA MovedSupply ==
    ASSUME NEW a \in Ledger, NEW b \in Ledger,
           NEW x \in Keys, NEW y \in Keys, x # y,
           b[x].lamports + b[y].lamports = a[x].lamports + a[y].lamports,
           \A k \in Keys \ {x, y} : b[k].lamports = a[k].lamports
    PROVE  Balanced(a, b)
  <1>1. /\ a[x].lamports \in Int /\ a[y].lamports \in Int
        /\ b[x].lamports \in Int /\ b[y].lamports \in Int
    BY DEF Ledger, Account
  <1>2. Supply(a) \in Int
    BY SupplyType
  <1>3. Supply(b) = Supply(a) + (b[x].lamports - a[x].lamports)
                              + (b[y].lamports - a[y].lamports)
    BY SupplyExchange
  <1>4. QED
    BY <1>1, <1>2, <1>3 DEF Balanced

LEMMA CreatedBalanced ==
    ASSUME NEW a \in Ledger, NEW b, NEW p, NEW key \in Keys, NEW payer \in Keys,
           NEW rent \in Nat, NEW len, NEW disc,
           CreatedBy(a, b, p, key, payer, rent, len, disc)
    PROVE  Balanced(a, b)
  <1>1. /\ b \in Ledger /\ key # payer
        /\ b[key].lamports + b[payer].lamports
             = a[key].lamports + a[payer].lamports
        /\ \A k \in Keys \ {key, payer} : b[k].lamports = a[k].lamports
    BY DEF CreatedBy, Ledger, Account
  <1>2. QED
    BY <1>1, MovedSupply

\* A close conserves lamports unless it closes an account into itself.
LEMMA ClosedBalanced ==
    ASSUME NEW a \in Ledger, NEW b, NEW key \in Keys, NEW dest \in Keys,
           key # dest, ClosedInto(a, b, key, dest)
    PROVE  Balanced(a, b)
  <1>1. /\ b \in Ledger
        /\ b[key].lamports + b[dest].lamports
             = a[key].lamports + a[dest].lamports
        /\ \A k \in Keys \ {key, dest} : b[k].lamports = a[k].lamports
    BY DEF ClosedInto, Ledger, Account
  <1>2. QED
    BY <1>1, MovedSupply

LEMMA MoveBalanced ==
    ASSUME NEW a \in Ledger, NEW from \in Keys, NEW to \in Keys,
           NEW n \in Nat, n <= a[from].lamports
    PROVE  Balanced(a, MoveLamports(a, from, to, n))
  <1> DEFINE b == MoveLamports(a, from, to, n)
  <1>1. /\ b \in Ledger
        /\ from = to => b = a
        /\ from # to =>
             /\ b[from] = [a[from] EXCEPT !.lamports = @ - n]
             /\ b[to] = [a[to] EXCEPT !.lamports = @ + n]
        /\ \A k \in Keys \ {from, to} : b[k] = a[k]
    BY MoveLamportsEffect
  <1> HIDE DEF b
  <1>2. CASE from = to
    BY <1>1, <1>2 DEF Balanced, b
  <1>3. CASE from # to
    <2>1. b[from].lamports + b[to].lamports = a[from].lamports + a[to].lamports
      BY <1>1, <1>3 DEF Ledger, Account
    <2>2. Balanced(a, b)
      BY <1>1, <1>3, <2>1, MovedSupply
    <2>3. QED
      BY <2>2 DEF b
  <1>4. QED
    BY <1>2, <1>3

\* The top-up of a realloc moves lamports, the resize touches none.
LEMMA ReallocBalanced ==
    ASSUME NEW a \in Ledger, NEW vault \in Keys, NEW payer \in Keys,
           NEW newlen \in Lens, newlen # 0, NEW p,
           ReallocStep(a, vault, payer, newlen, p).ok
    PROVE  /\ Balanced(a, ReallocStep(a, vault, payer, newlen, p).cpi)
           /\ Balanced(a, ReallocStep(a, vault, payer, newlen, p).out)
  <1> DEFINE c == ReallocStep(a, vault, payer, newlen, p).cpi
             b == ReallocStep(a, vault, payer, newlen, p).out
             min == MinimumBalance[newlen]
  <1>1. /\ c \in Ledger /\ b \in Ledger
        /\ b[vault] = [c[vault] EXCEPT !.len = newlen]
        /\ \A k \in Keys \ {vault} : b[k] = c[k]
        /\ a[vault].lamports >= min => c = a
        /\ a[vault].lamports < min =>
             /\ payer = vault => c = a
             /\ payer # vault =>
                  /\ c[payer] = [a[payer] EXCEPT
                                   !.lamports = @ - (min - a[vault].lamports)]
                  /\ c[vault] = [a[vault] EXCEPT !.lamports = min]
             /\ \A k \in Keys \ {vault, payer} : c[k] = a[k]
    BY ReallocStepCases
  <1>2. min \in Nat /\ a[vault].lamports \in Nat
    BY RentAssumption DEF Ledger, Account
  <1> HIDE DEF b, c, min
  <1>3. \A k \in Keys : b[k].lamports = c[k].lamports
    BY <1>1 DEF Ledger, Account
  <1>4. Supply(b) = Supply(c)
    BY <1>3, SameSupply
  <1>5. CASE c = a
    BY <1>4, <1>5 DEF Balanced, b, c
  <1>6. CASE c # a
    <2>0. /\ payer # vault /\ c[vault] = [a[vault] EXCEPT !.lamports = min]
          /\ c[payer] = [a[payer] EXCEPT
                           !.lamports = @ - (min - a[vault].lamports)]
          /\ \A k \in Keys \ {vault, payer} : c[k] = a[k]
      BY <1>1, <1>2, <1>6
    <2>1. /\ payer # vault
          /\ c[vault].lamports + c[payer].lamports
               = a[vault].lamports + a[payer].lamports
          /\ \A k \in Keys \ {vault, payer} : c[k].lamports = a[k].lamports
      BY <1>2, <2>0 DEF Ledger, Account
    <2>2. Balanced(a, c)
      BY <1>1, <2>1, MovedSupply
    <2>3. QED
      BY <1>4, <2>2 DEF Balanced, b, c
  <1>7. QED
    BY <1>5, <1>6
=============================================================================
