---------------------------- MODULE LayoutLemmas ----------------------------
(***************************************************************************)
(* The walks over account data agree: the one of the generated code with   *)
(* the one of the Lean library, and both with Borsh. For every type, every *)
(* buffer and every size of the elementary types.                          *)
(*                                                                         *)
(* Types are finitely deep and walks finitely long, so both inductions are *)
(* over sets: LeastElement for the naturals, the levels of Ty for types.   *)
(***************************************************************************)
EXTENDS Layout, OrderLemmas

-----------------------------------------------------------------------------
(* Induction and recursion.                                                *)

\* What holds at 0, and at i when it holds at i - 1, holds up to n.
LEMMA UpToInduction ==
    ASSUME NEW n \in Nat, NEW S, 0 \in S, \A i \in 1..n : i - 1 \in S => i \in S
    PROVE  \A i \in 0..n : i \in S
<1> DEFINE Bad == {i \in 0..n : i \notin S}
<1>1. SUFFICES ASSUME Bad # {} PROVE FALSE
  OBVIOUS
<1>2. PICK i \in Bad : \A j \in Bad : i <= j
  <2>1. Bad \in SUBSET Nat
    OBVIOUS
  <2> HIDE DEF Bad
  <2> QED BY <1>1, <2>1, LeastElement
<1>3. i \in 1..n /\ i - 1 \in 0..n
  BY <1>2
<1>4. i - 1 \notin Bad
  BY <1>2, <1>3
<1> QED BY <1>2, <1>3, <1>4

\* What a type is made of.
Parts(u) ==
    IF u.k \in {"vec", "option", "array"} THEN {u.of}
    ELSE IF u.k = "struct" THEN {u.fs[i].ty : i \in DOMAIN u.fs} ELSE {}

LEMMA PartsOfScalar ==
    ASSUME NEW u \in Scalar
    PROVE  Parts(u) = {}
BY DEF Scalar, Parts

LEMMA PartsOfLevel ==
    ASSUME NEW T, NEW u \in Over(T)
    PROVE  u \in T \/ Parts(u) \subseteq T
<1>1. CASE u \in [k : {"vec", "option"}, of : T]
  BY <1>1 DEF Parts
<1>2. CASE u \in [k : {"array"}, of : T, n : Nat, literal : BOOLEAN]
  BY <1>2 DEF Parts
<1>3. CASE u \in [k : {"struct"}, fs : Seq([name : STRING, ty : T])]
  <2>1. u.k = "struct" /\ u.fs \in Seq([name : STRING, ty : T])
    BY <1>3
  <2>2. \A i \in DOMAIN u.fs : u.fs[i] \in [name : STRING, ty : T]
    <3> DEFINE R == [name : STRING, ty : T]
               q == u.fs
    <3>1. q \in Seq(R)
      BY <2>1
    <3> HIDE DEF R, q
    <3>2. \A i \in DOMAIN q : q[i] \in R
      BY <3>1
    <3> QED BY <3>2 DEF R, q
  <2> QED BY <2>1, <2>2 DEF Parts
<1> QED BY <1>1, <1>2, <1>3 DEF Over

Level1 == Over(Scalar)
Level2 == Over(Level1)

LEMMA Levels ==
    /\ Ty = Over(Level2)
    /\ Scalar \subseteq Level1 /\ Level1 \subseteq Level2 /\ Level2 \subseteq Ty
BY DEF Ty, Level1, Level2, Over

\* What holds of a type whenever it holds of its parts holds of every type.
LEMMA TypeInduction ==
    ASSUME NEW S, \A u \in Ty : Parts(u) \subseteq S => u \in S
    PROVE  Ty \subseteq S
<1>1. Scalar \subseteq S
  BY PartsOfScalar, Levels
<1>2. Level1 \subseteq S
  BY <1>1, PartsOfLevel, Levels DEF Level1
<1>3. Level2 \subseteq S
  BY <1>2, PartsOfLevel, Levels DEF Level2
<1> QED BY <1>3, PartsOfLevel, Levels

LEMMA PartsAreTypes ==
    ASSUME NEW u \in Ty
    PROVE  Parts(u) \subseteq Ty
<1> DEFINE S == {t \in Ty : Parts(t) \subseteq Ty}
<1>1. Scalar \subseteq S
  BY PartsOfScalar, Levels
<1>2. Level1 \subseteq S
  BY <1>1, PartsOfLevel, Levels DEF Level1
<1>3. Level2 \subseteq S
  BY <1>2, PartsOfLevel, Levels DEF Level2
<1> QED BY <1>3, PartsOfLevel, Levels

-----------------------------------------------------------------------------
(* Walking over values in a row.                                           *)

\* What holds at 0, and at i when it holds at i - 1, is a recursion up to n: as
\* Walk has it, upto holds the offsets behind the first i values.
WalkStep(width, types, off, from, upto, i) ==
    IF i = 0 THEN {from}
    ELSE UNION {{a + w : w \in width[types[i]][off + a]} : a \in upto[i - 1]}

Walking(width, types, off, from, upto, n) ==
    upto = [i \in 0..n |-> WalkStep(width, types, off, from, upto, i)]

LEMMA WalkIs ==
    ASSUME NEW width, NEW types, NEW off, NEW from
    PROVE  Walk(width, types, off, from)
             = (CHOOSE upto : Walking(width, types, off, from, upto, Len(types)))[Len(types)]
BY DEF Walk, Walking, WalkStep

LEMMA WalkExists ==
    ASSUME NEW width, NEW types, NEW off, NEW from, NEW n \in Nat
    PROVE  \E upto : Walking(width, types, off, from, upto, n)
<1> DEFINE Step(g, i) == WalkStep(width, types, off, from, g, i)
           S == {m \in 0..n : \E g : Walking(width, types, off, from, g, m)}
<1>1. 0 \in S
  <2> DEFINE g == [i \in 0..0 |-> {from}]
  <2>1. g = [i \in 0..0 |-> Step(g, i)]
    BY DEF WalkStep
  <2> QED BY <2>1 DEF Walking
<1>2. ASSUME NEW m \in 1..n, m - 1 \in S PROVE m \in S
  <2>1. PICK g : g = [i \in 0..m - 1 |-> Step(g, i)]
    BY <1>2 DEF Walking
  <2> DEFINE h == [i \in 0..m |-> IF i = m THEN Step(g, m) ELSE g[i]]
  <2>2. ASSUME NEW i \in 0..m PROVE h[i] = Step(h, i)
    <3>1. i # 0 => i - 1 \in 0..m /\ i - 1 # m /\ h[i - 1] = g[i - 1]
      OBVIOUS
    <3>2. Step(h, i) = Step(g, i)
      BY <3>1 DEF WalkStep
    <3>3. i # m => i \in 0..m - 1 /\ g[i] = Step(g, i)
      <4> HIDE DEF Step
      <4> QED BY <2>1
    <3> HIDE DEF Step
    <3> QED BY <3>2, <3>3
  <2>3. h = [i \in 0..m |-> Step(h, i)]
    <3>1. h = [i \in 0..m |-> h[i]]
      OBVIOUS
    <3> HIDE DEF h, Step
    <3> QED BY <3>1, <2>2
  <2> HIDE DEF h
  <2> QED BY <2>3 DEF Walking
<1>3. \A m \in 0..n : m \in S
  <2> HIDE DEF S
  <2> QED BY <1>1, <1>2, UpToInduction
<1> QED BY <1>3

\* x[i] are the offsets behind the first i values.
Trail(width, types, off, from, x) ==
    /\ x[0] = {from}
    /\ \A i \in 1..Len(types) :
         \A b : b \in x[i] <=> \E a \in x[i - 1] : \E w \in width[types[i]][off + a] : b = a + w

LEMMA WalkTrail ==
    ASSUME NEW width, NEW types, NEW off, NEW from, Len(types) \in Nat
    PROVE  \E x : /\ Walk(width, types, off, from) = x[Len(types)]
                  /\ Trail(width, types, off, from, x)
<1> DEFINE n == Len(types)
           C == CHOOSE upto : Walking(width, types, off, from, upto, n)
<1>1. Walking(width, types, off, from, C, n)
  BY WalkExists
<1>2. Walk(width, types, off, from) = C[n]
  BY WalkIs
<1> HIDE DEF C
<1>3. \A i \in 0..n : C[i] = WalkStep(width, types, off, from, C, i)
  BY <1>1 DEF Walking
<1>4. C[0] = {from}
  <2>1. 0 \in 0..n
    OBVIOUS
  <2> QED BY <1>3, <2>1 DEF WalkStep
<1>5. \A i \in 1..n : C[i] = UNION {{a + w : w \in width[types[i]][off + a]} : a \in C[i - 1]}
  <2> TAKE i \in 1..n
  <2>1. i \in 0..n /\ i # 0
    OBVIOUS
  <2> QED BY <1>3, <2>1 DEF WalkStep
<1> QED BY <1>2, <1>4, <1>5 DEF Trail

\* What the start of the walk has, and what every step keeps, its end has.
LEMMA WalkInduction ==
    ASSUME NEW n \in Nat, NEW S, 0 \in S, \A i \in 1..n : i - 1 \in S => i \in S
    PROVE  n \in S
<1>1. n \in 0..n
  OBVIOUS
<1>2. \A i \in 0..n : i \in S
  BY UpToInduction
<1> QED BY <1>1, <1>2

\* The widths along the way are natural numbers.
Natural(width, types) ==
    \A i \in 1..Len(types) : \A p \in Nat : width[types[i]][p] \subseteq Nat

LEMMA TrailType ==
    ASSUME NEW width, NEW types, NEW off \in Nat, NEW from \in Nat, Len(types) \in Nat,
           Natural(width, types),
           NEW x, Trail(width, types, off, from, x)
    PROVE  \A i \in 0..Len(types) : x[i] \subseteq Nat
<1> DEFINE n == Len(types)
<1>2. /\ x[0] = {from}
      /\ \A i \in 1..n : \A b :
           b \in x[i] <=> \E a \in x[i - 1] : \E w \in width[types[i]][off + a] : b = a + w
  BY DEF Trail
<1> DEFINE S == {i \in 0..n : x[i] \subseteq Nat}
<1>3. 0 \in S
  <2>1. 0 \in 0..n
    OBVIOUS
  <2> QED BY <1>2, <2>1
<1>4. ASSUME NEW i \in 1..n, i - 1 \in S PROVE i \in S
  <2>1. ASSUME NEW b \in x[i] PROVE b \in Nat
    <3>1. PICK a \in x[i - 1] : \E w \in width[types[i]][off + a] : b = a + w
      BY <1>2
    <3>2. a \in Nat /\ off + a \in Nat
      BY <1>4
    <3>3. width[types[i]][off + a] \subseteq Nat
      BY <3>2 DEF Natural
    <3> QED BY <3>1, <3>2, <3>3
  <2> QED BY <2>1
<1>5. \A i \in 0..n : i \in S
  <2> HIDE DEF S
  <2> QED BY <1>3, <1>4, UpToInduction
<1> QED BY <1>5

LEMMA WalkType ==
    ASSUME NEW width, NEW types, NEW off \in Nat, NEW from \in Nat, Len(types) \in Nat,
           Natural(width, types)
    PROVE  Walk(width, types, off, from) \subseteq Nat
<1>1. PICK x : /\ Walk(width, types, off, from) = x[Len(types)]
               /\ Trail(width, types, off, from, x)
  BY WalkTrail
<1>2. Len(types) \in 0..Len(types)
  OBVIOUS
<1>3. \A i \in 0..Len(types) : x[i] \subseteq Nat
  BY <1>1, TrailType
<1> QED BY <1>1, <1>2, <1>3

\* Two walks along the same widths are the same, wherever they start.
Alike(f, p, g, q, types) ==
    \A i \in 1..Len(types) : \A a \in Nat :
       f[types[i]][p + a] = g[types[i]][q + a] /\ f[types[i]][p + a] \subseteq Nat

LEMMA WalkAlike ==
    ASSUME NEW f, NEW g, NEW types, NEW p \in Nat, NEW q \in Nat, NEW from \in Nat,
           Len(types) \in Nat, Alike(f, p, g, q, types)
    PROVE  Walk(f, types, p, from) = Walk(g, types, q, from)
<1> DEFINE n == Len(types)
<1>1. PICK x : Walk(f, types, p, from) = x[n] /\ Trail(f, types, p, from, x)
  BY WalkTrail
<1>2. PICK y : Walk(g, types, q, from) = y[n] /\ Trail(g, types, q, from, y)
  BY WalkTrail
<1>3. /\ x[0] = {from} /\ y[0] = {from}
      /\ \A i \in 1..n : \A b :
           b \in x[i] <=> \E a \in x[i - 1] : \E w \in f[types[i]][p + a] : b = a + w
      /\ \A i \in 1..n : \A b :
           b \in y[i] <=> \E a \in y[i - 1] : \E w \in g[types[i]][q + a] : b = a + w
  BY <1>1, <1>2 DEF Trail
<1> DEFINE S == {i \in 0..n : (\A b : b \in x[i] <=> b \in y[i]) /\ x[i] \subseteq Nat}
<1>4. 0 \in S
  <2>1. 0 \in 0..n
    OBVIOUS
  <2> QED BY <1>3, <2>1
<1>5. ASSUME NEW i \in 1..n, i - 1 \in S PROVE i \in S
  <2>1. ASSUME NEW a \in x[i - 1]
        PROVE  /\ a \in Nat
               /\ f[types[i]][p + a] = g[types[i]][q + a]
               /\ f[types[i]][p + a] \subseteq Nat
    <3>1. a \in Nat
      BY <1>5
    <3> QED BY <3>1 DEF Alike
  <2>2. ASSUME NEW b PROVE b \in x[i] <=> b \in y[i]
    <3>1. \A a : a \in x[i - 1] <=> a \in y[i - 1]
      BY <1>5
    <3>2. /\ b \in x[i] <=> \E a \in x[i - 1] : \E w \in f[types[i]][p + a] : b = a + w
          /\ b \in y[i] <=> \E a \in y[i - 1] : \E w \in g[types[i]][q + a] : b = a + w
      BY <1>3
    <3>3. \A a \in x[i - 1] : f[types[i]][p + a] = g[types[i]][q + a]
      BY <2>1
    <3> QED BY <3>1, <3>2, <3>3
  <2>3. ASSUME NEW b \in x[i] PROVE b \in Nat
    <3>1. PICK a \in x[i - 1] : \E w \in f[types[i]][p + a] : b = a + w
      BY <1>3
    <3> QED BY <2>1, <3>1
  <2> QED BY <2>2, <2>3
<1>6. n \in S
  <2> HIDE DEF S
  <2> QED BY <1>4, <1>5, WalkInduction
<1>7. x[n] = y[n]
  BY <1>6
<1> QED BY <1>1, <1>2, <1>7

\* A walk that arrives has stepped over everything.
LEMMA WalkArrives ==
    ASSUME NEW width, NEW types, NEW off \in Nat, NEW from \in Nat, Len(types) \in Nat,
           Natural(width, types),
           Walk(width, types, off, from) # {}
    PROVE  \A i \in 1..Len(types) : \E p \in Nat : width[types[i]][p] # {}
<1> DEFINE n == Len(types)
<1>1. PICK x : Walk(width, types, off, from) = x[n] /\ Trail(width, types, off, from, x)
  BY WalkTrail
<1>2. \A i \in 1..n : \A b :
        b \in x[i] <=> \E a \in x[i - 1] : \E w \in width[types[i]][off + a] : b = a + w
  BY <1>1 DEF Trail
<1> DEFINE S == {i \in 0..n : x[n - i] # {}}
<1>3. 0 \in S
  <2>1. 0 \in 0..n /\ n - 0 = n
    OBVIOUS
  <2> QED BY <1>1, <2>1
<1>4. ASSUME NEW i \in 1..n, i - 1 \in S PROVE i \in S
  <2> DEFINE k == n - (i - 1)
  <2>1. k \in 1..n /\ k - 1 = n - i
    OBVIOUS
  <2>2. PICK b : b \in x[k]
    BY <1>4
  <2> HIDE DEF k
  <2>3. x[k - 1] # {}
    BY <1>2, <2>1, <2>2
  <2> QED BY <2>1, <2>3
<1>5. \A i \in 0..n : i \in S
  <2> HIDE DEF S
  <2> QED BY <1>3, <1>4, UpToInduction
<1>6. \A i \in 0..n : x[i] \subseteq Nat
  BY <1>1, TrailType
<1>7. ASSUME NEW i \in 1..n PROVE \E p \in Nat : width[types[i]][p] # {}
  <2>1. n - i \in 0..n /\ n - (n - i) = i /\ i - 1 \in 0..n
    OBVIOUS
  <2>2. x[i] # {}
    BY <1>5, <2>1
  <2>3. PICK b : b \in x[i]
    BY <2>2
  <2>4. PICK a \in x[i - 1] : width[types[i]][off + a] # {}
    BY <1>2, <2>3
  <2>5. off + a \in Nat
    BY <1>6, <2>1
  <2> QED BY <2>4, <2>5
<1> QED BY <1>7

\* What is known of one value's width is known of the whole row's: there is at
\* most one.
Single(widths) == widths = {} \/ \E w \in Nat : widths = {w}

LEMMA WalkSingle ==
    ASSUME NEW width, NEW types, NEW off \in Nat, NEW from \in Nat, Len(types) \in Nat,
           \A i \in 1..Len(types) : \A p \in Nat : Single(width[types[i]][p])
    PROVE  Single(Walk(width, types, off, from))
<1> DEFINE n == Len(types)
<1>1. PICK x : Walk(width, types, off, from) = x[n] /\ Trail(width, types, off, from, x)
  BY WalkTrail
<1>2. /\ x[0] = {from}
      /\ \A i \in 1..n : \A b :
           b \in x[i] <=> \E a \in x[i - 1] : \E w \in width[types[i]][off + a] : b = a + w
  BY <1>1 DEF Trail
<1> DEFINE S == {i \in 0..n : Single(x[i])}
<1>3. 0 \in S
  <2>1. 0 \in 0..n
    OBVIOUS
  <2> QED BY <1>2, <2>1 DEF Single
<1>4. ASSUME NEW i \in 1..n, i - 1 \in S PROVE i \in S
  <2>1. Single(x[i - 1])
    BY <1>4
  <2>2. CASE x[i - 1] = {}
    <3>1. x[i] = {}
      BY <1>2, <2>2
    <3> QED BY <3>1 DEF Single
  <2>3. CASE x[i - 1] # {}
    <3>1. PICK a \in Nat : x[i - 1] = {a}
      BY <2>1, <2>3 DEF Single
    <3>2. off + a \in Nat
      OBVIOUS
    <3>3. Single(width[types[i]][off + a])
      BY <3>2
    <3>4. \A b : b \in x[i] <=> \E w \in width[types[i]][off + a] : b = a + w
      <4> TAKE b
      <4>1. b \in x[i] <=> \E c \in x[i - 1] : \E w \in width[types[i]][off + c] : b = c + w
        BY <1>2
      <4> QED BY <3>1, <4>1
    <3>5. CASE width[types[i]][off + a] = {}
      BY <3>4, <3>5 DEF Single
    <3>6. CASE width[types[i]][off + a] # {}
      <4>1. PICK w \in Nat : width[types[i]][off + a] = {w}
        BY <3>3, <3>6 DEF Single
      <4>2. \A b : b \in x[i] <=> b = a + w
        BY <3>4, <4>1
      <4>3. x[i] = {a + w} /\ a + w \in Nat
        BY <4>2
      <4> QED BY <4>3 DEF Single
    <3> QED BY <3>5, <3>6
  <2> QED BY <2>2, <2>3
<1>5. n \in S
  <2> HIDE DEF S
  <2> QED BY <1>3, <1>4, WalkInduction
<1> QED BY <1>1, <1>5

\* Two walks over widths that are the same below UsizeMax are the same there.
Below(widths, off) == {w \in widths : off + w <= UsizeMax}

LEMMA TrailBelow ==
    ASSUME NEW f, NEW g, NEW types, NEW off \in Nat, NEW from \in Nat, Len(types) \in Nat,
           \A i \in 1..Len(types) : \A p \in Nat :
              /\ f[types[i]][p] \subseteq Nat
              /\ Below(f[types[i]][p], p) \subseteq g[types[i]][p],
           NEW b \in Walk(f, types, off, from), off + b <= UsizeMax
    PROVE  b \in Walk(g, types, off, from)
<1> DEFINE n == Len(types)
<1>0. UsizeMax \in Nat
  BY LayoutAssumption
<1>1. PICK x : Walk(f, types, off, from) = x[n] /\ Trail(f, types, off, from, x)
  BY WalkTrail
<1>2. PICK y : Walk(g, types, off, from) = y[n] /\ Trail(g, types, off, from, y)
  BY WalkTrail
<1>3. /\ x[0] = {from} /\ y[0] = {from}
      /\ \A i \in 1..n : \A c :
           c \in x[i] <=> \E a \in x[i - 1] : \E w \in f[types[i]][off + a] : c = a + w
      /\ \A i \in 1..n : \A c :
           c \in y[i] <=> \E a \in y[i - 1] : \E w \in g[types[i]][off + a] : c = a + w
  BY <1>1, <1>2 DEF Trail
<1> DEFINE S == {i \in 0..n : \A c \in x[i] : c \in Nat /\ (off + c <= UsizeMax => c \in y[i])}
<1>4. 0 \in S
  <2>1. 0 \in 0..n
    OBVIOUS
  <2> QED BY <1>3, <2>1
<1>5. ASSUME NEW i \in 1..n, i - 1 \in S PROVE i \in S
  <2>1. ASSUME NEW c \in x[i] PROVE c \in Nat /\ (off + c <= UsizeMax => c \in y[i])
    <3>1. PICK a \in x[i - 1] : \E w \in f[types[i]][off + a] : c = a + w
      BY <1>3
    <3>2. PICK w \in f[types[i]][off + a] : c = a + w
      BY <3>1
    <3>3. a \in Nat /\ off + a \in Nat
      BY <1>5
    <3>4. w \in Nat /\ Below(f[types[i]][off + a], off + a) \subseteq g[types[i]][off + a]
      BY <3>3
    <3>5. c \in Nat
      BY <3>2, <3>3, <3>4
    <3>6. ASSUME off + c <= UsizeMax PROVE c \in y[i]
      <4>1. off + a <= UsizeMax /\ (off + a) + w <= UsizeMax
        BY <3>2, <3>3, <3>4, <3>6, <1>0
      <4>2. a \in y[i - 1]
        BY <1>5, <4>1
      <4>3. w \in g[types[i]][off + a]
        BY <3>4, <4>1 DEF Below
      <4> QED BY <1>3, <3>2, <4>2, <4>3
    <3> QED BY <3>5, <3>6
  <2> QED BY <2>1
<1>6. n \in S
  <2> HIDE DEF S
  <2> QED BY <1>4, <1>5, WalkInduction
<1> QED BY <1>1, <1>2, <1>6

AlikeBelow(f, g, types) ==
    \A i \in 1..Len(types) : \A p \in Nat :
       /\ f[types[i]][p] \subseteq Nat /\ g[types[i]][p] \subseteq Nat
       /\ Below(f[types[i]][p], p) = Below(g[types[i]][p], p)

LEMMA WalkBelow ==
    ASSUME NEW f, NEW g, NEW types, NEW off \in Nat, NEW from \in Nat, Len(types) \in Nat,
           AlikeBelow(f, g, types)
    PROVE  Below(Walk(f, types, off, from), off) = Below(Walk(g, types, off, from), off)
<1>1. \A i \in 1..Len(types) : \A p \in Nat :
        /\ f[types[i]][p] \subseteq Nat /\ g[types[i]][p] \subseteq Nat
        /\ Below(f[types[i]][p], p) \subseteq g[types[i]][p]
        /\ Below(g[types[i]][p], p) \subseteq f[types[i]][p]
  <2> TAKE i \in 1..Len(types), p \in Nat
  <2>1. /\ f[types[i]][p] \subseteq Nat /\ g[types[i]][p] \subseteq Nat
        /\ Below(f[types[i]][p], p) = Below(g[types[i]][p], p)
    BY DEF AlikeBelow
  <2>2. \A s : Below(s, p) \subseteq s
    BY DEF Below
  <2> QED BY <2>1, <2>2
<1>2. \A b \in Walk(f, types, off, from) : off + b <= UsizeMax => b \in Walk(g, types, off, from)
  BY <1>1, TrailBelow
<1>3. \A b \in Walk(g, types, off, from) : off + b <= UsizeMax => b \in Walk(f, types, off, from)
  BY <1>1, TrailBelow
<1> QED BY <1>2, <1>3 DEF Below

\* Values of one width are stepped over by a multiplication.
Fixed(width, types, w) ==
    \A i \in 1..Len(types) : \A p \in Nat : width[types[i]][p] = {w}

LEMMA WalkFixed ==
    ASSUME NEW width, NEW types, NEW off \in Nat, NEW from \in Nat, Len(types) \in Nat,
           NEW w \in Nat, Fixed(width, types, w)
    PROVE  Walk(width, types, off, from) = {from + Len(types) * w}
<1> DEFINE n == Len(types)
<1>1. PICK x : Walk(width, types, off, from) = x[n] /\ Trail(width, types, off, from, x)
  BY WalkTrail
<1>2. /\ x[0] = {from}
      /\ \A i \in 1..n : \A c :
           c \in x[i] <=> \E a \in x[i - 1] : \E v \in width[types[i]][off + a] : c = a + v
  BY <1>1 DEF Trail
<1> DEFINE S == {i \in 0..n : x[i] = {from + i * w}}
<1>3. 0 \in S
  <2>1. 0 \in 0..n /\ 0 * w = 0
    OBVIOUS
  <2> QED BY <1>2, <2>1
<1>4. ASSUME NEW i \in 1..n, i - 1 \in S PROVE i \in S
  <2> DEFINE b == from + (i - 1) * w
             e == from + i * w
  <2>1. b \in Nat /\ b + w = e
    <3> DEFINE m == i - 1
    <3>1. m \in Nat /\ i = m + 1
      OBVIOUS
    <3>2. m * w \in Nat /\ (m + 1) * w = m * w + w
      BY <3>1
    <3> HIDE DEF m
    <3> QED BY <3>1, <3>2
  <2>2. x[i - 1] = {b}
    BY <1>4
  <2>3. width[types[i]][off + b] = {w}
    <3>1. off + b \in Nat
      BY <2>1
    <3> HIDE DEF b
    <3> QED BY <3>1 DEF Fixed
  <2> HIDE DEF b, e
  <2>4. ASSUME NEW c PROVE c \in x[i] <=> c = e
    <3>1. c \in x[i] <=> \E a \in x[i - 1] : \E v \in width[types[i]][off + a] : c = a + v
      BY <1>2
    <3> QED BY <2>1, <2>2, <2>3, <3>1
  <2>5. x[i] = {e}
    BY <2>4
  <2> QED BY <2>5 DEF e
<1>5. n \in S
  <2> HIDE DEF S
  <2> QED BY <1>3, <1>4, WalkInduction
<1> QED BY <1>1, <1>5

-----------------------------------------------------------------------------
(* What a type has.                                                        *)

\* The components a type of its kind has.
Formed(u) ==
    /\ u.k \in {"uint", "int", "other", "bool", "pubkey", "string", "vec", "option",
                "array", "struct"}
    /\ u.k \in {"uint", "int", "other"} => u.w \in Nat
    /\ u.k = "array" => u.n \in Nat /\ u.literal \in BOOLEAN
    /\ u.k = "struct" => Len(u.fs) \in Nat /\ DOMAIN u.fs = 1..Len(u.fs)

LEMMA FormedOver ==
    ASSUME NEW T, \A u \in T : Formed(u), NEW u \in Over(T)
    PROVE  Formed(u)
<1>1. CASE u \in T
  BY <1>1
<1>2. CASE u \in [k : {"vec", "option"}, of : T]
  BY <1>2 DEF Formed
<1>3. CASE u \in [k : {"array"}, of : T, n : Nat, literal : BOOLEAN]
  BY <1>3 DEF Formed
<1>4. CASE u \in [k : {"struct"}, fs : Seq([name : STRING, ty : T])]
  <2>1. u.k = "struct" /\ u.fs \in Seq([name : STRING, ty : T])
    BY <1>4
  <2>2. Len(u.fs) \in Nat /\ DOMAIN u.fs = 1..Len(u.fs)
    <3> DEFINE R == [name : STRING, ty : T]
               q == u.fs
    <3>1. q \in Seq(R)
      BY <2>1
    <3> HIDE DEF R, q
    <3>2. Len(q) \in Nat /\ DOMAIN q = 1..Len(q)
      BY <3>1
    <3> QED BY <3>2 DEF q
  <2> QED BY <2>1, <2>2 DEF Formed
<1> QED BY <1>1, <1>2, <1>3, <1>4 DEF Over

LEMMA FormedTypes ==
    ASSUME NEW u \in Ty
    PROVE  Formed(u)
<1>1. \A t \in Scalar : Formed(t)
  BY DEF Scalar, Formed
<1>2. \A t \in Level1 : Formed(t)
  BY <1>1, FormedOver DEF Level1
<1>3. \A t \in Level2 : Formed(t)
  BY <1>2, FormedOver DEF Level2
<1> QED BY <1>3, FormedOver, Levels

\* The values a vector, an array or a struct has in a row are of its parts.
LEMMA TypesOfStruct ==
    ASSUME NEW u \in Ty, u.k = "struct"
    PROVE  /\ Len(Types(u.fs)) \in Nat /\ Len(Types(u.fs)) = Len(u.fs)
           /\ \A i \in 1..Len(Types(u.fs)) : /\ Types(u.fs)[i] \in Parts(u)
                                             /\ Types(u.fs)[i] = u.fs[i].ty
<1>1. Len(u.fs) \in Nat /\ DOMAIN u.fs = 1..Len(u.fs)
  BY FormedTypes DEF Formed
<1> DEFINE n == Len(u.fs)
<1>2. Len(Types(u.fs)) = n
  <2> HIDE DEF n
  <2>1. Types(u.fs) = [i \in 1..n |-> u.fs[i].ty]
    BY <1>1 DEF Types, n
  <2>2. Len([i \in 1..n |-> u.fs[i].ty]) = n
    BY <1>1 DEF n
  <2> QED BY <2>1, <2>2
<1>3. \A i \in 1..n : Types(u.fs)[i] = u.fs[i].ty /\ u.fs[i].ty \in Parts(u)
  BY <1>1 DEF Types, Parts
<1> QED BY <1>1, <1>2, <1>3

LEMMA TypesOfCopies ==
    ASSUME NEW t, NEW n \in Nat
    PROVE  /\ Len(Copies(t, n)) = n
           /\ \A i \in 1..n : Copies(t, n)[i] = t
BY DEF Copies

\* A recursion over types is settled after as many rounds as types are deep.
Round(f, g, h) == \A u \in Ty : (\A v \in Parts(u) : f[v] = g[v]) => g[u] = h[u]

LEMMA FourRounds ==
    ASSUME NEW f0, NEW f1, NEW f2, NEW f3, NEW f4, NEW f5,
           Round(f0, f1, f2), Round(f1, f2, f3), Round(f2, f3, f4), Round(f3, f4, f5)
    PROVE  \A u \in Ty : f4[u] = f5[u]
<1>0. \A u \in Ty : /\ (\A v \in Parts(u) : f0[v] = f1[v]) => f1[u] = f2[u]
                    /\ (\A v \in Parts(u) : f1[v] = f2[v]) => f2[u] = f3[u]
                    /\ (\A v \in Parts(u) : f2[v] = f3[v]) => f3[u] = f4[u]
                    /\ (\A v \in Parts(u) : f3[v] = f4[v]) => f4[u] = f5[u]
  BY DEF Round
<1>1. \A u \in Scalar : f1[u] = f2[u] /\ f2[u] = f3[u] /\ f3[u] = f4[u] /\ f4[u] = f5[u]
  BY <1>0, PartsOfScalar, Levels
<1>2. \A u \in Level1 : f2[u] = f3[u] /\ f3[u] = f4[u] /\ f4[u] = f5[u]
  <2> SUFFICES ASSUME NEW u \in Level1, u \notin Scalar
               PROVE  f2[u] = f3[u] /\ f3[u] = f4[u] /\ f4[u] = f5[u]
    BY <1>1
  <2>1. u \in Ty /\ Parts(u) \subseteq Scalar
    BY PartsOfLevel, Levels DEF Level1
  <2> QED BY <1>0, <1>1, <2>1
<1>3. \A u \in Level2 : f3[u] = f4[u] /\ f4[u] = f5[u]
  <2> SUFFICES ASSUME NEW u \in Level2, u \notin Level1
               PROVE  f3[u] = f4[u] /\ f4[u] = f5[u]
    BY <1>2
  <2>1. u \in Ty /\ Parts(u) \subseteq Level1
    BY PartsOfLevel, Levels DEF Level2
  <2> QED BY <1>0, <1>2, <2>1
<1> SUFFICES ASSUME NEW u \in Ty, u \notin Level2
             PROVE  f4[u] = f5[u]
  BY <1>3
<1>4. Parts(u) \subseteq Level2
  BY PartsOfLevel, Levels
<1> QED BY <1>0, <1>3, <1>4

-----------------------------------------------------------------------------
(* What a type takes whatever its bytes are.                               *)

Anywhere(f) == [v \in Ty |-> [o \in Nat |-> f[v]]]

LEMMA SizeOfStruct ==
    ASSUME NEW f, NEW u \in Ty, u.k = "struct"
    PROVE  /\ SizeOf(f, u) = Walk(Anywhere(f), Types(u.fs), 0, 0)
           /\ Len(Types(u.fs)) \in Nat
           /\ \A i \in 1..Len(Types(u.fs)) : \A p \in Nat :
                /\ Anywhere(f)[Types(u.fs)[i]][p] = f[Types(u.fs)[i]]
                /\ Types(u.fs)[i] \in Parts(u)
<1>1. \A i \in 1..Len(Types(u.fs)) : Types(u.fs)[i] \in Ty /\ Types(u.fs)[i] \in Parts(u)
  BY TypesOfStruct, PartsAreTypes
<1>2. Len(Types(u.fs)) \in Nat
  BY TypesOfStruct
<1> QED BY <1>1, <1>2 DEF SizeOf, Anywhere

LEMMA SizeSingle ==
    ASSUME NEW f, NEW u \in Ty, \A v \in Parts(u) : Single(f[v])
    PROVE  Single(SizeOf(f, u))
<1>0. Formed(u)
  BY FormedTypes
<1>1. CASE u.k \in {"uint", "int", "bool", "pubkey"}
  <2>1. SizeOf(f, u) = IF u.k \in {"uint", "int"} THEN {u.w}
                       ELSE IF u.k = "bool" THEN {1} ELSE {KeyLen}
    BY <1>1 DEF SizeOf
  <2> QED BY <1>0, <1>1, <2>1, LayoutAssumption DEF Formed, Single
<1>2. CASE u.k = "array"
  <2>1. Single(f[u.of]) /\ u.n \in Nat
    BY <1>0, <1>2 DEF Parts, Formed
  <2>2. SizeOf(f, u) = {w * u.n : w \in f[u.of]}
    BY <1>2 DEF SizeOf
  <2>3. \A w \in Nat : w * u.n \in Nat
    BY <2>1
  <2> QED BY <2>1, <2>2, <2>3 DEF Single
<1>3. CASE u.k = "struct"
  <2>1. \A i \in 1..Len(Types(u.fs)) : \A p \in Nat : Single(Anywhere(f)[Types(u.fs)[i]][p])
    <3> TAKE i \in 1..Len(Types(u.fs)), p \in Nat
    <3>1. Types(u.fs)[i] \in Parts(u) /\ Anywhere(f)[Types(u.fs)[i]][p] = f[Types(u.fs)[i]]
      BY <1>3, SizeOfStruct
    <3> QED BY <3>1
  <2>2. Len(Types(u.fs)) \in Nat
    BY <1>3, SizeOfStruct
  <2>3. Single(Walk(Anywhere(f), Types(u.fs), 0, 0))
    BY <2>1, <2>2, WalkSingle
  <2> QED BY <1>3, <2>3, SizeOfStruct
<1>4. CASE u.k \in {"other", "string", "vec", "option"}
  BY <1>4 DEF SizeOf, Single
<1> QED BY <1>0, <1>1, <1>2, <1>3, <1>4 DEF Formed

LEMMA SizeLocal ==
    ASSUME NEW f, NEW g, NEW u \in Ty, \A v \in Parts(u) : f[v] = g[v] /\ Single(f[v])
    PROVE  SizeOf(f, u) = SizeOf(g, u)
<1>0. Formed(u)
  BY FormedTypes
<1>1. CASE u.k \in {"uint", "int", "bool", "pubkey", "other", "string", "vec", "option"}
  BY <1>1 DEF SizeOf
<1>2. CASE u.k = "array"
  <2>1. f[u.of] = g[u.of]
    BY <1>2 DEF Parts
  <2> QED BY <1>2, <2>1 DEF SizeOf
<1>3. CASE u.k = "struct"
  <2> DEFINE ts == Types(u.fs)
  <2>1. Len(ts) \in Nat
    BY <1>3, SizeOfStruct
  <2>2. ASSUME NEW i \in 1..Len(ts), NEW a \in Nat
        PROVE  /\ Anywhere(f)[ts[i]][0 + a] = Anywhere(g)[ts[i]][0 + a]
               /\ Anywhere(f)[ts[i]][0 + a] \subseteq Nat
    <3>1. ts[i] \in Parts(u) /\ Anywhere(f)[ts[i]][a] = f[ts[i]]
      BY <1>3, SizeOfStruct
    <3>2. Anywhere(g)[ts[i]][a] = g[ts[i]]
      BY <1>3, SizeOfStruct
    <3>3. 0 + a = a
      OBVIOUS
    <3> HIDE DEF ts
    <3> QED BY <3>1, <3>2, <3>3 DEF Single
  <2>3. Walk(Anywhere(f), ts, 0, 0) = Walk(Anywhere(g), ts, 0, 0)
    <3> HIDE DEF ts
    <3>1. Alike(Anywhere(f), 0, Anywhere(g), 0, ts)
      BY <2>2 DEF Alike
    <3> QED BY <2>1, <3>1, WalkAlike
  <2> QED BY <1>3, <2>3, SizeOfStruct
<1> QED BY <1>0, <1>1, <1>2, <1>3 DEF Formed

Sizing(f) == f = [u \in Ty |-> SizeOf(f, u)]

LEMMA SizingExists == \E f : Sizing(f)
<1> DEFINE f0 == [u \in Ty |-> {}]
           f1 == [u \in Ty |-> SizeOf(f0, u)]
           f2 == [u \in Ty |-> SizeOf(f1, u)]
           f3 == [u \in Ty |-> SizeOf(f2, u)]
           f4 == [u \in Ty |-> SizeOf(f3, u)]
           f5 == [u \in Ty |-> SizeOf(f4, u)]
<1>0. \A u \in Ty : \A v \in Parts(u) : v \in Ty
  BY PartsAreTypes
<1>1. \A u \in Ty : Single(f0[u])
  BY DEF Single
<1>2. \A u \in Ty : f1[u] = SizeOf(f0, u) /\ Single(f1[u])
  <2> HIDE DEF f0
  <2> QED BY <1>0, <1>1, SizeSingle
<1>3. \A u \in Ty : f2[u] = SizeOf(f1, u) /\ Single(f2[u])
  <2> HIDE DEF f1
  <2> QED BY <1>0, <1>2, SizeSingle
<1>4. \A u \in Ty : f3[u] = SizeOf(f2, u) /\ Single(f3[u])
  <2> HIDE DEF f2
  <2> QED BY <1>0, <1>3, SizeSingle
<1>5. \A u \in Ty : f4[u] = SizeOf(f3, u)
  <2> HIDE DEF f3
  <2> QED OBVIOUS
<1>6. \A u \in Ty : f5[u] = SizeOf(f4, u)
  <2> HIDE DEF f4
  <2> QED OBVIOUS
<1>7. \A u \in Ty : f4[u] = f5[u]
  <2> HIDE DEF f0, f1, f2, f3, f4, f5
  <2>1. Round(f0, f1, f2)
    BY <1>0, <1>1, <1>2, <1>3, SizeLocal DEF Round
  <2>2. Round(f1, f2, f3)
    BY <1>0, <1>2, <1>3, <1>4, SizeLocal DEF Round
  <2>3. Round(f2, f3, f4)
    BY <1>0, <1>3, <1>4, <1>5, SizeLocal DEF Round
  <2>4. Round(f3, f4, f5)
    BY <1>0, <1>4, <1>5, <1>6, SizeLocal DEF Round
  <2> QED BY <2>1, <2>2, <2>3, <2>4, FourRounds
<1>8. f4 = [u \in Ty |-> SizeOf(f4, u)]
  <2>1. f4 = [u \in Ty |-> f4[u]]
    <3> HIDE DEF f3
    <3> QED OBVIOUS
  <2> HIDE DEF f4, f5
  <2> QED BY <1>6, <1>7, <2>1
<1> QED BY <1>8 DEF Sizing

LEMMA ByteSizeIs ==
    ASSUME NEW t
    PROVE  ByteSize(t) = (CHOOSE f : Sizing(f))[t]
BY DEF ByteSize, Sizing

\* The size of a type is that of what it is made of, and there is one at most.
LEMMA Sizes ==
    \E f : /\ \A u \in Ty : ByteSize(u) = f[u]
           /\ \A u \in Ty : f[u] = SizeOf(f, u) /\ Single(f[u])
<1> DEFINE f == CHOOSE g : Sizing(g)
<1>1. Sizing(f)
  BY SizingExists
<1>2. \A u \in Ty : ByteSize(u) = f[u]
  BY ByteSizeIs
<1> HIDE DEF f
<1>3. \A u \in Ty : f[u] = SizeOf(f, u)
  BY <1>1 DEF Sizing
<1> DEFINE S == {u \in Ty : Single(f[u])}
<1>4. \A u \in Ty : Parts(u) \subseteq S => u \in S
  BY <1>3, SizeSingle
<1>5. Ty \subseteq S
  <2> HIDE DEF S
  <2> QED BY <1>4, TypeInduction
<1> QED BY <1>2, <1>3, <1>5

LEMMA ByteSizeSingle ==
    ASSUME NEW u \in Ty
    PROVE  Single(ByteSize(u)) /\ ByteSize(u) \subseteq Nat
BY Sizes DEF Single

-----------------------------------------------------------------------------
(* Numbers in the data.                                                    *)

\* x[i] is the number the last i of the w bytes behind off make.
ValueStep(data, off, w, x, i) ==
    IF i = 0 THEN 0 ELSE Base * x[i - 1] + data[off + w - i + 1]

Valuing(data, off, w, x, n) == x = [i \in 0..n |-> ValueStep(data, off, w, x, i)]

LEMMA LittleEndianIs ==
    ASSUME NEW data, NEW off, NEW w
    PROVE  LittleEndian(data, off, w) = (CHOOSE x : Valuing(data, off, w, x, w))[w]
BY DEF LittleEndian, Valuing, ValueStep

LEMMA ValuingExists ==
    ASSUME NEW data, NEW off, NEW w, NEW n \in Nat
    PROVE  \E x : Valuing(data, off, w, x, n)
<1> DEFINE Step(g, i) == ValueStep(data, off, w, g, i)
           S == {m \in 0..n : \E g : Valuing(data, off, w, g, m)}
<1>1. 0 \in S
  <2> DEFINE g == [i \in 0..0 |-> 0]
  <2>1. g = [i \in 0..0 |-> Step(g, i)]
    BY DEF ValueStep
  <2> QED BY <2>1 DEF Valuing
<1>2. ASSUME NEW m \in 1..n, m - 1 \in S PROVE m \in S
  <2>1. PICK g : g = [i \in 0..m - 1 |-> Step(g, i)]
    BY <1>2 DEF Valuing
  <2> DEFINE h == [i \in 0..m |-> IF i = m THEN Step(g, m) ELSE g[i]]
  <2>2. ASSUME NEW i \in 0..m PROVE h[i] = Step(h, i)
    <3>1. i # 0 => i - 1 \in 0..m /\ i - 1 # m /\ h[i - 1] = g[i - 1]
      OBVIOUS
    <3>2. Step(h, i) = Step(g, i)
      BY <3>1 DEF ValueStep
    <3>3. i # m => i \in 0..m - 1 /\ g[i] = Step(g, i)
      <4> HIDE DEF Step
      <4> QED BY <2>1
    <3> HIDE DEF Step
    <3> QED BY <3>2, <3>3
  <2>3. h = [i \in 0..m |-> Step(h, i)]
    <3>1. h = [i \in 0..m |-> h[i]]
      OBVIOUS
    <3> HIDE DEF h, Step
    <3> QED BY <3>1, <2>2
  <2> HIDE DEF h
  <2> QED BY <2>3 DEF Valuing
<1>3. \A m \in 0..n : m \in S
  <2> HIDE DEF S
  <2> QED BY <1>1, <1>2, UpToInduction
<1> QED BY <1>3

\* A number read is the one its first byte and the number behind it make.
ValueTrail(data, off, w, x) ==
    /\ x[0] = 0
    /\ \A i \in 1..w : x[i] = Base * x[i - 1] + data[off + w - i + 1]

LEMMA LittleEndianTrail ==
    ASSUME NEW data, NEW off, NEW w \in Nat
    PROVE  \E x : LittleEndian(data, off, w) = x[w] /\ ValueTrail(data, off, w, x)
<1> DEFINE C == CHOOSE x : Valuing(data, off, w, x, w)
<1>1. Valuing(data, off, w, C, w)
  BY ValuingExists
<1>2. LittleEndian(data, off, w) = C[w]
  BY LittleEndianIs
<1> HIDE DEF C
<1>3. \A i \in 0..w : C[i] = ValueStep(data, off, w, C, i)
  BY <1>1 DEF Valuing
<1>4. C[0] = 0
  <2>1. 0 \in 0..w
    OBVIOUS
  <2> QED BY <1>3, <2>1 DEF ValueStep
<1>5. \A i \in 1..w : C[i] = Base * C[i - 1] + data[off + w - i + 1]
  <2> TAKE i \in 1..w
  <2>1. i \in 0..w /\ i # 0
    OBVIOUS
  <2> QED BY <1>3, <2>1 DEF ValueStep
<1> QED BY <1>2, <1>4, <1>5 DEF ValueTrail

LEMMA BytesAre ==
    ASSUME NEW data \in Bytes
    PROVE  /\ Len(data) \in Nat /\ DOMAIN data = 1..Len(data)
           /\ \A i \in 1..Len(data) : data[i] \in 0..Base - 1
<1>1. data \in Seq(0..Base - 1)
  BY DEF Bytes, Byte
<1> DEFINE B == 0..Base - 1
<1>2. data \in Seq(B)
  BY <1>1
<1> HIDE DEF B
<1>3. Len(data) \in Nat /\ DOMAIN data = 1..Len(data) /\ \A i \in 1..Len(data) : data[i] \in B
  BY <1>2
<1> QED BY <1>3 DEF B

LEMMA LittleEndianType ==
    ASSUME NEW data \in Bytes, NEW off \in Nat, NEW w \in Nat, off + w <= Len(data)
    PROVE  LittleEndian(data, off, w) \in Nat
<1>1. PICK x : LittleEndian(data, off, w) = x[w] /\ ValueTrail(data, off, w, x)
  BY LittleEndianTrail
<1> DEFINE S == {i \in 0..w : x[i] \in Nat}
<1>2. 0 \in S
  <2>1. 0 \in 0..w
    OBVIOUS
  <2> QED BY <1>1, <2>1 DEF ValueTrail
<1>3. ASSUME NEW i \in 1..w, i - 1 \in S PROVE i \in S
  <2> DEFINE k == off + w - i + 1
  <2>1. k \in 1..Len(data)
    BY BytesAre
  <2>2. data[k] \in 0..Base - 1 /\ Base \in Nat
    BY <2>1, BytesAre, LayoutAssumption
  <2>3. x[i - 1] \in Nat
    BY <1>3
  <2>4. x[i] = Base * x[i - 1] + data[k]
    BY <1>1 DEF ValueTrail
  <2>5. Base * x[i - 1] \in Nat
    BY <2>2, <2>3
  <2> HIDE DEF k
  <2>6. x[i] \in Nat
    BY <2>2, <2>4, <2>5
  <2> QED BY <2>6
<1>4. w \in S
  <2> HIDE DEF S
  <2> QED BY <1>2, <1>3, WalkInduction
<1> QED BY <1>1, <1>4

\* No buffer is longer than a usize counts, so checked_add changes no read.
Buffer(data) == data \in Bytes /\ Len(data) <= UsizeMax

LEMMA ReadType ==
    ASSUME NEW data \in Bytes, NEW off \in Nat, NEW w \in Nat
    PROVE  /\ ReadUIntLE(data, off, w) \subseteq Nat
           /\ LeanReadUIntLE(data, off, w) \subseteq Nat
<1>1. Len(data) \in Nat
  BY BytesAre
<1>2. off + w <= Len(data) => LittleEndian(data, off, w) \in Nat
  BY LittleEndianType
<1>3. ReadUIntLE(data, off, w) \subseteq Nat
  <2>1. \A end \in Checked(off + w) : end = off + w
    BY DEF Checked
  <2> QED BY <1>2, <2>1 DEF ReadUIntLE
<1> QED BY <1>2, <1>3 DEF LeanReadUIntLE

LEMMA ReadAlike ==
    ASSUME NEW data, Buffer(data), NEW off \in Nat, NEW w \in Nat
    PROVE  ReadUIntLE(data, off, w) = LeanReadUIntLE(data, off, w)
<1>1. Len(data) \in Nat /\ UsizeMax \in Nat
  BY BytesAre, LayoutAssumption DEF Buffer
<1>2. CASE off + w <= Len(data)
  <2>1. off + w <= UsizeMax
    BY <1>1, <1>2 DEF Buffer
  <2>2. {end \in Checked(off + w) : end <= Len(data)} = {off + w}
    BY <1>2, <2>1 DEF Checked
  <2> QED BY <1>2, <2>2 DEF ReadUIntLE, LeanReadUIntLE
<1>3. CASE ~(off + w <= Len(data))
  <2>1. {end \in Checked(off + w) : end <= Len(data)} = {}
    BY <1>3 DEF Checked
  <2> QED BY <1>3, <2>1 DEF ReadUIntLE, LeanReadUIntLE
<1> QED BY <1>2, <1>3

-----------------------------------------------------------------------------
(* The width of a value, by the Rust walk and by the Lean walk.            *)

\* Rust's loops drop what would end past the last offset a usize has.
Inside(f) == [v \in Ty |-> [p \in Nat |-> {w \in f[v][p] : p + w <= UsizeMax}]]

RowOf(types, u) ==
    Len(types) \in Nat /\ \A i \in 1..Len(types) : types[i] \in Parts(u)
Typed(f, u)     == \A v \in Parts(u) : \A p \in Nat : f[v][p] \subseteq Nat
Same(f, g, u)   == \A v \in Parts(u) : \A p \in Nat : f[v][p] = g[v][p]

LEMMA Rows ==
    ASSUME NEW u \in Ty
    PROVE  /\ u.k = "struct" => RowOf(Types(u.fs), u)
           /\ u.k \in {"vec", "option", "array"} =>
                u.of \in Parts(u) /\ \A n \in Nat : RowOf(Copies(u.of, n), u)
<1>1. u.k = "struct" => RowOf(Types(u.fs), u)
  BY TypesOfStruct DEF RowOf
<1>2. ASSUME u.k \in {"vec", "option", "array"}
      PROVE  u.of \in Parts(u) /\ \A n \in Nat : RowOf(Copies(u.of, n), u)
  <2>1. u.of \in Parts(u)
    BY <1>2 DEF Parts
  <2> QED BY <2>1, TypesOfCopies DEF RowOf
<1> QED BY <1>1, <1>2

LEMMA InsideIs ==
    ASSUME NEW f, NEW u \in Ty, NEW v \in Parts(u), NEW p \in Nat
    PROVE  Inside(f)[v][p] = {w \in f[v][p] : p + w <= UsizeMax}
BY PartsAreTypes DEF Inside

LEMMA InsideTyped ==
    ASSUME NEW f, NEW g, NEW u \in Ty, Typed(f, u)
    PROVE  Typed(Inside(f), u) /\ (Same(f, g, u) => Same(Inside(f), Inside(g), u))
<1>1. Typed(Inside(f), u)
  BY InsideIs DEF Typed
<1>2. ASSUME Same(f, g, u), NEW v \in Parts(u), NEW p \in Nat
      PROVE  Inside(f)[v][p] = Inside(g)[v][p]
  <2>1. f[v][p] = g[v][p]
    BY <1>2 DEF Same
  <2>2. /\ Inside(f)[v][p] = {w \in f[v][p] : p + w <= UsizeMax}
        /\ Inside(g)[v][p] = {w \in g[v][p] : p + w <= UsizeMax}
    BY InsideIs
  <2> QED BY <2>1, <2>2
<1> QED BY <1>1, <1>2 DEF Same

LEMMA RowType ==
    ASSUME NEW f, NEW u \in Ty, NEW types, RowOf(types, u), Typed(f, u),
           NEW off \in Nat, NEW from \in Nat
    PROVE  Walk(f, types, off, from) \subseteq Nat
<1>1. Natural(f, types)
  BY DEF RowOf, Typed, Natural
<1> QED BY <1>1, WalkType DEF RowOf

LEMMA RowLocal ==
    ASSUME NEW f, NEW g, NEW u \in Ty, NEW types, RowOf(types, u), Typed(f, u), Same(f, g, u),
           NEW off \in Nat, NEW from \in Nat
    PROVE  Walk(f, types, off, from) = Walk(g, types, off, from)
<1>1. Alike(f, off, g, off, types)
  <2>1. ASSUME NEW i \in 1..Len(types), NEW a \in Nat
        PROVE  f[types[i]][off + a] = g[types[i]][off + a] /\ f[types[i]][off + a] \subseteq Nat
    <3>1. off + a \in Nat /\ types[i] \in Parts(u)
      BY DEF RowOf
    <3> QED BY <3>1 DEF Typed, Same
  <2> QED BY <2>1 DEF Alike
<1> QED BY <1>1, WalkAlike DEF RowOf

\* Either walk's width of a u at o.
Measure(lean, f, data, u, o) ==
    IF lean THEN LeanWidthAt(f, data, u, o) ELSE WidthAt(f, data, u, o)
Number(lean, data, o, w) ==
    IF lean THEN LeanReadUIntLE(data, o, w) ELSE ReadUIntLE(data, o, w)
Loop(lean, f) == IF lean THEN f ELSE Inside(f)

LEMMA MeasureString ==
    ASSUME NEW lean \in BOOLEAN, NEW f, NEW data, NEW u, NEW o, u.k = "string"
    PROVE  Measure(lean, f, data, u, o) =
             {PrefixLen + n : n \in {m \in Number(lean, data, o, PrefixLen) :
                                       o + PrefixLen + m <= Len(data)}}
BY DEF Measure, Number, WidthAt, LeanWidthAt

LEMMA MeasureStruct ==
    ASSUME NEW lean \in BOOLEAN, NEW f, NEW data, NEW u, NEW o, u.k = "struct"
    PROVE  Measure(lean, f, data, u, o) = Walk(Loop(lean, f), Types(u.fs), o, 0)
<1>1. LeanWidthAt(f, data, u, o) = Walk(f, Types(u.fs), o, 0)
  BY DEF LeanWidthAt
<1>2. WidthAt(f, data, u, o) = Walk(Inside(f), Types(u.fs), o, 0)
  BY DEF WidthAt, Inside
<1> QED BY <1>1, <1>2 DEF Measure, Loop

LEMMA MeasureVec ==
    ASSUME NEW lean \in BOOLEAN, NEW f, NEW data, NEW u, NEW o, u.k = "vec"
    PROVE  Measure(lean, f, data, u, o) =
             IF ~lean /\ ByteSize(u.of) # {}
             THEN UNION {Checked(PrefixLen + n * w) :
                           n \in Number(lean, data, o, PrefixLen), w \in ByteSize(u.of)}
             ELSE UNION {Walk(Loop(lean, f), Copies(u.of, n), o, PrefixLen) :
                           n \in Number(lean, data, o, PrefixLen)}
<1>1. LeanWidthAt(f, data, u, o)
        = UNION {Walk(f, Copies(u.of, n), o, PrefixLen) : n \in LeanReadUIntLE(data, o, PrefixLen)}
  BY DEF LeanWidthAt
<1>2. ByteSize(u.of) # {} =>
        WidthAt(f, data, u, o)
          = UNION {Checked(PrefixLen + n * w) :
                     n \in ReadUIntLE(data, o, PrefixLen), w \in ByteSize(u.of)}
  BY DEF WidthAt
<1>3. ByteSize(u.of) = {} =>
        WidthAt(f, data, u, o)
          = UNION {Walk(Inside(f), Copies(u.of, n), o, PrefixLen) :
                     n \in ReadUIntLE(data, o, PrefixLen)}
  BY DEF WidthAt, Inside
<1>4. CASE lean
  BY <1>1, <1>4 DEF Measure, Loop, Number
<1>5. CASE ~lean
  BY <1>2, <1>3, <1>5 DEF Measure, Loop, Number
<1> QED BY <1>4, <1>5

LEMMA MeasureOption ==
    ASSUME NEW lean \in BOOLEAN, NEW f, NEW data, NEW u, NEW o, u.k = "option"
    PROVE  Measure(lean, f, data, u, o) =
             UNION {IF tag = 0 THEN {1}
                    ELSE IF lean THEN {1 + w : w \in f[u.of][o + 1]}
                    ELSE UNION {Checked(1 + w) : w \in f[u.of][o + 1]} :
                      tag \in Number(lean, data, o, 1)}
<1>1. CASE lean
  BY <1>1 DEF Measure, Number, LeanWidthAt
<1>2. CASE ~lean
  BY <1>2 DEF Measure, Number, WidthAt
<1> QED BY <1>1, <1>2

LEMMA MeasureFixed ==
    ASSUME NEW lean \in BOOLEAN, NEW f, NEW data, NEW u, NEW o,
           u.k \notin {"string", "struct", "vec", "option"}
    PROVE  Measure(lean, f, data, u, o) = ByteSize(u)
BY DEF Measure, WidthAt, LeanWidthAt

LEMMA NumberType ==
    ASSUME NEW lean, NEW data \in Bytes, NEW o \in Nat, NEW w \in Nat
    PROVE  Number(lean, data, o, w) \subseteq Nat
BY ReadType DEF Number

LEMMA LoopTyped ==
    ASSUME NEW lean \in BOOLEAN, NEW f, NEW g, NEW u \in Ty, Typed(f, u)
    PROVE  /\ Typed(Loop(lean, f), u)
           /\ Same(f, g, u) => Same(Loop(lean, f), Loop(lean, g), u)
BY InsideTyped DEF Loop

\* A width is a natural number, and what it is depends on the parts alone.
LEMMA MeasureType ==
    ASSUME NEW lean \in BOOLEAN, NEW f, NEW data \in Bytes, NEW u \in Ty, NEW o \in Nat,
           Typed(f, u)
    PROVE  Measure(lean, f, data, u, o) \subseteq Nat
<1>0. /\ PrefixLen \in Nat
      /\ Number(lean, data, o, PrefixLen) \subseteq Nat
      /\ Typed(Loop(lean, f), u)
  BY NumberType, LayoutAssumption, LoopTyped
<1>1. CASE u.k = "string"
  BY <1>0, <1>1, MeasureString
<1>2. CASE u.k = "struct"
  <2>1. Walk(Loop(lean, f), Types(u.fs), o, 0) \subseteq Nat
    BY <1>0, <1>2, RowType, Rows
  <2> QED BY <1>2, <2>1, MeasureStruct
<1>3. CASE u.k = "vec"
  <2>1. \A n \in Number(lean, data, o, PrefixLen) :
          Walk(Loop(lean, f), Copies(u.of, n), o, PrefixLen) \subseteq Nat
    <3> TAKE n \in Number(lean, data, o, PrefixLen)
    <3>1. RowOf(Copies(u.of, n), u)
      BY <1>0, <1>3, Rows
    <3> QED BY <1>0, <3>1, RowType
  <2>2. ByteSize(u.of) \subseteq Nat
    <3>1. u.of \in Ty
      BY <1>3, Rows, PartsAreTypes
    <3> QED BY <3>1, ByteSizeSingle
  <2>3. \A n \in Number(lean, data, o, PrefixLen) : \A w \in ByteSize(u.of) :
          Checked(PrefixLen + n * w) \subseteq Nat
    <3> TAKE n \in Number(lean, data, o, PrefixLen)
    <3> TAKE w \in ByteSize(u.of)
    <3>1. n \in Nat /\ w \in Nat
      BY <1>0, <2>2
    <3>2. n * w \in Nat
      BY <3>1
    <3> QED BY <1>0, <3>2 DEF Checked
  <2>4. CASE ~lean /\ ByteSize(u.of) # {}
    <3>1. Measure(lean, f, data, u, o)
            = UNION {Checked(PrefixLen + n * w) :
                       n \in Number(lean, data, o, PrefixLen), w \in ByteSize(u.of)}
      BY <1>3, <2>4, MeasureVec
    <3> QED BY <2>3, <3>1
  <2>5. CASE ~(~lean /\ ByteSize(u.of) # {})
    <3>1. Measure(lean, f, data, u, o)
            = UNION {Walk(Loop(lean, f), Copies(u.of, n), o, PrefixLen) :
                       n \in Number(lean, data, o, PrefixLen)}
      BY <1>3, <2>5, MeasureVec
    <3> QED BY <2>1, <3>1
  <2> QED BY <2>4, <2>5
<1>4. CASE u.k = "option"
  <2>1. o + 1 \in Nat /\ u.of \in Parts(u)
    BY <1>4, Rows
  <2>2. f[u.of][o + 1] \subseteq Nat
    BY <2>1 DEF Typed
  <2>3. /\ {1 + w : w \in f[u.of][o + 1]} \subseteq Nat
        /\ UNION {Checked(1 + w) : w \in f[u.of][o + 1]} \subseteq Nat
    BY <2>2 DEF Checked
  <2> QED BY <1>4, <2>3, MeasureOption
<1>5. CASE u.k \notin {"string", "struct", "vec", "option"}
  BY <1>5, MeasureFixed, ByteSizeSingle
<1> QED BY <1>1, <1>2, <1>3, <1>4, <1>5

LEMMA MeasureLocal ==
    ASSUME NEW lean \in BOOLEAN, NEW f, NEW g, NEW data \in Bytes, NEW u \in Ty, NEW o \in Nat,
           Typed(f, u), Same(f, g, u)
    PROVE  Measure(lean, f, data, u, o) = Measure(lean, g, data, u, o)
<1>0. /\ PrefixLen \in Nat
      /\ Number(lean, data, o, PrefixLen) \subseteq Nat
      /\ Typed(Loop(lean, f), u) /\ Same(Loop(lean, f), Loop(lean, g), u)
  BY NumberType, LayoutAssumption, LoopTyped
<1>1. CASE u.k = "string"
  BY <1>1, MeasureString
<1>2. CASE u.k = "struct"
  <2>1. Walk(Loop(lean, f), Types(u.fs), o, 0) = Walk(Loop(lean, g), Types(u.fs), o, 0)
    BY <1>0, <1>2, RowLocal, Rows
  <2> QED BY <1>2, <2>1, MeasureStruct
<1>3. CASE u.k = "vec"
  <2>1. \A n \in Number(lean, data, o, PrefixLen) :
          Walk(Loop(lean, f), Copies(u.of, n), o, PrefixLen)
            = Walk(Loop(lean, g), Copies(u.of, n), o, PrefixLen)
    <3> TAKE n \in Number(lean, data, o, PrefixLen)
    <3>1. RowOf(Copies(u.of, n), u)
      BY <1>0, <1>3, Rows
    <3> QED BY <1>0, <3>1, RowLocal
  <2>2. CASE ~lean /\ ByteSize(u.of) # {}
    <3> DEFINE W == UNION {Checked(PrefixLen + n * w) :
                             n \in Number(lean, data, o, PrefixLen), w \in ByteSize(u.of)}
    <3>1. Measure(lean, f, data, u, o) = W
      BY <1>3, <2>2, MeasureVec
    <3>2. Measure(lean, g, data, u, o) = W
      BY <1>3, <2>2, MeasureVec
    <3> QED BY <3>1, <3>2
  <2>3. CASE ~(~lean /\ ByteSize(u.of) # {})
    <3>1. /\ Measure(lean, f, data, u, o)
               = UNION {Walk(Loop(lean, f), Copies(u.of, n), o, PrefixLen) :
                          n \in Number(lean, data, o, PrefixLen)}
          /\ Measure(lean, g, data, u, o)
               = UNION {Walk(Loop(lean, g), Copies(u.of, n), o, PrefixLen) :
                          n \in Number(lean, data, o, PrefixLen)}
      BY <1>3, <2>3, MeasureVec
    <3> QED BY <2>1, <3>1
  <2> QED BY <2>2, <2>3
<1>4. CASE u.k = "option"
  <2>1. o + 1 \in Nat /\ u.of \in Parts(u)
    BY <1>4, Rows
  <2>2. f[u.of][o + 1] = g[u.of][o + 1]
    BY <2>1 DEF Same
  <2> QED BY <1>4, <2>2, MeasureOption
<1>5. CASE u.k \notin {"string", "struct", "vec", "option"}
  BY <1>5, MeasureFixed
<1> QED BY <1>1, <1>2, <1>3, <1>4, <1>5

Round1(lean, data, f) == [u \in Ty |-> [o \in Nat |-> Measure(lean, f, data, u, o)]]

LEMMA RoundOfWidths ==
    ASSUME NEW lean \in BOOLEAN, NEW data \in Bytes, NEW f, \A u \in Ty : Typed(f, u)
    PROVE  /\ \A u \in Ty : Typed(Round1(lean, data, f), u)
           /\ Round(f, Round1(lean, data, f), Round1(lean, data, Round1(lean, data, f)))
<1> DEFINE g == Round1(lean, data, f)
           h == Round1(lean, data, g)
<1>0. \A u \in Ty : \A v \in Parts(u) : v \in Ty
  BY PartsAreTypes
<1>1. \A u \in Ty : g[u] = [o \in Nat |-> Measure(lean, f, data, u, o)]
  BY DEF Round1
<1>2. \A u \in Ty : h[u] = [o \in Nat |-> Measure(lean, g, data, u, o)]
  <2> HIDE DEF g
  <2> QED BY DEF Round1
<1> HIDE DEF g, h
<1>3. \A u \in Ty : \A o \in Nat : g[u][o] \subseteq Nat
  <2> TAKE u \in Ty, o \in Nat
  <2>1. Measure(lean, f, data, u, o) \subseteq Nat
    BY MeasureType
  <2> QED BY <1>1, <2>1
<1>4. \A u \in Ty : Typed(g, u)
  BY <1>0, <1>3 DEF Typed
<1>5. ASSUME NEW u \in Ty, \A v \in Parts(u) : f[v] = g[v] PROVE g[u] = h[u]
  <2>1. Same(f, g, u)
    BY <1>5 DEF Same
  <2>2. \A o \in Nat : Measure(lean, f, data, u, o) = Measure(lean, g, data, u, o)
    BY <2>1, MeasureLocal
  <2> QED BY <1>1, <1>2, <2>2
<1>6. Round(f, g, h)
  BY <1>5 DEF Round
<1> QED BY <1>4, <1>6 DEF g, h

Measuring(lean, data, f) == f = Round1(lean, data, f)

LEMMA MeasuringExists ==
    ASSUME NEW lean \in BOOLEAN, NEW data \in Bytes
    PROVE  \E f : Measuring(lean, data, f)
<1> DEFINE f0 == [u \in Ty |-> [o \in Nat |-> {}]]
           f1 == Round1(lean, data, f0)
           f2 == Round1(lean, data, f1)
           f3 == Round1(lean, data, f2)
           f4 == Round1(lean, data, f3)
           f5 == Round1(lean, data, f4)
<1>1. \A u \in Ty : Typed(f0, u)
  BY PartsAreTypes DEF Typed
<1>2. (\A u \in Ty : Typed(f1, u)) /\ Round(f0, f1, f2)
  <2> HIDE DEF f0
  <2> QED BY <1>1, RoundOfWidths
<1>3. (\A u \in Ty : Typed(f2, u)) /\ Round(f1, f2, f3)
  <2> HIDE DEF f1
  <2> QED BY <1>2, RoundOfWidths
<1>4. (\A u \in Ty : Typed(f3, u)) /\ Round(f2, f3, f4)
  <2> HIDE DEF f2
  <2> QED BY <1>3, RoundOfWidths
<1>5. Round(f3, f4, f5)
  <2> HIDE DEF f3
  <2> QED BY <1>4, RoundOfWidths
<1>6. \A u \in Ty : f4[u] = f5[u]
  <2> HIDE DEF f0, f1, f2, f3, f4, f5
  <2> QED BY <1>2, <1>3, <1>4, <1>5, FourRounds
<1>7. f4 = [u \in Ty |-> f4[u]] /\ f5 = [u \in Ty |-> f5[u]]
  <2> HIDE DEF f3
  <2> QED BY DEF Round1
<1>8. f4 = f5
  <2> HIDE DEF f4, f5
  <2> QED BY <1>6, <1>7
<1> QED BY <1>8 DEF Measuring

Measured(lean, data) == CHOOSE f : Measuring(lean, data, f)

Width(lean, t, data, o) ==
    IF lean THEN LeanEncodedWidth(t, data, o) ELSE EncodedWidth(t, data, o)

LEMMA WidthIs ==
    ASSUME NEW lean \in BOOLEAN, NEW t, NEW data, NEW o
    PROVE  Width(lean, t, data, o) = Measured(lean, data)[t][o]
<1>1. CASE lean
  BY <1>1 DEF Width, LeanEncodedWidth, Measuring, Measure, Measured, Round1
<1>2. CASE ~lean
  BY <1>2 DEF Width, EncodedWidth, Measuring, Measure, Measured, Round1
<1> QED BY <1>1, <1>2

\* The width of a value is what its kind makes of the widths of its parts.
Wide(lean, data, f, u) ==
    /\ Typed(f, u)
    /\ \A o \in Nat : /\ Width(lean, u, data, o) = f[u][o]
                      /\ f[u][o] = Measure(lean, f, data, u, o)
                      /\ f[u][o] \subseteq Nat

LEMMA Widths ==
    ASSUME NEW lean \in BOOLEAN, NEW data \in Bytes
    PROVE  \E f : \A u \in Ty : Wide(lean, data, f, u)
<1> DEFINE f == Measured(lean, data)
<1>1. Measuring(lean, data, f)
  BY MeasuringExists DEF Measured
<1>2. \A u \in Ty : \A o \in Nat : Width(lean, u, data, o) = f[u][o]
  BY WidthIs
<1> HIDE DEF f
<1>3. \A u \in Ty : \A o \in Nat : f[u][o] = Measure(lean, f, data, u, o)
  BY <1>1 DEF Measuring, Round1
<1> DEFINE S == {u \in Ty : \A o \in Nat : f[u][o] \subseteq Nat}
<1>4. \A u \in Ty : Parts(u) \subseteq S => u \in S
  <2> SUFFICES ASSUME NEW u \in Ty, Parts(u) \subseteq S PROVE u \in S
    OBVIOUS
  <2>1. Typed(f, u)
    BY DEF Typed
  <2> HIDE DEF S
  <2> QED BY <1>3, <2>1, MeasureType DEF S
<1>5. Ty \subseteq S
  <2> HIDE DEF S
  <2> QED BY <1>4, TypeInduction
<1>6. \A u \in Ty : Typed(f, u)
  BY <1>5, PartsAreTypes DEF Typed
<1> QED BY <1>2, <1>3, <1>5, <1>6 DEF Wide

\* A type of a fixed size has that size wherever it is.
LEMMA FixedSize ==
    ASSUME NEW data \in Bytes, NEW u \in Ty, ByteSize(u) # {}, NEW p \in Nat
    PROVE  Width(TRUE, u, data, p) = ByteSize(u)
<1>1. PICK f : \A t \in Ty : Wide(TRUE, data, f, t)
  BY Widths
<1>2. PICK z : /\ \A t \in Ty : ByteSize(t) = z[t]
               /\ \A t \in Ty : z[t] = SizeOf(z, t) /\ Single(z[t])
  BY Sizes
<1> DEFINE S == {t \in Ty : z[t] # {} => \A o \in Nat : f[t][o] = z[t]}
<1>3. \A t \in Ty : Parts(t) \subseteq S => t \in S
  <2> SUFFICES ASSUME NEW t \in Ty, Parts(t) \subseteq S, z[t] # {}, NEW o \in Nat
               PROVE  f[t][o] = z[t]
    OBVIOUS
  <2>0. f[t][o] = Measure(TRUE, f, data, t, o) /\ z[t] = SizeOf(z, t) /\ ByteSize(t) = z[t]
    BY <1>1, <1>2 DEF Wide
  <2>1. CASE t.k \notin {"string", "struct", "vec", "option"}
    <3>1. TRUE \in BOOLEAN
      OBVIOUS
    <3>2. Measure(TRUE, f, data, t, o) = ByteSize(t)
      BY ONLY <2>1, <3>1, MeasureFixed
    <3> QED BY <2>0, <3>2
  <2>2. CASE t.k \in {"string", "vec", "option"}
    <3>1. SizeOf(z, t) = {}
      BY <2>2 DEF SizeOf
    <3> QED BY <2>0, <3>1
  <2>3. CASE t.k = "struct"
    <3> DEFINE ts == Types(t.fs)
    <3>1. z[t] = Walk(Anywhere(z), ts, 0, 0)
      BY <2>0, <2>3, SizeOfStruct
    <3>2. f[t][o] = Walk(f, ts, o, 0)
      <4>1. Measure(TRUE, f, data, t, o) = Walk(Loop(TRUE, f), ts, o, 0)
        BY <2>3, MeasureStruct
      <4>2. Loop(TRUE, f) = f
        BY DEF Loop
      <4> QED BY <2>0, <4>1, <4>2
    <3>3. Len(ts) \in Nat
      BY <2>3, SizeOfStruct
    <3>4. ASSUME NEW i \in 1..Len(ts)
          PROVE  (\A a \in Nat : Anywhere(z)[ts[i]][a] = z[ts[i]]) /\ ts[i] \in Ty /\ ts[i] \in S
      <4>1. ts[i] \in Parts(t)
        BY <2>3, SizeOfStruct
      <4>2. ts[i] \in Ty
        BY <4>1, PartsAreTypes
      <4>3. \A a \in Nat : Anywhere(z)[ts[i]][a] = z[ts[i]]
        BY <4>2 DEF Anywhere
      <4> QED BY <4>1, <4>2, <4>3
    <3> HIDE DEF ts
    <3>5. Natural(Anywhere(z), ts)
      BY <1>2, <3>4 DEF Single, Natural
    <3>6. \A i \in 1..Len(ts) : \E a \in Nat : Anywhere(z)[ts[i]][a] # {}
      BY <3>1, <3>3, <3>5, WalkArrives
    <3>7. ASSUME NEW i \in 1..Len(ts), NEW a \in Nat
          PROVE  Anywhere(z)[ts[i]][0 + a] = f[ts[i]][o + a] /\ Anywhere(z)[ts[i]][0 + a] \subseteq Nat
      <4>1. z[ts[i]] # {}
        BY <3>4, <3>6
      <4>2. o + a \in Nat /\ 0 + a = a
        OBVIOUS
      <4>3. f[ts[i]][o + a] = z[ts[i]]
        BY <3>4, <4>1, <4>2
      <4>4. Anywhere(z)[ts[i]][a] = z[ts[i]]
        BY <3>4
      <4>5. Anywhere(z)[ts[i]][a] \subseteq Nat
        BY <3>5 DEF Natural
      <4> QED BY <4>2, <4>3, <4>4, <4>5
    <3>8. Alike(Anywhere(z), 0, f, o, ts)
      BY <3>7 DEF Alike
    <3>9. Walk(Anywhere(z), ts, 0, 0) = Walk(f, ts, o, 0)
      BY <3>3, <3>8, WalkAlike
    <3> QED BY <3>1, <3>2, <3>9
  <2> QED BY <2>1, <2>2, <2>3
<1>4. u \in S
  <2> HIDE DEF S
  <2> QED BY <1>3, TypeInduction
<1>5. Width(TRUE, u, data, p) = f[u][p] /\ ByteSize(u) = z[u]
  BY <1>1, <1>2 DEF Wide
<1> QED BY <1>4, <1>5

-----------------------------------------------------------------------------
(* Both walks find the same width, as far as a usize reaches.              *)

\* What Rust's loops look at in a row is below UsizeMax what Lean's do.
Agreed(f, g, u) ==
    /\ Typed(f, u) /\ Typed(g, u)
    /\ \A v \in Parts(u) : \A p \in Nat : Below(f[v][p], p) = Below(g[v][p], p)

LEMMA RowBelow ==
    ASSUME NEW f, NEW g, NEW u \in Ty, Agreed(f, g, u), NEW types, RowOf(types, u),
           NEW off \in Nat, NEW from \in Nat
    PROVE  Below(Walk(Inside(f), types, off, from), off) = Below(Walk(g, types, off, from), off)
<1>1. ASSUME NEW i \in 1..Len(types), NEW p \in Nat
      PROVE  /\ Inside(f)[types[i]][p] \subseteq Nat /\ g[types[i]][p] \subseteq Nat
             /\ Below(Inside(f)[types[i]][p], p) = Below(g[types[i]][p], p)
  <2>1. types[i] \in Parts(u)
    BY DEF RowOf
  <2>2. Inside(f)[types[i]][p] = Below(f[types[i]][p], p)
    BY <2>1, InsideIs DEF Below
  <2>3. \A W : Below(Below(W, p), p) = Below(W, p) /\ Below(W, p) \subseteq W
    BY DEF Below
  <2>4. /\ f[types[i]][p] \subseteq Nat /\ g[types[i]][p] \subseteq Nat
        /\ Below(f[types[i]][p], p) = Below(g[types[i]][p], p)
    BY <2>1 DEF Agreed, Typed
  <2> QED BY <2>2, <2>3, <2>4
<1>2. AlikeBelow(Inside(f), g, types)
  BY <1>1 DEF AlikeBelow
<1> QED BY <1>2, WalkBelow DEF RowOf

\* b is below UsizeMax in the one exactly if it is in the other.
LEMMA BelowIs ==
    ASSUME NEW V, NEW W, NEW off,
           \A b : off + b <= UsizeMax => (b \in V <=> b \in W)
    PROVE  Below(V, off) = Below(W, off)
BY DEF Below

LEMMA OptionBelow ==
    ASSUME NEW f, NEW g, NEW data, Buffer(data), NEW u \in Ty, Agreed(f, g, u), NEW o \in Nat,
           u.k = "option"
    PROVE  Below(WidthAt(f, data, u, o), o) = Below(LeanWidthAt(g, data, u, o), o)
<1> DEFINE F    == f[u.of][o + 1]
           G    == g[u.of][o + 1]
           tags == LeanReadUIntLE(data, o, 1)
<1>0. UsizeMax \in Nat
  BY LayoutAssumption
<1>1. ReadUIntLE(data, o, 1) = tags
  BY ReadAlike
<1>2. \A b : b \in WidthAt(f, data, u, o) <=>
               \E tag \in tags : IF tag = 0 THEN b = 1 ELSE \E w \in F : b \in Checked(1 + w)
  BY <1>1 DEF WidthAt
<1>3. \A b : b \in LeanWidthAt(g, data, u, o) <=>
               \E tag \in tags : IF tag = 0 THEN b = 1 ELSE \E w \in G : b = 1 + w
  BY DEF LeanWidthAt
<1>4. Below(F, o + 1) = Below(G, o + 1) /\ F \subseteq Nat /\ G \subseteq Nat
  <2>1. u.of \in Parts(u) /\ o + 1 \in Nat
    BY Rows
  <2> QED BY <2>1 DEF Agreed, Typed
<1> HIDE DEF F, G, tags
<1>5. \A w \in Nat : o + (1 + w) <= UsizeMax <=> (o + 1) + w <= UsizeMax
  BY <1>0
<1>6. \A w \in Nat : o + (1 + w) <= UsizeMax => Checked(1 + w) = {1 + w}
  BY <1>0 DEF Checked
<1>7. \A w \in Nat : \A v \in Checked(1 + w) : v = 1 + w
  BY DEF Checked
<1>8. ASSUME NEW b, o + b <= UsizeMax
      PROVE  (\E w \in F : b \in Checked(1 + w)) <=> \E w \in G : b = 1 + w
  <2>1. ASSUME NEW w \in F, b \in Checked(1 + w) PROVE \E v \in G : b = 1 + v
    <3>1. b = 1 + w /\ w \in Nat
      BY <1>4, <1>7, <2>1
    <3>2. w \in G
      BY <1>4, <1>5, <1>8, <3>1 DEF Below
    <3> QED BY <3>1, <3>2
  <2>2. ASSUME NEW w \in G, b = 1 + w PROVE \E v \in F : b \in Checked(1 + v)
    <3>1. w \in Nat
      BY <1>4
    <3>2. w \in F
      BY <1>4, <1>5, <1>8, <2>2, <3>1 DEF Below
    <3>3. b \in Checked(1 + w)
      BY <1>6, <1>8, <2>2, <3>1
    <3> QED BY <3>2, <3>3
  <2> QED BY <2>1, <2>2
<1>9. \A b : o + b <= UsizeMax =>
        (b \in WidthAt(f, data, u, o) <=> b \in LeanWidthAt(g, data, u, o))
  BY <1>2, <1>3, <1>8
<1> QED BY <1>9, BelowIs

LEMMA VecBelow ==
    ASSUME NEW f, NEW g, NEW data, Buffer(data), NEW u \in Ty, Agreed(f, g, u), NEW o \in Nat,
           u.k = "vec",
           ByteSize(u.of) # {} => \A p \in Nat : g[u.of][p] = ByteSize(u.of)
    PROVE  Below(WidthAt(f, data, u, o), o) = Below(LeanWidthAt(g, data, u, o), o)
<1> DEFINE counts == LeanReadUIntLE(data, o, PrefixLen)
           G(n)   == Walk(g, Copies(u.of, n), o, PrefixLen)
           F(n)   == Walk(Inside(f), Copies(u.of, n), o, PrefixLen)
<1>0. UsizeMax \in Nat /\ PrefixLen \in Nat /\ counts \subseteq Nat
  BY LayoutAssumption, ReadType DEF Buffer
<1>1. ReadUIntLE(data, o, PrefixLen) = counts
  BY <1>0, ReadAlike
<1>2. \A b : b \in LeanWidthAt(g, data, u, o) <=> \E n \in counts : b \in G(n)
  BY DEF LeanWidthAt
<1>3. CASE ByteSize(u.of) = {}
  <2>1. \A b : b \in WidthAt(f, data, u, o) <=> \E n \in counts : b \in F(n)
    BY <1>1, <1>3 DEF WidthAt, Inside
  <2>2. \A n \in counts : Below(F(n), o) = Below(G(n), o)
    <3> TAKE n \in counts
    <3>1. n \in Nat
      BY <1>0
    <3>2. RowOf(Copies(u.of, n), u)
      BY <3>1, Rows
    <3> QED BY <1>0, <3>2, RowBelow
  <2> HIDE DEF F, G, counts
  <2>3. \A b : o + b <= UsizeMax => \A n \in counts : b \in F(n) <=> b \in G(n)
    BY <2>2 DEF Below
  <2>4. \A b : o + b <= UsizeMax =>
          (b \in WidthAt(f, data, u, o) <=> b \in LeanWidthAt(g, data, u, o))
    BY <1>2, <2>1, <2>3
  <2> QED BY <2>4, BelowIs
<1>4. CASE ByteSize(u.of) # {}
  <2>1. PICK w \in Nat : ByteSize(u.of) = {w}
    <3>1. u.of \in Ty
      BY Rows, PartsAreTypes
    <3> QED BY <1>4, <3>1, ByteSizeSingle DEF Single
  <2>2. \A b : b \in WidthAt(f, data, u, o)
                 <=> \E n \in counts : b \in Checked(PrefixLen + n * w)
    <3>1. \A b : b \in WidthAt(f, data, u, o)
                   <=> \E n \in counts : \E v \in ByteSize(u.of) : b \in Checked(PrefixLen + n * v)
      BY <1>1, <1>4 DEF WidthAt
    <3> QED BY <2>1, <3>1
  <2>3. ASSUME NEW n \in counts
        PROVE  G(n) = {PrefixLen + n * w} /\ PrefixLen + n * w \in Nat
    <3>1. n \in Nat
      BY <1>0
    <3>2. Len(Copies(u.of, n)) = n /\ \A i \in 1..n : Copies(u.of, n)[i] = u.of
      BY <3>1, TypesOfCopies
    <3>3. Fixed(g, Copies(u.of, n), w)
      BY <1>4, <2>1, <3>2 DEF Fixed
    <3>4. G(n) = {PrefixLen + n * w}
      <4> DEFINE ts == Copies(u.of, n)
      <4>1. Len(ts) = n /\ Len(ts) \in Nat /\ Fixed(g, ts, w)
        BY <3>1, <3>2, <3>3
      <4> HIDE DEF ts
      <4>2. Walk(g, ts, o, PrefixLen) = {PrefixLen + Len(ts) * w}
        BY ONLY <1>0, <4>1, WalkFixed, o \in Nat, w \in Nat
      <4> QED BY <4>1, <4>2 DEF ts
    <3>5. n * w \in Nat
      BY <3>1
    <3> HIDE DEF G
    <3> QED BY <1>0, <3>4, <3>5
  <2> HIDE DEF G, counts
  <2>4. ASSUME NEW b, o + b <= UsizeMax, NEW n \in counts
        PROVE  b \in Checked(PrefixLen + n * w) <=> b \in G(n)
    <3> DEFINE m == PrefixLen + n * w
    <3>1. m \in Nat /\ G(n) = {m}
      BY <2>3
    <3> HIDE DEF m
    <3>2. b \in Checked(m) <=> b = m
      BY <1>0, <2>4, <3>1 DEF Checked
    <3> QED BY <3>1, <3>2 DEF m
  <2>5. \A b : o + b <= UsizeMax =>
                 (b \in WidthAt(f, data, u, o) <=> b \in LeanWidthAt(g, data, u, o))
    BY <1>2, <2>2, <2>4
  <2> QED BY <2>5, BelowIs
<1> QED BY <1>3, <1>4

LEMMA SameBelow ==
    ASSUME NEW data, Buffer(data), NEW u \in Ty, NEW o \in Nat
    PROVE  Below(EncodedWidth(u, data, o), o) = Below(LeanEncodedWidth(u, data, o), o)
<1>0. data \in Bytes /\ FALSE \in BOOLEAN /\ TRUE \in BOOLEAN
  BY DEF Buffer
<1>1. PICK f : \A t \in Ty : Wide(FALSE, data, f, t)
  BY <1>0, Widths
<1>2. PICK g : \A t \in Ty : Wide(TRUE, data, g, t)
  BY <1>0, Widths
<1> DEFINE S == {t \in Ty : \A p \in Nat : Below(f[t][p], p) = Below(g[t][p], p)}
<1>3. \A t \in Ty : Parts(t) \subseteq S => t \in S
  <2> SUFFICES ASSUME NEW t \in Ty, Parts(t) \subseteq S, NEW p \in Nat
               PROVE  Below(f[t][p], p) = Below(g[t][p], p)
    OBVIOUS
  <2>1. Agreed(f, g, t)
    BY <1>1, <1>2 DEF Agreed, Wide
  <2>2. f[t][p] = Measure(FALSE, f, data, t, p) /\ g[t][p] = Measure(TRUE, g, data, t, p)
    BY <1>1, <1>2 DEF Wide
  <2> HIDE DEF S
  <2>3. CASE t.k = "string"
    <3>1. ReadUIntLE(data, p, PrefixLen) = LeanReadUIntLE(data, p, PrefixLen)
      BY LayoutAssumption, ReadAlike
    <3>2. Measure(FALSE, f, data, t, p) = Measure(TRUE, g, data, t, p)
      BY <2>3, <3>1 DEF Measure, WidthAt, LeanWidthAt
    <3> QED BY <2>2, <3>2
  <2>4. CASE t.k = "struct"
    <3>1. Measure(FALSE, f, data, t, p) = Walk(Loop(FALSE, f), Types(t.fs), p, 0)
      BY <1>0, <2>4, MeasureStruct
    <3>2. Measure(TRUE, g, data, t, p) = Walk(Loop(TRUE, g), Types(t.fs), p, 0)
      BY <1>0, <2>4, MeasureStruct
    <3>3. RowOf(Types(t.fs), t)
      BY <2>4, Rows
    <3>4. Below(Walk(Inside(f), Types(t.fs), p, 0), p) = Below(Walk(g, Types(t.fs), p, 0), p)
      BY <2>1, <3>3, RowBelow
    <3> QED BY <2>2, <3>1, <3>2, <3>4 DEF Loop
  <2>5. CASE t.k \notin {"string", "struct", "vec", "option"}
    <3>1. Measure(FALSE, f, data, t, p) = ByteSize(t)
      BY ONLY <1>0, <2>5, MeasureFixed
    <3>2. Measure(TRUE, g, data, t, p) = ByteSize(t)
      BY ONLY <1>0, <2>5, MeasureFixed
    <3> QED BY <2>2, <3>1, <3>2
  <2>6. CASE t.k = "option"
    <3>1. Below(WidthAt(f, data, t, p), p) = Below(LeanWidthAt(g, data, t, p), p)
      BY <2>1, <2>6, OptionBelow
    <3> QED BY <2>2, <3>1 DEF Measure
  <2>7. CASE t.k = "vec"
    <3>1. t.of \in Ty
      BY <2>7, Rows, PartsAreTypes
    <3>2. ByteSize(t.of) # {} => \A q \in Nat : g[t.of][q] = ByteSize(t.of)
      <4>1. ASSUME ByteSize(t.of) # {}, NEW q \in Nat PROVE Width(TRUE, t.of, data, q) = ByteSize(t.of)
        BY <1>0, <3>1, <4>1, FixedSize
      <4> QED BY <1>2, <3>1, <4>1 DEF Wide
    <3>3. Below(WidthAt(f, data, t, p), p) = Below(LeanWidthAt(g, data, t, p), p)
      BY <2>1, <2>7, <3>2, VecBelow
    <3> QED BY <2>2, <3>3 DEF Measure
  <2> QED BY <2>3, <2>4, <2>5, <2>6, <2>7
<1>4. u \in S
  <2> HIDE DEF S
  <2> QED BY <1>3, TypeInduction
<1>5. /\ Width(FALSE, u, data, o) = f[u][o] /\ Width(TRUE, u, data, o) = g[u][o]
  BY <1>1, <1>2 DEF Wide
<1>6. Below(f[u][o], o) = Below(g[u][o], o)
  BY <1>4
<1> QED BY <1>5, <1>6 DEF Width

-----------------------------------------------------------------------------
(* Fields.                                                                 *)

\* The first fields of a struct are a struct.
LEMMA PrefixOver ==
    ASSUME NEW T,
           \A u \in T : u.k = "struct" =>
             \A n \in 0..Len(u.fs) : StructOf(SubSeq(u.fs, 1, n)) \in T,
           NEW u \in Over(T), u.k = "struct", NEW n \in 0..Len(u.fs)
    PROVE  StructOf(SubSeq(u.fs, 1, n)) \in Over(T)
<1>1. CASE u \in T
  BY <1>1 DEF Over
<1>2. CASE u \notin T
  <2> DEFINE R == [name : STRING, ty : T]
             q == u.fs
  <2>1. u \in [k : {"struct"}, fs : Seq(R)]
    BY <1>2 DEF Over
  <2>2. q \in Seq(R)
    BY <2>1
  <2>3. SubSeq(q, 1, n) \in Seq(R)
    <3> HIDE DEF R
    <3>1. n \in 0..Len(q)
      OBVIOUS
    <3> HIDE DEF q
    <3> QED BY <2>2, <3>1
  <2>4. StructOf(SubSeq(q, 1, n)) \in [k : {"struct"}, fs : Seq(R)]
    BY <2>3 DEF StructOf
  <2> QED BY <2>4 DEF Over
<1> QED BY <1>1, <1>2

LEMMA Prefix ==
    ASSUME NEW u \in Ty, u.k = "struct", NEW n \in 0..Len(u.fs)
    PROVE  /\ StructOf(SubSeq(u.fs, 1, n)) \in Ty
           /\ Len(SubSeq(u.fs, 1, n)) = n
           /\ \A i \in 1..n : SubSeq(u.fs, 1, n)[i] = u.fs[i]
<1>1. \A t \in Scalar : t.k = "struct" =>
        \A m \in 0..Len(t.fs) : StructOf(SubSeq(t.fs, 1, m)) \in Scalar
  BY DEF Scalar
<1>2. \A t \in Level1 : t.k = "struct" =>
        \A m \in 0..Len(t.fs) : StructOf(SubSeq(t.fs, 1, m)) \in Level1
  BY <1>1, PrefixOver DEF Level1
<1>3. \A t \in Level2 : t.k = "struct" =>
        \A m \in 0..Len(t.fs) : StructOf(SubSeq(t.fs, 1, m)) \in Level2
  BY <1>2, PrefixOver DEF Level2
<1>4. StructOf(SubSeq(u.fs, 1, n)) \in Ty
  BY <1>3, PrefixOver, Levels
<1>5. Len(u.fs) \in Nat /\ DOMAIN u.fs = 1..Len(u.fs)
  BY FormedTypes DEF Formed
<1>6. SubSeq(u.fs, 1, n) = [i \in 1..n |-> u.fs[i]]
  <2> DEFINE q == u.fs
  <2>1. n \in Nat
    BY <1>5
  <2>2. SubSeq(q, 1, n) = [i \in 1..n |-> q[i + 1 - 1]]
    <3> HIDE DEF q
    <3> QED BY <2>1
  <2>3. \A i \in 1..n : i + 1 - 1 = i
    OBVIOUS
  <2> HIDE DEF q
  <2> QED BY <2>2, <2>3 DEF q
<1>7. Len(SubSeq(u.fs, 1, n)) = n
  BY <1>5, <1>6
<1> QED BY <1>4, <1>6, <1>7

\* A descriptor is cut at the first unmapped field.
LEMMA DescriptorIs ==
    ASSUME NEW fs, StructOf(fs) \in Ty
    PROVE  \E n \in 0..Len(fs) :
             /\ Descriptor(fs) = StructOf(SubSeq(fs, 1, n))
             /\ \A i \in 1..n : Mapped(fs[i].ty)
<1> DEFINE u == StructOf(fs)
           D == {i \in DOMAIN fs : \A j \in 1..i : Mapped(fs[j].ty)}
           N == Len(fs)
           bad == {i \in 1..N + 1 : i = N + 1 \/ ~Mapped(fs[i].ty)}
<1>1. u.k = "struct" /\ u.fs = fs
  BY DEF StructOf
<1>2. N \in Nat /\ DOMAIN fs = 1..N
  BY <1>1, FormedTypes DEF Formed
<1>3. PICK m \in bad : \A i \in bad : m <= i
  <2>1. N + 1 \in bad /\ bad \in SUBSET Nat
    BY <1>2
  <2> HIDE DEF bad
  <2> QED BY <2>1, LeastElement
<1> DEFINE n == m - 1
<1>4. n \in 0..N /\ m \in 1..N + 1
  BY <1>2, <1>3
<1>5. \A i \in 1..n : Mapped(fs[i].ty)
  <2> TAKE i \in 1..n
  <2>1. i \in 1..N + 1 /\ i # N + 1 /\ ~(m <= i)
    BY <1>2, <1>4
  <2> QED BY <1>3, <2>1
<1>6. D = 1..n
  <2>1. ASSUME NEW i \in 1..n PROVE i \in D
    <3>1. i \in DOMAIN fs /\ \A j \in 1..i : j \in 1..n
      BY <1>2, <1>4
    <3> QED BY <1>5, <3>1
  <2>2. ASSUME NEW i \in D PROVE i \in 1..n
    <3>1. i \in 1..N /\ \A j \in 1..i : Mapped(fs[j].ty)
      BY <1>2
    <3>2. ~(m \in 1..i)
      BY <1>2, <1>3, <3>1
    <3> QED BY <1>2, <1>4, <3>1, <3>2
  <2> HIDE DEF D, n
  <2> QED BY <2>1, <2>2
<1>7. SubSeq(fs, 1, n) = [i \in 1..n |-> fs[i]]
  <2> HIDE DEF n
  <2>1. Len(SubSeq(fs, 1, n)) = n /\ \A i \in 1..n : SubSeq(fs, 1, n)[i] = fs[i]
    BY <1>1, <1>4, Prefix
  <2>2. n \in Nat
    BY <1>2, <1>4
  <2>3. SubSeq(fs, 1, n) = [i \in 1..n |-> SubSeq(fs, 1, n)[i]]
    BY <2>2
  <2> QED BY <2>1, <2>3
<1>8. Descriptor(fs) = StructOf([i \in D |-> fs[i]])
  BY DEF Descriptor
<1> QED BY <1>4, <1>5, <1>6, <1>7, <1>8

LEMMA DescriptorType ==
    ASSUME NEW fs, StructOf(fs) \in Ty
    PROVE  Descriptor(fs) \in Ty /\ Descriptor(fs).k = "struct"
<1>1. PICK n \in 0..Len(fs) : Descriptor(fs) = StructOf(SubSeq(fs, 1, n))
  BY DescriptorIs
<1>2. StructOf(fs).k = "struct" /\ StructOf(fs).fs = fs
  BY DEF StructOf
<1>3. StructOf(SubSeq(fs, 1, n)) \in Ty
  BY <1>2, Prefix
<1> QED BY <1>1, <1>3 DEF StructOf

\* One name deep, locate steps over what is in front of the field.
LEMMA LocateOne ==
    ASSUME NEW t, t.k = "struct", NEW name, NEW data, NEW start
    PROVE  Locate(t, <<name>>, data, start) =
             UNION {{<<start + w, t.fs[i].ty>> :
                       w \in EncodedWidth(StructOf(SubSeq(t.fs, 1, i - 1)), data, start)} :
                      i \in FirstNamed(t.fs, name)}
<1> DEFINE From(at, n) ==
             UNION {{<<at[1] + w, at[2].fs[i].ty>> :
                       w \in EncodedWidth(StructOf(SubSeq(at[2].fs, 1, i - 1)), data, at[1])} :
                      i \in FirstNamed(at[2].fs, n)}
           Stp(prev, n) ==
             UNION {From(at, <<name>>[n]) : at \in {x \in prev : x[2].k = "struct"}}
           A == {<<start, t>>}
           Is(f) == f = [n \in 0..Len(<<name>>) |-> IF n = 0 THEN A ELSE Stp(f[n - 1], n)]
           C == CHOOSE f : Is(f)
<1>1. Locate(t, <<name>>, data, start) = C[Len(<<name>>)]
  BY DEF Locate
<1>2. Len(<<name>>) = 1
  OBVIOUS
<1>3. Stp(A, 1) = From(<<start, t>>, name)
  <2>1. {x \in A : x[2].k = "struct"} = {<<start, t>>} /\ <<name>>[1] = name
    OBVIOUS
  <2> HIDE DEF From
  <2> QED BY <2>1
<1>8. From(<<start, t>>, name)
        = UNION {{<<start + w, t.fs[i].ty>> :
                    w \in EncodedWidth(StructOf(SubSeq(t.fs, 1, i - 1)), data, start)} :
                   i \in FirstNamed(t.fs, name)}
  OBVIOUS
<1> HIDE DEF Stp, A, From
<1>4. \E f : Is(f)
  <2> DEFINE g == [n \in 0..1 |-> IF n = 0 THEN A ELSE Stp(A, 1)]
  <2>1. g[0] = A /\ \A n \in 0..1 : n # 0 => n = 1 /\ n - 1 = 0
    OBVIOUS
  <2>2. g = [n \in 0..1 |-> IF n = 0 THEN A ELSE Stp(g[n - 1], n)]
    BY <2>1
  <2> QED BY <1>2, <2>2
<1>5. Is(C)
  BY <1>4
<1> HIDE DEF C
<1>6. C = [n \in 0..1 |-> IF n = 0 THEN A ELSE Stp(C[n - 1], n)]
  BY <1>2, <1>5
<1>7. C[0] = A /\ C[1] = Stp(C[0], 1)
  <2>1. 0 \in 0..1 /\ 1 \in 0..1 /\ 1 # 0 /\ 1 - 1 = 0
    OBVIOUS
  <2> QED BY <1>6, <2>1
<1> QED BY <1>1, <1>2, <1>3, <1>7, <1>8

Front(t, i) == StructOf(SubSeq(t.fs, 1, i - 1))

LEMMA LocateIs ==
    ASSUME NEW t, t.k = "struct", NEW name, NEW data, NEW start, NEW x
    PROVE  /\ x \in Locate(t, <<name>>, data, start) <=>
                \E i \in FirstNamed(t.fs, name) : \E w \in EncodedWidth(Front(t, i), data, start) :
                  x = <<start + w, t.fs[i].ty>>
           /\ x \in LeanLocate(t, name, data, start) <=>
                \E i \in FirstNamed(t.fs, name) :
                  \E w \in LeanEncodedWidth(Front(t, i), data, start) :
                    x = <<start + w, t.fs[i].ty>>
<1>1. x \in Locate(t, <<name>>, data, start) <=>
        x \in UNION {{<<start + w, t.fs[i].ty>> : w \in EncodedWidth(Front(t, i), data, start)} :
                       i \in FirstNamed(t.fs, name)}
  BY LocateOne DEF Front
<1>2. x \in LeanLocate(t, name, data, start) <=>
        x \in UNION {{<<start + w, t.fs[i].ty>> :
                        w \in LeanEncodedWidth(Front(t, i), data, start)} :
                       i \in FirstNamed(t.fs, name)}
  BY DEF LeanLocate, Front
<1> QED BY <1>1, <1>2

LEMMA FieldInFront ==
    ASSUME NEW t \in Ty, t.k = "struct", NEW i \in DOMAIN t.fs
    PROVE  /\ Front(t, i) \in Ty /\ Front(t, i).k = "struct"
           /\ t.fs[i].ty \in Ty /\ t.fs[i].ty \in Parts(t)
           /\ i \in 1..Len(t.fs) /\ Len(t.fs) \in Nat /\ i - 1 \in 0..Len(t.fs)
           /\ Front(t, i).fs = SubSeq(t.fs, 1, i - 1)
<1>1. i \in 1..Len(t.fs) /\ Len(t.fs) \in Nat
  BY FormedTypes DEF Formed
<1>2. i - 1 \in 0..Len(t.fs)
  BY <1>1
<1>3. Front(t, i) \in Ty
  BY <1>2, Prefix DEF Front
<1>4. t.fs[i].ty \in Parts(t)
  BY DEF Parts
<1> QED BY <1>1, <1>2, <1>3, <1>4, PartsAreTypes DEF Front, StructOf

LEMMA WidthType ==
    ASSUME NEW data \in Bytes, NEW u \in Ty, NEW o \in Nat
    PROVE  EncodedWidth(u, data, o) \subseteq Nat /\ LeanEncodedWidth(u, data, o) \subseteq Nat
<1>0. FALSE \in BOOLEAN /\ TRUE \in BOOLEAN
  OBVIOUS
<1>1. PICK f : \A t \in Ty : Wide(FALSE, data, f, t)
  BY <1>0, Widths
<1>2. PICK g : \A t \in Ty : Wide(TRUE, data, g, t)
  BY <1>0, Widths
<1>3. Width(FALSE, u, data, o) \subseteq Nat /\ Width(TRUE, u, data, o) \subseteq Nat
  BY <1>1, <1>2 DEF Wide
<1> QED BY <1>3 DEF Width

\* Both walks locate the same, as far as a usize reaches.
LEMMA LocateAlike ==
    ASSUME NEW data, Buffer(data), NEW t \in Ty, t.k = "struct", NEW name, NEW start \in Nat
    PROVE  /\ \A x \in Locate(t, <<name>>, data, start)
                        \cup LeanLocate(t, name, data, start) :
                x[1] \in Nat /\ x[2] \in Ty
           /\ \A x : x[1] <= UsizeMax =>
                (x \in Locate(t, <<name>>, data, start) <=> x \in LeanLocate(t, name, data, start))
<1>0. data \in Bytes /\ UsizeMax \in Nat
  BY LayoutAssumption DEF Buffer
<1>1. ASSUME NEW i \in FirstNamed(t.fs, name)
      PROVE  /\ t.fs[i].ty \in Ty
             /\ EncodedWidth(Front(t, i), data, start) \subseteq Nat
             /\ LeanEncodedWidth(Front(t, i), data, start) \subseteq Nat
             /\ \A w : start + w <= UsizeMax =>
                  (w \in EncodedWidth(Front(t, i), data, start)
                     <=> w \in LeanEncodedWidth(Front(t, i), data, start))
  <2>1. i \in DOMAIN t.fs
    BY DEF FirstNamed
  <2>2. Front(t, i) \in Ty /\ t.fs[i].ty \in Ty
    BY <2>1, FieldInFront
  <2>3. Below(EncodedWidth(Front(t, i), data, start), start)
          = Below(LeanEncodedWidth(Front(t, i), data, start), start)
    BY <2>2, SameBelow
  <2>4. \A w : start + w <= UsizeMax =>
          (w \in EncodedWidth(Front(t, i), data, start)
             <=> w \in LeanEncodedWidth(Front(t, i), data, start))
    BY <2>3 DEF Below
  <2> QED BY <1>0, <2>2, <2>4, WidthType
<1>2. ASSUME NEW x \in Locate(t, <<name>>, data, start) \cup LeanLocate(t, name, data, start)
      PROVE  x[1] \in Nat /\ x[2] \in Ty
  <2>1. \E i \in FirstNamed(t.fs, name) :
          \E w \in EncodedWidth(Front(t, i), data, start)
                     \cup LeanEncodedWidth(Front(t, i), data, start) :
            x = <<start + w, t.fs[i].ty>>
    BY LocateIs
  <2>2. PICK i \in FirstNamed(t.fs, name) :
          \E w \in EncodedWidth(Front(t, i), data, start)
                     \cup LeanEncodedWidth(Front(t, i), data, start) :
            x = <<start + w, t.fs[i].ty>>
    BY <2>1
  <2>3. PICK w \in Nat : x = <<start + w, t.fs[i].ty>>
    BY <1>1, <2>2
  <2> QED BY <1>1, <2>3
<1>3. ASSUME NEW x, x[1] <= UsizeMax
      PROVE  x \in Locate(t, <<name>>, data, start) <=> x \in LeanLocate(t, name, data, start)
  <2>1. ASSUME NEW i \in FirstNamed(t.fs, name), NEW w, x = <<start + w, t.fs[i].ty>>
        PROVE  w \in EncodedWidth(Front(t, i), data, start)
                 <=> w \in LeanEncodedWidth(Front(t, i), data, start)
    BY <1>1, <1>3, <2>1
  <2> QED BY <2>1, LocateIs
<1> QED BY <1>2, <1>3

LEMMA ReadValBelow ==
    ASSUME NEW data, Buffer(data), NEW u \in Ty, NEW off \in Nat, ~(off <= UsizeMax)
    PROVE  ReadVal(u, data, off) = {}
<1>0. UsizeMax \in Nat /\ KeyLen \in Nat /\ Formed(u)
  BY LayoutAssumption, FormedTypes
<1>1. \A w \in Nat : Checked(off + w) = {}
  BY <1>0 DEF Checked
<1>2. \A w \in Nat : ReadUIntLE(data, off, w) = {}
  BY <1>1 DEF ReadUIntLE
<1>3. CASE u.k \in {"uint", "int"}
  BY <1>0, <1>2, <1>3 DEF ReadVal, Formed
<1>4. CASE u.k = "bool"
  BY <1>2, <1>4 DEF ReadVal
<1>5. CASE u.k = "pubkey"
  BY <1>0, <1>1, <1>5 DEF ReadVal
<1>6. CASE u.k \notin {"uint", "int", "bool", "pubkey"}
  BY <1>6 DEF ReadVal
<1> QED BY <1>3, <1>4, <1>5, <1>6

\* At one offset both read the same value.
LEMMA ReadValAlike ==
    ASSUME NEW data, Buffer(data), NEW u \in Ty, NEW off \in Nat
    PROVE  ReadVal(u, data, off) = LeanReadVal(u, data, off)
<1>0. /\ Len(data) \in Nat /\ UsizeMax \in Nat /\ KeyLen \in Nat
      /\ u.k \in {"uint", "int"} => u.w \in Nat
  BY LayoutAssumption, FormedTypes, BytesAre DEF Buffer, Formed
<1>1. \A w \in Nat : ReadUIntLE(data, off, w) = LeanReadUIntLE(data, off, w)
  BY ReadAlike
<1>2. CASE u.k \in {"uint", "int"}
  <2>1. ReadUIntLE(data, off, u.w) = LeanReadUIntLE(data, off, u.w)
    BY <1>0, <1>1, <1>2
  <2> QED BY <1>2, <2>1 DEF ReadVal, LeanReadVal
<1>3. CASE u.k = "bool"
  BY <1>1, <1>3 DEF ReadVal, LeanReadVal
<1>4. CASE u.k = "pubkey"
  <2>1. off + KeyLen <= Len(data) => off + KeyLen <= UsizeMax
    BY <1>0 DEF Buffer
  <2>2. {e \in Checked(off + KeyLen) : e <= Len(data)}
          = IF off + KeyLen <= Len(data) THEN {off + KeyLen} ELSE {}
    BY <2>1 DEF Checked
  <2>3. ReadVal(u, data, off)
          = IF off + KeyLen <= Len(data)
            THEN {<<"key", SubSeq(data, off + 1, off + KeyLen)>>} ELSE {}
    BY <1>4, <2>2 DEF ReadVal
  <2>4. LeanReadVal(u, data, off)
          = IF off + KeyLen <= Len(data)
            THEN {<<"key", SubSeq(data, off + 1, off + KeyLen)>>} ELSE {}
    BY <1>4 DEF LeanReadVal
  <2> QED BY <2>3, <2>4
<1>5. CASE u.k \notin {"uint", "int", "bool", "pubkey"}
  BY <1>5 DEF ReadVal, LeanReadVal
<1> QED BY <1>2, <1>3, <1>4, <1>5

LEMMA LeanFieldReads ==
    ASSUME NEW data, Buffer(data), NEW t \in Ty, t.k = "struct", NEW name, NEW start \in Nat
    PROVE  LeanReadField(t, name, data, start)
             = UNION {ReadVal(at[2], data, at[1]) : at \in LeanLocate(t, name, data, start)}
<1> DEFINE L == LeanLocate(t, name, data, start)
<1>1. \A x \in L : x[1] \in Nat /\ x[2] \in Ty
  BY LocateAlike
<1>2. LeanReadField(t, name, data, start) = UNION {LeanReadVal(at[2], data, at[1]) : at \in L}
  BY DEF LeanReadField
<1> HIDE DEF L
<1>3. \A x \in L : LeanReadVal(x[2], data, x[1]) = ReadVal(x[2], data, x[1])
  BY <1>1, ReadValAlike
<1>4. UNION {LeanReadVal(at[2], data, at[1]) : at \in L}
        = UNION {ReadVal(at[2], data, at[1]) : at \in L}
  BY <1>3
<1> QED BY <1>2, <1>4 DEF L

\* A field reads the same by both walks.
LEMMA FieldAlike ==
    ASSUME NEW data, Buffer(data), NEW t \in Ty, t.k = "struct", NEW name, NEW start \in Nat
    PROVE  ReadField(t, name, data, start) = LeanReadField(t, name, data, start)
<1> DEFINE R == Locate(t, <<name>>, data, start)
           L == LeanLocate(t, name, data, start)
<1>1. /\ \A x \in R \cup L : x[1] \in Nat /\ x[2] \in Ty
      /\ \A x : x[1] <= UsizeMax => (x \in R <=> x \in L)
  BY LocateAlike
<1>2. ReadField(t, name, data, start) = UNION {ReadVal(at[2], data, at[1]) : at \in R}
  BY DEF ReadField
<1>3. LeanReadField(t, name, data, start) = UNION {ReadVal(at[2], data, at[1]) : at \in L}
  BY LeanFieldReads
<1> HIDE DEF R, L
<1>4. \A x \in R \cup L : ~(x[1] <= UsizeMax) => ReadVal(x[2], data, x[1]) = {}
  BY <1>1, ReadValBelow
<1>5. \A v : (\E x \in R : v \in ReadVal(x[2], data, x[1]))
               <=> \E x \in L : v \in ReadVal(x[2], data, x[1])
  BY <1>1, <1>4
<1> QED BY <1>2, <1>3, <1>5


-----------------------------------------------------------------------------
(* What Borsh makes of the bytes, and where it finds the next value.       *)

RowStep(decoded, types, from, upto, i) ==
    IF i = 0 THEN {<< << >>, from>>}
    ELSE UNION {{<<Append(g[1], x[1]), x[2]>> : x \in decoded[types[i]][g[2]]} :
                  g \in upto[i - 1]}

Reading(decoded, types, from, upto, n) ==
    upto = [i \in 0..n |-> RowStep(decoded, types, from, upto, i)]

LEMMA RowIs ==
    ASSUME NEW decoded, NEW types, NEW from
    PROVE  Row(decoded, types, from)
             = (CHOOSE upto : Reading(decoded, types, from, upto, Len(types)))[Len(types)]
BY DEF Row, Reading, RowStep

LEMMA RowExists ==
    ASSUME NEW decoded, NEW types, NEW from, NEW n \in Nat
    PROVE  \E upto : Reading(decoded, types, from, upto, n)
<1> DEFINE Step(g, i) == RowStep(decoded, types, from, g, i)
           S == {m \in 0..n : \E g : Reading(decoded, types, from, g, m)}
<1>1. 0 \in S
  <2> DEFINE g == [i \in 0..0 |-> {<< << >>, from>>}]
  <2>1. g = [i \in 0..0 |-> Step(g, i)]
    BY DEF RowStep
  <2> QED BY <2>1 DEF Reading
<1>2. ASSUME NEW m \in 1..n, m - 1 \in S PROVE m \in S
  <2>1. PICK g : g = [i \in 0..m - 1 |-> Step(g, i)]
    BY <1>2 DEF Reading
  <2> DEFINE h == [i \in 0..m |-> IF i = m THEN Step(g, m) ELSE g[i]]
  <2>2. ASSUME NEW i \in 0..m PROVE h[i] = Step(h, i)
    <3>1. i # 0 => i - 1 \in 0..m /\ i - 1 # m /\ h[i - 1] = g[i - 1]
      OBVIOUS
    <3>2. Step(h, i) = Step(g, i)
      BY <3>1 DEF RowStep
    <3>3. i # m => i \in 0..m - 1 /\ g[i] = Step(g, i)
      <4> HIDE DEF Step
      <4> QED BY <2>1
    <3> HIDE DEF Step
    <3> QED BY <3>2, <3>3
  <2>3. h = [i \in 0..m |-> Step(h, i)]
    <3>1. h = [i \in 0..m |-> h[i]]
      OBVIOUS
    <3> HIDE DEF h, Step
    <3> QED BY <3>1, <2>2
  <2> HIDE DEF h
  <2> QED BY <2>3 DEF Reading
<1>3. \A m \in 0..n : m \in S
  <2> HIDE DEF S
  <2> QED BY <1>1, <1>2, UpToInduction
<1> QED BY <1>3

\* x[i] are the values and the offset behind the first i of them.
OneMore(decoded, t, prev, b) ==
    \E g \in prev : \E y \in decoded[t][g[2]] : b = <<Append(g[1], y[1]), y[2]>>
RowTrail(decoded, types, from, x) ==
    /\ x[0] = {<< << >>, from>>}
    /\ \A i \in 1..Len(types) : \A b : b \in x[i] <=> OneMore(decoded, types[i], x[i - 1], b)

LEMMA RowTrailIs ==
    ASSUME NEW decoded, NEW types, NEW from, Len(types) \in Nat
    PROVE  \E x : /\ Row(decoded, types, from) = x[Len(types)]
                  /\ RowTrail(decoded, types, from, x)
<1> DEFINE n == Len(types)
           C == CHOOSE upto : Reading(decoded, types, from, upto, n)
<1>1. Reading(decoded, types, from, C, n)
  BY RowExists
<1>2. Row(decoded, types, from) = C[n]
  BY RowIs
<1> HIDE DEF C
<1>3. \A i \in 0..n : C[i] = RowStep(decoded, types, from, C, i)
  BY <1>1 DEF Reading
<1>4. C[0] = {<< << >>, from>>}
  <2>1. 0 \in 0..n
    OBVIOUS
  <2> QED BY <1>3, <2>1 DEF RowStep
<1>5. \A i \in 1..n :
        C[i] = UNION {{<<Append(g[1], y[1]), y[2]>> : y \in decoded[types[i]][g[2]]} :
                        g \in C[i - 1]}
  <2> TAKE i \in 1..n
  <2>1. i \in 0..n /\ i # 0
    OBVIOUS
  <2> QED BY <1>3, <2>1 DEF RowStep
<1> QED BY <1>2, <1>4, <1>5 DEF RowTrail, OneMore

\* A row depends on what its types are decoded as alone.
LEMMA RowOfSame ==
    ASSUME NEW f, NEW g, NEW types, NEW from, Len(types) \in Nat,
           \A i \in 1..Len(types) : f[types[i]] = g[types[i]]
    PROVE  Row(f, types, from) = Row(g, types, from)
<1> DEFINE n == Len(types)
<1>1. PICK x : Row(f, types, from) = x[n] /\ RowTrail(f, types, from, x)
  BY RowTrailIs
<1>2. PICK z : Row(g, types, from) = z[n] /\ RowTrail(g, types, from, z)
  BY RowTrailIs
<1>3. /\ x[0] = {<< << >>, from>>} /\ z[0] = {<< << >>, from>>}
      /\ \A i \in 1..n : \A b : b \in x[i] <=> OneMore(f, types[i], x[i - 1], b)
      /\ \A i \in 1..n : \A b : b \in z[i] <=> OneMore(g, types[i], z[i - 1], b)
  BY <1>1, <1>2 DEF RowTrail
<1> DEFINE S == {i \in 0..n : \A b : b \in x[i] <=> b \in z[i]}
<1>4. 0 \in S
  <2>1. 0 \in 0..n
    OBVIOUS
  <2> QED BY <1>3, <2>1
<1>5. ASSUME NEW i \in 1..n, i - 1 \in S PROVE i \in S
  <2>1. \A e : e \in x[i - 1] <=> e \in z[i - 1]
    BY <1>5
  <2>2. f[types[i]] = g[types[i]]
    OBVIOUS
  <2>3. \A b : OneMore(f, types[i], x[i - 1], b) <=> OneMore(g, types[i], z[i - 1], b)
    BY <2>1, <2>2 DEF OneMore
  <2>4. \A b : b \in x[i] <=> b \in z[i]
    BY <1>3, <2>3
  <2> QED BY <2>4
<1>6. n \in S
  <2> HIDE DEF S
  <2> QED BY <1>4, <1>5, WalkInduction
<1>7. x[n] = z[n]
  BY <1>6
<1> QED BY <1>1, <1>2, <1>7

\* What is decoded ends where the walk, if it gets that far, says it does.
Lands(decoded, width, u) ==
    \A p \in Nat : \A y \in decoded[u][p] :
      y[2] \in Nat /\ \A w \in width[u][p] : y[2] = p + w
Steps(decoded, width, u) ==
    \A p \in Nat : decoded[u][p] # {} => width[u][p] # {}

\* The row goes through the types the walk ts steps over, and maybe on.
Through(types, ts) ==
    /\ Len(types) \in Nat /\ Len(ts) \in Nat /\ Len(ts) <= Len(types)
    /\ \A i \in 1..Len(ts) : ts[i] = types[i]

AllLand(decoded, width, ts) == \A i \in 1..Len(ts) : Lands(decoded, width, ts[i])
AllStep(decoded, width, ts) == \A i \in 1..Len(ts) : Steps(decoded, width, ts[i])

Landed(values, widths, off) ==
    \A b \in values : b[2] \in Nat /\ \A a \in widths : b[2] = off + a

LEMMA RowLands ==
    ASSUME NEW decoded, NEW width, NEW types, NEW ts, Through(types, ts),
           NEW off \in Nat, NEW from \in Nat, Natural(width, ts),
           AllLand(decoded, width, ts),
           NEW x, RowTrail(decoded, types, off + from, x)
    PROVE  /\ Landed(x[Len(ts)], Walk(width, ts, off, from), off)
           /\ AllStep(decoded, width, ts) =>
                (x[Len(ts)] # {} => Walk(width, ts, off, from) # {})
<1> DEFINE n == Len(ts)
<1>0. n \in Nat
  BY DEF Through
<1>1. PICK z : Walk(width, ts, off, from) = z[n] /\ Trail(width, ts, off, from, z)
  BY <1>0, WalkTrail
<1>2. /\ x[0] = {<< << >>, off + from>>} /\ z[0] = {from}
      /\ \A i \in 1..n : \A b : b \in x[i] <=> OneMore(decoded, ts[i], x[i - 1], b)
      /\ \A i \in 1..n : \A a :
           a \in z[i] <=> \E c \in z[i - 1] : \E w \in width[ts[i]][off + c] : a = c + w
  <2>1. \A i \in 1..n : i \in 1..Len(types) /\ ts[i] = types[i]
    BY DEF Through
  <2> QED BY <1>1, <2>1 DEF RowTrail, Trail
<1>3. \A i \in 0..n : z[i] \subseteq Nat
  BY <1>0, <1>1, TrailType
<1> DEFINE S == {i \in 0..n : \A b \in x[i] : b[2] \in Nat /\ \A a \in z[i] : b[2] = off + a}
<1>4. 0 \in S
  <2>1. 0 \in 0..n
    BY <1>0
  <2> QED BY <1>2, <2>1
<1>5. ASSUME NEW i \in 1..n, i - 1 \in S PROVE i \in S
  <2>1. ASSUME NEW b \in x[i] PROVE b[2] \in Nat /\ \A a \in z[i] : b[2] = off + a
    <3>0. OneMore(decoded, ts[i], x[i - 1], b)
      BY <1>2
    <3>1. PICK g \in x[i - 1] : \E y \in decoded[ts[i]][g[2]] : b = <<Append(g[1], y[1]), y[2]>>
      BY <3>0 DEF OneMore
    <3>2. PICK y \in decoded[ts[i]][g[2]] : b = <<Append(g[1], y[1]), y[2]>>
      BY <3>1
    <3>3. g[2] \in Nat /\ \A a \in z[i - 1] : g[2] = off + a
      BY <1>5
    <3>4. y[2] \in Nat /\ \A w \in width[ts[i]][g[2]] : y[2] = g[2] + w
      BY <3>3 DEF AllLand, Lands
    <3>5. ASSUME NEW a \in z[i] PROVE y[2] = off + a
      <4>1. PICK c \in z[i - 1] : \E w \in width[ts[i]][off + c] : a = c + w
        BY <1>2
      <4>2. PICK w \in width[ts[i]][off + c] : a = c + w
        BY <4>1
      <4>3. c \in Nat /\ g[2] = off + c
        BY <1>0, <1>3, <3>3
      <4>4. w \in Nat
        BY <3>3, <4>3 DEF Natural
      <4>5. y[2] = g[2] + w
        BY <3>4, <4>3
      <4> QED BY <4>2, <4>3, <4>4, <4>5
    <3> QED BY <3>2, <3>4, <3>5
  <2> QED BY <2>1
<1>6. \A i \in 0..n : i \in S
  <2> HIDE DEF S
  <2> QED BY <1>0, <1>4, <1>5, UpToInduction
<1>7. n \in 0..n
  BY <1>0
<1>8. ASSUME AllStep(decoded, width, ts), x[n] # {} PROVE z[n] # {}
  <2> DEFINE G == {i \in 0..n : x[i] # {} => z[i] # {}}
  <2>1. 0 \in G
    <3>1. 0 \in 0..n
      BY <1>0
    <3>2. z[0] # {}
      BY <1>2
    <3> QED BY <3>1, <3>2
  <2>2. ASSUME NEW i \in 1..n, i - 1 \in G PROVE i \in G
    <3>1. ASSUME x[i] # {} PROVE z[i] # {}
      <4>1. PICK b : b \in x[i]
        BY <3>1
      <4>0. OneMore(decoded, ts[i], x[i - 1], b)
        BY <1>2, <4>1
      <4>2. PICK g \in x[i - 1] : \E y \in decoded[ts[i]][g[2]] : b = <<Append(g[1], y[1]), y[2]>>
        BY <4>0 DEF OneMore
      <4>3. i - 1 \in 0..n /\ i - 1 \in S
        BY <1>0, <1>6
      <4>4. PICK c : c \in z[i - 1]
        BY <2>2, <4>2
      <4>5. g[2] \in Nat /\ g[2] = off + c
        BY <4>3, <4>4
      <4>6. width[ts[i]][off + c] # {}
        BY <1>8, <4>2, <4>5 DEF AllStep, Steps
      <4>7. PICK w : w \in width[ts[i]][off + c]
        BY <4>6
      <4>8. c + w \in z[i]
        BY <1>2, <4>4, <4>7
      <4> QED BY <4>8
    <3> QED BY <3>1
  <2>3. n \in G
    <3> HIDE DEF G
    <3> QED BY <1>0, <2>1, <2>2, WalkInduction
  <2> QED BY <1>8, <2>3
<1> QED BY <1>1, <1>6, <1>7, <1>8 DEF Landed

Appended(s, e) ==
    /\ \E W : Append(s, e) \in Seq(W)
    /\ Len(s) \in Nat /\ Len(Append(s, e)) = Len(s) + 1
    /\ \A k \in 1..Len(s) : Append(s, e)[k] = s[k]
    /\ Append(s, e)[Len(s) + 1] = e

LEMMA AppendIs ==
    ASSUME NEW V, NEW s \in Seq(V), NEW e
    PROVE  Appended(s, e)
<1> DEFINE W == V \cup {e}
<1>1. s \in Seq(W) /\ e \in W
  OBVIOUS
<1> HIDE DEF W
<1>2. Append(s, e) \in Seq(W)
  BY <1>1
<1> QED BY <1>2 DEF Appended

\* The j-th value of a row is what the j-th type is decoded as, where the values
\* in front of it end.
ValueOf(decoded, t, prev, v) == \E g \in prev : \E y \in decoded[t][g[2]] : v = y[1]
Filled(decoded, types, x, j, i, c) ==
    /\ \E V : c[1] \in Seq(V)
    /\ Len(c[1]) = i
    /\ j <= i => ValueOf(decoded, types[j], x[j - 1], c[1][j])

LEMMA RowValue ==
    ASSUME NEW decoded, NEW types, Len(types) \in Nat, NEW from,
           NEW x, RowTrail(decoded, types, from, x),
           NEW j \in 1..Len(types), NEW b \in x[Len(types)]
    PROVE  ValueOf(decoded, types[j], x[j - 1], b[1][j])
<1> DEFINE n == Len(types)
           S == {i \in 0..n : \A c \in x[i] : Filled(decoded, types, x, j, i, c)}
<1>1. x[0] = {<< << >>, from>>}
  BY DEF RowTrail
<1>2. \A i \in 1..n : \A c : c \in x[i] => OneMore(decoded, types[i], x[i - 1], c)
  BY DEF RowTrail
<1>3. 0 \in S
  <2>1. << >> \in Seq({}) /\ Len(<< >>) = 0 /\ 0 \in 0..n /\ ~(j <= 0)
    OBVIOUS
  <2>2. ASSUME NEW c \in x[0] PROVE Filled(decoded, types, x, j, 0, c)
    <3>1. c[1] = << >>
      BY <1>1
    <3>2. \E V : c[1] \in Seq(V)
      BY <2>1, <3>1
    <3> QED BY <2>1, <3>1, <3>2 DEF Filled
  <2> QED BY <2>1, <2>2
<1>4. ASSUME NEW i \in 1..n, i - 1 \in S PROVE i \in S
  <2>1. ASSUME NEW c \in x[i] PROVE Filled(decoded, types, x, j, i, c)
    <3>0. OneMore(decoded, types[i], x[i - 1], c)
      BY <1>2
    <3>1. PICK g \in x[i - 1] : \E y \in decoded[types[i]][g[2]] : c = <<Append(g[1], y[1]), y[2]>>
      BY <3>0 DEF OneMore
    <3>2. PICK y \in decoded[types[i]][g[2]] : c = <<Append(g[1], y[1]), y[2]>>
      BY <3>1
    <3>3. Filled(decoded, types, x, j, i - 1, g)
      BY <1>4
    <3>4. PICK V : g[1] \in Seq(V)
      BY <3>3 DEF Filled
    <3> DEFINE s == g[1]
               e == y[1]
    <3>5. /\ \E W : Append(s, e) \in Seq(W)
          /\ Len(Append(s, e)) = Len(s) + 1
          /\ \A k \in 1..Len(s) : Append(s, e)[k] = s[k]
          /\ Append(s, e)[Len(s) + 1] = e
      <4>1. s \in Seq(V)
        BY <3>4
      <4> HIDE DEF s, e
      <4>2. Appended(s, e)
        BY <4>1, AppendIs
      <4> QED BY <4>2 DEF Appended
    <3>6. c[1] = Append(s, e)
      BY <3>2
    <3>7. Len(s) = i - 1
      BY <3>3 DEF Filled
    <3>8. Len(c[1]) = i /\ c[1][i] = e /\ \A k \in 1..i - 1 : c[1][k] = s[k]
      <4> HIDE DEF s, e
      <4> QED BY <3>5, <3>6, <3>7
    <3>9. j <= i => ValueOf(decoded, types[j], x[j - 1], c[1][j])
      <4>1. CASE j = i
        BY <3>2, <3>8, <4>1 DEF ValueOf
      <4>2. CASE j # i
        <5>1. j <= i => j \in 1..i - 1 /\ j <= i - 1
          BY <4>2
        <5> QED BY <3>3, <3>8, <5>1 DEF Filled
      <4> QED BY <4>1, <4>2
    <3> HIDE DEF s, e
    <3> QED BY <3>5, <3>6, <3>8, <3>9 DEF Filled
  <2> QED BY <2>1
<1>5. n \in S
  <2> HIDE DEF S
  <2> QED BY <1>3, <1>4, WalkInduction
<1>6. Filled(decoded, types, x, j, n, b)
  BY <1>5
<1> QED BY <1>6 DEF Filled

\* What each kind of type is decoded as.
LEMMA DecodedScalar ==
    ASSUME NEW f, NEW data, NEW u, NEW o, NEW x \in DecodedAt(f, data, u, o)
    PROVE  /\ u.k \in {"uint", "int"} => \E v \in ReadVal(u, data, o) : x = <<v, o + u.w>>
           /\ u.k = "pubkey" => \E v \in ReadVal(u, data, o) : x = <<v, o + KeyLen>>
           /\ u.k = "bool" => \E v \in ReadVal(u, data, o) : x = <<v, o + 1>>
           /\ u.k = "other" => \E b : x = <<b, o + u.w>>
BY DEF DecodedAt

LEMMA DecodedString ==
    ASSUME NEW f, NEW data \in Bytes, NEW u, NEW o \in Nat, u.k = "string",
           NEW x \in DecodedAt(f, data, u, o)
    PROVE  \E n \in LeanReadUIntLE(data, o, PrefixLen) :
             o + PrefixLen + n <= Len(data) /\ x[2] = o + (PrefixLen + n)
<1>1. PrefixLen \in Nat /\ LeanReadUIntLE(data, o, PrefixLen) \subseteq Nat
      /\ Len(data) \in Nat /\ DOMAIN data = 1..Len(data)
  BY LayoutAssumption, ReadType, BytesAre
<1>2. \E n \in LeanReadUIntLE(data, o, PrefixLen) :
        \E e \in {e \in {o + (PrefixLen + n)} : e <= Len(data)} :
          x[2] = o + Len(SubSeq(data, o + 1, e))
  <2> DEFINE bytes(n) == {SubSeq(data, o + 1, e) : e \in {e \in {o + n} : e <= Len(data)}}
             good(b)  == \A i \in PrefixLen + 1..Len(b) : b[i] < Base - 1
             text(n)  == {<<SubSeq(b, PrefixLen + 1, Len(b)), o + Len(b)>> :
                            b \in {b \in bytes(PrefixLen + n) : good(b)}}
  <2>1. DecodedAt(f, data, u, o) = UNION {text(n) : n \in LeanReadUIntLE(data, o, PrefixLen)}
    BY DEF DecodedAt
  <2>2. PICK n \in LeanReadUIntLE(data, o, PrefixLen) : x \in text(n)
    <3> HIDE DEF text
    <3> QED BY <2>1
  <2>3. PICK b \in bytes(PrefixLen + n) : x[2] = o + Len(b)
    <3> HIDE DEF bytes, good
    <3> QED BY <2>2
  <2> QED BY <2>3
<1>3. PICK n \in LeanReadUIntLE(data, o, PrefixLen) :
        o + (PrefixLen + n) <= Len(data)
          /\ x[2] = o + Len(SubSeq(data, o + 1, o + (PrefixLen + n)))
  BY <1>2
<1> DEFINE m == PrefixLen + n
<1>4. n \in Nat /\ m \in Nat /\ o + m <= Len(data)
  BY <1>1, <1>3
<1>5. Len(SubSeq(data, o + 1, o + m)) = m
  <2> HIDE DEF m
  <2> QED BY <1>1, <1>4 DEF Bytes
<1> QED BY <1>1, <1>3, <1>4, <1>5

LEMMA DecodedRow ==
    ASSUME NEW f, NEW data, NEW u, NEW o
    PROVE  /\ u.k = "struct" => DecodedAt(f, data, u, o) = Row(f, Types(u.fs), o)
           /\ u.k = "array" => DecodedAt(f, data, u, o) = Row(f, Copies(u.of, u.n), o)
           /\ u.k = "vec" => DecodedAt(f, data, u, o)
                = UNION {Row(f, Copies(u.of, n), o + PrefixLen) :
                           n \in LeanReadUIntLE(data, o, PrefixLen)}
           /\ u.k = "option" => DecodedAt(f, data, u, o)
                = UNION {CASE tag = 0 -> {<< << >>, o + 1>>}
                           [] tag = 1 -> f[u.of][o + 1]
                           [] OTHER   -> {} : tag \in LeanReadUIntLE(data, o, 1)}
BY DEF DecodedAt

LEMMA DecodedAsParts ==
    ASSUME NEW f, NEW g, NEW data \in Bytes, NEW u \in Ty, \A v \in Parts(u) : f[v] = g[v],
           NEW o \in Nat
    PROVE  DecodedAt(f, data, u, o) = DecodedAt(g, data, u, o)
<1>0. Formed(u)
  BY FormedTypes
<1>1. ASSUME NEW types, RowOf(types, u), NEW p PROVE Row(f, types, p) = Row(g, types, p)
  BY <1>1, RowOfSame DEF RowOf
<1>2. CASE u.k = "struct"
  <2>1. Row(f, Types(u.fs), o) = Row(g, Types(u.fs), o)
    BY <1>1, <1>2, Rows
  <2> QED BY <1>2, <2>1, DecodedRow
<1>3. CASE u.k = "array"
  <2>1. u.n \in Nat
    BY <1>0, <1>3 DEF Formed
  <2>2. Row(f, Copies(u.of, u.n), o) = Row(g, Copies(u.of, u.n), o)
    BY <1>1, <1>3, <2>1, Rows
  <2> QED BY <1>3, <2>2, DecodedRow
<1>4. CASE u.k = "vec"
  <2>1. LeanReadUIntLE(data, o, PrefixLen) \subseteq Nat
    BY ReadType, LayoutAssumption
  <2>2. ASSUME NEW n \in LeanReadUIntLE(data, o, PrefixLen)
        PROVE  Row(f, Copies(u.of, n), o + PrefixLen) = Row(g, Copies(u.of, n), o + PrefixLen)
    BY <1>1, <1>4, <2>1, Rows
  <2> DEFINE N == LeanReadUIntLE(data, o, PrefixLen)
             c(n) == Copies(u.of, n)
             p == o + PrefixLen
  <2>3. /\ DecodedAt(f, data, u, o) = UNION {Row(f, c(n), p) : n \in N}
        /\ DecodedAt(g, data, u, o) = UNION {Row(g, c(n), p) : n \in N}
    BY <1>4, DecodedRow
  <2> HIDE DEF N, c, p
  <2>4. \A n \in N : Row(f, c(n), p) = Row(g, c(n), p)
    BY <2>2 DEF N, c, p
  <2> QED BY <2>3, <2>4
<1>5. CASE u.k = "option"
  <2>1. f[u.of] = g[u.of]
    BY <1>5, Rows
  <2> DEFINE N == LeanReadUIntLE(data, o, 1)
             some(tag, F) == CASE tag = 0 -> {<< << >>, o + 1>>}
                               [] tag = 1 -> F
                               [] OTHER   -> {}
  <2>2. /\ DecodedAt(f, data, u, o) = UNION {some(tag, f[u.of][o + 1]) : tag \in N}
        /\ DecodedAt(g, data, u, o) = UNION {some(tag, g[u.of][o + 1]) : tag \in N}
    BY <1>5, DecodedRow
  <2> HIDE DEF N, some
  <2> QED BY <2>1, <2>2
<1>6. CASE u.k \in {"uint", "int", "other", "bool", "pubkey", "string"}
  BY <1>6 DEF DecodedAt
<1> QED BY <1>0, <1>2, <1>3, <1>4, <1>5, <1>6 DEF Formed

Round2(data, f)   == [u \in Ty |-> [o \in Nat |-> DecodedAt(f, data, u, o)]]
Decoding(data, f) == f = Round2(data, f)

LEMMA RoundOfDecoded ==
    ASSUME NEW data \in Bytes, NEW f
    PROVE  Round(f, Round2(data, f), Round2(data, Round2(data, f)))
<1> DEFINE g == Round2(data, f)
           h == Round2(data, g)
<1>1. \A u \in Ty : g[u] = [o \in Nat |-> DecodedAt(f, data, u, o)]
  BY DEF Round2
<1>2. \A u \in Ty : h[u] = [o \in Nat |-> DecodedAt(g, data, u, o)]
  <2> HIDE DEF g
  <2> QED BY DEF Round2
<1> HIDE DEF g, h
<1>3. ASSUME NEW u \in Ty, \A v \in Parts(u) : f[v] = g[v] PROVE g[u] = h[u]
  <2>1. \A o \in Nat : DecodedAt(f, data, u, o) = DecodedAt(g, data, u, o)
    BY <1>3, DecodedAsParts
  <2> QED BY <1>1, <1>2, <2>1
<1>4. Round(f, g, h)
  BY <1>3 DEF Round
<1> QED BY <1>4 DEF g, h

LEMMA DecodingExists ==
    ASSUME NEW data \in Bytes
    PROVE  \E f : Decoding(data, f)
<1> DEFINE f0 == [u \in Ty |-> [o \in Nat |-> {}]]
           f1 == Round2(data, f0)
           f2 == Round2(data, f1)
           f3 == Round2(data, f2)
           f4 == Round2(data, f3)
           f5 == Round2(data, f4)
<1>1. Round(f0, f1, f2)
  <2> HIDE DEF f0
  <2> QED BY RoundOfDecoded
<1>2. Round(f1, f2, f3)
  <2> HIDE DEF f1
  <2> QED BY RoundOfDecoded
<1>3. Round(f2, f3, f4)
  <2> HIDE DEF f2
  <2> QED BY RoundOfDecoded
<1>4. Round(f3, f4, f5)
  <2> HIDE DEF f3
  <2> QED BY RoundOfDecoded
<1>5. \A u \in Ty : f4[u] = f5[u]
  <2> HIDE DEF f0, f1, f2, f3, f4, f5
  <2> QED BY <1>1, <1>2, <1>3, <1>4, FourRounds
<1>6. f4 = [u \in Ty |-> f4[u]] /\ f5 = [u \in Ty |-> f5[u]]
  <2> HIDE DEF f3
  <2> QED BY DEF Round2
<1>7. f4 = f5
  <2> HIDE DEF f4, f5
  <2> QED BY <1>5, <1>6
<1> QED BY <1>7 DEF Decoding

LEMMA DecodeIs ==
    ASSUME NEW t, NEW data, NEW o
    PROVE  Decode(t, data, o) = (CHOOSE f : Decoding(data, f))[t][o]
BY DEF Decode, Decoding, Round2

\* What is decoded is what its kind makes of what its parts are decoded as.
LEMMA Decodes ==
    ASSUME NEW data \in Bytes
    PROVE  \E f : \A u \in Ty : \A o \in Nat : /\ Decode(u, data, o) = f[u][o]
                                              /\ f[u][o] = DecodedAt(f, data, u, o)
<1> DEFINE f == CHOOSE g : Decoding(data, g)
<1>1. Decoding(data, f)
  BY DecodingExists
<1>2. \A u \in Ty : \A o \in Nat : Decode(u, data, o) = f[u][o]
  BY DecodeIs
<1> HIDE DEF f
<1>3. \A u \in Ty : \A o \in Nat : f[u][o] = DecodedAt(f, data, u, o)
  BY <1>1 DEF Decoding, Round2
<1> QED BY <1>2, <1>3

\* The Lean walk once more, and the types that have one size.
LeanWide(data, f, u) ==
    /\ Typed(f, u)
    /\ \A o \in Nat : /\ LeanEncodedWidth(u, data, o) = f[u][o]
                      /\ f[u][o] = LeanWidthAt(f, data, u, o)
                      /\ f[u][o] \subseteq Nat
                      /\ ByteSize(u) # {} => f[u][o] = ByteSize(u)

LEMMA LeanWidths ==
    ASSUME NEW data \in Bytes
    PROVE  \E f : \A u \in Ty : LeanWide(data, f, u)
<1>0. TRUE \in BOOLEAN
  OBVIOUS
<1>1. PICK f : \A u \in Ty : Wide(TRUE, data, f, u)
  BY <1>0, Widths
<1>2. ASSUME NEW u \in Ty PROVE LeanWide(data, f, u)
  <2>1. /\ Typed(f, u)
        /\ \A o \in Nat : /\ Width(TRUE, u, data, o) = f[u][o]
                          /\ f[u][o] = Measure(TRUE, f, data, u, o)
                          /\ f[u][o] \subseteq Nat
    BY <1>1 DEF Wide
  <2>2. \A o : /\ Width(TRUE, u, data, o) = LeanEncodedWidth(u, data, o)
               /\ Measure(TRUE, f, data, u, o) = LeanWidthAt(f, data, u, o)
    BY DEF Width, Measure
  <2>3. \A o \in Nat : ByteSize(u) # {} => Width(TRUE, u, data, o) = ByteSize(u)
    BY FixedSize
  <2> QED BY <2>1, <2>2, <2>3 DEF LeanWide
<1> QED BY <1>2

LEMMA SizeOfScalar ==
    ASSUME NEW u \in Ty
    PROVE  /\ u.k \in {"uint", "int"} => ByteSize(u) = {u.w}
           /\ u.k = "bool" => ByteSize(u) = {1}
           /\ u.k = "pubkey" => ByteSize(u) = {KeyLen}
           /\ u.k = "other" => ByteSize(u) = {}
<1>1. PICK z : /\ \A t \in Ty : ByteSize(t) = z[t]
               /\ \A t \in Ty : z[t] = SizeOf(z, t) /\ Single(z[t])
  BY Sizes
<1>2. ByteSize(u) = SizeOf(z, u)
  BY <1>1
<1> QED BY <1>2 DEF SizeOf

\* An array that has a size has as many times that of an element.
LEMMA SizeOfArray ==
    ASSUME NEW u \in Ty, u.k = "array"
    PROVE  /\ u.of \in Ty /\ u.n \in Nat
           /\ ByteSize(u.of) = {} => ByteSize(u) = {}
           /\ \A w : ByteSize(u.of) = {w} => w \in Nat /\ ByteSize(u) = {u.n * w}
<1>1. PICK z : /\ \A t \in Ty : ByteSize(t) = z[t]
               /\ \A t \in Ty : z[t] = SizeOf(z, t) /\ Single(z[t])
  BY Sizes
<1>2. u.of \in Ty /\ u.n \in Nat
  BY Rows, PartsAreTypes, FormedTypes DEF Formed
<1>3. ByteSize(u) = {w * u.n : w \in ByteSize(u.of)}
  BY <1>1, <1>2 DEF SizeOf
<1>4. ByteSize(u.of) \subseteq Nat
  BY <1>2, ByteSizeSingle
<1>5. ASSUME NEW w, ByteSize(u.of) = {w} PROVE w \in Nat /\ ByteSize(u) = {u.n * w}
  <2>1. w \in Nat
    BY <1>4, <1>5
  <2>2. w * u.n = u.n * w
    BY <1>2, <2>1
  <2> QED BY <1>3, <1>5, <2>1, <2>2
<1>6. ByteSize(u.of) = {} => ByteSize(u) = {}
  BY <1>3
<1> QED BY <1>2, <1>5, <1>6

\* A number is read in one way.
LEMMA ReadOne ==
    ASSUME NEW data, NEW o, NEW w, NEW m \in LeanReadUIntLE(data, o, w),
           NEW n \in LeanReadUIntLE(data, o, w)
    PROVE  m = n
BY DEF LeanReadUIntLE

\* A row of values that is the whole of what is walked over.
LEMMA WholeRowLands ==
    ASSUME NEW decoded, NEW width, NEW types, Len(types) \in Nat,
           NEW off \in Nat, NEW from \in Nat, Natural(width, types),
           AllLand(decoded, width, types)
    PROVE  /\ Landed(Row(decoded, types, off + from), Walk(width, types, off, from), off)
           /\ AllStep(decoded, width, types) =>
                (Row(decoded, types, off + from) # {} => Walk(width, types, off, from) # {})
<1>1. PICK x : /\ Row(decoded, types, off + from) = x[Len(types)]
               /\ RowTrail(decoded, types, off + from, x)
  BY RowTrailIs
<1>2. Through(types, types)
  BY DEF Through
<1> QED BY <1>1, <1>2, RowLands

\* What both are of the parts of a type.
Decoded(data, d, u) == \A o \in Nat : Decode(u, data, o) = d[u][o] /\ d[u][o] = DecodedAt(d, data, u, o)

LEMMA LandsOf ==
    ASSUME NEW data \in Bytes, NEW d, NEW f, NEW u \in Ty, Decoded(data, d, u),
           \A t \in Ty : LeanWide(data, f, t),
           \A v \in Parts(u) : Lands(d, f, v)
    PROVE  Lands(d, f, u)
<1>0. Formed(u) /\ LeanWide(data, f, u) /\ PrefixLen \in Nat /\ KeyLen \in Nat
  BY FormedTypes, LayoutAssumption
<1>1. SUFFICES ASSUME NEW p \in Nat, NEW y \in DecodedAt(d, data, u, p)
               PROVE  y[2] \in Nat /\ \A w \in LeanWidthAt(f, data, u, p) : y[2] = p + w
  BY <1>0 DEF Decoded, LeanWide, Lands
<1>2. LeanWidthAt(f, data, u, p) \subseteq Nat
      /\ (ByteSize(u) # {} => LeanWidthAt(f, data, u, p) = ByteSize(u))
  BY <1>0 DEF LeanWide
<1>3. ASSUME NEW types, RowOf(types, u), NEW from \in Nat
      PROVE  \A b \in Row(d, types, p + from) :
               b[2] \in Nat /\ \A a \in Walk(f, types, p, from) : b[2] = p + a
  <2>1. Natural(f, types)
    BY <1>0, <1>3 DEF LeanWide, RowOf, Typed, Natural
  <2>2. Len(types) \in Nat /\ AllLand(d, f, types)
    BY <1>3 DEF RowOf, AllLand
  <2>3. Landed(Row(d, types, p + from), Walk(f, types, p, from), p)
    BY <2>1, <2>2, WholeRowLands
  <2> QED BY <2>3 DEF Landed
<1>4. CASE u.k \in {"uint", "int"}
  <2>1. u.w \in Nat
    BY <1>0, <1>4 DEF Formed
  <2>2. ByteSize(u) = {u.w}
    BY <1>4, SizeOfScalar
  <2>3. y[2] = p + u.w
    BY <1>4, DecodedScalar
  <2> QED BY <1>2, <2>1, <2>2, <2>3
<1>5. CASE u.k \in {"bool", "pubkey"}
  BY <1>0, <1>2, <1>5, DecodedScalar, SizeOfScalar
<1>6. CASE u.k = "other"
  <2>1. LeanWidthAt(f, data, u, p) = {}
    BY <1>6, SizeOfScalar DEF LeanWidthAt
  <2> QED BY <1>0, <1>6, <2>1, DecodedScalar DEF Formed
<1>7. CASE u.k = "string"
  <2>1. PICK n \in LeanReadUIntLE(data, p, PrefixLen) : y[2] = p + (PrefixLen + n)
    BY <1>7, DecodedString
  <2>2. n \in Nat
    BY <1>0, ReadType
  <2>3. \A w \in LeanWidthAt(f, data, u, p) : \E m \in LeanReadUIntLE(data, p, PrefixLen) :
          w = PrefixLen + m
    BY <1>7 DEF LeanWidthAt
  <2> QED BY <1>0, <2>1, <2>2, <2>3, ReadOne
<1>8. CASE u.k = "vec"
  <2>1. PICK n \in LeanReadUIntLE(data, p, PrefixLen) :
          y \in Row(d, Copies(u.of, n), p + PrefixLen)
    BY <1>8, DecodedRow
  <2>2. RowOf(Copies(u.of, n), u)
    BY <1>0, <1>8, ReadType, Rows
  <2>3. \A w \in LeanWidthAt(f, data, u, p) : \E m \in LeanReadUIntLE(data, p, PrefixLen) :
          w \in Walk(f, Copies(u.of, m), p, PrefixLen)
    BY <1>8 DEF LeanWidthAt
  <2>4. \A w \in LeanWidthAt(f, data, u, p) : w \in Walk(f, Copies(u.of, n), p, PrefixLen)
    BY <2>3, ReadOne
  <2> QED BY <1>0, <1>3, <2>1, <2>2, <2>4
<1>9. CASE u.k = "struct"
  <2>1. y \in Row(d, Types(u.fs), p + 0)
    <3>1. p + 0 = p
      OBVIOUS
    <3> QED BY <1>9, <3>1, DecodedRow
  <2>2. LeanWidthAt(f, data, u, p) = Walk(f, Types(u.fs), p, 0)
    BY <1>9 DEF LeanWidthAt
  <2> QED BY <1>3, <1>9, <2>1, <2>2, Rows
<1>10. CASE u.k = "array"
  <2>1. y \in Row(d, Copies(u.of, u.n), p + 0)
    <3>1. p + 0 = p
      OBVIOUS
    <3> QED BY <1>10, <3>1, DecodedRow
  <2>2. u.n \in Nat /\ RowOf(Copies(u.of, u.n), u)
    BY <1>0, <1>10, Rows DEF Formed
  <2>3. y[2] \in Nat /\ \A a \in Walk(f, Copies(u.of, u.n), p, 0) : y[2] = p + a
    BY <1>3, <2>1, <2>2
  <2>4. LeanWidthAt(f, data, u, p) = ByteSize(u)
    BY <1>10 DEF LeanWidthAt
  <2>5. ASSUME NEW w \in ByteSize(u) PROVE y[2] = p + w
    <3>1. u.of \in Ty /\ ByteSize(u.of) # {}
      BY <1>10, <2>5, SizeOfArray
    <3>2. PICK e \in Nat : ByteSize(u.of) = {e}
      BY <3>1, ByteSizeSingle DEF Single
    <3>3. Fixed(f, Copies(u.of, u.n), e)
      <4>1. \A o \in Nat : f[u.of][o] = {e}
        BY <3>1, <3>2 DEF LeanWide
      <4> QED BY <2>2, <4>1, TypesOfCopies DEF Fixed
    <3>4. Walk(f, Copies(u.of, u.n), p, 0) = {0 + Len(Copies(u.of, u.n)) * e}
      BY <2>2, <3>2, <3>3, WalkFixed, TypesOfCopies
    <3>5. Len(Copies(u.of, u.n)) = u.n /\ u.n * e \in Nat
      BY <2>2, <3>2, TypesOfCopies
    <3>6. w = u.n * e
      BY <1>10, <2>5, <3>2, SizeOfArray
    <3> QED BY <2>3, <3>4, <3>5, <3>6
  <2> QED BY <2>3, <2>4, <2>5
<1>11. CASE u.k = "option"
  <2>1. u.of \in Parts(u) /\ p + 1 \in Nat
    BY <1>11, Rows
  <2>2. Lands(d, f, u.of)
    BY <2>1
  <2> DEFINE N == LeanReadUIntLE(data, p, 1)
             some(tag) == CASE tag = 0 -> {<< << >>, p + 1>>}
                            [] tag = 1 -> d[u.of][p + 1]
                            [] OTHER   -> {}
             wide(tag) == IF tag = 0 THEN {1} ELSE {1 + w : w \in f[u.of][p + 1]}
  <2>3. DecodedAt(d, data, u, p) = UNION {some(tag) : tag \in N}
    BY <1>11, DecodedRow
  <2>4. LeanWidthAt(f, data, u, p) = UNION {wide(tag) : tag \in N}
    BY <1>11 DEF LeanWidthAt
  <2>5. PICK tag \in N : y \in some(tag)
    <3> HIDE DEF some, N
    <3> QED BY <2>3
  <2>6. \A w \in LeanWidthAt(f, data, u, p) : w \in wide(tag)
    <3>1. \A m \in N : m = tag
      BY <2>5, ReadOne
    <3> HIDE DEF wide, N
    <3> QED BY <2>4, <3>1
  <2>7. CASE tag = 0
    BY <2>5, <2>6, <2>7
  <2>8. CASE tag # 0
    <3>1. tag = 1 /\ y \in d[u.of][p + 1]
      BY <2>5, <2>8
    <3>2. y[2] \in Nat /\ \A w \in f[u.of][p + 1] : y[2] = (p + 1) + w
      BY <2>1, <2>2, <3>1 DEF Lands
    <3>3. \A w \in LeanWidthAt(f, data, u, p) : \E a \in f[u.of][p + 1] : w = 1 + a
      BY <2>6, <2>8
    <3>4. f[u.of][p + 1] \subseteq Nat
      BY <1>0, <2>1 DEF LeanWide, Typed
    <3> QED BY <3>2, <3>3, <3>4
  <2> QED BY <2>7, <2>8
<1>12. u.k \in {"uint", "int", "other", "bool", "pubkey", "string", "vec", "option",
                "array", "struct"}
  BY <1>0 DEF Formed
<1> QED BY <1>4, <1>5, <1>6, <1>7, <1>8, <1>9, <1>10, <1>11, <1>12

\* Types the walk steps over wherever there is a value of theirs: mapped ones,
\* as far as the elements of their arrays have a size.
Steppable(S) ==
    /\ S \subseteq Ty
    /\ \A u \in S : /\ u.k \notin {"other", "struct"}
                    /\ u.k \in {"vec", "option", "array"} => u.of \in S
                    /\ u.k = "array" => ByteSize(u.of) # {}

LEMMA StepsOf ==
    ASSUME NEW data \in Bytes, NEW d, NEW f, NEW S, Steppable(S), NEW u \in S,
           Decoded(data, d, u), \A t \in Ty : LeanWide(data, f, t),
           \A v \in Parts(u) : Lands(d, f, v) /\ Steps(d, f, v)
    PROVE  Steps(d, f, u)
<1>0. /\ u \in Ty /\ Formed(u) /\ LeanWide(data, f, u) /\ PrefixLen \in Nat
      /\ u.k \notin {"other", "struct"}
  BY FormedTypes, LayoutAssumption DEF Steppable
<1>1. SUFFICES ASSUME NEW p \in Nat, NEW y \in DecodedAt(d, data, u, p)
               PROVE  LeanWidthAt(f, data, u, p) # {}
  BY <1>0 DEF Decoded, LeanWide, Steps
<1>2. CASE u.k \in {"uint", "int", "bool", "pubkey"}
  <2>1. ByteSize(u) # {}
    BY <1>0, <1>2, SizeOfScalar
  <2> QED BY <1>2, <2>1 DEF LeanWidthAt
<1>3. CASE u.k = "array"
  <2>1. ByteSize(u.of) # {} /\ u.of \in Ty
    BY <1>0, <1>3, SizeOfArray DEF Steppable
  <2>2. PICK e \in Nat : ByteSize(u.of) = {e}
    BY <2>1, ByteSizeSingle DEF Single
  <2>3. ByteSize(u) # {}
    BY <1>0, <1>3, <2>2, SizeOfArray
  <2> QED BY <1>3, <2>3 DEF LeanWidthAt
<1>4. CASE u.k = "string"
  <2>1. PICK n \in LeanReadUIntLE(data, p, PrefixLen) : p + PrefixLen + n <= Len(data)
    BY <1>4, DecodedString
  <2>2. PrefixLen + n \in LeanWidthAt(f, data, u, p)
    BY <1>4, <2>1 DEF LeanWidthAt
  <2> QED BY <2>2
<1>5. CASE u.k = "vec"
  <2>1. PICK n \in LeanReadUIntLE(data, p, PrefixLen) :
          y \in Row(d, Copies(u.of, n), p + PrefixLen)
    BY <1>5, DecodedRow
  <2> DEFINE ts == Copies(u.of, n)
  <2>2. RowOf(ts, u)
    BY <1>0, <1>5, ReadType, Rows
  <2> HIDE DEF ts
  <2>3. Natural(f, ts) /\ Len(ts) \in Nat /\ AllLand(d, f, ts) /\ AllStep(d, f, ts)
    BY <1>0, <2>2 DEF LeanWide, RowOf, Typed, Natural, AllLand, AllStep
  <2>4. Walk(f, ts, p, PrefixLen) # {}
    <3>1. Row(d, ts, p + PrefixLen) # {}
      BY <2>1 DEF ts
    <3> QED BY <1>0, <2>3, <3>1, WholeRowLands
  <2>5. PICK w : w \in Walk(f, Copies(u.of, n), p, PrefixLen)
    BY <2>4 DEF ts
  <2>6. w \in LeanWidthAt(f, data, u, p)
    BY <1>5, <2>1, <2>5 DEF LeanWidthAt
  <2> QED BY <2>6
<1>6. CASE u.k = "option"
  <2>1. u.of \in Parts(u) /\ p + 1 \in Nat
    BY <1>0, <1>6, Rows
  <2> DEFINE N == LeanReadUIntLE(data, p, 1)
             some(tag) == CASE tag = 0 -> {<< << >>, p + 1>>}
                            [] tag = 1 -> d[u.of][p + 1]
                            [] OTHER   -> {}
             wide(tag) == IF tag = 0 THEN {1} ELSE {1 + w : w \in f[u.of][p + 1]}
  <2>2. DecodedAt(d, data, u, p) = UNION {some(tag) : tag \in N}
    BY <1>6, DecodedRow
  <2>3. LeanWidthAt(f, data, u, p) = UNION {wide(tag) : tag \in N}
    BY <1>6 DEF LeanWidthAt
  <2>4. PICK tag \in N : y \in some(tag)
    <3> HIDE DEF some, N
    <3> QED BY <2>2
  <2>5. wide(tag) # {}
    <3>1. CASE tag = 0
      BY <3>1
    <3>2. CASE tag # 0
      <4>1. y \in d[u.of][p + 1]
        BY <2>4, <3>2
      <4>2. f[u.of][p + 1] # {}
        BY <2>1, <4>1 DEF Steps
      <4> QED BY <3>2, <4>2
    <3> QED BY <3>1, <3>2
  <2> HIDE DEF wide, N
  <2> QED BY <2>3, <2>4, <2>5
<1>7. u.k \in {"uint", "int", "bool", "pubkey", "string", "vec", "option", "array"}
  BY <1>0 DEF Formed
<1> QED BY <1>2, <1>3, <1>4, <1>5, <1>6, <1>7

\* Borsh and the walk agree on where a value ends, and the walk gets there.
LEMMA WalkIsBorsh ==
    ASSUME NEW data \in Bytes
    PROVE  \E d, f : /\ \A u \in Ty : /\ Decoded(data, d, u) /\ LeanWide(data, f, u)
                                      /\ Lands(d, f, u)
                     /\ \A S : Steppable(S) => \A u \in S : Steps(d, f, u)
<1>1. PICK d : \A u \in Ty : Decoded(data, d, u)
  BY Decodes DEF Decoded
<1>2. PICK f : \A u \in Ty : LeanWide(data, f, u)
  BY LeanWidths
<1> DEFINE L == {u \in Ty : Lands(d, f, u)}
<1>3. \A u \in Ty : Parts(u) \subseteq L => u \in L
  <2> SUFFICES ASSUME NEW u \in Ty, Parts(u) \subseteq L PROVE Lands(d, f, u)
    OBVIOUS
  <2>1. \A v \in Parts(u) : Lands(d, f, v)
    OBVIOUS
  <2> QED BY <1>1, <1>2, <2>1, LandsOf
<1>4. Ty \subseteq L
  <2> HIDE DEF L
  <2> QED BY <1>3, TypeInduction
<1>5. ASSUME NEW S, Steppable(S) PROVE \A u \in S : Steps(d, f, u)
  <2> DEFINE G == {u \in Ty : u \in S => Steps(d, f, u)}
  <2>1. \A u \in Ty : Parts(u) \subseteq G => u \in G
    <3> SUFFICES ASSUME NEW u \in Ty, Parts(u) \subseteq G, u \in S PROVE Steps(d, f, u)
      OBVIOUS
    <3>1. Parts(u) \subseteq S
      <4>1. u.k # "struct" /\ (u.k \in {"vec", "option", "array"} => u.of \in S)
        BY <1>5 DEF Steppable
      <4> QED BY <4>1 DEF Parts
    <3>2. \A v \in Parts(u) : Lands(d, f, v) /\ Steps(d, f, v)
      BY <1>4, <3>1
    <3>3. Decoded(data, d, u)
      BY <1>1
    <3> HIDE DEF L, G
    <3> QED BY <1>2, <1>5, <3>2, <3>3, StepsOf
  <2>2. Ty \subseteq G
    <3> HIDE DEF G
    <3> QED BY <2>1, TypeInduction
  <2> QED BY <1>5, <2>2 DEF Steppable
<1> QED BY <1>1, <1>2, <1>4, <1>5

\* A field's value is in one place: what Borsh decodes as the j-th field of a
\* struct it decodes where the walk over the fields in front of it ends.
LEMMA FieldIsBorsh ==
    ASSUME NEW data \in Bytes, NEW fs, StructOf(fs) \in Ty, NEW off \in Nat,
           NEW b \in Decode(StructOf(fs), data, off),
           NEW j \in 1..Len(fs)
    PROVE  /\ \A w \in LeanEncodedWidth(StructOf(SubSeq(fs, 1, j - 1)), data, off) :
                \E y \in Decode(fs[j].ty, data, off + w) : b[1][j] = y[1]
           /\ \A S : Steppable(S) /\ (\A i \in 1..j - 1 : fs[i].ty \in S) =>
                LeanEncodedWidth(StructOf(SubSeq(fs, 1, j - 1)), data, off) # {}
<1> DEFINE t     == StructOf(fs)
           front == StructOf(SubSeq(fs, 1, j - 1))
           types == Types(fs)
           ts    == Types(SubSeq(fs, 1, j - 1))
<1>1. t.k = "struct" /\ t.fs = fs /\ front.k = "struct" /\ front.fs = SubSeq(fs, 1, j - 1)
  BY DEF StructOf
<1>2. Len(fs) \in Nat /\ DOMAIN fs = 1..Len(fs)
  BY <1>1, FormedTypes DEF Formed
<1>3. j - 1 \in 0..Len(fs) /\ j - 1 \in Nat
  BY <1>2
<1>4. /\ front \in Ty /\ Len(SubSeq(fs, 1, j - 1)) = j - 1
      /\ \A i \in 1..j - 1 : SubSeq(fs, 1, j - 1)[i] = fs[i]
  <2> HIDE DEF t, front
  <2>1. /\ StructOf(SubSeq(t.fs, 1, j - 1)) \in Ty
        /\ Len(SubSeq(t.fs, 1, j - 1)) = j - 1
        /\ \A i \in 1..j - 1 : SubSeq(t.fs, 1, j - 1)[i] = t.fs[i]
    BY <1>1, <1>3, Prefix DEF t
  <2> QED BY <1>1, <2>1 DEF front
<1>5. PICK d, f : /\ \A u \in Ty : /\ Decoded(data, d, u) /\ LeanWide(data, f, u)
                                   /\ Lands(d, f, u)
                  /\ \A S : Steppable(S) => \A u \in S : Steps(d, f, u)
  BY WalkIsBorsh
<1>6. /\ Len(types) = Len(fs)
      /\ \A i \in 1..Len(fs) : types[i] = fs[i].ty /\ fs[i].ty \in Ty
  <2> HIDE DEF t
  <2>1. /\ Len(Types(t.fs)) = Len(t.fs)
        /\ \A i \in 1..Len(Types(t.fs)) : /\ Types(t.fs)[i] \in Parts(t)
                                          /\ Types(t.fs)[i] = t.fs[i].ty
    BY <1>1, TypesOfStruct DEF t
  <2>2. Parts(t) \subseteq Ty
    BY PartsAreTypes DEF t
  <2> QED BY <1>1, <2>1, <2>2
<1>7. Len(ts) = j - 1 /\ \A i \in 1..j - 1 : ts[i] = fs[i].ty
  <2> HIDE DEF front
  <2>1. /\ Len(Types(front.fs)) = Len(front.fs)
        /\ \A i \in 1..Len(Types(front.fs)) : Types(front.fs)[i] = front.fs[i].ty
    BY <1>1, <1>4, TypesOfStruct
  <2> QED BY <1>1, <1>4, <2>1
<1>8. b \in Row(d, types, off)
  <2>1. Decode(t, data, off) = DecodedAt(d, data, t, off)
    BY <1>5 DEF Decoded
  <2>2. DecodedAt(d, data, t, off) = Row(d, types, off)
    <3> HIDE DEF t
    <3>1. DecodedAt(d, data, t, off) = Row(d, Types(t.fs), off)
      BY <1>1, DecodedRow
    <3> QED BY <1>1, <3>1
  <2> QED BY <2>1, <2>2
<1>9. LeanEncodedWidth(front, data, off) = Walk(f, ts, off, 0)
  <2> HIDE DEF front
  <2>1. LeanEncodedWidth(front, data, off) = LeanWidthAt(f, data, front, off)
    BY <1>4, <1>5 DEF LeanWide
  <2>2. LeanWidthAt(f, data, front, off) = Walk(f, Types(front.fs), off, 0)
    BY <1>1 DEF LeanWidthAt
  <2> QED BY <1>1, <2>1, <2>2
<1> HIDE DEF types, ts, front, t
<1>10. PICK x : Row(d, types, off) = x[Len(types)] /\ RowTrail(d, types, off, x)
  BY <1>2, <1>6, RowTrailIs
<1>11. ValueOf(d, types[j], x[j - 1], b[1][j])
  <2>1. b \in x[Len(types)] /\ j \in 1..Len(types)
    BY <1>6, <1>8, <1>10
  <2> QED BY <1>2, <1>6, <1>10, <2>1, RowValue
<1>12. PICK g \in x[j - 1] : \E y \in d[types[j]][g[2]] : b[1][j] = y[1]
  BY <1>11 DEF ValueOf
<1>13. /\ Landed(x[Len(ts)], Walk(f, ts, off, 0), off)
       /\ AllStep(d, f, ts) => (x[Len(ts)] # {} => Walk(f, ts, off, 0) # {})
  <2>1. Through(types, ts)
    <3>1. j - 1 <= Len(fs) /\ \A i \in 1..j - 1 : i \in 1..Len(fs)
      BY <1>2
    <3> QED BY <1>2, <1>3, <1>6, <1>7, <3>1 DEF Through
  <2>2. \A i \in 1..Len(ts) : ts[i] \in Ty
    BY <1>2, <1>6, <1>7
  <2>3. Natural(f, ts) /\ AllLand(d, f, ts)
    BY <1>5, <2>2 DEF LeanWide, Natural, AllLand
  <2>4. off + 0 = off /\ 0 \in Nat
    OBVIOUS
  <2>5. RowTrail(d, types, off + 0, x)
    BY <1>10, <2>4
  <2> QED BY <2>1, <2>3, <2>4, <2>5, RowLands
<1>14. ASSUME NEW w \in Walk(f, ts, off, 0)
       PROVE  \E y \in Decode(fs[j].ty, data, off + w) : b[1][j] = y[1]
  <2>1. g[2] \in Nat /\ g[2] = off + w
    BY <1>7, <1>12, <1>13 DEF Landed
  <2>2. Decode(fs[j].ty, data, off + w) = d[types[j]][g[2]]
    BY <1>5, <1>6, <2>1 DEF Decoded
  <2> QED BY <1>12, <2>2
<1>15. ASSUME NEW S, Steppable(S), \A i \in 1..j - 1 : fs[i].ty \in S
       PROVE  Walk(f, ts, off, 0) # {}
  <2>1. AllStep(d, f, ts)
    BY <1>5, <1>7, <1>15 DEF AllStep
  <2> QED BY <1>7, <1>12, <1>13, <2>1
<1> QED BY <1>9, <1>14, <1>15 DEF front

Checkable(u) == u.k \in {"uint", "int", "bool", "pubkey"}

\* A checked field has one value where it is, and Borsh decodes it as that.
LEMMA ReadValIsBorsh ==
    ASSUME NEW data \in Bytes, NEW u \in Ty, Checkable(u), NEW p \in Nat
    PROVE  /\ \A a, b \in ReadVal(u, data, p) : a = b
           /\ \A y \in Decode(u, data, p) : y[1] \in ReadVal(u, data, p)
<1>1. \A w : \A m, n \in ReadUIntLE(data, p, w) : m = n
  BY DEF ReadUIntLE, Checked
<1>2. \A m, n \in {e \in Checked(p + KeyLen) : e <= Len(data)} : m = n
  BY DEF Checked
<1>3. \A a, b \in ReadVal(u, data, p) : a = b
  <2>1. CASE u.k \in {"uint", "int"}
    <3> TAKE a, b \in ReadVal(u, data, p)
    <3>1. PICK m \in ReadUIntLE(data, p, u.w) :
            a = IF u.k = "uint" THEN <<"nat", m>>
                ELSE <<"int", IF 2 * m < Base ^ u.w THEN m ELSE m - Base ^ u.w>>
      BY <2>1 DEF ReadVal
    <3>2. PICK n \in ReadUIntLE(data, p, u.w) :
            b = IF u.k = "uint" THEN <<"nat", n>>
                ELSE <<"int", IF 2 * n < Base ^ u.w THEN n ELSE n - Base ^ u.w>>
      BY <2>1 DEF ReadVal
    <3> QED BY <1>1, <3>1, <3>2
  <2>2. CASE u.k = "bool"
    BY <1>1, <2>2 DEF ReadVal
  <2>3. CASE u.k = "pubkey"
    BY <1>2, <2>3 DEF ReadVal
  <2> QED BY <2>1, <2>2, <2>3 DEF Checkable
<1>4. PICK d : \A t \in Ty : \A o \in Nat : /\ Decode(t, data, o) = d[t][o]
                                            /\ d[t][o] = DecodedAt(d, data, t, o)
  BY Decodes
<1>5. ASSUME NEW y \in Decode(u, data, p) PROVE y[1] \in ReadVal(u, data, p)
  <2>1. y \in DecodedAt(d, data, u, p)
    BY <1>4
  <2> QED BY <2>1, DecodedScalar DEF Checkable
<1> QED BY <1>3, <1>5

LEMMA FrontOfDescriptor ==
    ASSUME NEW fs, StructOf(fs) \in Ty, NEW j \in DOMAIN Descriptor(fs).fs
    PROVE  /\ Descriptor(fs) \in Ty /\ Descriptor(fs).k = "struct"
           /\ j \in 1..Len(fs) /\ Len(fs) \in Nat /\ DOMAIN fs = 1..Len(fs)
           /\ Descriptor(fs).fs[j] = fs[j] /\ fs[j].ty \in Ty
           /\ Front(Descriptor(fs), j) = StructOf(SubSeq(fs, 1, j - 1))
           /\ \A i \in 1..j : i \in DOMAIN Descriptor(fs).fs /\ Mapped(fs[i].ty)
<1> DEFINE t == Descriptor(fs)
           s == StructOf(fs)
<1>1. PICK n \in 0..Len(fs) : t = StructOf(SubSeq(fs, 1, n)) /\ \A i \in 1..n : Mapped(fs[i].ty)
  BY DescriptorIs
<1>2. s \in Ty /\ s.k = "struct" /\ s.fs = fs
  BY DEF StructOf
<1>3. Len(fs) \in Nat /\ DOMAIN fs = 1..Len(fs)
  BY <1>2, FormedTypes DEF Formed
<1>4. t.k = "struct" /\ t.fs = SubSeq(fs, 1, n) /\ t \in Ty
  BY <1>1, DescriptorType DEF StructOf
<1> HIDE DEF t, s
<1>5. /\ Len(t.fs) = n /\ n \in Nat
      /\ \A i \in 1..n : t.fs[i] = fs[i]
  BY <1>2, <1>3, <1>4, Prefix
<1>6. DOMAIN t.fs = 1..n
  BY <1>4, <1>5, FormedTypes DEF Formed
<1>7. j \in 1..n /\ j - 1 \in 0..Len(t.fs) /\ j - 1 \in 0..Len(fs) /\ j \in 1..Len(fs)
      /\ j - 1 \in Nat
  <2>1. j \in DOMAIN t.fs
    BY DEF t
  <2> QED BY <1>3, <1>5, <1>6, <2>1
<1>8. /\ Len(SubSeq(t.fs, 1, j - 1)) = j - 1
      /\ \A i \in 1..j - 1 : SubSeq(t.fs, 1, j - 1)[i] = t.fs[i]
  BY <1>4, <1>7, Prefix
<1>9. /\ Len(SubSeq(fs, 1, j - 1)) = j - 1
      /\ \A i \in 1..j - 1 : SubSeq(fs, 1, j - 1)[i] = fs[i]
  BY <1>2, <1>7, Prefix
<1>10. SubSeq(t.fs, 1, j - 1) = SubSeq(fs, 1, j - 1)
  <2> DEFINE m == j - 1
  <2>1. m \in Nat /\ \A i \in 1..m : i \in 1..n
    BY <1>7
  <2> HIDE DEF m
  <2>2. SubSeq(t.fs, 1, m) = [i \in 1..m |-> SubSeq(t.fs, 1, m)[i]]
    BY <2>1
  <2>3. SubSeq(fs, 1, m) = [i \in 1..m |-> SubSeq(fs, 1, m)[i]]
    BY <2>1
  <2>4. \A i \in 1..m : SubSeq(t.fs, 1, m)[i] = SubSeq(fs, 1, m)[i]
    BY <1>5, <1>8, <1>9, <2>1 DEF m
  <2>5. SubSeq(t.fs, 1, m) = SubSeq(fs, 1, m)
    BY <2>2, <2>3, <2>4
  <2> QED BY <2>5 DEF m
<1>11. fs[j].ty \in Ty
  <2>1. fs[j].ty \in Parts(s)
    BY <1>2, <1>3, <1>7 DEF Parts
  <2> QED BY <1>2, <2>1, PartsAreTypes
<1>12. \A i \in 1..j : i \in 1..n
  BY <1>7
<1> QED BY <1>1, <1>3, <1>4, <1>5, <1>6, <1>7, <1>10, <1>11, <1>12 DEF t, Front

\* The walk looks for a field of a descriptor where the fields in front end.
Distinct(fs) == \A i, m \in DOMAIN fs : fs[i].name = fs[m].name => i = m
BehindFront(fs, data, off, j) ==
    \A x : x \in LeanLocate(Descriptor(fs), fs[j].name, data, off) <=>
             \E w \in LeanEncodedWidth(StructOf(SubSeq(fs, 1, j - 1)), data, off) :
               x = <<off + w, fs[j].ty>>

LEMMA LocatedAt ==
    ASSUME NEW data, NEW fs, StructOf(fs) \in Ty, NEW off, Distinct(fs),
           NEW j, j \in DOMAIN Descriptor(fs).fs
    PROVE  BehindFront(fs, data, off, j)
<1> DEFINE t     == Descriptor(fs)
           name  == fs[j].name
           front == StructOf(SubSeq(fs, 1, j - 1))
           W     == LeanEncodedWidth(front, data, off)
           u     == fs[j].ty
<1>1. /\ j \in 1..Len(fs) /\ Len(fs) \in Nat /\ DOMAIN fs = 1..Len(fs)
      /\ t.fs[j] = fs[j] /\ Front(t, j) = front
  BY FrontOfDescriptor
<1>2. FirstNamed(t.fs, name) = {j}
  <2>1. \A i \in DOMAIN t.fs : t.fs[i] = fs[i] /\ i \in DOMAIN fs
    BY FrontOfDescriptor
  <2>2. \A i \in DOMAIN t.fs : t.fs[i].name = name => i = j
    BY <1>1, <2>1 DEF Distinct
  <2>3. \A i \in 1..j - 1 : i \in DOMAIN t.fs /\ i # j
    <3>1. \A i \in 1..j : i \in DOMAIN t.fs
      BY FrontOfDescriptor
    <3> QED BY <1>1, <3>1
  <2>4. j \in DOMAIN t.fs /\ t.fs[j].name = name
    BY <1>1
  <2>5. \A i \in 1..j - 1 : t.fs[i].name # name
    BY <2>2, <2>3
  <2> HIDE DEF t, name
  <2>6. j \in FirstNamed(t.fs, name)
    BY <2>4, <2>5 DEF FirstNamed
  <2>7. \A i \in FirstNamed(t.fs, name) : i = j
    BY <2>2 DEF FirstNamed
  <2> QED BY <2>6, <2>7
<1> HIDE DEF t, name, front, W, u
<1>3. \A x : x \in LeanLocate(t, name, data, off) <=> \E w \in W : x = <<off + w, u>>
  <2> TAKE x
  <2>1. x \in LeanLocate(t, name, data, off) <=>
          \E i \in FirstNamed(t.fs, name) : \E w \in LeanEncodedWidth(Front(t, i), data, off) :
            x = <<off + w, t.fs[i].ty>>
    <3>1. x \in LeanLocate(t, name, data, off) <=>
            x \in UNION {{<<off + w, t.fs[i].ty>> :
                            w \in LeanEncodedWidth(Front(t, i), data, off)} :
                           i \in FirstNamed(t.fs, name)}
      BY ONLY DEF LeanLocate, Front
    <3> QED BY ONLY <3>1
  <2>2. t.fs[j].ty = u /\ LeanEncodedWidth(Front(t, j), data, off) = W
    BY <1>1 DEF W, u
  <2> QED BY <1>2, <2>1, <2>2
<1> QED BY <1>3 DEF BehindFront, t, name, front, W, u

\* A checked field of a value Borsh decodes is read as it decodes it, or not at
\* all; and it is read if the walk steps over the fields in front.
LEMMA ReadIsBorsh ==
    ASSUME NEW data, Buffer(data), NEW fs, StructOf(fs) \in Ty, NEW off \in Nat,
           \A i, m \in DOMAIN fs : fs[i].name = fs[m].name => i = m,
           NEW b \in Decode(StructOf(fs), data, off),
           NEW j \in DOMAIN Descriptor(fs).fs, Checkable(fs[j].ty)
    PROVE  /\ ReadField(Descriptor(fs), fs[j].name, data, off) \subseteq {b[1][j]}
           /\ \A S : Steppable(S) /\ (\A i \in 1..j - 1 : fs[i].ty \in S) =>
                ReadField(Descriptor(fs), fs[j].name, data, off) = {b[1][j]}
<1> DEFINE t     == Descriptor(fs)
           name  == fs[j].name
           front == StructOf(SubSeq(fs, 1, j - 1))
           W     == LeanEncodedWidth(front, data, off)
           u     == fs[j].ty
<1>1. /\ t \in Ty /\ t.k = "struct"
      /\ j \in 1..Len(fs) /\ Len(fs) \in Nat /\ DOMAIN fs = 1..Len(fs)
      /\ t.fs[j] = fs[j] /\ u \in Ty
      /\ Front(t, j) = front
  BY FrontOfDescriptor
<1>2. data \in Bytes
  BY DEF Buffer
<1>3. \A x : x \in LeanLocate(t, name, data, off) <=> \E w \in W : x = <<off + w, u>>
  <2>1. Distinct(fs) /\ StructOf(fs) \in Ty /\ j \in DOMAIN Descriptor(fs).fs
    BY DEF Distinct
  <2>2. BehindFront(fs, data, off, j)
    BY ONLY <2>1, LocatedAt
  <2> QED BY <2>2 DEF BehindFront
<1> HIDE DEF front
<1>4. W \subseteq Nat
  <2>1. front \in Ty
    BY <1>1, FieldInFront
  <2> QED BY <1>2, <2>1, WidthType
<1>5. ReadField(t, name, data, off) = LeanReadField(t, name, data, off)
  <2> HIDE DEF t, name
  <2> QED BY <1>1, FieldAlike
<1> HIDE DEF t, name, W, u
<1>6. \A a : a \in LeanReadField(t, name, data, off) <=> \E w \in W : a \in ReadVal(u, data, off + w)
  <2> TAKE a
  <2>1. a \in LeanReadField(t, name, data, off)
          <=> \E x \in LeanLocate(t, name, data, off) : a \in ReadVal(x[2], data, x[1])
    BY <1>1, LeanFieldReads
  <2> DEFINE L == LeanLocate(t, name, data, off)
             V(x) == ReadVal(x[2], data, x[1])
  <2>2. \A w : V(<<off + w, u>>) = ReadVal(u, data, off + w)
    OBVIOUS
  <2>3. (\E x \in L : a \in V(x)) <=> \E w \in W : a \in V(<<off + w, u>>)
    <3> HIDE DEF V
    <3> QED BY <1>3
  <2> HIDE DEF L
  <2> QED BY <2>1, <2>2, <2>3 DEF L
<1>7. \A w \in W : b[1][j] \in ReadVal(u, data, off + w) /\ \A a \in ReadVal(u, data, off + w) : a = b[1][j]
  <2> TAKE w \in W
  <2>1. off + w \in Nat
    BY <1>4
  <2>2. PICK y \in Decode(u, data, off + w) : b[1][j] = y[1]
    BY <1>1, <1>2, FieldIsBorsh DEF W, front, u
  <2>3. Checkable(u)
    BY DEF u
  <2> QED BY <1>1, <1>2, <2>1, <2>2, <2>3, ReadValIsBorsh
<1>8. ReadField(t, name, data, off) \subseteq {b[1][j]}
  BY <1>5, <1>6, <1>7
<1>9. ASSUME NEW S, Steppable(S), \A i \in 1..j - 1 : fs[i].ty \in S
       PROVE  ReadField(t, name, data, off) = {b[1][j]}
  <2>1. W # {}
    BY <1>1, <1>2, <1>9, FieldIsBorsh DEF W, front
  <2> QED BY <1>5, <1>6, <1>7, <2>1
<1> QED BY <1>8, <1>9 DEF t, name

\* A type has a descriptor when its kind and its elements have.
MappedStep(f, u) ==
    CASE u.k \in {"vec", "option"}   -> f[u.of]
      [] u.k = "array"               -> u.literal /\ f[u.of]
      [] u.k \in {"other", "struct"} -> FALSE
      [] OTHER                       -> TRUE
Mapping(f) == f = [u \in Ty |-> MappedStep(f, u)]

LEMMA MappedLocal ==
    ASSUME NEW f, NEW g, NEW u \in Ty, \A v \in Parts(u) : f[v] = g[v]
    PROVE  MappedStep(f, u) = MappedStep(g, u)
<1>1. u.k \in {"vec", "option", "array"} => f[u.of] = g[u.of]
  BY Rows
<1>2. CASE u.k \in {"vec", "option"}
  BY <1>1, <1>2 DEF MappedStep
<1>3. CASE u.k = "array"
  BY <1>1, <1>3 DEF MappedStep
<1>4. CASE u.k \notin {"vec", "option", "array"}
  BY <1>4 DEF MappedStep
<1> QED BY <1>2, <1>3, <1>4

LEMMA MappingRound ==
    ASSUME NEW f, NEW g, NEW h,
           \A u \in Ty : g[u] = MappedStep(f, u), \A u \in Ty : h[u] = MappedStep(g, u)
    PROVE  Round(f, g, h)
BY MappedLocal DEF Round

LEMMA MappingExists == \E f : Mapping(f)
<1> DEFINE f0 == [u \in Ty |-> FALSE]
           f1 == [u \in Ty |-> MappedStep(f0, u)]
           f2 == [u \in Ty |-> MappedStep(f1, u)]
           f3 == [u \in Ty |-> MappedStep(f2, u)]
           f4 == [u \in Ty |-> MappedStep(f3, u)]
           f5 == [u \in Ty |-> MappedStep(f4, u)]
<1>1. \A u \in Ty : f1[u] = MappedStep(f0, u)
  <2> HIDE DEF f0
  <2> QED OBVIOUS
<1>2. \A u \in Ty : f2[u] = MappedStep(f1, u)
  <2> HIDE DEF f1
  <2> QED OBVIOUS
<1>3. \A u \in Ty : f3[u] = MappedStep(f2, u)
  <2> HIDE DEF f2
  <2> QED OBVIOUS
<1>4. \A u \in Ty : f4[u] = MappedStep(f3, u)
  <2> HIDE DEF f3
  <2> QED OBVIOUS
<1>5. \A u \in Ty : f5[u] = MappedStep(f4, u)
  <2> HIDE DEF f4
  <2> QED OBVIOUS
<1>6. f4 = [u \in Ty |-> f4[u]]
  <2> HIDE DEF f3
  <2> QED OBVIOUS
<1> HIDE DEF f0, f1, f2, f3, f4, f5
<1>7. Round(f0, f1, f2) /\ Round(f1, f2, f3) /\ Round(f2, f3, f4) /\ Round(f3, f4, f5)
  BY <1>1, <1>2, <1>3, <1>4, <1>5, MappingRound
<1>8. \A u \in Ty : f4[u] = f5[u]
  BY <1>7, FourRounds
<1>9. \A u \in Ty : f4[u] = MappedStep(f4, u)
  BY <1>5, <1>8
<1>10. f4 = [u \in Ty |-> MappedStep(f4, u)]
  BY <1>6, <1>9
<1> QED BY <1>10 DEF Mapping

LEMMA MappedIs ==
    ASSUME NEW u \in Ty
    PROVE  /\ Mapped(u) => u.k \notin {"other", "struct"}
           /\ Mapped(u) /\ u.k \in {"vec", "option", "array"} => Mapped(u.of)
<1> DEFINE f == CHOOSE g : Mapping(g)
<1>1. Mapping(f)
  BY MappingExists
<1>2. \A t : Mapped(t) = f[t]
  BY DEF Mapped, Mapping, MappedStep
<1> HIDE DEF f
<1>3. f[u] = MappedStep(f, u)
  BY <1>1 DEF Mapping
<1> QED BY <1>2, <1>3 DEF MappedStep
-----------------------------------------------------------------------------
(***************************************************************************)
(* Structs of one and of two fields: what they are decoded as, how wide    *)
(* they are, what is read of them.                                         *)
(***************************************************************************)

\* A number or a key is decoded as what it is read as.
LEMMA DecodeScalarIs ==
    ASSUME NEW data \in Bytes, NEW u \in Ty, NEW o \in Nat
    PROVE  /\ u.k \in {"uint", "int"} =>
                Decode(u, data, o) = {<<v, o + u.w>> : v \in ReadVal(u, data, o)}
           /\ u.k = "pubkey" =>
                Decode(u, data, o) = {<<v, o + KeyLen>> : v \in ReadVal(u, data, o)}
<1>1. PICK f : \A t \in Ty : \A p \in Nat : /\ Decode(t, data, p) = f[t][p]
                                           /\ f[t][p] = DecodedAt(f, data, t, p)
  BY Decodes
<1>2. Decode(u, data, o) = DecodedAt(f, data, u, o)
  BY <1>1
<1> QED BY <1>2 DEF DecodedAt

LEMMA DecodeOne ==
    ASSUME NEW data \in Bytes, NEW fs, StructOf(fs) \in Ty, Len(fs) = 1, NEW o \in Nat, NEW b
    PROVE  b \in Decode(StructOf(fs), data, o) <=>
             \E y \in Decode(fs[1].ty, data, o) : b = << <<y[1]>>, y[2]>>
<1> DEFINE s == StructOf(fs)
           ts == Types(fs)
<1>1. PICK f : \A t \in Ty : \A p \in Nat : /\ Decode(t, data, p) = f[t][p]
                                           /\ f[t][p] = DecodedAt(f, data, t, p)
  BY Decodes
<1>2. s \in Ty /\ s.k = "struct" /\ s.fs = fs
  BY DEF StructOf
<1>3. Len(fs) \in Nat /\ DOMAIN fs = 1..Len(fs)
  BY <1>2, FormedTypes DEF Formed
<1>4. Len(ts) = 1 /\ ts[1] = fs[1].ty /\ ts[1] \in Ty
  BY <1>2, <1>3, TypesOfStruct, PartsAreTypes, Rows DEF RowOf
<1>5. Decode(s, data, o) = Row(f, ts, o)
  BY <1>1, <1>2, DecodedRow
<1> HIDE DEF s, ts
<1>6. PICK x : Row(f, ts, o) = x[1] /\ RowTrail(f, ts, o, x)
  <2>1. Len(ts) \in Nat
    BY <1>4
  <2>2. PICK x : Row(f, ts, o) = x[Len(ts)] /\ RowTrail(f, ts, o, x)
    BY <2>1, RowTrailIs
  <2> QED BY <1>4, <2>2
<1>60. /\ x[0] = {<< << >>, o>>}
       /\ \A i \in 1..1 : \A g : g \in x[i] <=> OneMore(f, ts[i], x[i - 1], g)
  BY <1>4, <1>6 DEF RowTrail
<1>7. b \in x[1] <=> OneMore(f, ts[1], {<< << >>, o>>}, b)
  <2>1. 1 \in 1..1 /\ 1 - 1 = 0
    OBVIOUS
  <2> QED BY <1>60, <2>1
<1>8. b \in x[1] <=> \E y \in f[ts[1]][o] : b = <<Append(<< >>, y[1]), y[2]>>
  BY <1>7 DEF OneMore
<1>9. \A v : Append(<< >>, v) = <<v>>
  OBVIOUS
<1> QED BY <1>1, <1>4, <1>5, <1>6, <1>8, <1>9 DEF s

LEMMA DecodePair ==
    ASSUME NEW data \in Bytes, NEW fs, StructOf(fs) \in Ty, Len(fs) = 2, NEW o \in Nat,
           \A y \in Decode(fs[1].ty, data, o) : y[2] \in Nat, NEW b
    PROVE  b \in Decode(StructOf(fs), data, o) <=>
             \E y \in Decode(fs[1].ty, data, o) : \E z \in Decode(fs[2].ty, data, y[2]) :
               b = << <<y[1], z[1]>>, z[2]>>
<1> DEFINE s == StructOf(fs)
           ts == Types(fs)
<1>1. PICK f : \A t \in Ty : \A p \in Nat : /\ Decode(t, data, p) = f[t][p]
                                           /\ f[t][p] = DecodedAt(f, data, t, p)
  BY Decodes
<1>2. s \in Ty /\ s.k = "struct" /\ s.fs = fs
  BY DEF StructOf
<1>3. Len(fs) \in Nat /\ DOMAIN fs = 1..Len(fs)
  BY <1>2, FormedTypes DEF Formed
<1>4. Len(ts) = 2 /\ ts[1] = fs[1].ty /\ ts[2] = fs[2].ty /\ ts[1] \in Ty /\ ts[2] \in Ty
  BY <1>2, <1>3, TypesOfStruct, PartsAreTypes, Rows DEF RowOf
<1>5. Decode(s, data, o) = Row(f, ts, o)
  BY <1>1, <1>2, DecodedRow
<1> HIDE DEF s, ts
<1>6. PICK x : Row(f, ts, o) = x[2] /\ RowTrail(f, ts, o, x)
  <2>1. Len(ts) \in Nat
    BY <1>4
  <2>2. PICK x : Row(f, ts, o) = x[Len(ts)] /\ RowTrail(f, ts, o, x)
    BY <2>1, RowTrailIs
  <2> QED BY <1>4, <2>2
<1>60. /\ x[0] = {<< << >>, o>>}
       /\ \A i \in 1..2 : \A g : g \in x[i] <=> OneMore(f, ts[i], x[i - 1], g)
  BY <1>4, <1>6 DEF RowTrail
<1>7. \A g : g \in x[1] <=> OneMore(f, ts[1], {<< << >>, o>>}, g)
  <2>1. 1 \in 1..2 /\ 1 - 1 = 0
    OBVIOUS
  <2> QED BY <1>60, <2>1
<1>8. \A g : g \in x[1] <=> \E y \in f[ts[1]][o] : g = <<Append(<< >>, y[1]), y[2]>>
  BY <1>7 DEF OneMore
<1>9. \A v : Append(<< >>, v) = <<v>>
  OBVIOUS
<1>10. \A g : g \in x[1] <=> \E y \in Decode(ts[1], data, o) : g = << <<y[1]>>, y[2]>>
  BY <1>1, <1>4, <1>8, <1>9
<1>11. b \in x[2] <=> OneMore(f, ts[2], x[1], b)
  <2>1. 2 \in 1..2 /\ 2 - 1 = 1
    OBVIOUS
  <2> QED BY <1>60, <2>1
<1>12. b \in x[2] <=> \E g \in x[1] : \E z \in f[ts[2]][g[2]] : b = <<Append(g[1], z[1]), z[2]>>
  BY <1>11 DEF OneMore
<1>13. \A v, w : Append(<<v>>, w) = <<v, w>>
  <2> TAKE v, w
  <2> DEFINE q == Append(<<v>>, w)
  <2>1. <<v>> \in Seq({v})
    OBVIOUS
  <2>2. Len(<<v>>) = 1 /\ <<v>>[1] = v
    OBVIOUS
  <2>3. Appended(<<v>>, w)
    BY <2>1, AppendIs
  <2>4. PICK W : q \in Seq(W)
    BY <2>3 DEF Appended
  <2>5. Len(q) = 2 /\ q[1] = v /\ q[2] = w
    BY <2>2, <2>3 DEF Appended
  <2> HIDE DEF q
  <2>6. q = [k \in 1..2 |-> q[k]]
    BY <2>4, <2>5
  <2>7. <<v, w>> = [k \in 1..2 |-> <<v, w>>[k]]
    OBVIOUS
  <2>8. q = <<v, w>>
    BY <2>5, <2>6, <2>7
  <2> QED BY <2>8 DEF q
<1>14. b \in x[2] <=> \E y \in Decode(ts[1], data, o) : \E z \in f[ts[2]][y[2]] :
                       b = << <<y[1], z[1]>>, z[2]>>
  <2>1. ASSUME NEW y \in Decode(ts[1], data, o), NEW z \in f[ts[2]][y[2]],
               b = << <<y[1], z[1]>>, z[2]>>
        PROVE  b \in x[2]
    <3>1. << <<y[1]>>, y[2]>> \in x[1]
      BY <1>10
    <3> QED BY <1>12, <1>13, <2>1, <3>1
  <2>2. ASSUME b \in x[2]
        PROVE  \E y \in Decode(ts[1], data, o) : \E z \in f[ts[2]][y[2]] :
                 b = << <<y[1], z[1]>>, z[2]>>
    <3>1. PICK g \in x[1] : \E z \in f[ts[2]][g[2]] : b = <<Append(g[1], z[1]), z[2]>>
      BY <1>12, <2>2
    <3>2. PICK y \in Decode(ts[1], data, o) : g = << <<y[1]>>, y[2]>>
      BY <1>10
    <3> QED BY <1>13, <3>1, <3>2
  <2> QED BY <2>1, <2>2
<1>15. \A y \in Decode(ts[1], data, o) : f[ts[2]][y[2]] = Decode(ts[2], data, y[2])
  BY <1>1, <1>4
<1> QED BY <1>4, <1>5, <1>6, <1>14, <1>15 DEF s

\* What the second field of a struct is stepped to.
LEMMA WidthOfOne ==
    ASSUME NEW data \in Bytes, NEW fs, StructOf(fs) \in Ty, Len(fs) = 1, NEW o \in Nat,
           NEW w \in EncodedWidth(StructOf(fs), data, o)
    PROVE  w \in EncodedWidth(fs[1].ty, data, o)
<1> DEFINE s == StructOf(fs)
           ts == Types(fs)
<1>1. PICK f : \A u \in Ty : Wide(FALSE, data, f, u)
  BY Widths
<1>2. s \in Ty /\ s.k = "struct" /\ s.fs = fs
  BY DEF StructOf
<1>3. Len(fs) \in Nat /\ DOMAIN fs = 1..Len(fs)
  BY <1>2, FormedTypes DEF Formed
<1>4. Len(ts) = 1 /\ ts[1] = fs[1].ty /\ ts[1] \in Parts(s) /\ ts[1] \in Ty
  BY <1>2, <1>3, TypesOfStruct, PartsAreTypes, Rows DEF RowOf
<1>5. EncodedWidth(s, data, o) = Walk(Inside(f), ts, o, 0)
  <2>1. Width(FALSE, s, data, o) = Measure(FALSE, f, data, s, o)
    BY <1>1, <1>2 DEF Wide
  <2>2. Measure(FALSE, f, data, s, o) = Walk(Loop(FALSE, f), Types(s.fs), o, 0)
    BY <1>2, MeasureStruct
  <2>3. Width(FALSE, s, data, o) = EncodedWidth(s, data, o) /\ Loop(FALSE, f) = Inside(f)
    BY DEF Width, Loop
  <2> QED BY <1>2, <2>1, <2>2, <2>3
<1> HIDE DEF s, ts
<1>6. PICK x : Walk(Inside(f), ts, o, 0) = x[1] /\ Trail(Inside(f), ts, o, 0, x)
  <2>1. Len(ts) \in Nat
    BY <1>4
  <2>2. PICK x : Walk(Inside(f), ts, o, 0) = x[Len(ts)] /\ Trail(Inside(f), ts, o, 0, x)
    BY <2>1, WalkTrail
  <2> QED BY <1>4, <2>2
<1>7. \E a \in {0} : \E y \in Inside(f)[ts[1]][o + a] : w = a + y
  BY <1>4, <1>5, <1>6 DEF Trail, s
<1>8. o + 0 = o
  OBVIOUS
<1>9. PICK y \in Inside(f)[ts[1]][o] : w = 0 + y
  BY <1>7, <1>8
<1>10. y \in f[ts[1]][o]
  BY <1>2, <1>4, <1>9, InsideIs DEF s
<1>11. y \in EncodedWidth(ts[1], data, o) /\ y \in Nat
  BY <1>1, <1>4, <1>10 DEF Wide, Width
<1> QED BY <1>4, <1>9, <1>11

LEMMA WidthOfScalar ==
    ASSUME NEW data \in Bytes, NEW u \in Ty, NEW o \in Nat
    PROVE  /\ u.k = "pubkey" => EncodedWidth(u, data, o) = {KeyLen}
           /\ u.k = "string" =>
                EncodedWidth(u, data, o) = {PrefixLen + n : n \in
                  {m \in ReadUIntLE(data, o, PrefixLen) : o + PrefixLen + m <= Len(data)}}
<1>1. PICK f : \A t \in Ty : Wide(FALSE, data, f, t)
  BY Widths
<1>2. EncodedWidth(u, data, o) = Measure(FALSE, f, data, u, o)
  BY <1>1 DEF Wide, Width
<1>0. FALSE \in BOOLEAN
  OBVIOUS
<1>3. ASSUME u.k = "pubkey" PROVE Measure(FALSE, f, data, u, o) = {KeyLen}
  <2>1. u.k \notin {"string", "struct", "vec", "option"}
    BY <1>3
  <2>2. Measure(FALSE, f, data, u, o) = ByteSize(u)
    BY <1>0, <2>1, MeasureFixed
  <2> QED BY <1>3, <2>2, SizeOfScalar
<1>5. ASSUME u.k = "string"
      PROVE  Measure(FALSE, f, data, u, o) =
               {PrefixLen + n : n \in {m \in ReadUIntLE(data, o, PrefixLen) :
                                         o + PrefixLen + m <= Len(data)}}
  <2>1. Measure(FALSE, f, data, u, o) = WidthAt(f, data, u, o)
    BY DEF Measure
  <2>2. WidthAt(f, data, u, o) =
          {PrefixLen + n : n \in {m \in ReadUIntLE(data, o, PrefixLen) :
                                    o + PrefixLen + m <= Len(data)}}
    BY <1>5 DEF WidthAt
  <2> QED BY <2>1, <2>2
<1> QED BY <1>2, <1>3, <1>5

LEMMA WidthOfNone ==
    ASSUME NEW data \in Bytes, NEW fs, StructOf(fs) \in Ty, Len(fs) = 0, NEW o \in Nat,
           NEW w \in EncodedWidth(StructOf(fs), data, o)
    PROVE  w = 0
<1> DEFINE s == StructOf(fs)
           ts == Types(fs)
<1>1. PICK f : \A u \in Ty : Wide(FALSE, data, f, u)
  BY Widths
<1>2. s \in Ty /\ s.k = "struct" /\ s.fs = fs
  BY DEF StructOf
<1>3. Len(ts) = 0
  BY <1>2, TypesOfStruct
<1>4. EncodedWidth(s, data, o) = Walk(Inside(f), ts, o, 0)
  <2>1. Width(FALSE, s, data, o) = Measure(FALSE, f, data, s, o)
    BY <1>1, <1>2 DEF Wide
  <2>2. Measure(FALSE, f, data, s, o) = Walk(Loop(FALSE, f), Types(s.fs), o, 0)
    BY <1>2, MeasureStruct
  <2>3. Width(FALSE, s, data, o) = EncodedWidth(s, data, o) /\ Loop(FALSE, f) = Inside(f)
    BY DEF Width, Loop
  <2> QED BY <1>2, <2>1, <2>2, <2>3
<1> HIDE DEF ts
<1>5. PICK x : Walk(Inside(f), ts, o, 0) = x[Len(ts)] /\ Trail(Inside(f), ts, o, 0, x)
  <2>1. Len(ts) \in Nat
    BY <1>3
  <2> QED BY <2>1, WalkTrail
<1>6. x[0] = {0}
  BY <1>5 DEF Trail
<1> QED BY <1>3, <1>4, <1>5, <1>6

\* What a check reads of a field is behind the fields in front of it.
LEMMA ReadBehind ==
    ASSUME NEW data \in Bytes, NEW fs, StructOf(fs) \in Ty, NEW o \in Nat, NEW name,
           NEW x \in ReadField(Descriptor(fs), name, data, o)
    PROVE  \E j \in DOMAIN fs : /\ fs[j].name = name
                                /\ \E w \in EncodedWidth(StructOf(SubSeq(fs, 1, j - 1)), data, o) :
                                     x \in ReadVal(fs[j].ty, data, o + w)
<1> DEFINE t == Descriptor(fs)
<1>1. t.k = "struct"
  BY DescriptorType
<1>2. PICK at \in Locate(t, <<name>>, data, o) : x \in ReadVal(at[2], data, at[1])
  BY DEF ReadField
<1>3. PICK j \in FirstNamed(t.fs, name) :
        \E w \in EncodedWidth(Front(t, j), data, o) : at = <<o + w, t.fs[j].ty>>
  <2> HIDE DEF t
  <2> QED BY <1>1, <1>2, LocateIs
<1>4. PICK w \in EncodedWidth(Front(t, j), data, o) : at = <<o + w, t.fs[j].ty>>
  BY <1>3
<1>5. j \in DOMAIN t.fs /\ t.fs[j].name = name
  BY <1>3 DEF FirstNamed
<1>6. /\ Front(t, j) = StructOf(SubSeq(fs, 1, j - 1)) /\ t.fs[j] = fs[j]
      /\ j \in 1..Len(fs) /\ DOMAIN fs = 1..Len(fs)
  BY <1>5, FrontOfDescriptor
<1> HIDE DEF t
<1>7. at[1] = o + w /\ at[2] = fs[j].ty
  BY <1>4, <1>6
<1> QED BY <1>2, <1>4, <1>5, <1>6, <1>7

LEMMA ReadPair ==
    ASSUME NEW data \in Bytes, NEW fs, StructOf(fs) \in Ty, Len(fs) = 2, NEW o \in Nat, NEW name,
           NEW x \in ReadField(Descriptor(fs), name, data, o)
    PROVE  \/ name = fs[1].name /\ x \in ReadVal(fs[1].ty, data, o)
           \/ /\ name = fs[2].name
              /\ \E w \in EncodedWidth(fs[1].ty, data, o) : x \in ReadVal(fs[2].ty, data, o + w)
<1>1. PICK j \in DOMAIN fs : /\ fs[j].name = name
                             /\ \E w \in EncodedWidth(StructOf(SubSeq(fs, 1, j - 1)), data, o) :
                                  x \in ReadVal(fs[j].ty, data, o + w)
  BY ReadBehind
<1>2. StructOf(fs).k = "struct" /\ StructOf(fs).fs = fs
  BY DEF StructOf
<1>3. DOMAIN fs = 1..2
  BY <1>2, FormedTypes DEF Formed
<1>4. PICK w \in EncodedWidth(StructOf(SubSeq(fs, 1, j - 1)), data, o) :
        x \in ReadVal(fs[j].ty, data, o + w)
  BY <1>1
<1>5. CASE j = 1
  <2>1. StructOf(SubSeq(fs, 1, 0)) \in Ty /\ Len(SubSeq(fs, 1, 0)) = 0
    <3>1. 0 \in 0..Len(StructOf(fs).fs)
      BY <1>2
    <3> QED BY <1>2, <3>1, Prefix
  <2>2. j - 1 = 0
    BY <1>5
  <2>3. w = 0
    BY <1>4, <2>1, <2>2, WidthOfNone
  <2>4. o + w = o
    BY <2>3
  <2> QED BY <1>1, <1>4, <1>5, <2>4
<1>6. CASE j = 2
  <2>1. /\ StructOf(SubSeq(fs, 1, 1)) \in Ty /\ Len(SubSeq(fs, 1, 1)) = 1
        /\ SubSeq(fs, 1, 1)[1] = fs[1]
    BY <1>2, Prefix
  <2>2. j - 1 = 1
    BY <1>6
  <2>3. w \in EncodedWidth(fs[1].ty, data, o)
    BY <1>4, <2>1, <2>2, WidthOfOne
  <2> QED BY <1>1, <1>4, <1>6, <2>3
<1> QED BY <1>3, <1>5, <1>6

\* What is stored in the field of that name of an account of fields fs.
Content(fs, data, n) ==
    LET j == CHOOSE j \in DOMAIN fs : fs[j].name = n
    IN  {x[1][j] : x \in Decode(StructOf(fs), data, DiscLen)}

LEMMA ContentOne ==
    ASSUME NEW data \in Bytes, NEW fs, StructOf(fs) \in Ty, Len(fs) = 1, NEW v
    PROVE  v \in Content(fs, data, fs[1].name) <=>
             \E y \in Decode(fs[1].ty, data, DiscLen) : v = y[1]
<1> DEFINE D == Decode(StructOf(fs), data, DiscLen)
           E == Decode(fs[1].ty, data, DiscLen)
<1>1. StructOf(fs).k = "struct" /\ StructOf(fs).fs = fs /\ DiscLen \in Nat
  BY LayoutAssumption DEF StructOf
<1>2. DOMAIN fs = 1..1
  BY <1>1, FormedTypes DEF Formed
<1>3. (CHOOSE j \in DOMAIN fs : fs[j].name = fs[1].name) = 1
  BY <1>2
<1>4. Content(fs, data, fs[1].name) = {x[1][1] : x \in D}
  BY <1>3 DEF Content
<1>5. \A b : b \in D <=> \E y \in E : b = << <<y[1]>>, y[2]>>
  BY <1>1, DecodeOne
<1> HIDE DEF D, E
<1>6. v \in {x[1][1] : x \in D} <=> \E x \in D : v = x[1][1]
  OBVIOUS
<1>7. (\E x \in D : v = x[1][1]) <=> \E y \in E : v = y[1]
  <2>1. ASSUME NEW x \in D, v = x[1][1] PROVE \E y \in E : v = y[1]
    BY <1>5, <2>1
  <2>2. ASSUME NEW y \in E, v = y[1] PROVE \E x \in D : v = x[1][1]
    <3>1. << <<y[1]>>, y[2]>> \in D /\ << <<y[1]>>, y[2]>>[1][1] = y[1]
      BY <1>5
    <3> QED BY <2>2, <3>1
  <2> QED BY <2>1, <2>2
<1> QED BY <1>4, <1>6, <1>7 DEF E

FirstOfPair(fs, data, v) ==
    \E y \in Decode(fs[1].ty, data, DiscLen) : Decode(fs[2].ty, data, y[2]) # {} /\ v = y[1]
SecondOfPair(fs, data, v) ==
    \E y \in Decode(fs[1].ty, data, DiscLen) : \E z \in Decode(fs[2].ty, data, y[2]) : v = z[1]

LEMMA ContentPair ==
    ASSUME NEW data \in Bytes, NEW fs, StructOf(fs) \in Ty, Len(fs) = 2,
           fs[1].name # fs[2].name, NEW v,
           \A y \in Decode(fs[1].ty, data, DiscLen) : y[2] \in Nat
    PROVE  /\ v \in Content(fs, data, fs[1].name) <=> FirstOfPair(fs, data, v)
           /\ v \in Content(fs, data, fs[2].name) <=> SecondOfPair(fs, data, v)
<1> DEFINE D == Decode(StructOf(fs), data, DiscLen)
           E == Decode(fs[1].ty, data, DiscLen)
           F(o) == Decode(fs[2].ty, data, o)
<1>1. StructOf(fs).k = "struct" /\ StructOf(fs).fs = fs /\ DiscLen \in Nat
  BY LayoutAssumption DEF StructOf
<1>2. DOMAIN fs = 1..2
  BY <1>1, FormedTypes DEF Formed
<1>3. /\ (CHOOSE j \in DOMAIN fs : fs[j].name = fs[1].name) = 1
      /\ (CHOOSE j \in DOMAIN fs : fs[j].name = fs[2].name) = 2
  <2>1. \A j \in DOMAIN fs : j = 1 \/ j = 2
    BY <1>2
  <2> QED BY <1>2, <2>1
<1>4. /\ Content(fs, data, fs[1].name) = {x[1][1] : x \in D}
      /\ Content(fs, data, fs[2].name) = {x[1][2] : x \in D}
  BY <1>3 DEF Content
<1>5. \A b : b \in D <=> \E y \in E : \E z \in F(y[2]) : b = << <<y[1], z[1]>>, z[2]>>
  BY <1>1, DecodePair
<1> HIDE DEF D, E, F
<1>6. ASSUME NEW y \in E, NEW z \in F(y[2])
      PROVE  \E x \in D : x[1][1] = y[1] /\ x[1][2] = z[1]
  <2> DEFINE x == << <<y[1], z[1]>>, z[2]>>
  <2>1. x \in D
    BY <1>5
  <2>2. x[1][1] = y[1] /\ x[1][2] = z[1]
    OBVIOUS
  <2> HIDE DEF x
  <2> QED BY <2>1, <2>2
<1>7. ASSUME NEW x \in D
      PROVE  \E y \in E : \E z \in F(y[2]) : x[1][1] = y[1] /\ x[1][2] = z[1]
  <2>1. PICK y \in E : \E z \in F(y[2]) : x = << <<y[1], z[1]>>, z[2]>>
    BY <1>5
  <2> QED BY <2>1
<1>8. v \in {x[1][1] : x \in D} <=> \E y \in E : F(y[2]) # {} /\ v = y[1]
  <2>1. v \in {x[1][1] : x \in D} <=> \E x \in D : v = x[1][1]
    OBVIOUS
  <2>2. ASSUME NEW x \in D, v = x[1][1] PROVE \E y \in E : F(y[2]) # {} /\ v = y[1]
    BY <1>7, <2>2
  <2>3. ASSUME NEW y \in E, F(y[2]) # {}, v = y[1] PROVE \E x \in D : v = x[1][1]
    <3>1. PICK z : z \in F(y[2])
      BY <2>3
    <3> QED BY <1>6, <2>3, <3>1
  <2> QED BY <2>1, <2>2, <2>3
<1>9. v \in {x[1][2] : x \in D} <=> \E y \in E : \E z \in F(y[2]) : v = z[1]
  BY <1>6, <1>7
<1> QED BY <1>4, <1>8, <1>9 DEF E, F, FirstOfPair, SecondOfPair

-----------------------------------------------------------------------------
(* The fields one after the other.                                         *)

\* A row of fewer values is the longer row up to there.
LEMMA RowOfFront ==
    ASSUME NEW d, NEW types, NEW ts, Through(types, ts), NEW from,
           NEW x, RowTrail(d, types, from, x)
    PROVE  \A b : b \in Row(d, ts, from) <=> b \in x[Len(ts)]
<1> DEFINE n == Len(ts)
<1>0. n \in Nat
  BY DEF Through
<1>1. PICK z : Row(d, ts, from) = z[n] /\ RowTrail(d, ts, from, z)
  BY <1>0, RowTrailIs
<1>2. /\ x[0] = {<< << >>, from>>} /\ z[0] = {<< << >>, from>>}
      /\ \A i \in 1..n : \A b : b \in x[i] <=> OneMore(d, ts[i], x[i - 1], b)
      /\ \A i \in 1..n : \A b : b \in z[i] <=> OneMore(d, ts[i], z[i - 1], b)
  <2>1. \A i \in 1..n : i \in 1..Len(types) /\ ts[i] = types[i]
    BY DEF Through
  <2> QED BY <1>1, <2>1 DEF RowTrail
<1> DEFINE S == {i \in 0..n : \A b : b \in z[i] <=> b \in x[i]}
<1>3. 0 \in S
  <2>1. 0 \in 0..n
    BY <1>0
  <2> QED BY <1>2, <2>1
<1>4. ASSUME NEW i \in 1..n, i - 1 \in S PROVE i \in S
  <2>1. \A b : b \in z[i - 1] <=> b \in x[i - 1]
    BY <1>4
  <2>2. \A b : OneMore(d, ts[i], x[i - 1], b) <=> OneMore(d, ts[i], z[i - 1], b)
    BY <2>1 DEF OneMore
  <2>3. \A b : b \in z[i] <=> b \in x[i]
    BY <1>2, <2>2
  <2>4. i \in 0..n
    BY <1>0
  <2> QED BY <2>3, <2>4
<1>5. n \in S
  <2> HIDE DEF S
  <2> QED BY <1>0, <1>3, <1>4, WalkInduction
<1> QED BY <1>1, <1>5

\* A row that is there has all its fronts.
LEMMA RowHasFronts ==
    ASSUME NEW d, NEW types, Len(types) \in Nat, NEW from,
           NEW x, RowTrail(d, types, from, x), x[Len(types)] # {}
    PROVE  \A i \in 0..Len(types) : x[i] # {}
<1> DEFINE n == Len(types)
           S == {i \in 0..n : x[i] # {} => \A k \in 0..i : x[k] # {}}
<1>1. \A i \in 1..n : x[i] # {} => x[i - 1] # {}
  BY DEF RowTrail, OneMore
<1>2. 0 \in S
  <2>1. 0 \in 0..n /\ \A k \in 0..0 : k = 0
    OBVIOUS
  <2> QED BY <2>1
<1>3. ASSUME NEW i \in 1..n, i - 1 \in S PROVE i \in S
  <2>1. \A k \in 0..i : k = i \/ k \in 0..i - 1
    OBVIOUS
  <2>2. x[i] # {} => \A k \in 0..i - 1 : x[k] # {}
    BY <1>1, <1>3
  <2> QED BY <2>1, <2>2
<1>4. n \in S
  <2> HIDE DEF S
  <2> QED BY <1>2, <1>3, WalkInduction
<1> QED BY <1>4

\* What Borsh decodes of the first j - 1 and of the first j fields: the second is
\* the first and a value of field j from its end on, and the walk, if it gets
\* there, ends where the first does.
LEMMA FrontsDecode ==
    ASSUME NEW data \in Bytes, NEW fs, StructOf(fs) \in Ty, NEW off \in Nat,
           Decode(StructOf(fs), data, off) # {},
           NEW j \in 1..Len(fs), NEW F, F = Decode(StructOf(SubSeq(fs, 1, j - 1)), data, off),
           NEW U, U = Decode(StructOf(SubSeq(fs, 1, j)), data, off)
    PROVE  /\ F # {} /\ U # {}
           /\ \A y \in U : \E g \in F : \E z \in Decode(fs[j].ty, data, g[2]) : y[2] = z[2]
           /\ \A g \in F : /\ g[2] \in Nat
                           /\ \A w \in LeanEncodedWidth(StructOf(SubSeq(fs, 1, j - 1)), data, off) :
                                g[2] = off + w
<1> DEFINE t     == StructOf(fs)
           types == Types(fs)
           n     == Len(fs)
           part(i) == StructOf(SubSeq(fs, 1, i))
<1>1. t.k = "struct" /\ t.fs = fs
  BY DEF StructOf
<1>2. n \in Nat /\ DOMAIN fs = 1..n
  BY <1>1, FormedTypes DEF Formed
<1>3. PICK d, f : \A u \in Ty : Decoded(data, d, u) /\ LeanWide(data, f, u) /\ Lands(d, f, u)
  <2>1. \E d, f : /\ \A u \in Ty : /\ Decoded(data, d, u) /\ LeanWide(data, f, u)
                                   /\ Lands(d, f, u)
                  /\ \A S : Steppable(S) => \A u \in S : Steps(d, f, u)
    BY WalkIsBorsh
  <2> QED BY <2>1
<1>4. Len(types) = n /\ \A i \in 1..n : types[i] = fs[i].ty /\ fs[i].ty \in Ty
  <2> HIDE DEF t
  <2>1. /\ Len(Types(t.fs)) = Len(t.fs)
        /\ \A i \in 1..Len(Types(t.fs)) : /\ Types(t.fs)[i] \in Parts(t)
                                          /\ Types(t.fs)[i] = t.fs[i].ty
    BY <1>1, TypesOfStruct DEF t
  <2>2. Parts(t) \subseteq Ty
    BY PartsAreTypes DEF t
  <2> QED BY <1>1, <2>1, <2>2
<1>5. PICK x : Row(d, types, off) = x[Len(types)] /\ RowTrail(d, types, off, x)
  BY <1>2, <1>4, RowTrailIs
<1>6. ASSUME NEW i \in 0..n
      PROVE  part(i) \in Ty /\ \A b : b \in Decode(part(i), data, off) <=> b \in x[i]
  <2> DEFINE q  == SubSeq(fs, 1, i)
             ts == Types(q)
  <2>1. part(i) \in Ty /\ Len(q) = i /\ \A m \in 1..i : q[m] = fs[m]
    <3> HIDE DEF t
    <3>1. /\ StructOf(SubSeq(t.fs, 1, i)) \in Ty
          /\ Len(SubSeq(t.fs, 1, i)) = i
          /\ \A m \in 1..i : SubSeq(t.fs, 1, i)[m] = t.fs[m]
      BY <1>1, Prefix DEF t
    <3> QED BY <1>1, <3>1
  <2>2. part(i).k = "struct" /\ part(i).fs = q
    BY DEF StructOf
  <2> HIDE DEF part, q
  <2>3. Len(ts) = i /\ \A m \in 1..i : ts[m] = q[m].ty
    BY <2>1, <2>2, TypesOfStruct
  <2>4. Decode(part(i), data, off) = Row(d, ts, off)
    <3>1. Decode(part(i), data, off) = DecodedAt(d, data, part(i), off)
      BY <1>3, <2>1 DEF Decoded
    <3>2. DecodedAt(d, data, part(i), off) = Row(d, Types(part(i).fs), off)
      BY <2>2, DecodedRow
    <3> QED BY <2>2, <3>1, <3>2
  <2>5. Through(types, ts)
    <3>1. i \in Nat /\ i <= n /\ \A m \in 1..i : m \in 1..n
      BY <1>2
    <3> HIDE DEF types, ts, n
    <3>2. \A m \in 1..i : ts[m] = types[m]
      BY <1>4, <2>1, <2>3, <3>1
    <3> QED BY <1>2, <1>4, <2>3, <3>1, <3>2 DEF Through, n
  <2> HIDE DEF ts, types
  <2>6. \A b : b \in Row(d, ts, off) <=> b \in x[Len(ts)]
    BY <1>5, <2>5, RowOfFront
  <2> QED BY <2>1, <2>3, <2>4, <2>6
<1>7. x[n] # {}
  <2>1. Decode(t, data, off) = DecodedAt(d, data, t, off)
    BY <1>3 DEF Decoded
  <2>2. DecodedAt(d, data, t, off) = Row(d, types, off)
    <3> HIDE DEF t
    <3>1. DecodedAt(d, data, t, off) = Row(d, Types(t.fs), off)
      BY <1>1, DecodedRow
    <3> QED BY <1>1, <3>1
  <2> QED BY <1>4, <1>5, <2>1, <2>2
<1> HIDE DEF t, types
<1>8. \A i \in 0..n : x[i] # {}
  <2>1. x[Len(types)] # {} /\ Len(types) \in Nat
    BY <1>2, <1>4, <1>7
  <2>2. \A i \in 0..Len(types) : x[i] # {}
    BY ONLY <1>5, <2>1, RowHasFronts
  <2> QED BY <1>4, <2>2
<1>9. j \in 0..n /\ j - 1 \in 0..n /\ j \in 1..Len(types)
  BY <1>2, <1>4
<1>10. /\ \A b : b \in U <=> b \in x[j]
       /\ \A b : b \in F <=> b \in x[j - 1]
       /\ part(j - 1) \in Ty
  <2>1. U = Decode(part(j), data, off) /\ F = Decode(part(j - 1), data, off)
    OBVIOUS
  <2> HIDE DEF part
  <2> QED BY <1>6, <1>9, <2>1
<1>11. F # {} /\ U # {}
  BY <1>8, <1>9, <1>10
<1>12. ASSUME NEW g \in F
       PROVE  /\ g[2] \in Nat
              /\ \A w \in LeanEncodedWidth(part(j - 1), data, off) : g[2] = off + w
  <2>1. g \in Decode(part(j - 1), data, off)
    BY <1>12
  <2> HIDE DEF part
  <2>2. Lands(d, f, part(j - 1)) /\ LeanWide(data, f, part(j - 1)) /\ Decoded(data, d, part(j - 1))
    BY <1>3, <1>10
  <2>3. g \in d[part(j - 1)][off] /\ LeanEncodedWidth(part(j - 1), data, off) = f[part(j - 1)][off]
    BY <2>1, <2>2 DEF Decoded, LeanWide
  <2> QED BY <2>2, <2>3 DEF Lands
<1>13. ASSUME NEW y \in U
       PROVE  \E g \in F : \E z \in Decode(fs[j].ty, data, g[2]) : y[2] = z[2]
  <2>1. OneMore(d, types[j], x[j - 1], y)
    BY <1>5, <1>9, <1>10 DEF RowTrail
  <2>2. PICK g \in x[j - 1] : \E z \in d[types[j]][g[2]] : y = <<Append(g[1], z[1]), z[2]>>
    BY <2>1 DEF OneMore
  <2>3. PICK z \in d[types[j]][g[2]] : y = <<Append(g[1], z[1]), z[2]>>
    BY <2>2
  <2>4. g \in F /\ g[2] \in Nat
    BY <1>10, <1>12, <2>2
  <2>5. types[j] = fs[j].ty /\ fs[j].ty \in Ty
    BY <1>4
  <2>6. Decode(fs[j].ty, data, g[2]) = d[types[j]][g[2]]
    BY <1>3, <2>4, <2>5 DEF Decoded
  <2>7. y[2] = z[2]
    BY <2>3
  <2> QED BY <2>3, <2>4, <2>6, <2>7
<1> QED BY <1>11, <1>12, <1>13

\* A vector of bytes that Borsh decodes is within the data, behind its prefix.
LEMMA DecodedBytes ==
    ASSUME NEW data \in Bytes, NEW u \in Ty, u.k = "vec", u.of = [k |-> "uint", w |-> 1],
           NEW p \in Nat, NEW z \in Decode(u, data, p)
    PROVE  \E n \in LeanReadUIntLE(data, p, PrefixLen) :
             p + PrefixLen + n <= Len(data) /\ z[2] = p + (PrefixLen + n)
<1> DEFINE v == u.of
<1>1. v \in Ty /\ v.k = "uint" /\ v.w = 1 /\ PrefixLen \in Nat
      /\ LeanReadUIntLE(data, p, PrefixLen) \subseteq Nat /\ Len(data) \in Nat
  BY Rows, PartsAreTypes, LayoutAssumption, ReadType, BytesAre
<1>2. PICK d, f : \A t \in Ty : Decoded(data, d, t) /\ LeanWide(data, f, t) /\ Lands(d, f, t)
  <2>1. \E d, f : /\ \A t \in Ty : /\ Decoded(data, d, t) /\ LeanWide(data, f, t)
                                   /\ Lands(d, f, t)
                  /\ \A S : Steppable(S) => \A t \in S : Steps(d, f, t)
    BY WalkIsBorsh
  <2> QED BY <2>1
<1>3. z \in DecodedAt(d, data, u, p)
  BY <1>2 DEF Decoded
<1> DEFINE N == LeanReadUIntLE(data, p, PrefixLen)
<1>4. PICK n \in N : z \in Row(d, Copies(v, n), p + PrefixLen)
  <2>1. DecodedAt(d, data, u, p) = UNION {Row(d, Copies(v, n), p + PrefixLen) : n \in N}
    BY DecodedRow
  <2> HIDE DEF N, v
  <2> QED BY <1>3, <2>1
<1> DEFINE ts == Copies(v, n)
<1>5. n \in Nat /\ Len(ts) = n /\ \A i \in 1..n : ts[i] = v
  BY <1>1, TypesOfCopies
<1>6. PICK x : Row(d, ts, p + PrefixLen) = x[Len(ts)] /\ RowTrail(d, ts, p + PrefixLen, x)
  BY <1>5, RowTrailIs
<1>7. z \in x[n] /\ x[0] = {<< << >>, p + PrefixLen>>}
      /\ \A i \in 1..n : \A b : b \in x[i] <=> OneMore(d, v, x[i - 1], b)
  BY <1>4, <1>5, <1>6 DEF RowTrail
<1>8. p + PrefixLen <= Len(data)
  BY <1>4 DEF LeanReadUIntLE
<1> HIDE DEF ts, N, v
<1>9. \A q \in Nat : \A y \in d[v][q] : q + 1 <= Len(data) /\ y[2] = q + 1
  <2> TAKE q \in Nat
  <2> TAKE y \in d[v][q]
  <2>1. y \in DecodedAt(d, data, v, q)
    BY <1>1, <1>2 DEF Decoded
  <2>2. PICK a \in ReadVal(v, data, q) : y = <<a, q + 1>>
    BY <1>1, <2>1, DecodedScalar
  <2>3. ReadUIntLE(data, q, 1) # {}
    BY <1>1, <2>2 DEF ReadVal
  <2>4. q + 1 <= Len(data)
    BY <2>3 DEF ReadUIntLE, Checked
  <2> QED BY <2>2, <2>4
<1> DEFINE S == {i \in 0..n : \A b \in x[i] : b[2] = p + PrefixLen + i /\ b[2] <= Len(data)}
<1>10. 0 \in S
  <2>1. 0 \in 0..n /\ p + PrefixLen + 0 = p + PrefixLen
    BY <1>1, <1>5
  <2> QED BY <1>7, <1>8, <2>1
<1>11. ASSUME NEW i \in 1..n, i - 1 \in S PROVE i \in S
  <2>1. ASSUME NEW b \in x[i] PROVE b[2] = p + PrefixLen + i /\ b[2] <= Len(data)
    <3>1. OneMore(d, v, x[i - 1], b)
      BY <1>7
    <3>2. PICK g \in x[i - 1] : \E y \in d[v][g[2]] : b = <<Append(g[1], y[1]), y[2]>>
      BY <3>1 DEF OneMore
    <3>3. PICK y \in d[v][g[2]] : b = <<Append(g[1], y[1]), y[2]>>
      BY <3>2
    <3>4. g[2] = p + PrefixLen + (i - 1)
      BY <1>11
    <3>5. g[2] \in Nat /\ g[2] + 1 = p + PrefixLen + i
      BY <1>1, <1>5, <3>4
    <3>6. b[2] = y[2] /\ y[2] = g[2] + 1 /\ g[2] + 1 <= Len(data)
      BY <1>9, <3>3, <3>5
    <3> QED BY <3>5, <3>6
  <2>2. i \in 0..n
    BY <1>5
  <2> QED BY <2>1, <2>2
<1>12. n \in S
  <2> HIDE DEF S
  <2> QED BY <1>5, <1>10, <1>11, WalkInduction
<1>13. z[2] = p + PrefixLen + n /\ z[2] <= Len(data)
  BY <1>7, <1>12
<1>14. p + PrefixLen + n = p + (PrefixLen + n)
  BY <1>1, <1>5
<1> QED BY <1>4, <1>13, <1>14 DEF N
=============================================================================
