---------------------- MODULE VerifiedInstructionProofs ----------------------
(***************************************************************************)
(* What validate accepts and what it refuses, for every struct and every   *)
(* call: the two walks over the data read the same, checked fields are     *)
(* read as Borsh decodes them, so that the generated checks decide as the  *)
(* contract does and the handler sees the values they looked at.           *)
(***************************************************************************)
EXTENDS VerifiedInstruction, TLAPS, LayoutLemmas

-----------------------------------------------------------------------------
(***************************************************************************)
(* Lists of checks.                                                        *)
(***************************************************************************)

\* A list of verdicts has an error exactly when one of them is one.
LEMMA FirstErrorOk ==
    ASSUME NEW v, IsSequence(v)
    PROVE  FirstError(v) = "Ok" <=> \A k \in DOMAIN v : v[k] = "Ok"
<1> SUFFICES ASSUME FirstError(v) = "Ok", \E k \in DOMAIN v : v[k] # "Ok" PROVE FALSE
  BY DEF FirstError
<1> DEFINE T == {k \in DOMAIN v : v[k] # "Ok"}
<1>1. T \in SUBSET Nat /\ T # {}
  BY DEF IsSequence
<1>2. PICK x \in T : \A y \in T : x <= y
  BY <1>1, LeastElement
<1>3. \A j \in 1..x - 1 : v[j] = "Ok"
  BY <1>2 DEF IsSequence
<1>4. \E k \in DOMAIN v : v[k] # "Ok" /\ \A j \in 1..k - 1 : v[j] = "Ok"
  BY <1>2, <1>3
<1> QED BY <1>4 DEF FirstError

LEMMA SequenceIs ==
    ASSUME NEW S, NEW r \in Seq(S)
    PROVE  IsSequence(r) /\ DOMAIN r = 1..Len(r) /\ Len(r) \in Nat
<1> DEFINE T == {r[k] : k \in DOMAIN r}
<1>1. r \in [1..Len(r) -> S] /\ Len(r) \in Nat
  OBVIOUS
<1>2. \A k \in 1..Len(r) : r[k] \in T
  BY <1>1
<1>3. r \in [1..Len(r) -> T]
  BY <1>1, <1>2
<1>4. r \in Seq(T)
  <2> HIDE DEF T
  <2> QED BY <1>1, <1>3
<1> QED BY <1>1, <1>4 DEF IsSequence

\* What holds of all members of two lists holds of all of both in a row.
Joined(p, q, r) ==
    /\ \A k \in DOMAIN p : k \in DOMAIN r /\ r[k] = p[k]
    /\ \A k \in DOMAIN q : Len(p) + k \in DOMAIN r /\ r[Len(p) + k] = q[k]
    /\ \A k \in DOMAIN r : (k \in DOMAIN p /\ r[k] = p[k]) \/ \E m \in DOMAIN q : r[k] = q[m]

LEMMA Concatenation ==
    ASSUME NEW p, NEW q, IsSequence(p), IsSequence(q)
    PROVE  IsSequence(p \o q) /\ Joined(p, q, p \o q)
<1> DEFINE S == {p[k] : k \in DOMAIN p} \cup {q[k] : k \in DOMAIN q}
<1>1. p \in Seq(S) /\ q \in Seq(S)
  BY DEF IsSequence
<1>2. p \o q \in Seq(S) /\ Len(p \o q) = Len(p) + Len(q)
  BY <1>1
<1>3. \A k \in 1..Len(p) : (p \o q)[k] = p[k]
  BY <1>1
<1>4. \A k \in 1..Len(q) : (p \o q)[Len(p) + k] = q[k]
  BY <1>1
<1>5. \A k \in Len(p) + 1..Len(p) + Len(q) : (p \o q)[k] = q[k - Len(p)]
  BY <1>1
<1>6. DOMAIN p = 1..Len(p) /\ DOMAIN q = 1..Len(q) /\ DOMAIN (p \o q) = 1..Len(p) + Len(q)
      /\ Len(p) \in Nat /\ Len(q) \in Nat
  BY <1>1, <1>2
<1>7. IsSequence(p \o q)
  BY <1>2, SequenceIs
<1>8. \A k \in DOMAIN (p \o q) :
                \/ k \in DOMAIN p /\ (p \o q)[k] = p[k]
                \/ \E m \in DOMAIN q : (p \o q)[k] = q[m]
  <2> TAKE k \in DOMAIN (p \o q)
  <2>1. CASE k \in 1..Len(p)
    BY <2>1, <1>3, <1>6
  <2>2. CASE k \in Len(p) + 1..Len(p) + Len(q)
    <3>1. k - Len(p) \in DOMAIN q
      BY <2>2, <1>6
    <3> QED BY <3>1, <2>2, <1>5
  <2> QED BY <2>1, <2>2, <1>6
<1> QED BY <1>3, <1>4, <1>6, <1>7, <1>8 DEF Joined

\* What WellFormed says of the names of arguments and of fields of a type.
LEMMA DistinctNames ==
    ASSUME NEW s, WellFormed(s)
    PROVE  Distinct(s.args) /\ \A i \in DOMAIN s.fields : Distinct(s.fields[i].ty)
BY DEF WellFormed, Distinct

-----------------------------------------------------------------------------
(***************************************************************************)
(* The bytes of an argument and the fields of an account: the same by both *)
(* walks, from what LayoutLemmas says of the walks themselves.             *)
(***************************************************************************)

\* Where the bytes of an argument start, behind the prefix if it has one.
Prefixed(at) == at[2].k \in {"string", "vec"}
ArgFrom(at)  == IF Prefixed(at) THEN at[1] + PrefixLen ELSE at[1]
ArgSizes(at, instr) ==
    IF Prefixed(at) THEN ReadUIntLE(instr, at[1], PrefixLen)
    ELSE EncodedWidth(at[2], instr, at[1])
LeanArgSizes(at, instr) ==
    IF Prefixed(at) THEN LeanReadUIntLE(instr, at[1], PrefixLen)
    ELSE LeanEncodedWidth(at[2], instr, at[1])
ArgBytes(at, instr, m, v) ==
    ArgFrom(at) + m <= Len(instr) /\ v = SubSeq(instr, ArgFrom(at) + 1, ArgFrom(at) + m)

LEMMA ArgIs ==
    ASSUME NEW s, NEW instr, NEW n, NEW v
    PROVE  /\ v \in ArgSeed(s, instr, n) <=>
                \E at \in Locate(ArgsLayout(s), <<n>>, instr, 0) :
                  \E m \in ArgSizes(at, instr) : ArgBytes(at, instr, m, v)
           /\ v \in LeanArgBytes(s, instr, n) <=>
                \E at \in LeanLocate(ArgsLayout(s), n, instr, 0) :
                  \E m \in LeanArgSizes(at, instr) : ArgBytes(at, instr, m, v)
<1> DEFINE R == Locate(ArgsLayout(s), <<n>>, instr, 0)
           L == LeanLocate(ArgsLayout(s), n, instr, 0)
           Rust(at) ==
             IF at[2].k \in {"string", "vec"}
             THEN {SubSeq(instr, at[1] + PrefixLen + 1, at[1] + PrefixLen + len) :
                     len \in {m \in ReadUIntLE(instr, at[1], PrefixLen) :
                                at[1] + PrefixLen + m <= Len(instr)}}
             ELSE {SubSeq(instr, at[1] + 1, at[1] + w) :
                     w \in {x \in EncodedWidth(at[2], instr, at[1]) :
                              at[1] + x <= Len(instr)}}
           Lean(at) == {SubSeq(instr, ArgFrom(at) + 1, ArgFrom(at) + n2) :
                          n2 \in {m \in LeanArgSizes(at, instr) :
                                     ArgFrom(at) + m <= Len(instr)}}
<1>1. ArgSeed(s, instr, n) = UNION {Rust(at) : at \in R}
  BY DEF ArgSeed
<1>2. LeanArgBytes(s, instr, n) = UNION {Lean(at) : at \in L}
  BY DEF LeanArgBytes, ArgFrom, LeanArgSizes, Prefixed
<1>3. ASSUME NEW at
      PROVE  v \in Rust(at) <=> \E m \in ArgSizes(at, instr) : ArgBytes(at, instr, m, v)
  <2>1. CASE Prefixed(at)
    BY <2>1 DEF Prefixed, ArgFrom, ArgSizes, ArgBytes
  <2>2. CASE ~Prefixed(at)
    BY <2>2 DEF Prefixed, ArgFrom, ArgSizes, ArgBytes
  <2> QED BY <2>1, <2>2
<1>4. ASSUME NEW at
      PROVE  v \in Lean(at) <=> \E m \in LeanArgSizes(at, instr) : ArgBytes(at, instr, m, v)
  BY DEF ArgBytes
<1> HIDE DEF R, L, Rust, Lean
<1>5. v \in ArgSeed(s, instr, n) <=> \E at \in R : v \in Rust(at)
  BY <1>1
<1>6. v \in LeanArgBytes(s, instr, n) <=> \E at \in L : v \in Lean(at)
  BY <1>2
<1> QED BY <1>3, <1>4, <1>5, <1>6 DEF R, L

\* From one place on, the sizes that stay within the data are the same.
LEMMA ArgSizesAlike ==
    ASSUME NEW instr, Buffer(instr), NEW at, at[1] \in Nat, at[2] \in Ty, NEW m,
           ArgFrom(at) + m <= Len(instr)
    PROVE  m \in ArgSizes(at, instr) <=> m \in LeanArgSizes(at, instr)
<1>1. PrefixLen \in Nat /\ UsizeMax \in Nat
  BY LayoutAssumption
<1>2. CASE Prefixed(at)
  BY <1>1, <1>2, ReadAlike DEF ArgSizes, LeanArgSizes
<1>3. CASE ~Prefixed(at)
  <2>1. at[1] + m <= Len(instr)
    BY <1>3 DEF ArgFrom
  <2>2. /\ EncodedWidth(at[2], instr, at[1]) \subseteq Nat
        /\ LeanEncodedWidth(at[2], instr, at[1]) \subseteq Nat
    BY WidthType DEF Buffer
  <2>3. Below(EncodedWidth(at[2], instr, at[1]), at[1])
          = Below(LeanEncodedWidth(at[2], instr, at[1]), at[1])
    BY SameBelow
  <2>4. m \in Nat => at[1] + m <= UsizeMax
    BY <1>1, <2>1, BytesAre DEF Buffer
  <2>5. m \in Nat => (m \in EncodedWidth(at[2], instr, at[1])
                         <=> m \in LeanEncodedWidth(at[2], instr, at[1]))
    BY <2>3, <2>4 DEF Below
  <2> QED BY <1>3, <2>2, <2>5 DEF ArgSizes, LeanArgSizes
<1> QED BY <1>2, <1>3

\* Nothing of an argument that starts beyond a usize is within the data.
LEMMA ArgBeyond ==
    ASSUME NEW instr, Buffer(instr), NEW at, at[1] \in Nat, at[2] \in Ty,
           ~(at[1] <= UsizeMax)
    PROVE  /\ \A m \in ArgSizes(at, instr) : ~(ArgFrom(at) + m <= Len(instr))
           /\ \A m \in LeanArgSizes(at, instr) : ~(ArgFrom(at) + m <= Len(instr))
<1>1. PrefixLen \in Nat /\ UsizeMax \in Nat /\ Len(instr) \in Nat /\ Len(instr) <= UsizeMax
  BY LayoutAssumption, BytesAre DEF Buffer
<1>2. ArgSizes(at, instr) \subseteq Nat /\ LeanArgSizes(at, instr) \subseteq Nat
  BY <1>1, ReadType, WidthType DEF ArgSizes, LeanArgSizes, Buffer
<1>3. ArgFrom(at) \in Nat /\ ~(ArgFrom(at) <= UsizeMax)
  BY <1>1 DEF ArgFrom
<1> QED BY <1>1, <1>2, <1>3

\* The bytes of an argument, as a seed and in the contract.
LEMMA ArgAlike ==
    ASSUME NEW s, StructOf(s.args) \in Ty, NEW instr, Buffer(instr), NEW n
    PROVE  ArgSeed(s, instr, n) = LeanArgBytes(s, instr, n)
<1> DEFINE t == ArgsLayout(s)
           R == Locate(t, <<n>>, instr, 0)
           L == LeanLocate(t, n, instr, 0)
<1>1. t \in Ty /\ t.k = "struct" /\ 0 \in Nat
  BY DescriptorType DEF ArgsLayout
<1>2. /\ \A x \in R \cup L : x[1] \in Nat /\ x[2] \in Ty
      /\ \A x : x[1] <= UsizeMax => (x \in R <=> x \in L)
  <2> HIDE DEF t
  <2> QED BY <1>1, LocateAlike
<1>3. ASSUME NEW v PROVE v \in ArgSeed(s, instr, n) <=> v \in LeanArgBytes(s, instr, n)
  <2>1. /\ v \in ArgSeed(s, instr, n) <=>
             \E at \in R : \E m \in ArgSizes(at, instr) : ArgBytes(at, instr, m, v)
        /\ v \in LeanArgBytes(s, instr, n) <=>
             \E at \in L : \E m \in LeanArgSizes(at, instr) : ArgBytes(at, instr, m, v)
    BY ArgIs
  <2> HIDE DEF R, L
  <2>2. ASSUME NEW at \in R, NEW m \in ArgSizes(at, instr), ArgBytes(at, instr, m, v)
        PROVE  at \in L /\ m \in LeanArgSizes(at, instr)
    <3>1. at[1] \in Nat /\ at[2] \in Ty /\ ArgFrom(at) + m <= Len(instr)
      BY <1>2, <2>2 DEF ArgBytes
    <3>2. at[1] <= UsizeMax
      BY <3>1, ArgBeyond
    <3> QED BY <1>2, <3>1, <3>2, ArgSizesAlike
  <2>3. ASSUME NEW at \in L, NEW m \in LeanArgSizes(at, instr), ArgBytes(at, instr, m, v)
        PROVE  at \in R /\ m \in ArgSizes(at, instr)
    <3>1. at[1] \in Nat /\ at[2] \in Ty /\ ArgFrom(at) + m <= Len(instr)
      BY <1>2, <2>3 DEF ArgBytes
    <3>2. at[1] <= UsizeMax
      BY <3>1, ArgBeyond
    <3> QED BY <1>2, <3>1, <3>2, ArgSizesAlike
  <2> QED BY <2>1, <2>2, <2>3
<1> QED BY <1>3

\* Whatever the struct and the call, both walks read alike.
LEMMA ReadsAlike ==
    ASSUME NEW s, WellFormed(s), NEW c, Buffer(c.instr),
           \A i \in DOMAIN c.accounts : Buffer(c.accounts[i].data)
    PROVE  ReadsAgreeOn(s, c)
<1>1. ASSUME NEW i \in DOMAIN s.fields, i \in DOMAIN c.accounts,
             NEW j \in DOMAIN LayoutOf(s.fields[i]).fs
      PROVE  ReadField(LayoutOf(s.fields[i]), LayoutOf(s.fields[i]).fs[j].name,
                       c.accounts[i].data, DiscLen)
               = LeanReadField(LayoutOf(s.fields[i]), LayoutOf(s.fields[i]).fs[j].name,
                               c.accounts[i].data, DiscLen)
  <2>1. StructOf(s.fields[i].ty) \in Ty
    BY DEF WellFormed
  <2>2. LayoutOf(s.fields[i]) \in Ty /\ LayoutOf(s.fields[i]).k = "struct"
    BY <2>1, DescriptorType DEF LayoutOf
  <2>3. DiscLen \in Nat /\ Buffer(c.accounts[i].data)
    BY <1>1, LayoutAssumption
  <2> QED BY <2>2, <2>3, FieldAlike
<1>2. \A n \in Mappable(s) : ArgSeed(s, c.instr, n) = LeanArgBytes(s, c.instr, n)
  BY ArgAlike DEF WellFormed
<1> QED BY <1>1, <1>2 DEF ReadsAgreeOn

-----------------------------------------------------------------------------
(***************************************************************************)
(* A checked field is read as Borsh decodes it, unless the walk is stuck   *)
(* in front of it: what NoWidth calls stuck is what the walk cannot pass.  *)
(***************************************************************************)

\* What cannot be stepped over is settled by the type itself and its elements.
StuckStep(f, u) ==
    \/ u.k = "array" /\ (ByteSize(u.of) = {} \/ f[u.of])
    \/ u.k \in {"vec", "option"} /\ f[u.of]
Sticking(f) == f = [u \in Ty |-> StuckStep(f, u)]

LEMMA StuckLocal ==
    ASSUME NEW f, NEW g, NEW u \in Ty, \A v \in Parts(u) : f[v] = g[v]
    PROVE  StuckStep(f, u) = StuckStep(g, u)
<1>1. u.k \in {"vec", "option", "array"} => f[u.of] = g[u.of]
  BY Rows
<1>2. CASE u.k \in {"vec", "option"}
  BY <1>1, <1>2 DEF StuckStep
<1>3. CASE u.k = "array"
  BY <1>1, <1>3 DEF StuckStep
<1>4. CASE u.k \notin {"vec", "option", "array"}
  BY <1>4 DEF StuckStep
<1> QED BY <1>2, <1>3, <1>4

LEMMA StickingRound ==
    ASSUME NEW f, NEW g, NEW h,
           \A u \in Ty : g[u] = StuckStep(f, u), \A u \in Ty : h[u] = StuckStep(g, u)
    PROVE  Round(f, g, h)
BY StuckLocal DEF Round

LEMMA StickingExists == \E f : Sticking(f)
<1> DEFINE f0 == [u \in Ty |-> FALSE]
           f1 == [u \in Ty |-> StuckStep(f0, u)]
           f2 == [u \in Ty |-> StuckStep(f1, u)]
           f3 == [u \in Ty |-> StuckStep(f2, u)]
           f4 == [u \in Ty |-> StuckStep(f3, u)]
           f5 == [u \in Ty |-> StuckStep(f4, u)]
<1>1. \A u \in Ty : f1[u] = StuckStep(f0, u)
  <2> HIDE DEF f0
  <2> QED OBVIOUS
<1>2. \A u \in Ty : f2[u] = StuckStep(f1, u)
  <2> HIDE DEF f1
  <2> QED OBVIOUS
<1>3. \A u \in Ty : f3[u] = StuckStep(f2, u)
  <2> HIDE DEF f2
  <2> QED OBVIOUS
<1>4. \A u \in Ty : f4[u] = StuckStep(f3, u)
  <2> HIDE DEF f3
  <2> QED OBVIOUS
<1>5. \A u \in Ty : f5[u] = StuckStep(f4, u)
  <2> HIDE DEF f4
  <2> QED OBVIOUS
<1>6. f4 = [u \in Ty |-> f4[u]]
  <2> HIDE DEF f3
  <2> QED OBVIOUS
<1> HIDE DEF f0, f1, f2, f3, f4, f5
<1>7. Round(f0, f1, f2) /\ Round(f1, f2, f3) /\ Round(f2, f3, f4) /\ Round(f3, f4, f5)
  BY <1>1, <1>2, <1>3, <1>4, <1>5, StickingRound
<1>8. \A u \in Ty : f4[u] = f5[u]
  BY <1>7, FourRounds
<1>9. \A u \in Ty : f4[u] = StuckStep(f4, u)
  BY <1>5, <1>8
<1>10. f4 = [u \in Ty |-> StuckStep(f4, u)]
  BY <1>6, <1>9
<1> QED BY <1>10 DEF Sticking

LEMMA NoWidthIs ==
    ASSUME NEW u \in Ty, ~NoWidth(u)
    PROVE  /\ u.k \in {"vec", "option", "array"} => ~NoWidth(u.of)
           /\ u.k = "array" => ByteSize(u.of) # {}
<1> DEFINE f == CHOOSE g : Sticking(g)
<1>1. Sticking(f)
  BY StickingExists
<1>2. \A t : NoWidth(t) = f[t]
  BY DEF NoWidth, Sticking, StuckStep
<1> HIDE DEF f
<1>3. f[u] = StuckStep(f, u)
  BY <1>1 DEF Sticking
<1>4. ~f[u]
  BY <1>2
<1> QED BY <1>2, <1>3, <1>4 DEF StuckStep

\* A walk gets past every type with a descriptor that is not stuck.
Passable == {u \in Ty : Mapped(u) /\ ~NoWidth(u)}

LEMMA PassableSteps == Steppable(Passable)
<1>1. ASSUME NEW u \in Passable
      PROVE  /\ u.k \notin {"other", "struct"}
             /\ u.k \in {"vec", "option", "array"} => u.of \in Passable
             /\ u.k = "array" => ByteSize(u.of) # {}
  <2>1. u \in Ty /\ Mapped(u) /\ ~NoWidth(u)
    BY DEF Passable
  <2>2. u.k \in {"vec", "option", "array"} => u.of \in Ty
    BY <2>1, Rows, PartsAreTypes
  <2> QED BY <2>1, <2>2, MappedIs, NoWidthIs DEF Passable
<1>2. Passable \subseteq Ty
  BY DEF Passable
<1> QED BY <1>1, <1>2 DEF Steppable

\* A checked field is read as Borsh decodes it.
LEMMA ReadsBorsh ==
    ASSUME NEW s, NEW c, NEW i \in DOMAIN s.fields, WellFormed(s), Buffer(c.accounts[i].data)
    PROVE  ReadsBorshOn(s, c, i)
<1> DEFINE fs   == s.fields[i].ty
           data == c.accounts[i].data
           t    == Descriptor(fs)
<1>1. StructOf(fs) \in Ty /\ \A j, m \in DOMAIN fs : fs[j].name = fs[m].name => j = m
  BY DEF WellFormed
<1>2. LayoutOf(s.fields[i]) = t
  BY DEF LayoutOf
<1>3. DiscLen \in Nat
  BY LayoutAssumption
<1>4. ASSUME NEW v \in Deserialised(s, c, i), NEW j \in DOMAIN t.fs, Checkable(t.fs[j].ty)
      PROVE  /\ ReadField(t, t.fs[j].name, data, DiscLen) \subseteq {v[j]}
             /\ (\A m \in 1..j - 1 : ~NoWidth(t.fs[m].ty)) =>
                  ReadField(t, t.fs[j].name, data, DiscLen) = {v[j]}
  <2>1. PICK b \in Decode(StructOf(fs), data, DiscLen) : v = b[1]
    BY DEF Deserialised, TryFromSlice
  <2> HIDE DEF t, data, fs
  <2>2. t.fs[j] = fs[j] /\ \A m \in 1..j : m \in DOMAIN t.fs /\ Mapped(fs[m].ty)
    BY <1>1, FrontOfDescriptor DEF t
  <2>3. \A m \in 1..j : t.fs[m] = fs[m] /\ fs[m].ty \in Ty
    BY <1>1, <2>2, FrontOfDescriptor DEF t
  <2>4. Buffer(data)
    BY DEF data
  <2>5. /\ ReadField(t, fs[j].name, data, DiscLen) \subseteq {b[1][j]}
        /\ \A S : Steppable(S) /\ (\A m \in 1..j - 1 : fs[m].ty \in S) =>
             ReadField(t, fs[j].name, data, DiscLen) = {b[1][j]}
    BY <1>1, <1>3, <1>4, <2>2, <2>4, ReadIsBorsh DEF t
  <2>6. ASSUME \A m \in 1..j - 1 : ~NoWidth(t.fs[m].ty)
        PROVE  \A m \in 1..j - 1 : fs[m].ty \in Passable
    <3>1. ASSUME NEW m \in 1..j - 1 PROVE m \in 1..j
      <4>1. j \in Nat
        BY <1>1, FrontOfDescriptor DEF t
      <4> QED BY <4>1
    <3> QED BY <2>2, <2>3, <2>6, <3>1 DEF Passable
  <2> QED BY <2>1, <2>2, <2>5, <2>6, PassableSteps
<1> HIDE DEF t
<1>5. \A v \in Deserialised(s, c, i) : \A j \in DOMAIN t.fs : Checkable(t.fs[j].ty) =>
        /\ ReadField(t, t.fs[j].name, data, DiscLen) \subseteq {v[j]}
        /\ (\A m \in 1..j - 1 : ~NoWidth(t.fs[m].ty)) =>
             ReadField(t, t.fs[j].name, data, DiscLen) = {v[j]}
  BY <1>4
<1> QED BY <1>2, <1>5 DEF ReadsBorshOn, Checkable

-----------------------------------------------------------------------------
(***************************************************************************)
(* One constraint: the generated check refuses exactly what the contract's *)
(* clause is not satisfied by.                                             *)
(***************************************************************************)

\* A struct as the derive accepts it, called with data both walks read alike.
Ready(s, c) ==
    /\ WellFormed(s) /\ Compiles(s) /\ ~HasLifecycle(s)
    /\ IsSequence(c.accounts) /\ ReadsAgreeOn(s, c)

LEMMA ReadsAgreeAt ==
    ASSUME NEW s, NEW c, ReadsAgreeOn(s, c),
           NEW i \in DOMAIN s.fields, i \in DOMAIN c.accounts,
           NEW n, HasTopLevelField(LayoutOf(s.fields[i]), n)
    PROVE  ReadField(LayoutOf(s.fields[i]), n, c.accounts[i].data, DiscLen)
             = LeanReadField(LayoutOf(s.fields[i]), n, c.accounts[i].data, DiscLen)
<1> DEFINE t == LayoutOf(s.fields[i])
<1>1. PICK j \in DOMAIN t.fs : t.fs[j].name = n
  <2> HIDE DEF t
  <2> QED BY DEF HasTopLevelField, TopLevelField, t
<1>2. ReadField(t, t.fs[j].name, c.accounts[i].data, DiscLen)
        = LeanReadField(t, t.fs[j].name, c.accounts[i].data, DiscLen)
  BY DEF ReadsAgreeOn
<1> QED BY <1>1, <1>2

\* A constraint of the user's that reads no seeds.
LEMMA OwnMatches ==
    ASSUME NEW s, NEW c, Ready(s, c),
           NEW i \in DOMAIN s.fields, i \in DOMAIN c.accounts,
           NEW k \in DOMAIN s.fields[i].cs
    PROVE  LET e == s.fields[i].cs[k]
           IN  /\ e.c \in LeanKinds \ {"seeds"} =>
                    (Refuses(s, c, i, e) <=> ~Satisfies(s, c, i, e))
               /\ e.c \notin LeanKinds => ~Refuses(s, c, i, e)
               /\ e.c = "seeds" => ~Refuses(s, c, i, e)
<1> DEFINE f == s.fields[i]
           e == f.cs[k]
<1>1. e.c # "program"
  BY DEF Ready, WellFormed, Has, Listed
<1>2. e.c \in {"has_one", "at_least"} => HasTopLevelField(LayoutOf(f), e.n)
  <2>1. e.c = "has_one" => HasTopLevelField(LayoutOf(f), e.n)
    BY DEF Ready, Compiles, FieldCompiles, Listed
  <2>2. e.c = "at_least" => HasTopLevelField(LayoutOf(f), e.n)
    BY DEF Ready, WellFormed, Listed
  <2> QED BY <2>1, <2>2
<1>3. e.c \in {"has_one", "at_least"} =>
        ReadField(LayoutOf(f), e.n, c.accounts[i].data, DiscLen)
          = LeanReadField(LayoutOf(f), e.n, c.accounts[i].data, DiscLen)
  <2> SUFFICES ASSUME e.c \in {"has_one", "at_least"}
               PROVE  ReadField(LayoutOf(f), e.n, c.accounts[i].data, DiscLen)
                        = LeanReadField(LayoutOf(f), e.n, c.accounts[i].data, DiscLen)
    OBVIOUS
  <2>1. HasTopLevelField(LayoutOf(f), e.n) /\ ReadsAgreeOn(s, c)
    BY <1>2 DEF Ready
  <2> HIDE DEF e
  <2> QED BY <2>1, ReadsAgreeAt
<1>4. e.c \notin LeanKinds => ~Refuses(s, c, i, e)
  BY <1>1 DEF Refuses, LeanKinds
<1>5. e.c = "seeds" => ~Refuses(s, c, i, e)
  BY DEF Refuses
<1>6. CASE e.c \in {"has_one", "at_least"}
  <2> HIDE DEF e, f
  <2> QED BY <1>3, <1>6, <1>4, <1>5 DEF Refuses, Satisfies, e, f
<1>7. CASE e.c \in LeanKinds \ {"seeds", "has_one", "at_least"}
  <2> HIDE DEF e, f
  <2>1. Refuses(s, c, i, e) <=> ~Satisfies(s, c, i, e)
    BY <1>7 DEF Refuses, Satisfies, LeanKinds
  <2> QED BY <2>1, <1>4, <1>5, <1>7 DEF e, f, LeanKinds
<1> QED BY <1>4, <1>5, <1>6, <1>7

\* What the wrapper implies: one check for an executable of a given key where
\* the contract has two clauses, the others as they are.
LEMMA KindMatches ==
    ASSUME NEW s, NEW c, NEW i, NEW e,
           e.c \in {"signer", "owner", "discriminator"}
    PROVE  Refuses(s, c, i, e) <=> ~Satisfies(s, c, i, e)
BY DEF Refuses, Satisfies

LEMMA ProgramMatches ==
    ASSUME NEW s, NEW c, NEW i, NEW x
    PROVE  Refuses(s, c, i, [c |-> "program", key |-> x])
             <=> ~ (/\ Satisfies(s, c, i, [c |-> "executable"])
                    /\ Satisfies(s, c, i, [c |-> "address", key |-> x]))
<1>1. Refuses(s, c, i, [c |-> "program", key |-> x])
        <=> ~c.accounts[i].executable \/ c.accounts[i].key # x
  BY DEF Refuses
<1>2. Satisfies(s, c, i, [c |-> "executable"]) <=> c.accounts[i].executable
  BY DEF Satisfies
<1>3. Satisfies(s, c, i, [c |-> "address", key |-> x]) <=> c.accounts[i].key = x
  BY DEF Satisfies
<1> QED BY <1>1, <1>2, <1>3

LEMMA ImpliedMatches ==
    ASSUME NEW s, NEW c, WellFormed(s), NEW i \in DOMAIN s.fields
    PROVE  /\ IsSequence(WrapperImplied(s.fields[i]))
           /\ (\A k \in DOMAIN WrapperImplied(s.fields[i]) :
                 ~Refuses(s, c, i, WrapperImplied(s.fields[i])[k]))
                <=> \A e \in LeanImplied(s.fields[i]) : Satisfies(s, c, i, e)
<1> DEFINE f == s.fields[i]
           w == WrapperImplied(f)
           owner(x) == [c |-> "owner", key |-> x]
           disc == [c |-> "discriminator", bytes |-> f.disc]
           signer == [c |-> "signer"]
           program == [c |-> "program", key |-> f.id]
           executable == [c |-> "executable"]
           address == [c |-> "address", key |-> f.id]
<1>0. f.kind \in {"account", "signer", "system", "program", "unchecked"}
  BY DEF WellFormed
<1>1. /\ \A x : Refuses(s, c, i, owner(x)) <=> ~Satisfies(s, c, i, owner(x))
      /\ Refuses(s, c, i, disc) <=> ~Satisfies(s, c, i, disc)
      /\ Refuses(s, c, i, signer) <=> ~Satisfies(s, c, i, signer)
  BY KindMatches
<1>2. Refuses(s, c, i, program)
        <=> ~(Satisfies(s, c, i, executable) /\ Satisfies(s, c, i, address))
  BY ProgramMatches
<1>3. CASE f.kind = "account"
  <2>1. w = <<owner(ProgramId), disc>> /\ LeanImplied(f) = {owner(ProgramId), disc}
    BY <1>3 DEF WrapperImplied, LeanImplied
  <2> HIDE DEF f, w, owner, disc
  <2> QED BY <2>1, <1>1 DEF f, w, IsSequence
<1>4. CASE f.kind = "signer"
  <2>1. w = <<signer>> /\ LeanImplied(f) = {signer}
    BY <1>4 DEF WrapperImplied, LeanImplied
  <2> HIDE DEF f, w, signer
  <2> QED BY <2>1, <1>1 DEF f, w, IsSequence
<1>5. CASE f.kind = "system"
  <2>1. w = <<owner(SystemId)>> /\ LeanImplied(f) = {owner(SystemId)}
    BY <1>5 DEF WrapperImplied, LeanImplied
  <2> HIDE DEF f, w, owner
  <2> QED BY <2>1, <1>1 DEF f, w, IsSequence
<1>6. CASE f.kind = "program"
  <2>1. w = <<program>> /\ LeanImplied(f) = {executable, address}
    BY <1>6 DEF WrapperImplied, LeanImplied
  <2> HIDE DEF f, w, program, executable, address
  <2> QED BY <2>1, <1>2 DEF f, w, IsSequence
<1>7. CASE f.kind = "unchecked"
  <2>1. w = << >> /\ LeanImplied(f) = {}
    BY <1>7 DEF WrapperImplied, LeanImplied
  <2> HIDE DEF f, w
  <2> QED BY <2>1 DEF f, w, IsSequence
<1> QED BY <1>0, <1>3, <1>4, <1>5, <1>6, <1>7

-----------------------------------------------------------------------------
(***************************************************************************)
(* Seeds and derived addresses.                                            *)
(***************************************************************************)

\* The one constraint of a kind is the first.
LEMMA FirstIs ==
    ASSUME NEW f, NEW kinds, IsSequence(f.cs), NEW k \in Listed(f, kinds),
           \A m \in Listed(f, kinds) : k = m
    PROVE  First(f, kinds) = f.cs[k]
<1>1. k \in Nat
  BY DEF IsSequence, Listed
<1>2. \A m \in Listed(f, kinds) : k <= m
  BY <1>1
<1>3. \A x \in Listed(f, kinds) : x = k
  OBVIOUS
<1>4. (CHOOSE x \in Listed(f, kinds) : \A j \in Listed(f, kinds) : x <= j) = k
  BY <1>2, <1>3
<1> QED BY <1>4 DEF First

\* Every seed has the same bytes in the contract as in validate, or none.
LEMMA SeedsAgree ==
    ASSUME NEW s, NEW c, Ready(s, c), NEW i \in DOMAIN s.fields,
           NEW k \in Listed(s.fields[i], {"seeds"}),
           NEW j \in DOMAIN s.fields[i].cs[k].seeds
    PROVE  LET e == Elems(s, s.fields[i].cs[k])[j]
           IN  LeanSeed(s, c, e) = SeedBytes(s, c, e)
<1> DEFINE f == s.fields[i]
           d == f.cs[k]
           e == Elems(s, d)[j]
<1>1. e = The(Seed(s, d.seeds[j]))
  BY DEF Elems
<1>2. SeedCompiles(s, d.seeds[j])
  BY DEF Ready, Compiles, FieldCompiles
<1>3. e.e = "arg" => e.n \in Mappable(s)
  BY <1>1, <1>2 DEF SeedCompiles
<1>4. CASE e.e = "arg"
  <2>1. ArgSeed(s, c.instr, e.n) = LeanArgBytes(s, c.instr, e.n)
    BY <1>3, <1>4 DEF Ready, ReadsAgreeOn
  <2> HIDE DEF e
  <2> QED BY <2>1, <1>4 DEF LeanSeed, SeedBytes, e
<1>5. CASE e.e # "arg"
  <2> HIDE DEF e
  <2> QED BY <1>5 DEF LeanSeed, e
<1> QED BY <1>4, <1>5

LEMMA SeedsInOrder ==
    ASSUME NEW s, NEW c, WellFormed(s), NEW i \in DOMAIN s.fields,
           NEW k \in Listed(s.fields[i], {"seeds"})
    PROVE  IsSequence(SeedList(s, c, s.fields[i].cs[k]))
<1> DEFINE d == s.fields[i].cs[k]
           T == {The(SeedBytes(s, c, Elems(s, d)[j])) : j \in DOMAIN d.seeds}
<1>1. d.seeds \in Seq(SeedExpr)
  BY DEF WellFormed
<1>2. DOMAIN d.seeds = 1..Len(d.seeds) /\ Len(d.seeds) \in Nat
  BY <1>1, SequenceIs
<1> HIDE DEF d
<1>3. SeedList(s, c, d) \in [1..Len(d.seeds) -> T]
  BY <1>2 DEF SeedList
<1>4. SeedList(s, c, d) \in Seq(T)
  <2> HIDE DEF T
  <2> QED BY <1>2, <1>3
<1> HIDE DEF T
<1> QED BY <1>4, SequenceIs DEF d

LEMMA ResolvedAlike ==
    ASSUME NEW s, NEW c, Ready(s, c), NEW i \in DOMAIN s.fields,
           NEW k \in Listed(s.fields[i], {"seeds"}),
           Resolved(s, c, s.fields[i].cs[k])
    PROVE  LeanResolve(s, c, s.fields[i].cs[k]) = SeedList(s, c, s.fields[i].cs[k])
<1> DEFINE d == s.fields[i].cs[k]
<1>1. \A j \in DOMAIN d.seeds : LeanSeed(s, c, Elems(s, d)[j]) = SeedBytes(s, c, Elems(s, d)[j])
  BY SeedsAgree
<1>2. \A j \in DOMAIN d.seeds : SeedBytes(s, c, Elems(s, d)[j]) # {}
  BY DEF Resolved
<1> HIDE DEF d
<1> QED BY <1>1, <1>2 DEF LeanResolve, SeedList, d

\* No seed too many or too long, when a bump joins them.
Short(seeds) ==
    Len(seeds) + 1 <= MaxSeeds /\ \A j \in DOMAIN seeds : Len(seeds[j]) <= MaxSeedLen

\* The only difference between the two derivations of an address from seeds and
\* a bump is the limits on the number and the length of the seeds.
LEMMA CreateAlike ==
    ASSUME NEW seeds, IsSequence(seeds), NEW b, NEW pid
    PROVE  /\ Short(seeds) <=> WithinLimits(Append(seeds, <<b>>))
           /\ Short(seeds) => CreateAddress(Append(seeds, <<b>>), pid)
                                = LeanCreate(Append(seeds, <<b>>), pid)
           /\ ~Short(seeds) => CreateAddress(Append(seeds, <<b>>), pid) = {}
<1> DEFINE a == Append(seeds, <<b>>)
<1>1. /\ DOMAIN a = 1..Len(seeds) + 1 /\ Len(seeds) \in Nat /\ DOMAIN seeds = 1..Len(seeds)
      /\ \A j \in 1..Len(seeds) : a[j] = seeds[j]
      /\ a[Len(seeds) + 1] = <<b>> /\ Len(a) = Len(seeds) + 1
  BY DEF IsSequence
<1>2. Len(<<b>>) <= MaxSeedLen
  BY ValidationAssumption
<1>3. Short(seeds) <=> WithinLimits(a)
  <2> HIDE DEF a
  <2>1. DOMAIN a = DOMAIN seeds \cup {Len(seeds) + 1}
    BY <1>1
  <2>2. (\A j \in DOMAIN seeds : Len(seeds[j]) <= MaxSeedLen)
          <=> \A j \in DOMAIN a : Len(a[j]) <= MaxSeedLen
    BY <2>1, <1>1, <1>2
  <2> QED BY <2>2, <1>1 DEF Short, WithinLimits
<1>4. CreateAddress(a, pid) = IF WithinLimits(a) THEN LeanCreate(a, pid) ELSE {}
  BY DEF CreateAddress, LeanCreate
<1> QED BY <1>3, <1>4

\* The highest bump above 0 is the highest bump.
LEMMA FindAlike ==
    ASSUME NEW seeds, IsSequence(seeds), NEW pid, FindAddress(seeds, pid) # {}
    PROVE  /\ LeanFind(seeds, pid) = FindAddress(seeds, pid)
           /\ Short(seeds)
           /\ \E r : FindAddress(seeds, pid) = {r}
           /\ \A r \in FindAddress(seeds, pid) :
                r.key \in CreateAddress(Append(seeds, <<r.bump>>), pid)
<1> DEFINE at(b)   == CreateAddress(Append(seeds, <<b>>), pid)
           lean(b) == LeanCreate(Append(seeds, <<b>>), pid)
           hits    == {b \in Byte : at(b) # {}}
<1>1. FindAddress(seeds, pid) = {[key |-> The(at(b)), bump |-> b] : b \in FirstBump(hits, 1)}
  BY DEF FindAddress
<1>2. PICK b \in Byte : b \in FirstBump(hits, 1)
  BY <1>1 DEF FirstBump
<1>3. Short(seeds)
  BY <1>2, CreateAlike DEF FirstBump
<1>4. \A x \in Byte : at(x) = lean(x)
  BY <1>3, CreateAlike
<1>5. hits = {x \in Byte : lean(x) # {}}
  BY <1>4
<1>6. Byte \subseteq Nat
  BY LayoutAssumption DEF Byte
<1>7. FirstBump(hits, 1) = {b} /\ FirstBump(hits, 0) = {b}
  <2>1. hits \subseteq Nat
    BY <1>6
  <2> HIDE DEF hits
  <2>2. b \in hits /\ b >= 1 /\ b \in Nat /\ \A h \in hits : h <= b
    BY <1>2, <2>1 DEF FirstBump
  <2>3. \A x \in hits : (\A h \in hits : h <= x) => x = b
    BY <2>1, <2>2
  <2>4. b >= 0
    BY <2>2
  <2> QED BY <2>2, <2>3, <2>4 DEF FirstBump
<1>8. at(b) # {}
  BY <1>2 DEF FirstBump
<1>9. LeanFind(seeds, pid)
        = {[key |-> The(lean(x)), bump |-> x] : x \in FirstBump({x \in Byte : lean(x) # {}}, 0)}
  BY DEF LeanFind
<1>10. /\ FindAddress(seeds, pid) = {[key |-> The(at(b)), bump |-> b]}
       /\ LeanFind(seeds, pid) = {[key |-> The(lean(b)), bump |-> b]}
  <2> HIDE DEF at, lean
  <2> QED BY <1>1, <1>5, <1>7, <1>9
<1>11. The(at(b)) \in at(b)
  BY <1>8 DEF The
<1> QED
  <2> HIDE DEF at, lean
  <2>1. LeanFind(seeds, pid) = FindAddress(seeds, pid)
    BY <1>10, <1>4
  <2>2. \A r \in FindAddress(seeds, pid) : r.key \in at(r.bump)
    BY <1>10, <1>11
  <2> QED BY <2>1, <2>2, <1>3, <1>10 DEF at

\* The PDA block accepts only what the contract's seeds clause does, and all of
\* it where the address can be derived at all.
LEMMA PdaMatches ==
    ASSUME NEW s, NEW c, Ready(s, c), NEW i \in DOMAIN s.fields,
           NEW k \in Listed(s.fields[i], {"seeds"})
    PROVE  /\ PdaError(s, c, i) = "Ok" => SatisfiesSeeds(s, c, i, s.fields[i].cs[k])
           /\ (/\ Resolved(s, c, s.fields[i].cs[k])
               /\ Derivable(s.fields[i], SeedList(s, c, s.fields[i].cs[k])))
                => (SatisfiesSeeds(s, c, i, s.fields[i].cs[k]) => PdaError(s, c, i) = "Ok")
<1> DEFINE f     == s.fields[i]
           d     == f.cs[k]
           seeds == SeedList(s, c, d)
           key   == c.accounts[i].key
           pid   == DeriveId(f)
           found == FindAddress(seeds, pid)
<1>1. /\ IsSequence(f.cs)
      /\ \A x, y \in Listed(f, {"seeds"}) : x = y
      /\ \A x, y \in Listed(f, BumpKinds) : x = y
  BY DEF Ready, WellFormed
<1>2. First(f, {"seeds"}) = d
  BY <1>1, FirstIs
<1>3. PdaError(s, c, i) = IF ~Resolved(s, c, d) THEN "WrongPda"
                          ELSE IF Has(f, "stored") THEN StoredPda(f, key, seeds, c.instr)
                          ELSE DerivedPda(f, key, found)
  BY <1>2 DEF PdaError
<1> SUFFICES ASSUME Resolved(s, c, d)
             PROVE  /\ PdaError(s, c, i) = "Ok" => SatisfiesSeeds(s, c, i, d)
                    /\ Derivable(f, seeds) =>
                         (SatisfiesSeeds(s, c, i, d) => PdaError(s, c, i) = "Ok")
  BY <1>3
<1>4. LeanResolve(s, c, d) = seeds /\ IsSequence(seeds)
  BY ResolvedAlike, SeedsInOrder DEF Ready
<1>5. SatisfiesSeeds(s, c, i, d) <=>
        IF BumpSpec(f).c = "stored"
        THEN /\ BumpSpec(f).off < Len(c.instr)
             /\ key \in LeanCreate(Append(seeds, <<c.instr[BumpSpec(f).off + 1]>>), pid)
        ELSE \E r \in LeanFind(seeds, pid) :
               r.key = key /\ (BumpSpec(f).c = "declared" => r.bump = BumpSpec(f).bump)
  BY <1>4 DEF SatisfiesSeeds
<1>6. CASE Has(f, "stored")
  <2>1. PICK m \in Listed(f, {"stored"}) : TRUE
    BY <1>6 DEF Has
  <2>2. m \in Listed(f, BumpKinds) /\ f.cs[m].c = "stored"
    BY DEF Listed, BumpKinds
  <2>3. \A x \in Listed(f, {"stored"}) : m = x
    BY <2>2, <1>1 DEF Listed, BumpKinds
  <2>4. First(f, {"stored"}) = f.cs[m] /\ First(f, BumpKinds) = f.cs[m]
    BY <2>2, <2>3, <1>1, FirstIs
  <2>5. BumpSpec(f) = f.cs[m]
    BY <2>2, <2>4 DEF BumpSpec, BumpKinds
  <2> DEFINE off == f.cs[m].off
             bytes == Append(seeds, <<c.instr[off + 1]>>)
  <2>6. PdaError(s, c, i) = IF off < Len(c.instr) /\ key \in CreateAddress(bytes, pid)
                            THEN "Ok" ELSE "WrongPda"
    BY <1>3, <1>6, <2>4 DEF StoredPda
  <2>7. SatisfiesSeeds(s, c, i, d) <=> off < Len(c.instr) /\ key \in LeanCreate(bytes, pid)
    BY <1>5, <2>2, <2>5
  <2>8. /\ Short(seeds) => CreateAddress(bytes, pid) = LeanCreate(bytes, pid)
        /\ ~Short(seeds) => CreateAddress(bytes, pid) = {}
        /\ Short(seeds) <=> WithinLimits(Append(seeds, <<0>>))
    BY <1>4, CreateAlike
  <2>9. Derivable(f, seeds) <=> WithinLimits(Append(seeds, <<0>>))
    BY <1>6 DEF Derivable
  <2> HIDE DEF off, bytes, seeds
  <2> QED BY <2>6, <2>7, <2>8, <2>9
<1>7. CASE ~Has(f, "stored")
  <2>1. PdaError(s, c, i) = DerivedPda(f, key, found)
    BY <1>3, <1>7
  <2>2. BumpSpec(f).c # "stored" /\ BumpSpec(f).c \in {"canonical", "declared"}
    <3>1. CASE Listed(f, BumpKinds) = {}
      BY <3>1 DEF BumpSpec, BumpKinds
    <3>2. CASE Listed(f, BumpKinds) # {}
      <4>1. PICK m \in Listed(f, BumpKinds) : TRUE
        BY <3>2
      <4>2. First(f, BumpKinds) = f.cs[m]
        BY <1>1, FirstIs
      <4>3. BumpSpec(f) = f.cs[m]
        BY <3>2, <4>2 DEF BumpSpec, BumpKinds
      <4> QED BY <4>3, <1>7 DEF Listed, BumpKinds, Has
    <3> QED BY <3>1, <3>2
  <2>3. \A m \in Listed(f, {"declared"}) :
           BumpSpec(f) = f.cs[m] /\ First(f, {"canonical", "declared"}) = f.cs[m]
    <3> TAKE m \in Listed(f, {"declared"})
    <3>1. m \in Listed(f, BumpKinds) /\ m \in Listed(f, {"canonical", "declared"})
      BY DEF Listed, BumpKinds
    <3>2. \A x \in Listed(f, {"canonical", "declared"}) : m = x
      BY <1>1, <3>1 DEF Listed, BumpKinds
    <3>3. First(f, BumpKinds) = f.cs[m] /\ First(f, {"canonical", "declared"}) = f.cs[m]
      BY <1>1, <3>1, <3>2, FirstIs
    <3> QED BY <3>1, <3>3 DEF BumpSpec, BumpKinds
  <2>4. BumpSpec(f).c = "declared" <=> Listed(f, {"declared"}) # {}
    <3>1. CASE Listed(f, {"declared"}) # {}
      BY <3>1, <2>3 DEF Listed
    <3>2. CASE Listed(f, {"declared"}) = {}
      <4>1. CASE Listed(f, BumpKinds) = {}
        BY <4>1, <3>2 DEF BumpSpec, BumpKinds
      <4>2. CASE Listed(f, BumpKinds) # {}
        <5>1. PICK m \in Listed(f, BumpKinds) : TRUE
          BY <4>2
        <5>2. First(f, BumpKinds) = f.cs[m]
          BY <1>1, FirstIs
        <5>3. BumpSpec(f) = f.cs[m]
          BY <4>2, <5>2 DEF BumpSpec, BumpKinds
        <5> QED BY <5>3, <3>2 DEF Listed
      <4> QED BY <4>1, <4>2
    <3> QED BY <3>1, <3>2
  <2>5. SatisfiesSeeds(s, c, i, d) <=>
          \E r \in LeanFind(seeds, pid) :
            r.key = key /\ (BumpSpec(f).c = "declared" => r.bump = BumpSpec(f).bump)
    BY <1>5, <2>2
  <2>6. CASE found = {}
    <3>1. PdaError(s, c, i) = "Panic"
      BY <2>1, <2>6 DEF DerivedPda
    <3>2. ~Derivable(f, seeds)
      BY <1>7, <2>6 DEF Derivable
    <3> QED BY <3>1, <3>2
  <2>7. CASE found # {}
    <3>1. LeanFind(seeds, pid) = found
      BY <2>7, <1>4, FindAlike
    <3>2. PICK r : found = {r}
      BY <2>7, <1>4, FindAlike
    <3>3. SatisfiesSeeds(s, c, i, d) <=>
            r.key = key /\ (BumpSpec(f).c = "declared" => r.bump = BumpSpec(f).bump)
      BY <2>5, <3>1, <3>2
    <3>4. DerivedPda(f, key, found) = "Ok" <=>
            r.key = key /\ \A m \in Listed(f, {"declared"}) :
                              f.cs[m] = First(f, {"canonical", "declared"})
                                => f.cs[m].bump = r.bump
      <4> HIDE DEF found
      <4> QED BY <3>2 DEF DerivedPda
    <3> QED BY <2>1, <2>3, <2>4, <3>3, <3>4
  <2> QED BY <2>6, <2>7
<1> QED BY <1>6, <1>7

-----------------------------------------------------------------------------
(***************************************************************************)
(* A field, and a struct.                                                  *)
(***************************************************************************)

\* The derivations of field i can be made.
Viable(s, c, i) ==
    LET d == First(s.fields[i], {"seeds"})
    IN  /\ Resolved(s, c, d)
        /\ Derivable(s.fields[i], SeedList(s, c, d))

LEMMA FieldErrorOk ==
    ASSUME NEW s, NEW c, WellFormed(s), NEW i \in DOMAIN s.fields
    PROVE  FieldError(s, c, i) = "Ok" <=>
             /\ \A k \in DOMAIN ImpliedChecked(s.fields[i]) :
                  ~Refuses(s, c, i, ImpliedChecked(s.fields[i])[k])
             /\ \A k \in DOMAIN s.fields[i].cs : ~Refuses(s, c, i, s.fields[i].cs[k])
             /\ Has(s.fields[i], "seeds") => PdaError(s, c, i) = "Ok"
<1> DEFINE f   == s.fields[i]
           w   == ImpliedChecked(f)
           cs  == Effective(f)
           own == [k \in DOMAIN cs |-> IF Refuses(s, c, i, cs[k]) THEN ErrorOf(cs[k]) ELSE "Ok"]
           pda == IF Has(f, "seeds") THEN PdaError(s, c, i) ELSE "Ok"
<1>1. IsSequence(w) /\ IsSequence(f.cs)
  <2>1. IsSequence(<< >>)
    BY DEF IsSequence
  <2> QED BY <2>1, ImpliedMatches DEF WellFormed, ImpliedChecked
<1>2. cs = w \o f.cs
  BY DEF Effective
<1>3. /\ IsSequence(cs)
      /\ (\A k \in DOMAIN cs : ~Refuses(s, c, i, cs[k])) <=>
            /\ \A k \in DOMAIN w : ~Refuses(s, c, i, w[k])
            /\ \A k \in DOMAIN f.cs : ~Refuses(s, c, i, f.cs[k])
  <2> DEFINE q == f.cs
  <2>0. IsSequence(q)
    BY <1>1
  <2> HIDE DEF w, cs, q
  <2>1. IsSequence(w \o q) /\ Joined(w, q, w \o q)
    BY <1>1, <2>0, Concatenation
  <2> QED BY <1>2, <2>1 DEF q, Joined
<1>4. DOMAIN own = DOMAIN cs /\ IsSequence(own)
  <2> DEFINE T == {own[k] : k \in DOMAIN cs}
  <2>1. DOMAIN cs = 1..Len(cs) /\ Len(cs) \in Nat
    BY <1>3, SequenceIs DEF IsSequence
  <2>2. own \in [1..Len(cs) -> T]
    <3> HIDE DEF cs
    <3> QED BY <2>1
  <2>3. own \in Seq(T)
    <3> HIDE DEF T, own
    <3> QED BY <2>1, <2>2
  <2> HIDE DEF T
  <2> QED BY <2>3, SequenceIs
<1>5. \A e : ErrorOf(e) # "Ok"
  BY DEF ErrorOf
<1>6. FirstError(own) = "Ok" <=> \A k \in DOMAIN cs : ~Refuses(s, c, i, cs[k])
  <2>1. FirstError(own) = "Ok" <=> \A k \in DOMAIN own : own[k] = "Ok"
    <3> HIDE DEF own
    <3> QED BY <1>4, FirstErrorOk
  <2>2. \A k \in DOMAIN cs : own[k] = "Ok" <=> ~Refuses(s, c, i, cs[k])
    <3> HIDE DEF cs
    <3> QED BY <1>5
  <2> HIDE DEF own, cs
  <2> QED BY <1>4, <2>1, <2>2
<1>7. FirstError(<<FirstError(own), pda>>) = "Ok" <=> FirstError(own) = "Ok" /\ pda = "Ok"
  <2> DEFINE x == FirstError(own)
             both == <<x, pda>>
  <2> HIDE DEF x, pda
  <2>1. IsSequence(both) /\ DOMAIN both = {1, 2} /\ both[1] = x /\ both[2] = pda
    BY DEF IsSequence
  <2>2. FirstError(both) = "Ok" <=> \A k \in DOMAIN both : both[k] = "Ok"
    <3> HIDE DEF both
    <3> QED BY <2>1, FirstErrorOk
  <2> HIDE DEF both
  <2>3. FirstError(both) = "Ok" <=> x = "Ok" /\ pda = "Ok"
    BY <2>1, <2>2
  <2> QED BY <2>3 DEF x, both
<1>8. FieldError(s, c, i) = FirstError(<<FirstError(own), pda>>)
  BY DEF FieldError
<1> HIDE DEF own, cs
<1> QED BY <1>3, <1>6, <1>7, <1>8

LEMMA FieldMatches ==
    ASSUME NEW s, NEW c, Ready(s, c), NEW i \in DOMAIN s.fields, i \in DOMAIN c.accounts
    PROVE  /\ FieldError(s, c, i) = "Ok" =>
                \A e \in LeanConstraints(s.fields[i]) : Satisfies(s, c, i, e)
           /\ (/\ Has(s.fields[i], "seeds") => Viable(s, c, i)
               /\ \A e \in LeanConstraints(s.fields[i]) : Satisfies(s, c, i, e))
                => FieldError(s, c, i) = "Ok"
<1> DEFINE f == s.fields[i]
           w == WrapperImplied(f)
<1>1. FieldError(s, c, i) = "Ok" <=>
             /\ \A k \in DOMAIN w : ~Refuses(s, c, i, w[k])
             /\ \A k \in DOMAIN f.cs : ~Refuses(s, c, i, f.cs[k])
             /\ Has(f, "seeds") => PdaError(s, c, i) = "Ok"
  <2>1. ImpliedChecked(f) = w
    BY DEF Ready, HasLifecycle, Lifecycle, ImpliedChecked, Has, Listed
  <2> QED BY <2>1, FieldErrorOk DEF Ready
<1>2. (\A k \in DOMAIN w : ~Refuses(s, c, i, w[k]))
        <=> \A e \in LeanImplied(f) : Satisfies(s, c, i, e)
  BY ImpliedMatches DEF Ready
<1>3. \A k \in DOMAIN f.cs :
         /\ f.cs[k].c \in LeanKinds \ {"seeds"} =>
              (Refuses(s, c, i, f.cs[k]) <=> ~Satisfies(s, c, i, f.cs[k]))
         /\ f.cs[k].c \notin LeanKinds => ~Refuses(s, c, i, f.cs[k])
         /\ f.cs[k].c = "seeds" => ~Refuses(s, c, i, f.cs[k])
  BY OwnMatches
<1>4. (\A k \in DOMAIN f.cs : ~Refuses(s, c, i, f.cs[k])) <=>
        \A k \in Listed(f, LeanKinds \ {"seeds"}) : Satisfies(s, c, i, f.cs[k])
  BY <1>3 DEF Listed
<1>5. \A k \in Listed(f, {"seeds"}) :
         /\ PdaError(s, c, i) = "Ok" => Satisfies(s, c, i, f.cs[k])
         /\ Viable(s, c, i) /\ Satisfies(s, c, i, f.cs[k]) => PdaError(s, c, i) = "Ok"
  <2> TAKE k \in Listed(f, {"seeds"})
  <2>1. IsSequence(f.cs) /\ \A x \in Listed(f, {"seeds"}) : k = x
    BY DEF Ready, WellFormed
  <2>2. First(f, {"seeds"}) = f.cs[k]
    BY <2>1, FirstIs
  <2>3. Satisfies(s, c, i, f.cs[k]) <=> SatisfiesSeeds(s, c, i, f.cs[k])
    BY DEF Satisfies, Listed
  <2> QED BY <2>2, <2>3, PdaMatches DEF Viable
<1>6. (\A e \in LeanConstraints(f) : Satisfies(s, c, i, e)) <=>
        /\ \A e \in LeanImplied(f) : Satisfies(s, c, i, e)
        /\ \A k \in Listed(f, LeanKinds \ {"seeds"}) : Satisfies(s, c, i, f.cs[k])
        /\ \A k \in Listed(f, {"seeds"}) : Satisfies(s, c, i, f.cs[k])
  BY DEF LeanConstraints, Listed, LeanKinds
<1>7. Has(f, "seeds") <=> \E k \in Listed(f, {"seeds"}) : TRUE
  BY DEF Has
<1> HIDE DEF f, w
<1>8. FieldError(s, c, i) = "Ok" =>
                \A e \in LeanConstraints(f) : Satisfies(s, c, i, e)
  BY <1>1, <1>2, <1>4, <1>5, <1>6, <1>7
<1>9. (/\ Has(f, "seeds") => Viable(s, c, i)
       /\ \A e \in LeanConstraints(f) : Satisfies(s, c, i, e))
                => FieldError(s, c, i) = "Ok"
  BY <1>1, <1>2, <1>4, <1>5, <1>6, <1>7
<1> QED BY <1>8, <1>9 DEF f

LEMMA ValidateOk ==
    ASSUME NEW s, NEW c, WellFormed(s), IsSequence(c.accounts)
    PROVE  Validate(s, c) = "Ok" <=>
             /\ Len(s.fields) <= Len(c.accounts)
             /\ \A i \in DOMAIN s.fields : FieldError(s, c, i) = "Ok"
             /\ ~Duplicates(s, c)
<1> DEFINE n    == Len(s.fields)
           each == [i \in DOMAIN s.fields |-> FieldError(s, c, i)]
           last == <<IF Duplicates(s, c) THEN "DuplicateAccount" ELSE "Ok">>
<1>1. /\ n \in Nat /\ DOMAIN s.fields = 1..n /\ Len(c.accounts) \in Nat
  <2>1. /\ s.fields \in Seq({s.fields[k] : k \in DOMAIN s.fields})
        /\ c.accounts \in Seq({c.accounts[k] : k \in DOMAIN c.accounts})
    BY DEF WellFormed, IsSequence
  <2> QED BY <2>1, SequenceIs
<1>2. IsSequence(each) /\ DOMAIN each = DOMAIN s.fields
  <2> DEFINE T == {FieldError(s, c, i) : i \in DOMAIN s.fields}
  <2>1. each \in [1..n -> T]
    BY <1>1
  <2>2. each \in Seq(T)
    <3> HIDE DEF T, each
    <3> QED BY <1>1, <2>1
  <2> HIDE DEF T
  <2> QED BY <2>2, SequenceIs
<1>3. IsSequence(last) /\ DOMAIN last = {1}
  BY DEF IsSequence
<1>4. Validate(s, c) = IF Len(c.accounts) < n THEN "NotEnoughAccounts"
                       ELSE FirstError(each \o last)
  BY DEF Validate
<1>5. FirstError(each \o last) = "Ok" <=>
        /\ \A i \in DOMAIN each : each[i] = "Ok"
        /\ last[1] = "Ok"
  <2> HIDE DEF each, last
  <2>1. IsSequence(each \o last) /\ Joined(each, last, each \o last)
    BY <1>2, <1>3, Concatenation
  <2>2. FirstError(each \o last) = "Ok" <=>
          \A k \in DOMAIN (each \o last) : (each \o last)[k] = "Ok"
    BY <2>1, FirstErrorOk
  <2> QED BY <1>3, <2>1, <2>2 DEF Joined
<1>6. last[1] = "Ok" <=> ~Duplicates(s, c)
  OBVIOUS
<1>7. (\A i \in DOMAIN each : each[i] = "Ok")
        <=> \A i \in DOMAIN s.fields : FieldError(s, c, i) = "Ok"
  OBVIOUS
<1> HIDE DEF each, last, n
<1> QED BY <1>1, <1>4, <1>5, <1>6, <1>7 DEF n

LEMMA DistinctAlike ==
    ASSUME NEW s, NEW c
    PROVE  DistinctMutKeys(s, c) <=> ~Duplicates(s, c)
BY DEF DistinctMutKeys, Duplicates

LEMMA AccountOfField ==
    ASSUME NEW s, NEW c, WellFormed(s), IsSequence(c.accounts),
           Len(s.fields) <= Len(c.accounts), NEW i \in DOMAIN s.fields
    PROVE  i \in DOMAIN c.accounts
<1>1. /\ s.fields \in Seq({s.fields[k] : k \in DOMAIN s.fields})
      /\ c.accounts \in Seq({c.accounts[k] : k \in DOMAIN c.accounts})
  BY DEF WellFormed, IsSequence
<1>2. /\ DOMAIN s.fields = 1..Len(s.fields) /\ DOMAIN c.accounts = 1..Len(c.accounts)
      /\ Len(s.fields) \in Nat /\ Len(c.accounts) \in Nat
  BY <1>1, SequenceIs
<1> QED BY <1>2

\* validate accepts only what meets the contract, and all of it whose addresses
\* can be derived.
LEMMA ValidateMatches ==
    ASSUME NEW s, NEW c, Ready(s, c)
    PROVE  /\ Validate(s, c) = "Ok" => Contract(s, c)
           /\ SeedsViable(s, c) /\ Contract(s, c) => Validate(s, c) = "Ok"
<1>0. WellFormed(s) /\ IsSequence(c.accounts)
  BY DEF Ready
<1>1. Validate(s, c) = "Ok" <=>
             /\ Len(s.fields) <= Len(c.accounts)
             /\ \A i \in DOMAIN s.fields : FieldError(s, c, i) = "Ok"
             /\ ~Duplicates(s, c)
  BY <1>0, ValidateOk
<1>2. Contract(s, c) <=>
             /\ Len(s.fields) <= Len(c.accounts)
             /\ \A i \in DOMAIN s.fields : \A e \in LeanConstraints(s.fields[i]) :
                  Satisfies(s, c, i, e)
             /\ ~Duplicates(s, c)
  BY DistinctAlike DEF Contract
<1> SUFFICES ASSUME Len(s.fields) <= Len(c.accounts)
             PROVE  /\ (\A i \in DOMAIN s.fields : FieldError(s, c, i) = "Ok") =>
                         \A i \in DOMAIN s.fields : \A e \in LeanConstraints(s.fields[i]) :
                           Satisfies(s, c, i, e)
                    /\ SeedsViable(s, c)
                       /\ (\A i \in DOMAIN s.fields : \A e \in LeanConstraints(s.fields[i]) :
                             Satisfies(s, c, i, e))
                         => \A i \in DOMAIN s.fields : FieldError(s, c, i) = "Ok"
  BY <1>1, <1>2
<1>3. \A i \in DOMAIN s.fields : i \in DOMAIN c.accounts
  BY <1>0, AccountOfField
<1>4. SeedsViable(s, c) => \A i \in DOMAIN s.fields : Has(s.fields[i], "seeds") => Viable(s, c, i)
  <2> SUFFICES ASSUME SeedsViable(s, c), NEW i \in DOMAIN s.fields, Has(s.fields[i], "seeds")
               PROVE  Viable(s, c, i)
    OBVIOUS
  <2>1. i \in SeededFields(s) /\ i \in DOMAIN c.accounts
    BY <1>3 DEF SeededFields
  <2> DEFINE d == First(s.fields[i], {"seeds"})
  <2>2. /\ Resolved(s, c, d)
        /\ Derivable(s.fields[i], SeedList(s, c, d))
    BY <2>1 DEF SeedsViable
  <2> QED BY <2>2 DEF Viable
<1> QED BY <1>3, <1>4, FieldMatches

-----------------------------------------------------------------------------
(***************************************************************************)
(* Amounts: what EncodeU64 writes is read back, in as many bytes of any    *)
(* base. x[i] is what i bytes leave of a number, or make of one.           *)
(***************************************************************************)

\* What is left of a number behind its first bytes.
RestStep(n, x, i) == IF i = 0 THEN n ELSE x[i - 1] \div Base
Resting(n, x, m)  == x = [i \in 0..m |-> RestStep(n, x, i)]
RestTrail(n, x) ==
    /\ x[0] = n
    /\ \A i \in 1..AmountLen : x[i] = x[i - 1] \div Base

LEMMA EncodeIs ==
    ASSUME NEW n
    PROVE  EncodeU64(n) = [i \in 1..AmountLen |->
                             (CHOOSE x : Resting(n, x, AmountLen))[i - 1] % Base]
BY DEF EncodeU64, Resting, RestStep

LEMMA RestingExists ==
    ASSUME NEW n, NEW l \in Nat
    PROVE  \E x : Resting(n, x, l)
<1> DEFINE Step(g, i) == RestStep(n, g, i)
           S == {m \in 0..l : \E g : Resting(n, g, m)}
<1>1. 0 \in S
  <2> DEFINE g == [i \in 0..0 |-> n]
  <2>1. g = [i \in 0..0 |-> Step(g, i)]
    BY DEF RestStep
  <2> QED BY <2>1 DEF Resting
<1>2. ASSUME NEW m \in 1..l, m - 1 \in S PROVE m \in S
  <2>1. PICK g : g = [i \in 0..m - 1 |-> Step(g, i)]
    BY <1>2 DEF Resting
  <2> DEFINE h == [i \in 0..m |-> IF i = m THEN Step(g, m) ELSE g[i]]
  <2>2. ASSUME NEW i \in 0..m PROVE h[i] = Step(h, i)
    <3>1. i # 0 => i - 1 \in 0..m /\ i - 1 # m /\ h[i - 1] = g[i - 1]
      OBVIOUS
    <3>2. Step(h, i) = Step(g, i)
      BY <3>1 DEF RestStep
    <3>3. i # m => i \in 0..m - 1 /\ g[i] = Step(g, i)
      <4> HIDE DEF Step
      <4> QED BY <2>1
    <3> HIDE DEF Step
    <3> QED BY <3>2, <3>3
  <2>3. h = [i \in 0..m |-> Step(h, i)]
    <3>1. h = [i \in 0..m |-> h[i]]
      OBVIOUS
    <3> HIDE DEF h, Step
    <3> QED BY <3>1, <2>2
  <2> HIDE DEF h
  <2> QED BY <2>3 DEF Resting
<1>3. \A m \in 0..l : m \in S
  <2> HIDE DEF S
  <2> QED BY <1>1, <1>2, UpToInduction
<1> QED BY <1>3

LEMMA EncodeTrail ==
    ASSUME NEW n
    PROVE  \E x : /\ EncodeU64(n) = [i \in 1..AmountLen |-> x[i - 1] % Base]
                  /\ RestTrail(n, x)
<1> DEFINE X == CHOOSE x : Resting(n, x, AmountLen)
<1>0. AmountLen \in Nat
  BY HandlersAssumption
<1>1. Resting(n, X, AmountLen)
  BY <1>0, RestingExists
<1>2. EncodeU64(n) = [i \in 1..AmountLen |-> X[i - 1] % Base]
  BY EncodeIs
<1> HIDE DEF X
<1>3. \A i \in 0..AmountLen : X[i] = RestStep(n, X, i)
  BY <1>1 DEF Resting
<1>4. X[0] = n
  <2>1. 0 \in 0..AmountLen
    BY <1>0
  <2> QED BY <1>3, <2>1 DEF RestStep
<1>5. \A i \in 1..AmountLen : X[i] = X[i - 1] \div Base
  <2> TAKE i \in 1..AmountLen
  <2>1. i \in 0..AmountLen /\ i # 0
    BY <1>0
  <2> QED BY <1>3, <2>1 DEF RestStep
<1> QED BY <1>2, <1>4, <1>5 DEF RestTrail

LEMMA Division ==
    ASSUME NEW n \in Nat
    PROVE  /\ n \div Base \in Nat /\ n % Base \in 0..Base - 1
           /\ Base * (n \div Base) + (n % Base) = n
BY LayoutAssumption

LEMMA RestType ==
    ASSUME NEW n \in Nat, NEW x, RestTrail(n, x)
    PROVE  \A i \in 0..AmountLen : x[i] \in Nat
<1> DEFINE S == {i \in 0..AmountLen : x[i] \in Nat}
<1>0. AmountLen \in Nat
  BY HandlersAssumption
<1>1. 0 \in S
  BY <1>0 DEF RestTrail
<1>2. ASSUME NEW i \in 1..AmountLen, i - 1 \in S PROVE i \in S
  <2>1. x[i] = x[i - 1] \div Base /\ x[i - 1] \in Nat /\ i \in 0..AmountLen
    BY <1>0, <1>2 DEF RestTrail
  <2> QED BY <2>1, Division
<1>3. \A i \in 0..AmountLen : i \in S
  <2> HIDE DEF S
  <2> QED BY <1>0, <1>1, <1>2, UpToInduction
<1> QED BY <1>3

LEMMA EncodeType ==
    ASSUME NEW n \in Nat
    PROVE  /\ EncodeU64(n) \in Bytes /\ Len(EncodeU64(n)) = AmountLen
           /\ DOMAIN EncodeU64(n) = 1..AmountLen
<1>1. PICK x : /\ EncodeU64(n) = [i \in 1..AmountLen |-> x[i - 1] % Base]
               /\ RestTrail(n, x)
  BY EncodeTrail
<1>2. \A i \in 1..AmountLen : x[i - 1] % Base \in Byte
  <2> TAKE i \in 1..AmountLen
  <2>1. i - 1 \in 0..AmountLen
    BY HandlersAssumption
  <2>2. x[i - 1] \in Nat
    BY <1>1, <2>1, RestType
  <2> QED BY <2>2, Division DEF Byte
<1>3. EncodeU64(n) \in [1..AmountLen -> Byte]
  BY <1>1, <1>2
<1> QED BY <1>3, HandlersAssumption DEF Bytes

\* The greatest number that w bytes hold bounds what they are read as.
LEMMA ReadBelowMax ==
    ASSUME NEW data \in Bytes, NEW off \in Nat, off + AmountLen <= Len(data)
    PROVE  LittleEndian(data, off, AmountLen) \in 0..U64Max
<1> DEFINE w    == AmountLen
           full == [i \in 1..w |-> Base - 1]
<1>0. w \in Nat /\ Base \in Nat /\ Base # 0
  BY HandlersAssumption, LayoutAssumption
<1>1. PICK x : LittleEndian(data, off, w) = x[w] /\ ValueTrail(data, off, w, x)
  BY <1>0, LittleEndianTrail
<1>2. PICK m : LittleEndian(full, 0, w) = m[w] /\ ValueTrail(full, 0, w, m)
  BY <1>0, LittleEndianTrail
<1> DEFINE S == {i \in 0..w : x[i] \in Nat /\ m[i] \in Nat /\ x[i] <= m[i]}
<1>3. 0 \in S
  <2>1. 0 \in 0..w
    BY <1>0
  <2> QED BY <1>1, <1>2, <2>1 DEF ValueTrail
<1>4. ASSUME NEW i \in 1..w, i - 1 \in S PROVE i \in S
  <2> DEFINE k == off + w - i + 1
             d == data[k]
             y == x[i - 1]
             z == m[i - 1]
  <2>1. k \in 1..Len(data) /\ i \in 0..w
    BY <1>0, BytesAre
  <2>2. d \in 0..Base - 1
    BY <2>1, BytesAre
  <2>3. y \in Nat /\ z \in Nat /\ y <= z
    BY <1>4
  <2>4. x[i] = Base * y + d
    BY <1>1 DEF ValueTrail
  <2>5. m[i] = Base * z + (Base - 1)
    <3>1. m[i] = Base * z + full[0 + w - i + 1]
      <4> HIDE DEF full
      <4> QED BY <1>2 DEF ValueTrail
    <3>2. 0 + w - i + 1 \in 1..w
      BY <1>0
    <3> HIDE DEF z
    <3> QED BY <3>1, <3>2
  <2> HIDE DEF k, d, y, z
  <2>6. Base * y <= Base * z /\ Base * y \in Nat /\ Base * z \in Nat
    BY <1>0, <2>3
  <2>7. x[i] \in Nat /\ m[i] \in Nat /\ x[i] <= m[i]
    BY <1>0, <2>2, <2>4, <2>5, <2>6
  <2> QED BY <2>1, <2>7
<1>5. w \in S
  <2>1. \A i \in 0..w : i \in S
    <3> HIDE DEF S, w
    <3> QED BY <1>0, <1>3, <1>4, UpToInduction
  <2> QED BY <1>0, <2>1
<1>6. U64Max = m[w]
  BY <1>2 DEF U64Max
<1> QED BY <1>1, <1>5, <1>6

LEMMA MaxType == U64Max \in Nat
<1> DEFINE full == [i \in 1..AmountLen |-> Base - 1]
<1>0. AmountLen \in Nat /\ Base - 1 \in Byte
  BY HandlersAssumption, LayoutAssumption DEF Byte
<1>1. full \in [1..AmountLen -> Byte]
  BY <1>0
<1>2. full \in Bytes /\ Len(full) = AmountLen
  BY <1>0, <1>1 DEF Bytes
<1> HIDE DEF full
<1>3. 0 + AmountLen <= Len(full) /\ 0 \in Nat
  BY <1>0, <1>2
<1>4. LittleEndian(full, 0, AmountLen) \in Nat
  BY <1>0, <1>2, <1>3, LittleEndianType
<1> QED BY <1>4 DEF U64Max, full

\* What was written is read back, whatever is behind it.
LEMMA EncodeReads ==
    ASSUME NEW n \in Nat, n <= U64Max, NEW data,
           \A i \in 1..AmountLen : data[i] = EncodeU64(n)[i]
    PROVE  LittleEndian(data, 0, AmountLen) = n
<1> DEFINE w    == AmountLen
           full == [i \in 1..w |-> Base - 1]
<1>0. w \in Nat /\ Base \in Nat \ {0}
  BY HandlersAssumption, LayoutAssumption
<1>1. PICK r : /\ EncodeU64(n) = [i \in 1..w |-> r[i - 1] % Base]
               /\ RestTrail(n, r)
  BY EncodeTrail
<1>2. PICK m : LittleEndian(full, 0, w) = m[w] /\ ValueTrail(full, 0, w, m)
  BY <1>0, LittleEndianTrail
<1>3. PICK v : LittleEndian(data, 0, w) = v[w] /\ ValueTrail(data, 0, w, v)
  BY <1>0, LittleEndianTrail
<1>4. \A i \in 0..w : r[i] \in Nat
  BY <1>1, RestType
<1>5. \A i \in 1..w : m[i] = Base * m[i - 1] + (Base - 1)
  <2> TAKE i \in 1..w
  <2>1. m[i] = Base * m[i - 1] + full[0 + w - i + 1]
    <3> HIDE DEF full
    <3> QED BY <1>2 DEF ValueTrail
  <2>2. 0 + w - i + 1 \in 1..w
    BY <1>0
  <2> QED BY <2>1, <2>2
<1>6. \A i \in 0..w : m[i] \in Nat
  <2> DEFINE S == {i \in 0..w : m[i] \in Nat}
  <2>1. 0 \in S
    BY <1>0, <1>2 DEF ValueTrail
  <2>2. ASSUME NEW i \in 1..w, i - 1 \in S PROVE i \in S
    <3>1. m[i - 1] \in Nat /\ m[i] = Base * m[i - 1] + (Base - 1) /\ i \in 0..w
      BY <1>0, <1>5, <2>2
    <3>2. Base * m[i - 1] \in Nat
      BY <1>0, <3>1
    <3> QED BY <1>0, <3>1, <3>2
  <2>3. \A i \in 0..w : i \in S
    <3> HIDE DEF S, w
    <3> QED BY <1>0, <2>1, <2>2, UpToInduction
  <2> QED BY <2>3
<1> HIDE DEF full
<1>7. r[w] = 0
  <2> DEFINE S == {i \in 0..w : r[i] <= m[w - i]}
  <2>1. 0 \in S
    <3>1. r[0] = n /\ n <= m[w] /\ 0 \in 0..w /\ w - 0 = w
      BY <1>0, <1>1, <1>2 DEF RestTrail, U64Max, full
    <3> QED BY <3>1
  <2>2. ASSUME NEW i \in 1..w, i - 1 \in S PROVE i \in S
    <3> DEFINE j == w - i + 1
               z == m[j - 1]
               y == r[i - 1]
    <3>1. /\ i - 1 \in 0..w /\ i \in 0..w /\ j \in 1..w /\ j - 1 \in 0..w
          /\ w - (i - 1) = j /\ w - i = j - 1
      BY <1>0
    <3>2. y <= m[j] /\ y \in Nat /\ z \in Nat
      BY <1>4, <1>6, <2>2, <3>1
    <3>3. m[j] = Base * z + (Base - 1)
      <4> HIDE DEF j
      <4> QED BY <1>5, <3>1
    <3>4. r[i] = y \div Base
      BY <1>1 DEF RestTrail
    <3> HIDE DEF y, z
    <3>5. /\ y \div Base \in Nat /\ y % Base \in 0..Base - 1
          /\ Base * (y \div Base) + (y % Base) = y
      BY <3>2, Division
    <3> DEFINE q == y \div Base
    <3>6. Base * q < Base * (z + 1)
      <4>1. Base * (z + 1) = Base * z + Base
        BY <1>0, <3>2
      <4>2. Base * z \in Nat /\ Base * q \in Nat
        BY <1>0, <3>2, <3>5
      <4> HIDE DEF q
      <4> QED BY <1>0, <3>2, <3>3, <3>5, <4>1, <4>2 DEF q
    <3>7. q < z + 1
      <4>1. q \in Nat /\ z + 1 \in Nat
        BY <3>2, <3>5
      <4>2. q >= z + 1 => Base * q >= Base * (z + 1)
        <5> HIDE DEF q
        <5> QED BY <1>0, <4>1
      <4>3. Base * q \in Nat /\ Base * (z + 1) \in Nat
        <5> HIDE DEF q
        <5> QED BY <1>0, <4>1
      <4> HIDE DEF q
      <4> QED BY <3>6, <4>1, <4>2, <4>3
    <3>8. r[i] <= m[w - i]
      <4>1. r[i] = q /\ q \in Nat
        BY <3>4, <3>5
      <4>2. m[w - i] = z
        BY <3>1 DEF z
      <4> HIDE DEF q
      <4> QED BY <3>2, <3>7, <4>1, <4>2
    <3> QED BY <3>1, <3>8
  <2>3. \A i \in 0..w : i \in S
    <3> HIDE DEF S, w
    <3> QED BY <1>0, <2>1, <2>2, UpToInduction
  <2>4. r[w] <= m[w - w] /\ w - w = 0 /\ r[w] \in Nat
    BY <1>0, <1>4, <2>3
  <2>5. m[0] = 0
    BY <1>2 DEF ValueTrail
  <2> QED BY <2>4, <2>5
<1>8. \A i \in 0..w : v[i] = r[w - i]
  <2> DEFINE S == {i \in 0..w : v[i] = r[w - i]}
  <2>1. 0 \in S
    <3>1. v[0] = 0 /\ 0 \in 0..w /\ w - 0 = w
      BY <1>0, <1>3 DEF ValueTrail
    <3> QED BY <1>7, <3>1
  <2>2. ASSUME NEW i \in 1..w, i - 1 \in S PROVE i \in S
    <3> DEFINE j == w - i + 1
    <3>1. /\ j \in 1..w /\ j - 1 \in 0..w /\ i \in 0..w
          /\ w - (i - 1) = j /\ w - i = j - 1 /\ 0 + w - i + 1 = j
      BY <1>0
    <3>2. v[i] = Base * v[i - 1] + data[j]
      BY <1>3, <3>1 DEF ValueTrail
    <3>3. v[i - 1] = r[j]
      BY <2>2, <3>1
    <3> HIDE DEF j
    <3>4. data[j] = r[j - 1] % Base
      BY <1>1, <3>1
    <3>5. r[j] = r[j - 1] \div Base
      BY <1>1, <3>1 DEF RestTrail
    <3>6. r[j - 1] \in Nat
      BY <1>4, <3>1
    <3>7. Base * (r[j - 1] \div Base) + (r[j - 1] % Base) = r[j - 1]
      BY <3>6, Division
    <3>8. v[i] = r[w - i]
      BY <3>1, <3>2, <3>3, <3>4, <3>5, <3>7
    <3> QED BY <3>1, <3>8
  <2>3. \A i \in 0..w : i \in S
    <3> HIDE DEF S, w
    <3> QED BY <1>0, <2>1, <2>2, UpToInduction
  <2> QED BY <2>3
<1>9. v[w] = n
  <2>1. w \in 0..w /\ w - w = 0 /\ r[0] = n
    BY <1>0, <1>1 DEF RestTrail
  <2> QED BY <1>8, <2>1
<1> QED BY <1>3, <1>9

-----------------------------------------------------------------------------
(***************************************************************************)
(* The handlers: accounts keep their types, and an amount moved arrives.   *)
(***************************************************************************)

Infos(a) == \A j \in DOMAIN a : a[j] \in AccountInfo

\* The account a with b in front of its data.
Overwritten(a, b) ==
    [a EXCEPT !.data = b \o SubSeq(a.data, Len(b) + 1, Len(a.data))]

LEMMA WriteIs ==
    ASSUME NEW a, NEW i, NEW b, NEW r
    PROVE  r \in Write(a, i, b) <=>
             /\ Len(b) <= Len(a[i].data)
             /\ r = [j \in DOMAIN a |-> IF a[j].key # a[i].key THEN a[j]
                                        ELSE Overwritten(a[j], b)]
BY DEF Write, Overwritten

LEMMA TailOf ==
    ASSUME NEW S, NEW q \in Seq(S), NEW m \in Nat
    PROVE  /\ SubSeq(q, m + 1, Len(q)) \in Seq(S)
           /\ m <= Len(q) => Len(SubSeq(q, m + 1, Len(q))) = Len(q) - m
BY DEF SubSeq

LEMMA OverwrittenIs ==
    ASSUME NEW a \in AccountInfo, NEW b \in Bytes
    PROVE  /\ Overwritten(a, b) \in AccountInfo
           /\ \A i \in 1..Len(b) : Overwritten(a, b).data[i] = b[i]
           /\ Len(b) <= Len(a.data) => Len(Overwritten(a, b).data) = Len(a.data)
<1> DEFINE t == SubSeq(a.data, Len(b) + 1, Len(a.data))
           S == Byte
<1>1. a.data \in Seq(S) /\ b \in Seq(S) /\ Len(b) \in Nat
  BY DEF AccountInfo, Bytes
<1> HIDE DEF S
<1>2. t \in Seq(S) /\ (Len(b) <= Len(a.data) => Len(t) = Len(a.data) - Len(b))
  BY <1>1, TailOf
<1> HIDE DEF t
<1>3. /\ b \o t \in Seq(S) /\ Len(b \o t) = Len(b) + Len(t)
      /\ \A i \in 1..Len(b) : (b \o t)[i] = b[i]
  BY <1>1, <1>2
<1>4. Overwritten(a, b) = [a EXCEPT !.data = b \o t]
  BY DEF Overwritten, t
<1>5. b \o t \in Bytes
  BY <1>3 DEF S, Bytes
<1>6. Overwritten(a, b) \in AccountInfo /\ Overwritten(a, b).data = b \o t
  BY <1>4, <1>5 DEF AccountInfo
<1>7. Len(a.data) \in Nat /\ Len(t) \in Nat
  BY <1>1, <1>2
<1> QED BY <1>1, <1>2, <1>3, <1>6, <1>7

LEMMA WriteType ==
    ASSUME NEW a, Infos(a), NEW i, NEW b \in Bytes, NEW r \in Write(a, i, b)
    PROVE  Infos(r) /\ DOMAIN r = DOMAIN a
<1>1. r = [j \in DOMAIN a |-> IF a[j].key # a[i].key THEN a[j] ELSE Overwritten(a[j], b)]
  BY WriteIs
<1>2. \A j \in DOMAIN a : a[j] \in AccountInfo /\ Overwritten(a[j], b) \in AccountInfo
  BY OverwrittenIs DEF Infos
<1> QED BY <1>1, <1>2 DEF Infos

LEMMA KeyIsBytes ==
    ASSUME NEW k \in Key
    PROVE  k \in Bytes
BY LayoutAssumption DEF Key, Bytes

LEMMA OneIsBytes == <<1>> \in Bytes
<1>1. 1 \in Byte
  BY LayoutAssumption DEF Byte
<1> QED BY <1>1 DEF Bytes

LEMMA AmountType ==
    ASSUME NEW a \in AccountInfo, NEW off \in Nat, NEW n \in ReadU64(a.data, off)
    PROVE  n \in Nat
BY ReadType, HandlersAssumption DEF ReadU64, AccountInfo

\* A handler leaves accounts of their types behind.
LEMMA EffectType ==
    ASSUME NEW p \in Process, NEW a, Infos(a), 1..Len(p.s.fields) \subseteq DOMAIN a,
           NEW r \in Effect(p.name, a)
    PROVE  Infos(r)
<1>0. /\ DiscLen \in Nat /\ KeyLen \in Nat /\ PrefixLen \in Nat /\ DiscLen + KeyLen \in Nat
      /\ 0 \in Nat /\ AmountLen \in Nat
  BY LayoutAssumption, HandlersAssumption
<1>1. CASE p.name = "cashio"
  <2>1. 1 \in DOMAIN a
    BY <1>1 DEF Process, Program, VerifiedCashio, NoArgs
  <2>2. PICK n \in ReadU64(a[1].data, DiscLen + KeyLen) : r \in Write(a, 3, EncodeU64(n))
    BY <1>1 DEF Effect, Cashio
  <2> QED BY <1>0, <2>1, <2>2, AmountType, EncodeType, WriteType DEF Infos
<1>2. CASE p.name = "confusion"
  BY <1>2, OneIsBytes, WriteType DEF Effect, Confusion
<1>3. CASE p.name = "wrong_offset"
  BY <1>3, OneIsBytes, WriteType DEF Effect
<1>4. CASE p.name = "dup"
  <2>1. 1 \in DOMAIN a /\ 2 \in DOMAIN a
    BY <1>4 DEF Process, Program, VerifiedDup, NoArgs
  <2>2. PICK from \in ReadU64(a[1].data, 0), to \in ReadU64(a[2].data, 0) :
          \E d \in Write(a, 1, EncodeU64(IF from < Moved THEN 0 ELSE from - Moved)) :
            r \in Write(d, 2, EncodeU64((to + Moved) % (U64Max + 1)))
    BY <1>4 DEF Effect, Dup
  <2>3. from \in Nat /\ to \in Nat /\ Moved \in Nat
    BY <1>0, <2>1, AmountType, HandlersAssumption DEF Infos
  <2>4. (IF from < Moved THEN 0 ELSE from - Moved) \in Nat
    BY <2>3
  <2>5. (to + Moved) % (U64Max + 1) \in Nat
    BY <2>3, MaxType
  <2> QED BY <2>2, <2>4, <2>5, EncodeType, WriteType
<1>5. CASE p.name = "crema"
  <2>1. 1 \in DOMAIN a
    BY <1>5 DEF Process, Program, VerifiedCrema, NoArgs
  <2>2. PICK n \in ReadU64(a[1].data, 0) : r \in Write(a, 2, EncodeU64(n))
    BY <1>5 DEF Effect, Crema
  <2> QED BY <1>0, <2>1, <2>2, AmountType, EncodeType, WriteType DEF Infos
<1>6. CASE p.name = "seeds"
  <2>1. 2 \in DOMAIN a
    BY <1>6 DEF Process, Program, VerifiedSeeds, NoArgs
  <2>2. a[2].key \in Bytes
    BY <2>1, KeyIsBytes DEF Infos, AccountInfo
  <2> QED BY <1>6, <2>2, WriteType DEF Effect
<1>7. CASE p.name = "after_string"
  <2>1. 1 \in DOMAIN a
    BY <1>7 DEF Process, Program, CheckConstraintAfterString, NoArgs
  <2>2. PICK len \in ReadUIntLE(a[1].data, DiscLen, PrefixLen) :
          \E n \in ReadU64(a[1].data, DiscLen + PrefixLen + len) : r \in Write(a, 2, EncodeU64(n))
    BY <1>7 DEF Effect, EchoAmount
  <2>3. a[1] \in AccountInfo
    BY <2>1 DEF Infos
  <2>4. len \in Nat
    BY <1>0, <2>3, ReadType DEF AccountInfo
  <2>5. DiscLen + PrefixLen + len \in Nat
    BY <1>0, <2>4
  <2> QED BY <2>2, <2>3, <2>5, AmountType, EncodeType, WriteType
<1>8. CASE p.name = "named_seed"
  <2>1. 1 \in DOMAIN a
    BY <1>8 DEF Process, Program, CheckNamedSeed
  <2>2. a[1].key \in Bytes
    BY <2>1, KeyIsBytes DEF Infos, AccountInfo
  <2> QED BY <1>8, <2>2, WriteType DEF Effect
<1>9. CASE p.name = "hatch"
  BY <1>9, OneIsBytes, WriteType DEF Effect
<1>10. CASE p.name \notin {"cashio", "confusion", "wrong_offset", "dup", "crema", "seeds",
                           "after_string", "named_seed", "hatch"}
  BY <1>10 DEF Effect
<1> QED BY <1>1, <1>2, <1>3, <1>4, <1>5, <1>6, <1>7, <1>8, <1>9, <1>10

\* Two mut accounts that validate passed are two accounts.
LEMMA PairApart ==
    ASSUME NEW c, ~Duplicates(VerifiedDup, c)
    PROVE  c.accounts[1].key # c.accounts[2].key
<1> DEFINE f == VerifiedDup.fields
<1>1. /\ f = <<Unchecked("from", <<C("mut")>>), Unchecked("to", <<C("mut")>>)>>
      /\ DOMAIN f = {1, 2}
  BY DEF VerifiedDup, NoArgs
<1>2. /\ f[1].cs = <<[c |-> "mut"]>> /\ f[2].cs = <<[c |-> "mut"]>>
  BY DEF VerifiedDup, NoArgs, Unchecked, Bare, C
<1> HIDE DEF f
<1>3. Listed(f[1], {"mut"}) # {} /\ Listed(f[2], {"mut"}) # {}
  <2>1. 1 \in Listed(f[1], {"mut"}) /\ 1 \in Listed(f[2], {"mut"})
    BY <1>2 DEF Listed
  <2> QED BY <2>1
<1>4. ~Exempt(f[1], f[2])
  <2>1. Listed(f[1], {"allow_duplicate"}) = {} /\ Listed(f[2], {"allow_duplicate"}) = {}
    BY <1>2 DEF Listed
  <2> QED BY <2>1 DEF Exempt, Allows
<1>5. IsMut(f[1]) /\ IsMut(f[2])
  BY <1>3 DEF IsMut, Has
<1>6. 1 \in DOMAIN f /\ 2 \in DOMAIN f /\ 1 < 2
  BY <1>1
<1> QED BY <1>4, <1>5, <1>6 DEF Duplicates, f

\* An amount that was written is the one that is read.
LEMMA AmountRead ==
    ASSUME NEW a \in AccountInfo, NEW n \in 0..U64Max,
           AmountLen <= UsizeMax, AmountLen <= Len(a.data)
    PROVE  ReadU64(Overwritten(a, EncodeU64(n)).data, 0) = {n}
<1> DEFINE o == Overwritten(a, EncodeU64(n))
<1>1. AmountLen \in Nat /\ n \in Nat /\ n <= U64Max
  BY MaxType, HandlersAssumption
<1>2. EncodeU64(n) \in Bytes /\ Len(EncodeU64(n)) = AmountLen
  BY <1>1, EncodeType
<1>3. o \in AccountInfo /\ Len(o.data) = Len(a.data)
      /\ \A i \in 1..AmountLen : o.data[i] = EncodeU64(n)[i]
  BY <1>2, OverwrittenIs
<1> HIDE DEF o
<1>4. LittleEndian(o.data, 0, AmountLen) = n
  BY <1>1, <1>3, EncodeReads
<1>5. Checked(0 + AmountLen) = {AmountLen}
  BY <1>1 DEF Checked
<1>6. ReadU64(o.data, 0) = {n}
  BY <1>3, <1>4, <1>5 DEF ReadU64, ReadUIntLE
<1> QED BY <1>6 DEF o

LEMMA AmountIs ==
    ASSUME NEW a \in AccountInfo, NEW n \in ReadU64(a.data, 0)
    PROVE  /\ n \in 0..U64Max /\ AmountLen <= UsizeMax /\ AmountLen <= Len(a.data)
           /\ ReadU64(a.data, 0) = {n}
<1>1. AmountLen \in Nat /\ 0 + AmountLen = AmountLen /\ a.data \in Bytes
  BY HandlersAssumption DEF AccountInfo
<1>2. n = LittleEndian(a.data, 0, AmountLen) /\ AmountLen <= UsizeMax /\ AmountLen <= Len(a.data)
  BY <1>1 DEF ReadU64, ReadUIntLE, Checked
<1>3. ReadU64(a.data, 0) \subseteq {LittleEndian(a.data, 0, AmountLen)}
  BY DEF ReadU64, ReadUIntLE
<1>4. n \in 0..U64Max
  BY <1>1, <1>2, ReadBelowMax
<1> QED BY <1>2, <1>3, <1>4

\* Moving an amount between two accounts of different keys.
LEMMA DupMoves ==
    ASSUME NEW a, a[1] \in AccountInfo, a[2] \in AccountInfo, {1, 2} \subseteq DOMAIN a,
           a[1].key # a[2].key, NEW r \in Dup(a),
           NEW x \in ReadU64(a[1].data, 0), NEW y \in ReadU64(a[2].data, 0),
           x >= Moved, y + Moved <= U64Max
    PROVE  /\ ReadU64(r[1].data, 0) = {x - Moved}
           /\ ReadU64(r[2].data, 0) = {y + Moved}
<1>1. /\ x \in 0..U64Max /\ y \in 0..U64Max /\ U64Max \in Nat /\ Moved \in Nat
      /\ AmountLen <= UsizeMax /\ AmountLen <= Len(a[1].data) /\ AmountLen <= Len(a[2].data)
      /\ ReadU64(a[1].data, 0) = {x} /\ ReadU64(a[2].data, 0) = {y}
  BY AmountIs, MaxType, HandlersAssumption
<1>2. /\ (IF x < Moved THEN 0 ELSE x - Moved) = x - Moved
      /\ (y + Moved) % (U64Max + 1) = y + Moved
      /\ x - Moved \in 0..U64Max /\ y + Moved \in 0..U64Max
  BY <1>1
<1>3. PICK d \in Write(a, 1, EncodeU64(x - Moved)) : r \in Write(d, 2, EncodeU64(y + Moved))
  BY <1>1, <1>2 DEF Dup
<1>4. d = [j \in DOMAIN a |-> IF a[j].key # a[1].key THEN a[j]
                             ELSE Overwritten(a[j], EncodeU64(x - Moved))]
  BY WriteIs
<1>5. d[1] = Overwritten(a[1], EncodeU64(x - Moved)) /\ d[2] = a[2] /\ DOMAIN d = DOMAIN a
  BY <1>4
<1>6. d[1].key = a[1].key
  BY <1>5 DEF Overwritten, AccountInfo
<1>7. r = [j \in DOMAIN d |-> IF d[j].key # d[2].key THEN d[j]
                             ELSE Overwritten(d[j], EncodeU64(y + Moved))]
  BY <1>3, WriteIs
<1>8. r[1] = d[1] /\ r[2] = Overwritten(a[2], EncodeU64(y + Moved))
  BY <1>5, <1>6, <1>7
<1>9. ReadU64(Overwritten(a[1], EncodeU64(x - Moved)).data, 0) = {x - Moved}
  BY <1>1, <1>2, AmountRead
<1>10. ReadU64(Overwritten(a[2], EncodeU64(y + Moved)).data, 0) = {y + Moved}
  BY <1>1, <1>2, AmountRead
<1> QED BY <1>5, <1>8, <1>9, <1>10

-----------------------------------------------------------------------------
(***************************************************************************)
(* What the handlers leave behind was earned: of what validate has passed, *)
(* one lemma for each of them.                                             *)
(***************************************************************************)

\* Account infos that validate has passed.
Validated(s, c) ==
    /\ WellFormed(s)
    /\ \A i \in DOMAIN s.fields : /\ i \in DOMAIN c.accounts
                                  /\ c.accounts[i] \in AccountInfo
                                  /\ Len(c.accounts[i].data) <= UsizeMax
                                  /\ FieldError(s, c, i) = "Ok"

\* The address of account i is derived from the seeds of its field.
Derived(s, c, i) ==
    \E b \in Byte : c.accounts[i].key \in
      CreateAddress(Append(SeedList(s, c, First(s.fields[i], {"seeds"})), <<b>>), DeriveId(s.fields[i]))

LEMMA FoundBump ==
    ASSUME NEW seeds, NEW pid, NEW r \in FindAddress(seeds, pid)
    PROVE  r.bump \in Byte
<1> DEFINE hits == {b \in Byte : CreateAddress(Append(seeds, <<b>>), pid) # {}}
<1>1. FirstBump(hits, 1) \subseteq Byte
  BY DEF FirstBump
<1>2. FindAddress(seeds, pid)
        = {[key  |-> The(CreateAddress(Append(seeds, <<b>>), pid)),
            bump |-> b] : b \in FirstBump(hits, 1)}
  BY DEF FindAddress
<1> HIDE DEF hits
<1>3. \E k : \E b \in FirstBump(hits, 1) : r = [key |-> k, bump |-> b]
  BY <1>2
<1> QED BY <1>1, <1>3

LEMMA PdaDerives ==
    ASSUME NEW s, NEW c, WellFormed(s), NEW i \in DOMAIN s.fields,
           FieldError(s, c, i) = "Ok", Has(s.fields[i], "seeds"), ~Has(s.fields[i], "stored")
    PROVE  Derived(s, c, i)
<1> DEFINE f     == s.fields[i]
           d     == First(f, {"seeds"})
           seeds == SeedList(s, c, d)
           pid   == DeriveId(f)
           found == FindAddress(seeds, pid)
           key   == c.accounts[i].key
<1>1. PdaError(s, c, i) = "Ok"
  BY FieldErrorOk
<1>2. PdaError(s, c, i) = DerivedPda(f, key, found)
  BY <1>1 DEF PdaError
<1>3. found # {} /\ \A r \in found : r.key = key
  <2> HIDE DEF found, key
  <2> QED BY <1>1, <1>2 DEF DerivedPda
<1>4. IsSequence(seeds)
  <2>1. PICK k \in Listed(f, {"seeds"}) : TRUE
    BY DEF Has
  <2>2. IsSequence(f.cs) /\ \A m \in Listed(f, {"seeds"}) : k = m
    BY <2>1 DEF WellFormed
  <2>3. d = f.cs[k]
    BY <2>2, FirstIs
  <2> QED BY <2>3, SeedsInOrder
<1>5. \A r \in found : r.key \in CreateAddress(Append(seeds, <<r.bump>>), pid)
  BY <1>3, <1>4, FindAlike
<1>6. \A r \in found : r.bump \in Byte
  BY FoundBump
<1>7. PICK r \in found : TRUE
  BY <1>3
<1> QED BY <1>3, <1>5, <1>6, <1>7 DEF Derived

\* An Account<T> has the owner and the discriminator of T.
LEMMA AccountIsTyped ==
    ASSUME NEW s, NEW c, Validated(s, c), NEW i \in DOMAIN s.fields,
           s.fields[i].kind = "account", ~Has(s.fields[i], "init_if_needed")
    PROVE  /\ c.accounts[i].owner = ProgramId
           /\ HasPrefix(c.accounts[i].data, s.fields[i].disc)
<1> DEFINE f == s.fields[i]
           owner == [c |-> "owner", key |-> ProgramId]
           disc  == [c |-> "discriminator", bytes |-> f.disc]
<1>1. ImpliedChecked(f) = <<owner, disc>>
  BY DEF ImpliedChecked, WrapperImplied
<1>2. \A k \in DOMAIN ImpliedChecked(f) : ~Refuses(s, c, i, ImpliedChecked(f)[k])
  BY FieldErrorOk DEF Validated
<1>3. ~Refuses(s, c, i, owner) /\ ~Refuses(s, c, i, disc)
  <2> HIDE DEF owner, disc
  <2>1. DOMAIN <<owner, disc>> = {1, 2} /\ <<owner, disc>>[1] = owner /\ <<owner, disc>>[2] = disc
    OBVIOUS
  <2> QED BY <1>1, <1>2, <2>1
<1>4. c.accounts[i].owner = ProgramId
  BY <1>3 DEF Refuses
<1>5. HasPrefix(c.accounts[i].data, f.disc)
  BY <1>3 DEF Refuses
<1> QED BY <1>4, <1>5

LEMMA SignerSigned ==
    ASSUME NEW s, NEW c, Validated(s, c), NEW i \in DOMAIN s.fields, s.fields[i].kind = "signer"
    PROVE  c.accounts[i].signer
<1>1. ImpliedChecked(s.fields[i]) = <<[c |-> "signer"]>>
  BY DEF ImpliedChecked, WrapperImplied
<1>2. \A k \in DOMAIN ImpliedChecked(s.fields[i]) :
        ~Refuses(s, c, i, ImpliedChecked(s.fields[i])[k])
  BY FieldErrorOk DEF Validated
<1>3. ~Refuses(s, c, i, [c |-> "signer"])
  BY <1>1, <1>2
<1> QED BY <1>3 DEF Refuses

LEMMA HasOnePasses ==
    ASSUME NEW s, NEW c, Validated(s, c), NEW i \in DOMAIN s.fields,
           NEW k \in DOMAIN s.fields[i].cs, NEW n, s.fields[i].cs[k] = HasOne(n)
    PROVE  <<"key", c.accounts[IndexOf(s, n)].key>> \in
             ReadField(Descriptor(s.fields[i].ty), n, c.accounts[i].data, DiscLen)
<1>1. ~Refuses(s, c, i, HasOne(n))
  BY FieldErrorOk DEF Validated
<1>2. HasOne(n).c = "has_one" /\ HasOne(n).n = n
  BY DEF HasOne
<1> QED BY <1>1, <1>2 DEF Refuses, LayoutOf

\* Keys and amounts at an offset.
LEMMA KeyAt ==
    ASSUME NEW data \in Bytes, Len(data) <= UsizeMax, NEW u \in Ty, u.k = "pubkey", NEW o \in Nat, NEW v
    PROVE  /\ v \in ReadVal(u, data, o) <=>
                o + KeyLen <= Len(data) /\ v = <<"key", SubSeq(data, o + 1, o + KeyLen)>>
           /\ v \in Decode(u, data, o) <=>
                /\ o + KeyLen <= Len(data)
                /\ v = << <<"key", SubSeq(data, o + 1, o + KeyLen)>>, o + KeyLen>>
<1>1. KeyLen \in Nat /\ UsizeMax \in Nat /\ Len(data) \in Nat
  BY BytesAre, LayoutAssumption
<1>2. ReadVal(u, data, o) = {<<"key", SubSeq(data, o + 1, end)>> :
                               end \in {e \in Checked(o + KeyLen) : e <= Len(data)}}
  BY DEF ReadVal
<1>3. {e \in Checked(o + KeyLen) : e <= Len(data)}
        = {e \in {o + KeyLen} : o + KeyLen <= Len(data)}
  BY <1>1 DEF Checked
<1>4. \A x : x \in ReadVal(u, data, o) <=>
               o + KeyLen <= Len(data) /\ x = <<"key", SubSeq(data, o + 1, o + KeyLen)>>
  BY <1>2, <1>3
<1>5. Decode(u, data, o) = {<<x, o + KeyLen>> : x \in ReadVal(u, data, o)}
  BY DecodeScalarIs
<1> QED BY <1>4, <1>5

LEMMA AmountAt ==
    ASSUME NEW data \in Bytes, U64 \in Ty, NEW o \in Nat, NEW v
    PROVE  /\ v \in ReadVal(U64, data, o) <=> \E n \in ReadU64(data, o) : v = <<"nat", n>>
           /\ v \in Decode(U64, data, o) <=>
                \E n \in ReadU64(data, o) : v = << <<"nat", n>>, o + AmountLen>>
<1>1. U64.k = "uint" /\ U64.w = AmountLen
  BY DEF U64
<1>2. ReadVal(U64, data, o) = {<<"nat", n>> : n \in ReadU64(data, o)}
  BY <1>1 DEF ReadVal, ReadU64
<1>3. Decode(U64, data, o) = {<<x, o + AmountLen>> : x \in ReadVal(U64, data, o)}
  BY <1>1, DecodeScalarIs
<1> QED BY <1>2, <1>3

LEMMA AmountOne ==
    ASSUME NEW data \in Bytes, NEW o \in Nat, NEW n \in ReadU64(data, o)
    PROVE  /\ ReadU64(data, o) = {n}
           /\ n \in 0..U64Max /\ AmountLen <= UsizeMax
<1>1. AmountLen \in Nat /\ UsizeMax \in Nat /\ Len(data) \in Nat
  BY BytesAre, LayoutAssumption, HandlersAssumption
<1>2. /\ n = LittleEndian(data, o, AmountLen) /\ o + AmountLen <= UsizeMax
      /\ o + AmountLen <= Len(data)
  BY DEF ReadU64, ReadUIntLE, Checked
<1>3. ReadU64(data, o) \subseteq {LittleEndian(data, o, AmountLen)}
  BY DEF ReadU64, ReadUIntLE
<1>4. n \in 0..U64Max
  BY <1>2, ReadBelowMax
<1> QED BY <1>1, <1>2, <1>3, <1>4

\* An amount read anywhere and written arrives.
LEMMA AmountArrives ==
    ASSUME NEW data \in Bytes, NEW o \in Nat, NEW n \in ReadU64(data, o),
           NEW a, NEW i \in DOMAIN a, a[i] \in AccountInfo, NEW r \in Write(a, i, EncodeU64(n))
    PROVE  ReadU64(r[i].data, 0) = {n}
<1>1. n \in 0..U64Max /\ AmountLen <= UsizeMax /\ n \in Nat
  BY AmountOne, MaxType
<1>2. Len(EncodeU64(n)) <= Len(a[i].data) /\ r[i] = Overwritten(a[i], EncodeU64(n))
  BY WriteIs
<1>3. Len(EncodeU64(n)) = AmountLen
  BY <1>1, EncodeType
<1> QED BY <1>1, <1>2, <1>3, AmountRead

LEMMA FieldTypes ==
    ASSUME NEW fs, StructOf(fs) \in Ty, NEW j \in 1..Len(fs)
    PROVE  fs[j].ty \in Ty
<1>1. StructOf(fs).k = "struct" /\ StructOf(fs).fs = fs
  BY DEF StructOf
<1>2. fs[j].ty \in Parts(StructOf(fs))
  BY <1>1, TypesOfStruct
<1> QED BY <1>2, PartsAreTypes

\* A key in front of an amount.
LEMMA KeyThenAmount ==
    ASSUME NEW fs, StructOf(fs) \in Ty, Len(fs) = 2, fs[1].ty = Pubkey, fs[2].ty = U64,
           fs[1].name # fs[2].name, NEW data \in Bytes, Len(data) <= UsizeMax,
           NEW key, key \in ReadVal(Pubkey, data, DiscLen),
           NEW n \in ReadU64(data, DiscLen + KeyLen)
    PROVE  /\ Content(fs, data, fs[1].name) = {key}
           /\ Content(fs, data, fs[2].name) = {<<"nat", n>>}
<1> DEFINE o == DiscLen + KeyLen
<1>1. DiscLen \in Nat /\ o \in Nat
  BY LayoutAssumption
<1>2. Pubkey \in Ty /\ U64 \in Ty /\ Pubkey.k = "pubkey"
  <2>1. 1 \in 1..Len(fs) /\ 2 \in 1..Len(fs)
    OBVIOUS
  <2> QED BY <2>1, FieldTypes DEF Pubkey
<1>3. \A y : y \in Decode(Pubkey, data, DiscLen) <=> y = <<key, o>>
  <2>1. o <= Len(data) /\ key = <<"key", SubSeq(data, DiscLen + 1, o)>>
    BY <1>1, <1>2, KeyAt
  <2>2. \A y : y \in Decode(Pubkey, data, DiscLen) <=>
          /\ o <= Len(data)
          /\ y = << <<"key", SubSeq(data, DiscLen + 1, o)>>, o>>
    BY <1>1, <1>2, KeyAt
  <2> HIDE DEF o
  <2> QED BY <2>1, <2>2
<1>4. \A z : z \in Decode(U64, data, o) <=> z = << <<"nat", n>>, o + AmountLen>>
  <2>1. ReadU64(data, o) = {n}
    BY <1>1, AmountOne
  <2> HIDE DEF o
  <2> QED BY <1>1, <1>2, <2>1, AmountAt
<1> HIDE DEF o
<1>5. \A y \in Decode(fs[1].ty, data, DiscLen) : y[2] \in Nat
  BY <1>1, <1>3
<1>6. <<key, o>> \in Decode(fs[1].ty, data, DiscLen) /\ Decode(fs[2].ty, data, o) # {}
  BY <1>3, <1>4
<1>7. \A v : v \in Content(fs, data, fs[1].name) <=> v = key
  <2> TAKE v
  <2>1. v \in Content(fs, data, fs[1].name) <=> FirstOfPair(fs, data, v)
    BY <1>5, ContentPair
  <2>2. FirstOfPair(fs, data, v) <=> v = key
    BY <1>3, <1>6 DEF FirstOfPair
  <2> QED BY <2>1, <2>2
<1>8. \A v : v \in Content(fs, data, fs[2].name) <=> v = <<"nat", n>>
  <2> TAKE v
  <2>1. v \in Content(fs, data, fs[2].name) <=> SecondOfPair(fs, data, v)
    BY <1>5, ContentPair
  <2>2. SecondOfPair(fs, data, v) <=> v = <<"nat", n>>
    BY <1>3, <1>4, <1>6 DEF SecondOfPair
  <2> QED BY <2>1, <2>2
<1> QED BY <1>7, <1>8

\* The amount echoed is the one of a collateral of the bank.
LEMMA CashioEarned ==
    ASSUME NEW c, Validated(VerifiedCashio, c), NEW r \in Cashio(c.accounts)
    PROVE  LET a  == c.accounts
               fs == VerifiedCashio.fields[1].ty
           IN  /\ {<<"nat", n>> : n \in ReadU64(r[3].data, 0)} = Content(fs, a[1].data, "amount")
               /\ Content(fs, a[1].data, "bank") = {<<"key", a[2].key>>}
               /\ a[1].owner = ProgramId
<1> DEFINE s  == VerifiedCashio
           a  == c.accounts
           f  == s.fields[1]
           fs == f.ty
           data == a[1].data
           key == <<"key", a[2].key>>
<1>1. /\ f = Account("collateral", <<Field("bank", Pubkey), Field("amount", U64)>>, Disc,
                     <<HasOne("bank")>>)
      /\ DOMAIN s.fields = 1..3
      /\ s.fields[2].name = "bank" /\ s.fields[1].name = "collateral" /\ s.fields[3].name = "out"
  BY DEF VerifiedCashio, NoArgs, Unchecked, Bare, Out, Account
<1>2. /\ f.kind = "account" /\ f.cs = <<HasOne("bank")>>
      /\ fs = <<Field("bank", Pubkey), Field("amount", U64)>>
  BY <1>1 DEF Account
<1>3. /\ Len(fs) = 2 /\ fs[1].ty = Pubkey /\ fs[2].ty = U64
      /\ fs[1].name = "bank" /\ fs[2].name = "amount"
  BY <1>2 DEF Field
<1>4. ~Has(f, "init_if_needed")
  BY <1>2 DEF Has, Listed, HasOne
<1>5. 1 \in DOMAIN s.fields /\ 2 \in DOMAIN s.fields /\ 3 \in DOMAIN s.fields
  BY <1>1
<1>6. IndexOf(s, "bank") = 2
  <2>1. \A i \in DOMAIN s.fields : s.fields[i].name = "bank" <=> i = 2
    BY <1>1
  <2> HIDE DEF s
  <2> QED BY <1>5, <2>1 DEF IndexOf
<1>7. /\ StructOf(fs) \in Ty /\ data \in Bytes /\ Len(data) <= UsizeMax
      /\ a[3] \in AccountInfo /\ 3 \in DOMAIN a
  BY <1>5 DEF Validated, WellFormed, AccountInfo
<1>8. key \in ReadField(Descriptor(fs), "bank", data, DiscLen)
  <2>1. 1 \in DOMAIN f.cs /\ f.cs[1] = HasOne("bank")
    BY <1>2
  <2> HIDE DEF s
  <2> QED BY <1>5, <1>6, <2>1, HasOnePasses DEF s
<1>9. a[1].owner = ProgramId
  BY <1>2, <1>4, <1>5, AccountIsTyped
<1>10. PICK n \in ReadU64(data, DiscLen + KeyLen) : r \in Write(a, 3, EncodeU64(n))
  BY DEF Cashio
<1> HIDE DEF s, f, fs, a, data, key
<1>11. DiscLen \in Nat /\ DiscLen + KeyLen \in Nat
  BY LayoutAssumption
<1>12. key \in ReadVal(Pubkey, data, DiscLen)
  BY <1>3, <1>7, <1>8, <1>11, ReadPair
<1>13. /\ Content(fs, data, "bank") = {key}
       /\ Content(fs, data, "amount") = {<<"nat", n>>}
  <2>1. fs[1].name # fs[2].name
    BY <1>3
  <2>2. /\ Content(fs, data, fs[1].name) = {key}
        /\ Content(fs, data, fs[2].name) = {<<"nat", n>>}
    <3>1. /\ StructOf(fs) \in Ty /\ Len(fs) = 2 /\ fs[1].ty = Pubkey /\ fs[2].ty = U64
          /\ data \in Bytes /\ Len(data) <= UsizeMax
          /\ n \in ReadU64(data, DiscLen + KeyLen)
      BY <1>3, <1>7, <1>10
    <3> QED BY ONLY <1>12, <2>1, <3>1, KeyThenAmount
  <2> QED BY <1>3, <2>2
<1>14. ReadU64(r[3].data, 0) = {n}
  BY <1>7, <1>10, <1>11, AmountArrives
<1> QED BY <1>9, <1>13, <1>14 DEF s, f, fs, a, data, key

\* Crema echoes what the account of the AMM holds.
LEMMA CremaEarned ==
    ASSUME NEW c, Validated(VerifiedCrema, c), NEW r \in Crema(c.accounts)
    PROVE  /\ c.accounts[1].owner = AMM_PROG
           /\ ReadU64(r[2].data, 0) = ReadU64(c.accounts[1].data, 0)
<1> DEFINE s == VerifiedCrema
           a == c.accounts
           own == [c |-> "owner", key |-> AMM_PROG]
<1>1. s.fields[1].cs = <<own>> /\ DOMAIN s.fields = 1..2
  BY DEF VerifiedCrema, NoArgs, Unchecked, Bare
<1>2. 1 \in DOMAIN s.fields /\ 2 \in DOMAIN s.fields
  BY <1>1
<1>3. a[1].data \in Bytes /\ a[2] \in AccountInfo /\ 2 \in DOMAIN a
  BY <1>2 DEF Validated, AccountInfo
<1>4. ~Refuses(s, c, 1, own)
  <2>1. \A k \in DOMAIN s.fields[1].cs : ~Refuses(s, c, 1, s.fields[1].cs[k])
    BY <1>2, FieldErrorOk DEF Validated
  <2> HIDE DEF own, s
  <2>2. 1 \in DOMAIN <<own>> /\ <<own>>[1] = own
    OBVIOUS
  <2> QED BY <1>1, <2>1, <2>2
<1>5. a[1].owner = AMM_PROG
  BY <1>4 DEF Refuses
<1>6. PICK n \in ReadU64(a[1].data, 0) : r \in Write(a, 2, EncodeU64(n))
  BY DEF Crema
<1>7. ReadU64(r[2].data, 0) = {n} /\ ReadU64(a[1].data, 0) = {n}
  <2> DEFINE data == a[1].data
  <2>1. 0 \in Nat /\ data \in Bytes /\ n \in ReadU64(data, 0)
    BY <1>3, <1>6
  <2> HIDE DEF a, data
  <2>2. ReadU64(r[2].data, 0) = {n}
    BY <1>3, <1>6, <2>1, AmountArrives
  <2>3. ReadU64(data, 0) = {n}
    BY <2>1, AmountOne
  <2> QED BY <2>2, <2>3 DEF data
<1> QED BY <1>5, <1>7

\* What Confusion writes, it writes for the stored authority that signed.
LEMMA ConfusionEarned ==
    ASSUME NEW c, Validated(VerifiedConfusion, c), NEW r \in Confusion(c.accounts),
           r # c.accounts
    PROVE  LET a  == c.accounts
               fs == VerifiedConfusion.fields[1].ty
           IN  /\ Content(fs, a[1].data, "authority") = {<<"key", a[2].key>>}
               /\ a[2].signer /\ a[1].owner = ProgramId /\ HasPrefix(a[1].data, Disc)
<1> DEFINE s  == VerifiedConfusion
           a  == c.accounts
           f  == s.fields[1]
           fs == f.ty
           data == a[1].data
<1>1. /\ f = Account("vault", <<Field("authority", Pubkey)>>, Disc, << >>)
      /\ DOMAIN s.fields = 1..3 /\ s.fields[2].kind = "signer"
  BY DEF VerifiedConfusion, NoArgs, Signer, Bare
<1>2. f.kind = "account" /\ f.cs = << >> /\ f.disc = Disc /\ fs = <<Field("authority", Pubkey)>>
  BY <1>1 DEF Account
<1>3. Len(fs) = 1 /\ fs[1].ty = Pubkey /\ fs[1].name = "authority"
  BY <1>2 DEF Field
<1>4. ~Has(f, "init_if_needed")
  BY <1>2 DEF Has, Listed
<1>5. 1 \in DOMAIN s.fields /\ 2 \in DOMAIN s.fields
  BY <1>1
<1>6. StructOf(fs) \in Ty /\ data \in Bytes /\ Len(data) <= UsizeMax
  BY <1>5 DEF Validated, WellFormed, AccountInfo
<1>7. a[1].owner = ProgramId /\ HasPrefix(data, Disc)
  BY <1>2, <1>4, <1>5, AccountIsTyped
<1>8. a[2].signer
  BY <1>1, <1>5, SignerSigned
<1>9. Len(data) >= DiscLen + KeyLen /\ Slice(data, DiscLen, KeyLen) = a[2].key
  BY DEF Confusion
<1> HIDE DEF s, f, fs, a, data
<1>10. DiscLen \in Nat /\ KeyLen \in Nat /\ Len(data) \in Nat
  BY <1>6, LayoutAssumption, BytesAre
<1>11. Slice(data, DiscLen, KeyLen) = SubSeq(data, DiscLen + 1, DiscLen + KeyLen)
  <2>1. DiscLen <= Len(data) /\ DiscLen + KeyLen <= Len(data)
    BY <1>9, <1>10
  <2> QED BY <2>1 DEF Slice
<1>12. Pubkey \in Ty /\ Pubkey.k = "pubkey"
  <2>1. 1 \in 1..Len(fs)
    BY <1>3
  <2> QED BY <1>3, <1>6, <2>1, FieldTypes DEF Pubkey
<1>13. \A y : y \in Decode(Pubkey, data, DiscLen) <=> y = << <<"key", a[2].key>>, DiscLen + KeyLen>>
  <2>1. Pubkey \in Ty /\ Pubkey.k = "pubkey" /\ DiscLen \in Nat
        /\ data \in Bytes /\ Len(data) <= UsizeMax
    BY <1>6, <1>10, <1>12
  <2>2. \A y : y \in Decode(Pubkey, data, DiscLen) <=>
          /\ DiscLen + KeyLen <= Len(data)
          /\ y = << <<"key", SubSeq(data, DiscLen + 1, DiscLen + KeyLen)>>, DiscLen + KeyLen>>
    BY ONLY <2>1, KeyAt
  <2>3. SubSeq(data, DiscLen + 1, DiscLen + KeyLen) = a[2].key
    BY <1>9, <1>11
  <2> HIDE DEF a, data
  <2> QED BY <1>9, <2>2, <2>3
<1>14. \A v : v \in Content(fs, data, "authority") <=> v = <<"key", a[2].key>>
  <2> TAKE v
  <2>1. v \in Content(fs, data, fs[1].name) <=> \E y \in Decode(fs[1].ty, data, DiscLen) : v = y[1]
    BY <1>3, <1>6, ContentOne
  <2> DEFINE key == <<"key", a[2].key>>
             w   == DiscLen + KeyLen
  <2>2. \A y : y \in Decode(Pubkey, data, DiscLen) <=> y = <<key, w>>
    BY <1>13
  <2> HIDE DEF key, w
  <2>3. (\E y \in Decode(Pubkey, data, DiscLen) : v = y[1]) <=> v = key
    <3> DEFINE D == Decode(Pubkey, data, DiscLen)
               q == <<key, w>>
    <3>1. q[1] = key /\ \A y : y \in D <=> y = q
      BY <2>2
    <3> HIDE DEF D, q
    <3>2. (\E y \in D : v = y[1]) <=> v = key
      BY <3>1
    <3> QED BY <3>2 DEF D
  <2> QED BY <1>3, <2>1, <2>3 DEF key
<1> QED BY <1>7, <1>8, <1>14 DEF s, f, fs, a, data

LEMMA WrongOffsetEarned ==
    ASSUME NEW c, Validated(VerifiedWrongOffset, c)
    PROVE  LET a  == c.accounts
               fs == VerifiedWrongOffset.fields[1].ty
           IN  /\ Content(fs, a[1].data, "authority") = {<<"key", a[2].key>>}
               /\ a[2].signer /\ a[1].owner = ProgramId /\ HasPrefix(a[1].data, Disc)
<1> DEFINE s  == VerifiedWrongOffset
           a  == c.accounts
           f  == s.fields[1]
           fs == f.ty
           data == a[1].data
           key == <<"key", a[2].key>>
<1>1. /\ f = Account("vault", <<Field("admin", Pubkey), Field("authority", Pubkey)>>, Disc,
                     <<HasOne("authority")>>)
      /\ DOMAIN s.fields = 1..3 /\ s.fields[2].kind = "signer"
      /\ s.fields[1].name = "vault" /\ s.fields[2].name = "authority" /\ s.fields[3].name = "out"
  BY DEF VerifiedWrongOffset, NoArgs, Signer, Bare, Out, Unchecked, Account
<1>2. /\ f.kind = "account" /\ f.cs = <<HasOne("authority")>> /\ f.disc = Disc
      /\ fs = <<Field("admin", Pubkey), Field("authority", Pubkey)>>
  BY <1>1 DEF Account
<1>3. /\ Len(fs) = 2 /\ fs[1].ty = Pubkey /\ fs[2].ty = Pubkey
      /\ fs[1].name = "admin" /\ fs[2].name = "authority"
  BY <1>2 DEF Field
<1>4. ~Has(f, "init_if_needed")
  BY <1>2 DEF Has, Listed, HasOne
<1>5. 1 \in DOMAIN s.fields /\ 2 \in DOMAIN s.fields
  BY <1>1
<1>6. IndexOf(s, "authority") = 2
  <2>1. \A i \in DOMAIN s.fields : s.fields[i].name = "authority" <=> i = 2
    BY <1>1
  <2> HIDE DEF s
  <2> QED BY <1>5, <2>1 DEF IndexOf
<1>7. StructOf(fs) \in Ty /\ data \in Bytes /\ Len(data) <= UsizeMax
  BY <1>5 DEF Validated, WellFormed, AccountInfo
<1>8. key \in ReadField(Descriptor(fs), "authority", data, DiscLen)
  <2>1. 1 \in DOMAIN f.cs /\ f.cs[1] = HasOne("authority")
    BY <1>2
  <2> HIDE DEF s
  <2> QED BY <1>5, <1>6, <2>1, HasOnePasses DEF s
<1>9. a[1].owner = ProgramId /\ HasPrefix(data, Disc) /\ a[2].signer
  BY <1>1, <1>2, <1>4, <1>5, AccountIsTyped, SignerSigned
<1> HIDE DEF s, f, fs, a, data, key
<1>10. /\ DiscLen \in Nat /\ KeyLen \in Nat /\ Len(data) \in Nat
       /\ DiscLen + KeyLen \in Nat /\ DiscLen + KeyLen + KeyLen \in Nat
  BY <1>7, LayoutAssumption, BytesAre
<1>11. Pubkey \in Ty /\ Pubkey.k = "pubkey"
  <2>1. 1 \in 1..Len(fs)
    BY <1>3
  <2> QED BY <1>3, <1>7, <2>1, FieldTypes DEF Pubkey
<1>12. key \in ReadVal(Pubkey, data, DiscLen + KeyLen)
  <2>1. PICK w \in EncodedWidth(Pubkey, data, DiscLen) : key \in ReadVal(Pubkey, data, DiscLen + w)
    BY <1>3, <1>7, <1>8, <1>10, ReadPair
  <2>2. w = KeyLen
    BY <1>7, <1>10, <1>11, WidthOfScalar
  <2> QED BY <2>1, <2>2
<1> DEFINE o == DiscLen + KeyLen
           first == <<"key", SubSeq(data, DiscLen + 1, o)>>
<1>13. /\ o + KeyLen <= Len(data)
       /\ \A z : z \in Decode(Pubkey, data, o) <=> z = <<key, o + KeyLen>>
  <2>1. o \in Nat /\ key \in ReadVal(Pubkey, data, o)
    BY <1>10, <1>12
  <2> HIDE DEF o
  <2>2. o + KeyLen <= Len(data) /\ key = <<"key", SubSeq(data, o + 1, o + KeyLen)>>
    BY <1>7, <1>11, <2>1, KeyAt
  <2>3. \A z : z \in Decode(Pubkey, data, o) <=>
                /\ o + KeyLen <= Len(data)
                /\ z = << <<"key", SubSeq(data, o + 1, o + KeyLen)>>, o + KeyLen>>
    BY <1>7, <1>11, <2>1, KeyAt
  <2> QED BY <2>2, <2>3
<1>14. o <= Len(data) /\ o \in Nat
  BY <1>10, <1>13
<1>15. \A y : y \in Decode(Pubkey, data, DiscLen) <=> y = <<first, o>>
  <2>1. Pubkey \in Ty /\ Pubkey.k = "pubkey" /\ DiscLen \in Nat
        /\ data \in Bytes /\ Len(data) <= UsizeMax
    BY <1>7, <1>10, <1>11
  <2>2. \A y : y \in Decode(Pubkey, data, DiscLen) <=>
          /\ DiscLen + KeyLen <= Len(data)
          /\ y = << <<"key", SubSeq(data, DiscLen + 1, DiscLen + KeyLen)>>, DiscLen + KeyLen>>
    BY ONLY <2>1, KeyAt
  <2> QED BY <1>14, <2>2
<1> HIDE DEF o, first
<1>16. \A v : v \in Content(fs, data, "authority") <=> v = key
  <2> TAKE v
  <2>0. \A y \in Decode(fs[1].ty, data, DiscLen) : y[2] \in Nat
    BY <1>3, <1>14, <1>15
  <2>3. fs[1].name # fs[2].name
    BY <1>3
  <2>1. v \in Content(fs, data, fs[2].name) <=> SecondOfPair(fs, data, v)
    BY <1>3, <1>7, <2>0, <2>3, ContentPair
  <2>2. SecondOfPair(fs, data, v) <=> v = key
    <3>1. \A y : y \in Decode(fs[1].ty, data, DiscLen) <=> y = <<first, o>>
      BY <1>3, <1>15
    <3>2. \A z : z \in Decode(fs[2].ty, data, o) <=> z = <<key, o + KeyLen>>
      BY <1>3, <1>13
    <3> DEFINE D == Decode(fs[1].ty, data, DiscLen)
               F(p) == Decode(fs[2].ty, data, p)
               q == <<key, o + KeyLen>>
    <3>3. q[1] = key
      OBVIOUS
    <3> DEFINE p == <<first, o>>
    <3>6. p[2] = o /\ \A y : y \in D <=> y = p
      BY <3>1
    <3> HIDE DEF D, F, q, p
    <3>4. (\E y \in D : \E z \in F(y[2]) : v = z[1]) <=> \E z \in F(o) : v = z[1]
      BY <3>6
    <3>5. (\E z \in F(o) : v = z[1]) <=> v = key
      BY <3>2, <3>3 DEF F, q
    <3> QED BY <3>4, <3>5 DEF SecondOfPair, D, F
  <2> QED BY <1>3, <2>1, <2>2
<1> QED BY <1>9, <1>16 DEF s, f, fs, a, data, key

\* A seed of validated accounts is checked on the program's own address space
\* where the field names no other program.
LEMMA OwnPda ==
    ASSUME NEW s, NEW c, Validated(s, c), NEW i \in DOMAIN s.fields,
           Has(s.fields[i], "seeds"), ~Has(s.fields[i], "stored"),
           ~Has(s.fields[i], "seeds_program")
    PROVE  \E b \in Byte :
             c.accounts[i].key \in
               CreateAddress(Append(SeedList(s, c, First(s.fields[i], {"seeds"})), <<b>>), ProgramId)
<1>1. WellFormed(s) /\ FieldError(s, c, i) = "Ok"
  BY DEF Validated
<1>2. Derived(s, c, i)
  BY <1>1, PdaDerives
<1> QED BY <1>2 DEF Derived, DeriveId

LEMMA SeedsEarned ==
    ASSUME NEW c, Validated(VerifiedSeeds, c)
    PROVE  /\ \E b \in Byte :
                c.accounts[2].key \in
                  CreateAddress(Append(SeedList(VerifiedSeeds, c,
                    First(VerifiedSeeds.fields[2], {"seeds"})), <<b>>), ProgramId)
           /\ c.accounts[1].signer
<1> DEFINE s == VerifiedSeeds
           seeds == Seeds(<<Literal(VAULT), Call("key", Named("user"))>>)
<1>1. /\ s.fields[1].kind = "signer" /\ DOMAIN s.fields = 1..3
      /\ s.fields[2].cs = <<seeds, C("canonical")>>
  BY DEF VerifiedSeeds, NoArgs, Signer, Bare, Unchecked
<1>2. 1 \in DOMAIN s.fields /\ 2 \in DOMAIN s.fields
  BY <1>1
<1>3. seeds.c = "seeds" /\ C("canonical").c = "canonical"
  BY DEF Seeds, C
<1>4. /\ Has(s.fields[2], "seeds") /\ ~Has(s.fields[2], "stored")
      /\ ~Has(s.fields[2], "seeds_program")
  <2> HIDE DEF s, seeds
  <2> QED BY <1>1, <1>3 DEF Has, Listed
<1> HIDE DEF s
<1>5. Validated(s, c)
  BY DEF s
<1>6. c.accounts[1].signer
  BY <1>1, <1>2, <1>5, SignerSigned
<1> QED BY <1>2, <1>4, <1>5, <1>6, OwnPda DEF s

LEMMA NamedSeedEarned ==
    ASSUME NEW c, Validated(CheckNamedSeed, c)
    PROVE  \E b \in Byte :
             c.accounts[1].key \in
               CreateAddress(Append(SeedList(CheckNamedSeed, c,
                 First(CheckNamedSeed.fields[1], {"seeds"})), <<b>>), ProgramId)
<1> DEFINE s == CheckNamedSeed
           seeds == Seeds(<<Literal(VAULT), Call("as_bytes", Named("name"))>>)
<1>1. DOMAIN s.fields = 1..2 /\ s.fields[1].cs = <<seeds, C("canonical")>>
  BY DEF CheckNamedSeed, Bare, Unchecked
<1>2. 1 \in DOMAIN s.fields
  BY <1>1
<1>3. seeds.c = "seeds" /\ C("canonical").c = "canonical"
  BY DEF Seeds, C
<1>4. /\ Has(s.fields[1], "seeds") /\ ~Has(s.fields[1], "stored")
      /\ ~Has(s.fields[1], "seeds_program")
  <2> HIDE DEF s, seeds
  <2> QED BY <1>1, <1>3 DEF Has, Listed
<1> HIDE DEF s
<1>5. Validated(s, c)
  BY DEF s
<1> QED BY <1>2, <1>4, <1>5, OwnPda DEF s

\* Behind a String: the amount echoed is the one stored there, which validate
\* has found large enough.
LEMMA AfterStringEarned ==
    ASSUME NEW c, Validated(CheckConstraintAfterString, c), NEW r \in EchoAmount(c.accounts)
    PROVE  LET fs == CheckConstraintAfterString.fields[1].ty
           IN  /\ \A v \in Content(fs, c.accounts[1].data, "amount") :
                    {<<"nat", n>> : n \in ReadU64(r[2].data, 0)} = {v}
               /\ \A n \in ReadU64(r[2].data, 0) : n >= LeastAmount
<1> DEFINE s  == CheckConstraintAfterString
           a  == c.accounts
           f  == s.fields[1]
           fs == f.ty
           data == a[1].data
           least == [c |-> "at_least", n |-> "amount", min |-> LeastAmount]
           text == [k |-> "string"]
<1>1. /\ f = Account("vault", <<Field("label", text), Field("amount", U64)>>, Disc, <<least>>)
      /\ DOMAIN s.fields = 1..2
  BY DEF CheckConstraintAfterString, NoArgs
<1>2. f.cs = <<least>> /\ fs = <<Field("label", text), Field("amount", U64)>>
  BY <1>1 DEF Account
<1>3. /\ Len(fs) = 2 /\ fs[1].ty = text /\ fs[2].ty = U64
      /\ fs[1].name = "label" /\ fs[2].name = "amount"
  BY <1>2 DEF Field
<1>4. 1 \in DOMAIN s.fields /\ 2 \in DOMAIN s.fields
  BY <1>1
<1>5. /\ StructOf(fs) \in Ty /\ data \in Bytes /\ Len(data) <= UsizeMax
      /\ a[2] \in AccountInfo /\ 2 \in DOMAIN a
  BY <1>4 DEF Validated, WellFormed, AccountInfo
<1>6. ~Refuses(s, c, 1, least)
  <2>1. \A k \in DOMAIN f.cs : ~Refuses(s, c, 1, f.cs[k])
    BY <1>4, FieldErrorOk DEF Validated
  <2>2. 1 \in DOMAIN <<least>> /\ <<least>>[1] = least
    OBVIOUS
  <2> HIDE DEF s, f, least
  <2> QED BY <1>2, <2>1, <2>2
<1>7. PICK x \in ReadField(Descriptor(fs), "amount", data, DiscLen) : x[2] >= LeastAmount
  <2>1. least.c = "at_least" /\ least.n = "amount" /\ least.min = LeastAmount
    OBVIOUS
  <2> HIDE DEF least, s
  <2> QED BY <1>6, <2>1 DEF Refuses, LayoutOf, s
<1>8. PICK len \in ReadUIntLE(data, DiscLen, PrefixLen) :
        r \in UNION {Write(a, 2, EncodeU64(n)) : n \in ReadU64(data, DiscLen + PrefixLen + len)}
  BY DEF EchoAmount
<1>9. PICK n \in ReadU64(data, DiscLen + PrefixLen + len) : r \in Write(a, 2, EncodeU64(n))
  BY <1>8
<1> HIDE DEF s, f, fs, a, data
<1>10. /\ DiscLen \in Nat /\ PrefixLen \in Nat /\ Len(data) \in Nat
       /\ ReadUIntLE(data, DiscLen, PrefixLen) \subseteq Nat
  BY <1>5, LayoutAssumption, BytesAre, ReadType
<1>11. \A m \in ReadUIntLE(data, DiscLen, PrefixLen) : m = len
  BY <1>8 DEF ReadUIntLE
<1> DEFINE o == DiscLen + PrefixLen + len
<1>12. o \in Nat /\ \A m : m = len => DiscLen + (PrefixLen + m) = o
  BY <1>8, <1>10
<1>13. text \in Ty /\ U64 \in Ty /\ text.k = "string"
  <2>1. 1 \in 1..Len(fs) /\ 2 \in 1..Len(fs)
    BY <1>3
  <2> QED BY <1>3, <1>5, <2>1, FieldTypes
<1>14. ReadU64(data, o) = {n}
  BY <1>5, <1>9, <1>12, AmountOne
<1>15. \A z : z \in ReadVal(U64, data, o) <=> z = <<"nat", n>>
  BY <1>5, <1>12, <1>13, <1>14, AmountAt
<1>16. \A z : z \in Decode(U64, data, o) <=> z = << <<"nat", n>>, o + AmountLen>>
  BY <1>5, <1>12, <1>13, <1>14, AmountAt
<1> HIDE DEF o, text
<1>17. \A y \in Decode(text, data, DiscLen) : y[2] = o
  <2> TAKE y \in Decode(text, data, DiscLen)
  <2>1. PICK g : \A u \in Ty : \A p \in Nat : /\ Decode(u, data, p) = g[u][p]
                                              /\ g[u][p] = DecodedAt(g, data, u, p)
    BY <1>5, Decodes
  <2>2. y \in DecodedAt(g, data, text, DiscLen)
    BY <1>10, <1>13, <2>1
  <2>3. PICK m \in LeanReadUIntLE(data, DiscLen, PrefixLen) : y[2] = DiscLen + (PrefixLen + m)
    BY <1>5, <1>10, <1>13, <2>2, DecodedString
  <2>4. m = len
    BY <1>5, <1>10, <1>11, <2>3, ReadAlike DEF Buffer
  <2> QED BY <1>12, <2>3, <2>4
<1>18. n >= LeastAmount
  <2>1. "amount" # fs[1].name
    BY <1>3
  <2>2. PICK w \in EncodedWidth(text, data, DiscLen) : x \in ReadVal(U64, data, DiscLen + w)
    BY <1>3, <1>5, <1>7, <1>10, <2>1, ReadPair
  <2>3. PICK m \in ReadUIntLE(data, DiscLen, PrefixLen) : w = PrefixLen + m
    BY <1>5, <1>10, <1>13, <2>2, WidthOfScalar
  <2>4. DiscLen + w = o
    BY <1>11, <1>12, <2>3
  <2>5. x = <<"nat", n>>
    BY <1>15, <2>2, <2>4
  <2> QED BY <1>7, <2>5
<1>19. ASSUME NEW v \in Content(fs, data, "amount") PROVE v = <<"nat", n>>
  <2>1. \A y \in Decode(fs[1].ty, data, DiscLen) : y[2] \in Nat
    BY <1>3, <1>12, <1>17
  <2>2. fs[1].name # fs[2].name
    BY <1>3
  <2>3. SecondOfPair(fs, data, v)
    BY <1>3, <1>5, <1>19, <2>1, <2>2, ContentPair
  <2>4. PICK y \in Decode(text, data, DiscLen) : \E z \in Decode(U64, data, y[2]) : v = z[1]
    BY <1>3, <2>3 DEF SecondOfPair
  <2>5. PICK z \in Decode(U64, data, y[2]) : v = z[1]
    BY <2>4
  <2>6. z = << <<"nat", n>>, o + AmountLen>>
    BY <1>16, <1>17, <2>5
  <2> QED BY <2>5, <2>6
<1>20. ReadU64(r[2].data, 0) = {n}
  BY <1>5, <1>9, <1>12, AmountArrives DEF o
<1>21. {<<"nat", m>> : m \in ReadU64(r[2].data, 0)} = {<<"nat", n>>}
  BY <1>20
<1> QED BY <1>18, <1>19, <1>20, <1>21 DEF s, f, fs, a, data

-----------------------------------------------------------------------------
(***************************************************************************)
(* The instruction. IInv adds to the phases what has been decided and made *)
(* by then; without it nothing is known of a struct that has been built.   *)
(***************************************************************************)

Decided ==
    /\ phase \in {"called", "refused", "validated", "built", "failed", "done"}
    /\ phase = "refused" => Validate(ins.s, call) # "Ok"
    /\ phase \in {"validated", "built", "failed", "done"} => Validate(ins.s, call) = "Ok"
Constructed ==
    \/ built = NotBuilt
    \/ /\ phase \in {"built", "failed", "done"}
       /\ built.values = [i \in TypedFields(ins.s) |-> The(Deserialised(ins.s, call, i))]
       /\ built.bumps  = [i \in SeededFields(ins.s) |-> The(Bump(i))]
       /\ \A i \in TypedFields(ins.s) : Deserialised(ins.s, call, i) # {}
       /\ \A i \in SeededFields(ins.s) : Bump(i) # {}
HatchKept == \A i \in DOMAIN ins.s.fields : ~HatchRefuses(i)
Handled ==
    /\ (error # "Ok") = (phase \in {"refused", "failed"})
    /\ phase # "done" => after = call.accounts
    /\ phase = "done" => after \in Effect(ins.name, call.accounts)
    /\ phase = "built" => HatchKept
    /\ phase = "done" /\ ins.entry # "validate" => HatchKept
IInv == /\ ins \in Instructions /\ Compiles(ins.s) /\ call \in Calls(ins)
        /\ Decided /\ Constructed /\ Handled

LEMMA InitIInv == Init => IInv
BY DEF Init, IInv, Decided, Constructed, Handled

LEMMA NextIInv == IInv /\ [Next]_vars => IInv'
<1> SUFFICES ASSUME IInv, [Next]_vars PROVE IInv'
  OBVIOUS
<1> USE DEF IInv
<1>1. CASE DoValidate
  <2>1. ins' = ins /\ call' = call /\ built' = built
    BY <1>1 DEF DoValidate, Stop
  <2>2. Decided'
    BY <1>1, <2>1 DEF DoValidate, Stop, Decided
  <2>3. built = NotBuilt
    BY <1>1 DEF DoValidate, Constructed
  <2>4. Handled'
    BY <1>1, <2>1 DEF DoValidate, Stop, Handled
  <2> QED BY <2>1, <2>2, <2>3, <2>4 DEF Constructed, NotBuilt
<1>2. CASE DoConstruct
  <2>1. ins' = ins /\ call' = call
    BY <1>2 DEF DoConstruct, Stop
  <2>2. phase = "validated" /\ phase' \in {"failed", "built"}
    BY <1>2 DEF DoConstruct, Stop
  <2>3. Decided'
    BY <2>1, <2>2 DEF Decided
  <2>0. Handled'
    <3>1. HatchKept' <=> HatchKept
      BY <2>1 DEF HatchKept, HatchRefuses
    <3>2. phase' = "built" => HatchKept
      BY <1>2 DEF DoConstruct, Stop, HatchKept
    <3> QED BY <1>2, <2>1, <2>2, <3>1, <3>2 DEF DoConstruct, Stop, Handled
  <2>4. CASE built' = built
    <3>1. built = NotBuilt
      BY <2>2 DEF Constructed
    <3> QED BY <2>0, <2>1, <2>3, <2>4, <3>1 DEF Constructed, NotBuilt
  <2>5. CASE built' # built
    <3>1. /\ \A i \in TypedFields(ins.s) : Deserialised(ins.s, call, i) # {}
          /\ \A i \in SeededFields(ins.s) : Bump(i) # {}
          /\ phase' = "built"
          /\ built' = [values |-> [i \in TypedFields(ins.s) |-> The(Deserialised(ins.s, call, i))],
                       bumps  |-> [i \in SeededFields(ins.s) |-> The(Bump(i))]]
      BY <1>2, <2>5 DEF DoConstruct, Stop
    <3>2. \A i : Bump(i)' = Bump(i)
      BY <2>1 DEF Bump
    <3> QED BY <2>0, <2>1, <2>3, <3>1, <3>2 DEF Constructed
  <2> QED BY <2>4, <2>5
<1>3. CASE DoHandle
  <2>1. ins' = ins /\ call' = call /\ built' = built
    BY <1>3 DEF DoHandle, Stop
  <2>2. phase \in {"validated", "built"} /\ phase' \in {"failed", "done"}
    BY <1>3 DEF DoHandle, Stop
  <2>3. \A i : Bump(i)' = Bump(i)
    BY <2>1 DEF Bump
  <2>4. Handled'
    <3>1. HatchKept' <=> HatchKept
      BY <2>1 DEF HatchKept, HatchRefuses
    <3>2. ins.entry # "validate" => HatchKept
      BY <1>3 DEF DoHandle, Handled
    <3> QED BY <1>3, <2>1, <2>2, <3>1, <3>2 DEF DoHandle, Stop, Handled
  <2> QED BY <2>1, <2>2, <2>3, <2>4 DEF Decided, Constructed, NotBuilt
<1>4. CASE UNCHANGED vars
  <2>1. \A i : Bump(i)' = Bump(i)
    BY <1>4 DEF vars, Bump
  <2>2. HatchKept' <=> HatchKept
    BY <1>4 DEF vars, HatchKept, HatchRefuses
  <2> QED BY <1>4, <2>1, <2>2 DEF vars, Decided, Constructed, Handled, NotBuilt
<1> QED BY <1>1, <1>2, <1>3, <1>4 DEF Next

THEOREM IInvHolds == Spec => []IInv
BY InitIInv, NextIInv, PTL DEF Spec

\* The two walks read alike at any time, whatever the struct and the call.
LEMMA ReadsAgreeNow ==
    ASSUME IInv
    PROVE  ReadsAgreeOn(ins.s, call)
<1>1. /\ WellFormed(ins.s)
      /\ call.accounts \in Seq(AccountInfo) /\ call.instr \in Bytes
      /\ Len(call.instr) <= UsizeMax
      /\ \A i \in DOMAIN call.accounts : Len(call.accounts[i].data) <= UsizeMax
  BY InstructionAssumption DEF IInv
<1>2. Buffer(call.instr)
  BY <1>1 DEF Buffer
<1>3. ASSUME NEW i \in DOMAIN call.accounts PROVE Buffer(call.accounts[i].data)
  <2>1. call.accounts[i] \in AccountInfo
    BY <1>1
  <2> QED BY <1>1, <2>1 DEF AccountInfo, Buffer
<1> QED BY <1>1, <1>2, <1>3, ReadsAlike

\* The Rust walk over the data, on a usize that overflows and with its shortcut
\* over vectors, reads at every field and argument name what the Lean walk over
\* unbounded numbers reads, for all types up to three levels deep and all bytes.
\* Code: encoded_width, locate and read_val against Locate.lean; the seeds'
\* arg_field_seed_expr against argBytes.
THEOREM WalksAgree == Spec => []ReadsAgree
<1>1. IInv => ReadsAgree
  BY ReadsAgreeNow DEF ReadsAgree
<1> QED BY <1>1, IInvHolds, PTL

LEMMA ReadsBorshNow ==
    ASSUME IInv, NEW i \in TypedFields(ins.s), i \in DOMAIN call.accounts
    PROVE  ReadsBorshOn(ins.s, call, i)
<1>1. /\ WellFormed(ins.s) /\ call.accounts \in Seq(AccountInfo)
      /\ Len(call.accounts[i].data) <= UsizeMax
  BY InstructionAssumption DEF IInv
<1>2. call.accounts[i] \in AccountInfo
  BY <1>1
<1>3. Buffer(call.accounts[i].data)
  BY <1>1, <1>2 DEF AccountInfo, Buffer
<1> QED BY <1>1, <1>3, ReadsBorsh DEF TypedFields

\* Whatever the type, its depth and the bytes, a field a constraint reads has
\* nothing but the value Borsh decodes, and that value unless an array of
\* Strings, Vecs or Options is in front of it. Code: locate from offset 8, the
\* cut of derive(AccountData), encoded_width.
THEOREM LocatesAsBorsh == Spec => []LocatorIsBorsh
<1>1. IInv => LocatorIsBorsh
  BY ReadsBorshNow DEF LocatorIsBorsh
<1> QED BY <1>1, IInvHolds, PTL

LEMMA ReadyNow ==
    ASSUME IInv, ~HasLifecycle(ins.s)
    PROVE  Ready(ins.s, call)
<1>1. WellFormed(ins.s) /\ call.accounts \in Seq(AccountInfo)
  BY InstructionAssumption DEF IInv
<1> QED BY <1>1, SequenceIs, ReadsAgreeNow DEF IInv, Ready

\* What validate accepts meets the contract of the struct, whatever the struct,
\* the accounts and the data. Code: validate_body against lean_spec_string and
\* Validates.lean.
THEOREM AcceptedMeets == Spec => []AcceptedMeetsContract
<1>1. IInv => AcceptedMeetsContract
  BY ReadyNow, ValidateMatches DEF IInv, Decided, AcceptedMeetsContract
<1> QED BY <1>1, IInvHolds, PTL

\* What validate refuses does not meet it, as far as addresses can be derived.
\* Code: the error paths of validate_body against Validates.lean.
THEOREM RefusedFails == Spec => []RefusedFailsContract
<1>1. IInv => RefusedFailsContract
  BY ReadyNow, ValidateMatches DEF IInv, Decided, RefusedFailsContract
<1> QED BY <1>1, IInvHolds, PTL

\* What has been built was validated, field by field.
LEMMA BuiltWasValidated ==
    ASSUME IInv, built # NotBuilt
    PROVE  /\ WellFormed(ins.s) /\ IsSequence(call.accounts)
           /\ Len(ins.s.fields) <= Len(call.accounts)
           /\ \A i \in DOMAIN ins.s.fields : FieldError(ins.s, call, i) = "Ok"
<1>1. WellFormed(ins.s) /\ call.accounts \in Seq(AccountInfo)
  BY InstructionAssumption DEF IInv
<1>2. IsSequence(call.accounts)
  BY <1>1, SequenceIs
<1>3. Validate(ins.s, call) = "Ok"
  BY DEF IInv, Constructed, Decided
<1> QED BY <1>1, <1>2, <1>3, ValidateOk

\* A bump try_accounts returns derives the account it belongs to, under the
\* program of the field, if the struct stores none for it.
\* Code: the PDA block of validate_body against the Bumps of try_accounts.
THEOREM BumpsDerive == Spec => []BumpsDeriveAccount
<1>1. ASSUME IInv PROVE BumpsDeriveAccount
  <2> SUFFICES ASSUME NEW i \in DOMAIN built.bumps, ~Has(ins.s.fields[i], "stored")
               PROVE  call.accounts[i].key \in
                        CreateAddress(Append(SeedList(ins.s, call,
                                               First(ins.s.fields[i], {"seeds"})),
                                             <<built.bumps[i]>>), DeriveId(ins.s.fields[i]))
    BY DEF BumpsDeriveAccount
  <2> DEFINE s     == ins.s
             f     == s.fields[i]
             d     == First(f, {"seeds"})
             seeds == SeedList(s, call, d)
             pid   == DeriveId(f)
             found == FindAddress(seeds, pid)
             key   == call.accounts[i].key
  <2>1. built # NotBuilt
    BY DEF NotBuilt
  <2>2. /\ built.bumps = [x \in SeededFields(s) |-> The(Bump(x))]
        /\ \A x \in SeededFields(s) : Bump(x) # {}
    BY <1>1, <2>1 DEF IInv, Constructed
  <2>3. i \in SeededFields(s) /\ i \in DOMAIN s.fields /\ Has(f, "seeds")
    BY <2>2 DEF SeededFields
  <2>4. built.bumps[i] \in Bump(i)
    BY <2>2, <2>3 DEF The
  <2>5. Resolved(s, call, d) /\ built.bumps[i] \in {r.bump : r \in found}
    BY <2>4 DEF Bump
  <2>6. WellFormed(s) /\ FieldError(s, call, i) = "Ok"
    BY <1>1, <2>1, <2>3, BuiltWasValidated
  <2>7. PdaError(s, call, i) = "Ok"
    BY <2>3, <2>6, FieldErrorOk
  <2>8. PdaError(s, call, i) = DerivedPda(f, key, found)
    BY <2>5 DEF PdaError
  <2>9. \A r \in found : r.key = key
    <3> HIDE DEF found, key
    <3> QED BY <2>7, <2>8 DEF DerivedPda
  <2>10. IsSequence(seeds)
    <3>1. PICK k \in Listed(f, {"seeds"}) : TRUE
      BY <2>3 DEF Has
    <3>2. IsSequence(f.cs) /\ \A m \in Listed(f, {"seeds"}) : k = m
      BY <2>3, <2>6 DEF WellFormed
    <3>3. d = f.cs[k]
      BY <3>2, FirstIs
    <3> QED BY <2>3, <2>6, <3>3, SeedsInOrder
  <2>11. found # {} /\ \A r \in found : r.key \in CreateAddress(Append(seeds, <<r.bump>>), pid)
    BY <2>5, <2>10, FindAlike
  <2>12. PICK r \in found : built.bumps[i] = r.bump
    BY <2>5
  <2> QED BY <2>9, <2>11, <2>12
<1> QED BY <1>1, IInvHolds, PTL

\* The handler is given the values its has_one and at_least constraints were
\* checked on. Code: has_one of validate_body against field_inits of
\* try_accounts.
THEOREM HandlerSees == Spec => []HandlerSeesWhatWasChecked
<1>1. ASSUME IInv PROVE HandlerSeesWhatWasChecked
  <2> SUFFICES ASSUME NEW i \in DOMAIN built.values,
                      NEW k \in Listed(ins.s.fields[i], {"has_one", "at_least"})
               PROVE  LET f == ins.s.fields[i]
                          v == built.values[i][CHOOSE j \in DOMAIN f.ty : f.ty[j].name = f.cs[k].n]
                      IN  IF f.cs[k].c = "has_one"
                          THEN v = <<"key", call.accounts[IndexOf(ins.s, f.cs[k].n)].key>>
                          ELSE v[2] >= f.cs[k].min
    BY DEF HandlerSeesWhatWasChecked
  <2> DEFINE s   == ins.s
             f   == s.fields[i]
             e   == f.cs[k]
             t   == LayoutOf(f)
             at  == CHOOSE j \in DOMAIN f.ty : f.ty[j].name = e.n
             v   == built.values[i]
             read == ReadField(t, e.n, call.accounts[i].data, DiscLen)
             parent == <<"key", call.accounts[IndexOf(s, e.n)].key>>
  <2>1. built # NotBuilt
    BY DEF NotBuilt
  <2>2. /\ built.values = [x \in TypedFields(s) |-> The(Deserialised(s, call, x))]
        /\ \A x \in TypedFields(s) : Deserialised(s, call, x) # {}
    BY <1>1, <2>1 DEF IInv, Constructed
  <2>3. i \in TypedFields(s) /\ i \in DOMAIN s.fields
    BY <2>2 DEF TypedFields
  <2>4. v \in Deserialised(s, call, i)
    BY <2>2, <2>3 DEF The
  <2>5. WellFormed(s) /\ FieldError(s, call, i) = "Ok"
    BY <1>1, <2>1, <2>3, BuiltWasValidated
  <2>6. ~Refuses(s, call, i, e)
    BY <2>3, <2>5, FieldErrorOk DEF Listed
  <2>7. /\ HasTopLevelField(t, e.n)
        /\ \A u \in TopLevelField(t, e.n) : u.k \in {"uint", "pubkey"}
    <3>1. CASE e.c = "has_one"
      <4>1. HasTopLevelField(t, e.n) /\ HasTopLevelPubkeyField(t, e.n)
        BY <1>1, <2>3, <3>1 DEF IInv, Compiles, FieldCompiles, Listed
      <4> HIDE DEF t, e
      <4> QED BY <4>1 DEF HasTopLevelPubkeyField
    <3>2. CASE e.c = "at_least"
      BY <2>3, <2>5, <3>2 DEF WellFormed, Listed
    <3> QED BY <3>1, <3>2 DEF Listed
  <2>8. PICK j \in DOMAIN t.fs : t.fs[j].name = e.n /\ t.fs[j].ty.k \in {"uint", "pubkey"}
    <3> HIDE DEF t, e
    <3> QED BY <2>7 DEF HasTopLevelField, TopLevelField
  <2>9. j \in DOMAIN f.ty /\ t.fs[j] = f.ty[j]
    BY DEF LayoutOf, Descriptor, StructOf
  <2>10. at = j
    <3>1. Distinct(f.ty)
      BY <2>3, <2>5, DistinctNames
    <3> HIDE DEF f, e, t
    <3>2. \A m \in DOMAIN f.ty : f.ty[m].name = e.n => m = j
      BY <2>8, <2>9, <3>1 DEF Distinct
    <3> QED BY <2>8, <2>9, <3>2
  <2>11. read \subseteq {v[j]}
    <3>1. i \in DOMAIN call.accounts
      BY <1>1, <2>1, <2>3, BuiltWasValidated, AccountOfField
    <3>2. ReadsBorshOn(s, call, i)
      BY <1>1, <2>3, <3>1, ReadsBorshNow
    <3> QED BY <2>4, <2>8, <3>2 DEF ReadsBorshOn
  <2>12. e.c = "has_one" => parent \in read
    BY <2>6 DEF Refuses
  <2>13. e.c = "at_least" => \E x \in read : x[2] >= e.min
    BY <2>6 DEF Refuses
  <2>14. e.c \in {"has_one", "at_least"}
    BY DEF Listed
  <2>15. IF e.c = "has_one" THEN v[j] = parent ELSE v[j][2] >= e.min
    <3> HIDE DEF read, e, v, parent
    <3> QED BY <2>11, <2>12, <2>13, <2>14
  <2> QED BY <2>10, <2>15
<1> QED BY <1>1, IInvHolds, PTL

\* What is known of a call that a handler runs for.
LEMMA AccountsNow ==
    ASSUME IInv
    PROVE  /\ Infos(call.accounts) /\ call.instr \in Bytes
           /\ WellFormed(ins.s) /\ IsSequence(call.accounts)
           /\ \A q \in Process : ins.name = q.name => ins = q
           /\ phase \in {"validated", "built", "failed", "done"} =>
                1..Len(ins.s.fields) \subseteq DOMAIN call.accounts
<1>1. /\ call.accounts \in Seq(AccountInfo) /\ call.instr \in Bytes /\ WellFormed(ins.s)
      /\ \A q \in Process : ins.name = q.name => ins = q
  BY InstructionAssumption DEF IInv
<1>2. IsSequence(call.accounts) /\ Infos(call.accounts)
  BY <1>1, SequenceIs DEF Infos
<1>3. phase \in {"validated", "built", "failed", "done"} =>
        1..Len(ins.s.fields) \subseteq DOMAIN call.accounts
  <2> SUFFICES ASSUME phase \in {"validated", "built", "failed", "done"}
               PROVE  1..Len(ins.s.fields) \subseteq DOMAIN call.accounts
    OBVIOUS
  <2>1. Validate(ins.s, call) = "Ok"
    BY DEF IInv, Decided
  <2>2. Len(ins.s.fields) <= Len(call.accounts)
    BY <1>1, <1>2, <2>1, ValidateOk
  <2>3. DOMAIN ins.s.fields = 1..Len(ins.s.fields)
    BY <1>1, SequenceIs DEF WellFormed, IsSequence
  <2> QED BY <1>1, <1>2, <2>2, <2>3, AccountOfField
<1> QED BY <1>1, <1>2, <1>3

\* Phases, and that nothing is built or written before its phase or by an
\* instruction that was refused; what handlers leave are accounts.
\* Code: validate and try_accounts in front of the handlers.
THEOREM TypesHold == Spec => []TypeOK
<1>1. ASSUME IInv PROVE TypeOK
  <2>1. Infos(after)
    <3>1. CASE phase # "done"
      BY <1>1, <3>1, AccountsNow DEF IInv, Handled
    <3>2. CASE phase = "done"
      <4>1. after \in Effect(ins.name, call.accounts)
        BY <1>1, <3>2 DEF IInv, Handled
      <4>2. CASE ins \in Process
        BY <1>1, <3>2, <4>1, <4>2, AccountsNow, EffectType
      <4>3. CASE ins \notin Process
        <5>1. \A q \in Process : ins.name # q.name
          BY <1>1, <4>3, AccountsNow
        <5>2. ins.name \notin {"cashio", "confusion", "wrong_offset", "dup", "crema", "seeds",
                               "after_string", "named_seed", "hatch"}
          BY <5>1 DEF Process, Program
        <5>3. after = call.accounts
          BY <4>1, <5>2 DEF Effect
        <5> QED BY <1>1, <5>3, AccountsNow
      <4> QED BY <4>2, <4>3
    <3> QED BY <3>1, <3>2
  <2>2. ASSUME NEW i \in DOMAIN built.bumps PROVE built.bumps[i] \in Byte
    <3>1. built # NotBuilt
      BY <2>2 DEF NotBuilt
    <3>2. /\ built.bumps = [x \in SeededFields(ins.s) |-> The(Bump(x))]
          /\ \A x \in SeededFields(ins.s) : Bump(x) # {}
      BY <1>1, <3>1 DEF IInv, Constructed
    <3>3. built.bumps[i] \in Bump(i)
      BY <2>2, <3>2 DEF The
    <3>4. Bump(i) \subseteq Byte
      BY FoundBump DEF Bump
    <3> QED BY <3>3, <3>4
  <2>3. phase = "called" => built = NotBuilt
    BY <1>1 DEF IInv, Constructed
  <2>4. Infos(call.accounts) /\ call.instr \in Bytes
    BY <1>1, AccountsNow
  <2>5. Decided /\ Handled
    BY <1>1 DEF IInv
  <2> QED BY <2>1, <2>2, <2>3, <2>4, <2>5 DEF TypeOK, Infos, Decided, Handled
<1> QED BY <1>1, IInvHolds, PTL

\* An amount moved between two accounts neither makes nor loses any, however
\* many bytes an amount has, if it is there and fits: the two accounts that
\* validate let pass are two, and what is written is what is read.
\* Code: verified_dup behind the distinct-key check.
THEOREM TransfersConserve == Spec => []TransferConserves
<1>1. ASSUME IInv PROVE TransferConserves
  <2> SUFFICES ASSUME phase = "done", ins.name = "dup",
                      NEW x \in ReadU64(call.accounts[1].data, 0),
                      NEW y \in ReadU64(call.accounts[2].data, 0),
                      x >= Moved, y + Moved <= U64Max
               PROVE  /\ ReadU64(after[1].data, 0) = {x - Moved}
                      /\ ReadU64(after[2].data, 0) = {y + Moved}
    BY DEF TransferConserves
  <2>1. ins = Program("dup", VerifiedDup, "validate")
    <3>1. Program("dup", VerifiedDup, "validate") \in Process
      BY DEF Process
    <3>2. Program("dup", VerifiedDup, "validate").name = "dup"
      BY DEF Program
    <3> QED BY <1>1, <3>1, <3>2, AccountsNow
  <2>2. ins.s = VerifiedDup
    BY <2>1 DEF Program
  <2>3. ~Duplicates(VerifiedDup, call)
    <3>1. Validate(ins.s, call) = "Ok"
      BY <1>1 DEF IInv, Decided
    <3> QED BY <1>1, <2>2, <3>1, AccountsNow, ValidateOk
  <2>4. {1, 2} \subseteq DOMAIN call.accounts
    <3>1. Len(VerifiedDup.fields) = 2
      BY DEF VerifiedDup, NoArgs
    <3>2. 1..2 \subseteq DOMAIN call.accounts
      BY <1>1, <2>2, <3>1, AccountsNow
    <3> QED BY <3>2
  <2>5. call.accounts[1] \in AccountInfo /\ call.accounts[2] \in AccountInfo
    BY <1>1, <2>4, AccountsNow DEF Infos
  <2>6. after \in Dup(call.accounts)
    BY <1>1 DEF IInv, Handled, Effect
  <2>7. call.accounts[1].key # call.accounts[2].key
    BY ONLY <2>3, <2>4, PairApart
  <2> DEFINE a == call.accounts
  <2>8. /\ {1, 2} \subseteq DOMAIN a /\ a[1] \in AccountInfo /\ a[2] \in AccountInfo
        /\ a[1].key # a[2].key /\ after \in Dup(a)
        /\ x \in ReadU64(a[1].data, 0) /\ y \in ReadU64(a[2].data, 0)
        /\ x >= Moved /\ y + Moved <= U64Max
    BY <2>4, <2>5, <2>6, <2>7
  <2> HIDE DEF a
  <2>9. ReadU64(after[1].data, 0) = {x - Moved} /\ ReadU64(after[2].data, 0) = {y + Moved}
    BY ONLY <2>8, DupMoves
  <2> QED BY <2>9
<1> QED BY <1>1, IInvHolds, PTL

\* What a handler runs for, validate has passed.
LEMMA ValidatedNow ==
    ASSUME IInv, phase \in {"validated", "built", "failed", "done"}
    PROVE  Validated(ins.s, call)
<1>1. /\ WellFormed(ins.s) /\ IsSequence(call.accounts) /\ Infos(call.accounts)
  BY AccountsNow
<1>2. \A i \in DOMAIN call.accounts : Len(call.accounts[i].data) <= UsizeMax
  BY InstructionAssumption DEF IInv
<1>3. Validate(ins.s, call) = "Ok"
  BY DEF IInv, Decided
<1>4. /\ Len(ins.s.fields) <= Len(call.accounts)
      /\ \A i \in DOMAIN ins.s.fields : FieldError(ins.s, call, i) = "Ok"
  BY <1>1, <1>3, ValidateOk
<1>5. \A i \in DOMAIN ins.s.fields : i \in DOMAIN call.accounts
  BY <1>1, <1>4, AccountOfField
<1> QED BY <1>1, <1>2, <1>4, <1>5 DEF Validated, Infos

LEMMA StoredIs ==
    ASSUME NEW i, NEW n
    PROVE  Stored(i, n) = Content(ins.s.fields[i].ty, call.accounts[i].data, n)
BY DEF Stored, Content

\* A handler leaves behind what was earned, whatever the accounts hold and
\* however long keys, amounts and prefixes are: the amount echoed is the one
\* stored in the account of the right owner and parent, a flag is set for the
\* stored authority that signed, a key written is derived from the signer or
\* the argument. Code: the verified_* handlers and process, behind validate.
THEOREM EffectsAreEarned == Spec => []EffectIsEarned
<1>1. ASSUME IInv PROVE EffectIsEarned
  <2> SUFFICES ASSUME phase = "done" PROVE EffectIsEarned
    BY DEF EffectIsEarned
  <2> DEFINE a == call.accounts
  <2>1. Validated(ins.s, call) /\ after \in Effect(ins.name, a)
    BY <1>1, ValidatedNow DEF IInv, Handled
  <2>2. \A q \in Process : ins.name = q.name => ins = q
    BY <1>1, AccountsNow
  <2>3. CASE ins.name = "cashio"
    <3>1. ins.s = VerifiedCashio
      BY <2>2, <2>3 DEF Process, Program
    <3>2. after \in Cashio(a)
      BY <2>1, <2>3 DEF Effect
    <3>3. /\ {<<"nat", n>> : n \in ReadU64(after[3].data, 0)} = Stored(1, "amount")
          /\ Stored(1, "bank") = {<<"key", a[2].key>>} /\ a[1].owner = ProgramId
      BY <2>1, <3>1, <3>2, CashioEarned, StoredIs
    <3> QED BY <2>3, <3>3 DEF EffectIsEarned
  <2>4. CASE ins.name = "confusion"
    <3>1. ins.s = VerifiedConfusion
      BY <2>2, <2>4 DEF Process, Program
    <3>2. after \in Confusion(a)
      BY <2>1, <2>4 DEF Effect
    <3>3. after # a => /\ Stored(1, "authority") = {<<"key", a[2].key>>}
                       /\ a[2].signer /\ a[1].owner = ProgramId /\ HasPrefix(a[1].data, Disc)
      BY <2>1, <3>1, <3>2, ConfusionEarned, StoredIs
    <3>4. after[3].data # a[3].data => after # a
      OBVIOUS
    <3> QED BY <2>4, <3>3, <3>4 DEF EffectIsEarned
  <2>5. CASE ins.name = "wrong_offset"
    <3>1. ins.s = VerifiedWrongOffset
      BY <2>2, <2>5 DEF Process, Program
    <3>2. /\ Stored(1, "authority") = {<<"key", a[2].key>>}
          /\ a[2].signer /\ a[1].owner = ProgramId /\ HasPrefix(a[1].data, Disc)
      BY <2>1, <3>1, WrongOffsetEarned, StoredIs
    <3> QED BY <2>5, <3>2 DEF EffectIsEarned
  <2>6. CASE ins.name = "crema"
    <3>1. ins.s = VerifiedCrema
      BY <2>2, <2>6 DEF Process, Program
    <3>2. after \in Crema(a)
      BY <2>1, <2>6 DEF Effect
    <3>3. a[1].owner = AMM_PROG /\ ReadU64(after[2].data, 0) = ReadU64(a[1].data, 0)
      BY <2>1, <3>1, <3>2, CremaEarned
    <3> QED BY <2>6, <3>3 DEF EffectIsEarned
  <2>7. CASE ins.name = "seeds"
    <3>1. ins.s = VerifiedSeeds
      BY <2>2, <2>7 DEF Process, Program
    <3>2. /\ \E b \in Byte : a[2].key \in CreateAddress(Append(SeedList(ins.s, call,
                                 First(ins.s.fields[2], {"seeds"})), <<b>>), ProgramId)
          /\ a[1].signer
      BY <2>1, <3>1, SeedsEarned
    <3> QED BY <2>7, <3>2 DEF EffectIsEarned
  <2>8. CASE ins.name = "after_string"
    <3>1. ins.s = CheckConstraintAfterString
      BY <2>2, <2>8 DEF Process, Program
    <3>2. after \in EchoAmount(a)
      BY <2>1, <2>8 DEF Effect
    <3>3. /\ \A v \in Stored(1, "amount") :
               {<<"nat", n>> : n \in ReadU64(after[2].data, 0)} = {v}
          /\ \A n \in ReadU64(after[2].data, 0) : n >= LeastAmount
      BY <2>1, <3>1, <3>2, AfterStringEarned, StoredIs
    <3> QED BY <2>8, <3>3 DEF EffectIsEarned
  <2>9. CASE ins.name = "named_seed"
    <3>1. ins.s = CheckNamedSeed
      BY <2>2, <2>9 DEF Process, Program
    <3>2. \E b \in Byte : a[1].key \in CreateAddress(Append(SeedList(ins.s, call,
                            First(ins.s.fields[1], {"seeds"})), <<b>>), ProgramId)
      BY <2>1, <3>1, NamedSeedEarned
    <3> QED BY <2>9, <3>2 DEF EffectIsEarned
  <2>10. CASE ins.name = "hatch"
    <3>1. ins.s = CheckEscapeHatchOnChain /\ ins.entry = "try_accounts"
      BY <2>2, <2>10 DEF Process, Program
    <3>2. a[1].key = ProgramId
      <4> DEFINE own == [c |-> "hatch", key |-> ProgramId]
      <4>1. ins.s.fields[1].cs = <<own>> /\ DOMAIN ins.s.fields = 1..2
        BY <3>1 DEF CheckEscapeHatchOnChain, NoArgs, Unchecked, Bare
      <4>2. 1 \in DOMAIN ins.s.fields
        BY <4>1
      <4>3. ~HatchRefuses(1)
        BY <1>1, <3>1, <4>2 DEF IInv, Handled, HatchKept
      <4>4. own.c = "hatch" /\ own.key = ProgramId
        OBVIOUS
      <4>5. /\ 1 \in Listed(ins.s.fields[1], {"hatch"})
            /\ ins.s.fields[1].cs[1] = own
        <5> HIDE DEF own
        <5> QED BY <4>1, <4>4 DEF Listed
      <4> HIDE DEF own
      <4> QED BY <4>3, <4>4, <4>5 DEF HatchRefuses
    <3> QED BY <2>10, <3>2 DEF EffectIsEarned
  <2>11. CASE ins.name = "dup"
    BY <2>11 DEF EffectIsEarned
  <2>12. CASE ins.name \notin {"cashio", "confusion", "wrong_offset", "dup", "crema", "seeds",
                               "after_string", "named_seed", "hatch"}
    <3>1. after = a
      BY <2>1, <2>12 DEF Effect
    <3> QED BY <2>12, <3>1 DEF EffectIsEarned
  <2> QED BY <2>3, <2>4, <2>5, <2>6, <2>7, <2>8, <2>9, <2>10, <2>11, <2>12
<1> QED BY <1>1, IInvHolds, PTL

-----------------------------------------------------------------------------
(***************************************************************************)
(* A seed has the bytes its source has under Anchor. An argument is where  *)
(* Borsh decodes it, if the walk gets there; and expressions are three     *)
(* deep, so four rounds settle what recurs over them, as over types.       *)
(***************************************************************************)

\* The types an argument may have that is a seed, and the bytes it has.
SeedType(u) == ArgKind(u) \in {"prefixed", "numeric", "key"}
PrefixOf(u) == IF u.k \in {"string", "vec"} THEN PrefixLen ELSE 0

LEMMA ArgEnds ==
    ASSUME NEW data \in Bytes, NEW u \in Ty, SeedType(u), NEW p \in Nat,
           NEW z \in Decode(u, data, p), NEW at, at = <<p, u>>, NEW v
    PROVE  (\E m \in LeanArgSizes(at, data) : ArgBytes(at, data, m, v))
             <=> v = SubSeq(data, p + 1 + PrefixOf(u), z[2])
<1>0. at[1] = p /\ at[2] = u /\ PrefixLen \in Nat /\ KeyLen \in Nat /\ Len(data) \in Nat
      /\ Formed(u)
  BY LayoutAssumption, BytesAre, FormedTypes
<1>1. PICK d : \A t \in Ty : \A o \in Nat : /\ Decode(t, data, o) = d[t][o]
                                            /\ d[t][o] = DecodedAt(d, data, t, o)
  BY Decodes
<1>2. z \in DecodedAt(d, data, u, p)
  BY <1>1
<1>3. CASE Prefixed(at)
  <2>1. u.k = "string" \/ (u.k = "vec" /\ u.of = [k |-> "uint", w |-> 1])
    BY <1>0, <1>3 DEF Prefixed, SeedType, ArgKind
  <2>2. PICK n \in LeanReadUIntLE(data, p, PrefixLen) :
          p + PrefixLen + n <= Len(data) /\ z[2] = p + (PrefixLen + n)
    BY <1>2, <2>1, DecodedString, DecodedBytes
  <2>3. n \in Nat /\ p + (PrefixLen + n) = p + PrefixLen + n /\ p + PrefixLen + 1 = p + 1 + PrefixLen
    BY <1>0, <2>2, ReadType
  <2>4. LeanArgSizes(at, data) = {n}
    BY <1>0, <1>3, <2>2, ReadOne DEF LeanArgSizes
  <2>5. ArgFrom(at) = p + PrefixLen /\ PrefixOf(u) = PrefixLen
    BY <1>0, <1>3 DEF ArgFrom, PrefixOf, Prefixed
  <2> QED BY <2>2, <2>3, <2>4, <2>5 DEF ArgBytes
<1>4. CASE ~Prefixed(at)
  <2>1. u.k \in {"uint", "int", "pubkey"}
    BY <1>0, <1>4 DEF Prefixed, SeedType, ArgKind
  <2> DEFINE w == IF u.k = "pubkey" THEN KeyLen ELSE u.w
  <2>2. w \in Nat /\ z[2] = p + w /\ ReadVal(u, data, p) # {}
    BY <1>0, <1>2, <2>1, DecodedScalar DEF Formed
  <2>3. p + w <= Len(data)
    <3>1. CASE u.k = "pubkey"
      BY <2>2, <3>1 DEF ReadVal, Checked
    <3>2. CASE u.k \in {"uint", "int"}
      BY <2>2, <3>2 DEF ReadVal, ReadUIntLE, Checked
    <3> QED BY <2>1, <3>1, <3>2
  <2>4. LeanArgSizes(at, data) = {w}
    <3>1. ByteSize(u) = {w}
      BY <2>1, SizeOfScalar
    <3>2. LeanEncodedWidth(u, data, p) = ByteSize(u)
      BY <3>1, FixedSize DEF Width
    <3> HIDE DEF w
    <3> QED BY <1>0, <1>4, <3>1, <3>2 DEF LeanArgSizes
  <2>5. ArgFrom(at) = p /\ PrefixOf(u) = 0 /\ p + 1 + 0 = p + 1
    BY <1>0, <1>4 DEF ArgFrom, PrefixOf, Prefixed
  <2> HIDE DEF w
  <2> QED BY <2>2, <2>3, <2>4, <2>5 DEF ArgBytes
<1> QED BY <1>3, <1>4

\* The argument named as the j-th is where Anchor finds it.
Between(s, instr, j, v) ==
    \E x \in Decode(StructOf(SubSeq(s.args, 1, j - 1)), instr, 0) :
      \E y \in Decode(StructOf(SubSeq(s.args, 1, j)), instr, 0) :
        v = SubSeq(instr, x[2] + 1 + PrefixOf(s.args[j].ty), y[2])

LEMMA AnchorArgIs ==
    ASSUME NEW s, Distinct(s.args), NEW instr, NEW j \in DOMAIN s.args, NEW v
    PROVE  v \in AnchorArg(s, instr, s.args[j].name) <=> Between(s, instr, j, v)
<1> DEFINE n       == s.args[j].name
           upto(m) == Decode(StructOf(SubSeq(s.args, 1, m)), instr, 0)
           front(m) == IF s.args[m].ty.k \in {"string", "vec"} THEN PrefixLen ELSE 0
           some(m) == {SubSeq(instr, x[2] + 1 + front(m), y[2]) : x \in upto(m - 1), y \in upto(m)}
           J       == {m \in DOMAIN s.args : s.args[m].name = n}
<1>1. AnchorArg(s, instr, n) = UNION {some(m) : m \in J}
  BY DEF AnchorArg
<1>2. J = {j}
  BY DEF Distinct
<1>3. v \in some(j) <=> Between(s, instr, j, v)
  BY DEF Between, PrefixOf
<1> HIDE DEF some, J, n
<1>4. v \in AnchorArg(s, instr, n) <=> v \in some(j)
  BY <1>1, <1>2
<1> QED BY <1>3, <1>4 DEF n

\* The bytes of an argument are those Anchor gives it, if the walk gets to it,
\* which it does when it can step over the arguments in front.
LEMMA ArgMeans ==
    ASSUME NEW s, StructOf(s.args) \in Ty, Distinct(s.args), NEW instr, Buffer(instr),
           Decode(StructOf(s.args), instr, 0) # {},
           NEW j, j \in DOMAIN Descriptor(s.args).fs, SeedType(s.args[j].ty)
    PROVE  LET n == s.args[j].name IN
           /\ ArgSeed(s, instr, n) \subseteq AnchorArg(s, instr, n)
           /\ (\A m \in 1..j - 1 : ~NoWidth(s.args[m].ty)) =>
                ArgSeed(s, instr, n) = AnchorArg(s, instr, n)
<1> DEFINE fs == s.args
           n  == fs[j].name
           u  == fs[j].ty
           F  == Decode(StructOf(SubSeq(fs, 1, j - 1)), instr, 0)
           U  == Decode(StructOf(SubSeq(fs, 1, j)), instr, 0)
           W  == LeanEncodedWidth(StructOf(SubSeq(fs, 1, j - 1)), instr, 0)
<1>1. /\ j \in 1..Len(fs) /\ Len(fs) \in Nat /\ DOMAIN fs = 1..Len(fs) /\ u \in Ty
      /\ \A m \in 1..j : Mapped(fs[m].ty)
  BY FrontOfDescriptor
<1>2. instr \in Bytes /\ 0 \in Nat
  BY DEF Buffer
<1>3. /\ F # {} /\ U # {}
      /\ \A y \in U : \E g \in F : \E z \in Decode(u, instr, g[2]) : y[2] = z[2]
      /\ \A g \in F : g[2] \in Nat /\ \A w \in W : g[2] = 0 + w
  BY <1>1, <1>2, FrontsDecode
<1>4. BehindFront(fs, instr, 0, j)
  BY LocatedAt
<1>5. \A at : at \in LeanLocate(Descriptor(fs), n, instr, 0) <=> \E w \in W : at = <<0 + w, u>>
  BY <1>4 DEF BehindFront
<1>6. ArgSeed(s, instr, n) = LeanArgBytes(s, instr, n)
  BY ArgAlike
<1>7. \A v : v \in LeanArgBytes(s, instr, n) <=>
        \E at \in LeanLocate(Descriptor(fs), n, instr, 0) :
          \E m \in LeanArgSizes(at, instr) : ArgBytes(at, instr, m, v)
  BY ArgIs DEF ArgsLayout
<1>8. \A v : v \in AnchorArg(s, instr, n) <=> Between(s, instr, j, v)
  BY <1>1, AnchorArgIs
<1>9. \A v : Between(s, instr, j, v) <=>
        \E x \in F : \E y \in U : v = SubSeq(instr, x[2] + 1 + PrefixOf(u), y[2])
  BY DEF Between
<1>10. SeedType(u)
  OBVIOUS
<1>11. (\A m \in 1..j - 1 : ~NoWidth(fs[m].ty)) => W # {}
  <2> SUFFICES ASSUME \A m \in 1..j - 1 : ~NoWidth(fs[m].ty) PROVE W # {}
    OBVIOUS
  <2>1. \A m \in 1..j - 1 : m \in 1..j /\ m \in DOMAIN fs
    BY <1>1
  <2>2. \A m \in DOMAIN fs : fs[m].ty \in Ty
    <3> DEFINE t == StructOf(fs)
    <3>1. t \in Ty /\ t.k = "struct" /\ t.fs = fs
      BY DEF StructOf
    <3> HIDE DEF t, fs
    <3>2. \A m \in DOMAIN t.fs : t.fs[m].ty \in Ty
      BY <3>1, FieldInFront
    <3> QED BY <3>1, <3>2
  <2>3. \A m \in 1..j - 1 : fs[m].ty \in Passable
    BY <1>1, <2>1, <2>2 DEF Passable
  <2>4. PICK b : b \in Decode(StructOf(fs), instr, 0)
    OBVIOUS
  <2>5. \A S : Steppable(S) /\ (\A m \in 1..j - 1 : fs[m].ty \in S) => W # {}
    BY <1>1, <1>2, <2>4, FieldIsBorsh
  <2> QED BY <2>3, <2>5, PassableSteps
<1> HIDE DEF fs, n, u, F, U, W
<1>12. ASSUME NEW v, NEW w \in W, NEW y \in U
       PROVE  (\E m \in LeanArgSizes(<<0 + w, u>>, instr) : ArgBytes(<<0 + w, u>>, instr, m, v))
                <=> v = SubSeq(instr, 0 + w + 1 + PrefixOf(u), y[2])
  <2>1. PICK g \in F : \E z \in Decode(u, instr, g[2]) : y[2] = z[2]
    BY <1>3
  <2>2. PICK z \in Decode(u, instr, g[2]) : y[2] = z[2]
    BY <2>1
  <2>3. g[2] \in Nat /\ g[2] = 0 + w
    BY <1>3
  <2> DEFINE p == 0 + w
             at == <<p, u>>
  <2>4. p \in Nat /\ z \in Decode(u, instr, p)
    BY <2>2, <2>3
  <2> HIDE DEF p
  <2>5. (\E m \in LeanArgSizes(at, instr) : ArgBytes(at, instr, m, v))
          <=> v = SubSeq(instr, p + 1 + PrefixOf(u), z[2])
    BY <1>1, <1>2, <1>10, <2>4, ArgEnds
  <2> QED BY <2>2, <2>5 DEF p
<1>13. ASSUME NEW w \in W
       PROVE  \A v : v \in ArgSeed(s, instr, n) <=> v \in AnchorArg(s, instr, n)
  <2> TAKE v
  <2>1. \A a \in W : a = w
    <3>1. PICK g \in F : TRUE
      BY <1>3
    <3>2. \A a \in W : a \in Nat
      <4>1. StructOf(SubSeq(fs, 1, j - 1)) \in Ty
        BY <1>1, FrontOfDescriptor, FieldInFront DEF fs
      <4> QED BY <1>2, <4>1, WidthType DEF W
    <3> QED BY <1>3, <3>1, <3>2
  <2>2. v \in ArgSeed(s, instr, n)
          <=> \E m \in LeanArgSizes(<<0 + w, u>>, instr) : ArgBytes(<<0 + w, u>>, instr, m, v)
    BY <1>5, <1>6, <1>7, <2>1
  <2>3. \A x \in F : x[2] = 0 + w
    BY <1>3
  <2>4. v \in AnchorArg(s, instr, n) <=> \E y \in U : v = SubSeq(instr, 0 + w + 1 + PrefixOf(u), y[2])
    BY <1>3, <1>8, <1>9, <2>3
  <2> QED BY <1>3, <1>12, <2>2, <2>4
<1>14. ASSUME W = {} PROVE \A v : v \notin ArgSeed(s, instr, n)
  BY <1>5, <1>6, <1>7, <1>14
<1> QED BY <1>11, <1>13, <1>14 DEF fs, n

Inner(e) == IF e.k \in {"ref", "call"} THEN {e.of} ELSE {}
Seed1    == Wrap(SeedLeaf)
Seed2    == Wrap(Seed1)

LEMMA InnerOfLeaf ==
    ASSUME NEW e \in SeedLeaf
    PROVE  Inner(e) = {} /\ e.k \in {"bytes", "str", "name", "slice"}
BY DEF SeedLeaf, Inner

LEMMA InnerOfWrap ==
    ASSUME NEW E, NEW e \in Wrap(E), e \notin E
    PROVE  Inner(e) \subseteq E
BY DEF Wrap, Inner

LEMMA SeedLevels ==
    /\ SeedLeaf \subseteq Seed1 /\ Seed1 \subseteq Seed2 /\ Seed2 \subseteq SeedExpr
    /\ SeedExpr = Wrap(Seed2)
<1>1. \A E : E \subseteq Wrap(E)
  BY DEF Wrap
<1>2. SeedExpr = Wrap(Seed2)
  BY DEF SeedExpr, Seed2, Seed1
<1>3. SeedLeaf \subseteq Seed1 /\ Seed1 \subseteq Seed2
  <2> HIDE DEF SeedLeaf
  <2>1. SeedLeaf \subseteq Wrap(SeedLeaf) /\ Seed1 \subseteq Wrap(Seed1)
    BY <1>1
  <2> QED BY <2>1 DEF Seed1, Seed2
<1>4. Seed2 \subseteq SeedExpr
  BY <1>1, <1>2
<1> QED BY <1>2, <1>3, <1>4

LEMMA SeedInduction ==
    ASSUME NEW S, \A e \in SeedExpr : Inner(e) \subseteq S => e \in S
    PROVE  SeedExpr \subseteq S
<1>1. \A e \in SeedLeaf : e \in S
  BY InnerOfLeaf, SeedLevels
<1>2. \A e \in Seed1 : e \in S
  <2>1. \A e \in Seed1 : e \in SeedLeaf \/ Inner(e) \subseteq SeedLeaf
    BY InnerOfWrap DEF Seed1
  <2> QED BY <1>1, <2>1, SeedLevels
<1>3. \A e \in Seed2 : e \in S
  <2>1. \A e \in Seed2 : e \in Seed1 \/ Inner(e) \subseteq Seed1
    BY InnerOfWrap DEF Seed2
  <2> QED BY <1>2, <2>1, SeedLevels
<1>4. \A e \in SeedExpr : e \in Seed2 \/ Inner(e) \subseteq Seed2
  BY InnerOfWrap, SeedLevels
<1> QED BY <1>3, <1>4

LEMMA InnerIsSeed ==
    ASSUME NEW e \in SeedExpr
    PROVE  Inner(e) \subseteq SeedExpr
<1>1. \A E : \A x \in Wrap(E) : x \in E \/ Inner(x) \subseteq E
  BY InnerOfWrap
<1>2. \A x \in SeedLeaf : Inner(x) \subseteq SeedExpr
  BY InnerOfLeaf
<1>3. \A x \in Seed1 : Inner(x) \subseteq SeedExpr
  <2>1. \A x \in Seed1 : x \in SeedLeaf \/ Inner(x) \subseteq SeedLeaf
    BY <1>1 DEF Seed1
  <2> QED BY <1>2, <2>1, SeedLevels
<1>4. \A x \in Seed2 : Inner(x) \subseteq SeedExpr
  <2>1. \A x \in Seed2 : x \in Seed1 \/ Inner(x) \subseteq Seed1
    BY <1>1 DEF Seed2
  <2> QED BY <1>3, <2>1, SeedLevels
<1>5. e \in Seed2 \/ Inner(e) \subseteq Seed2
  BY <1>1, SeedLevels
<1> QED BY <1>4, <1>5, SeedLevels

SeedRound(f, g, h) ==
    \A e \in SeedExpr : (\A v \in Inner(e) : f[v] = g[v]) => g[e] = h[e]

LEMMA FourSeedRounds ==
    ASSUME NEW f0, NEW f1, NEW f2, NEW f3, NEW f4, NEW f5,
           SeedRound(f0, f1, f2), SeedRound(f1, f2, f3),
           SeedRound(f2, f3, f4), SeedRound(f3, f4, f5)
    PROVE  \A e \in SeedExpr : f4[e] = f5[e]
<1>0. \A e \in SeedExpr : /\ (\A v \in Inner(e) : f0[v] = f1[v]) => f1[e] = f2[e]
                          /\ (\A v \in Inner(e) : f1[v] = f2[v]) => f2[e] = f3[e]
                          /\ (\A v \in Inner(e) : f2[v] = f3[v]) => f3[e] = f4[e]
                          /\ (\A v \in Inner(e) : f3[v] = f4[v]) => f4[e] = f5[e]
  BY DEF SeedRound
<1>1. \A e \in SeedLeaf : f1[e] = f2[e] /\ f2[e] = f3[e] /\ f3[e] = f4[e] /\ f4[e] = f5[e]
  BY <1>0, InnerOfLeaf, SeedLevels
<1>2. \A e \in Seed1 : f2[e] = f3[e] /\ f3[e] = f4[e] /\ f4[e] = f5[e]
  <2> SUFFICES ASSUME NEW e \in Seed1, e \notin SeedLeaf
               PROVE  f2[e] = f3[e] /\ f3[e] = f4[e] /\ f4[e] = f5[e]
    BY <1>1
  <2>1. e \in SeedExpr /\ Inner(e) \subseteq SeedLeaf
    BY InnerOfWrap, SeedLevels DEF Seed1
  <2> QED BY <1>0, <1>1, <2>1
<1>3. \A e \in Seed2 : f3[e] = f4[e] /\ f4[e] = f5[e]
  <2> SUFFICES ASSUME NEW e \in Seed2, e \notin Seed1
               PROVE  f3[e] = f4[e] /\ f4[e] = f5[e]
    BY <1>2
  <2>1. e \in SeedExpr /\ Inner(e) \subseteq Seed1
    BY InnerOfWrap, SeedLevels DEF Seed2
  <2> QED BY <1>0, <1>2, <2>1
<1> SUFFICES ASSUME NEW e \in SeedExpr, e \notin Seed2
             PROVE  f4[e] = f5[e]
  BY <1>3
<1>4. Inner(e) \subseteq Seed2
  BY InnerOfWrap, SeedLevels
<1> QED BY <1>0, <1>3, <1>4

\* What an expression is peeled to.
PeelStep(f, e) ==
    CASE e.k = "ref"   -> f[e.of]
      [] e.k = "name"  -> {[e |-> "bare", n |-> e.n]}
      [] e.k = "bytes" -> {[e |-> "literal", b |-> e.b]}
      [] e.k = "call"  ->
           CASE e.m = "key" /\ e.of.k = "name" -> {[e |-> "key", n |-> e.of.n]}
             [] e.m = "as_bytes" /\ e.of.k = "str" -> {[e |-> "literal", b |-> e.of.b]}
             [] e.m \in {"as_bytes", "to_le_bytes"} /\ e.of.k = "name" ->
                  {[e |-> "arg", n |-> e.of.n, form |-> e.m]}
             [] e.m \in {"as_ref", "as_slice"} -> f[e.of]
             [] OTHER -> {}
      [] OTHER         -> {}
Peeling(f) == f = [e \in SeedExpr |-> PeelStep(f, e)]

LEMMA PeelingRound ==
    ASSUME NEW f, NEW g, NEW h,
           \A e \in SeedExpr : g[e] = PeelStep(f, e), \A e \in SeedExpr : h[e] = PeelStep(g, e)
    PROVE  SeedRound(f, g, h)
<1> SUFFICES ASSUME NEW e \in SeedExpr, \A v \in Inner(e) : f[v] = g[v]
             PROVE  PeelStep(f, e) = PeelStep(g, e)
  BY DEF SeedRound
<1>1. e.k \in {"ref", "call"} => f[e.of] = g[e.of]
  BY DEF Inner
<1>2. CASE e.k = "ref"
  BY <1>1, <1>2 DEF PeelStep
<1>3. CASE e.k = "call"
  BY <1>1, <1>3 DEF PeelStep
<1>4. CASE e.k \notin {"ref", "call"}
  BY <1>4 DEF PeelStep
<1> QED BY <1>2, <1>3, <1>4

LEMMA PeelingExists == \E f : Peeling(f)
<1> DEFINE f0 == [e \in SeedExpr |-> {}]
           f1 == [e \in SeedExpr |-> PeelStep(f0, e)]
           f2 == [e \in SeedExpr |-> PeelStep(f1, e)]
           f3 == [e \in SeedExpr |-> PeelStep(f2, e)]
           f4 == [e \in SeedExpr |-> PeelStep(f3, e)]
           f5 == [e \in SeedExpr |-> PeelStep(f4, e)]
<1>1. \A e \in SeedExpr : f1[e] = PeelStep(f0, e)
  <2> HIDE DEF f0
  <2> QED OBVIOUS
<1>2. \A e \in SeedExpr : f2[e] = PeelStep(f1, e)
  <2> HIDE DEF f1
  <2> QED OBVIOUS
<1>3. \A e \in SeedExpr : f3[e] = PeelStep(f2, e)
  <2> HIDE DEF f2
  <2> QED OBVIOUS
<1>4. \A e \in SeedExpr : f4[e] = PeelStep(f3, e)
  <2> HIDE DEF f3
  <2> QED OBVIOUS
<1>5. \A e \in SeedExpr : f5[e] = PeelStep(f4, e)
  <2> HIDE DEF f4
  <2> QED OBVIOUS
<1>6. f4 = [e \in SeedExpr |-> f4[e]]
  <2> HIDE DEF f3
  <2> QED OBVIOUS
<1> HIDE DEF f0, f1, f2, f3, f4, f5
<1>7. SeedRound(f0, f1, f2) /\ SeedRound(f1, f2, f3)
      /\ SeedRound(f2, f3, f4) /\ SeedRound(f3, f4, f5)
  BY <1>1, <1>2, <1>3, <1>4, <1>5, PeelingRound
<1>8. \A e \in SeedExpr : f4[e] = f5[e]
  BY <1>7, FourSeedRounds
<1>9. \A e \in SeedExpr : f4[e] = PeelStep(f4, e)
  BY <1>5, <1>8
<1>10. f4 = [e \in SeedExpr |-> PeelStep(f4, e)]
  BY <1>6, <1>9
<1> QED BY <1>10 DEF Peeling

LEMMA Peels ==
    \E f : \A e \in SeedExpr : PeelSeed(e) = f[e] /\ f[e] = PeelStep(f, e)
<1> DEFINE f == CHOOSE g : Peeling(g)
<1>1. Peeling(f)
  BY PeelingExists
<1>2. \A e : PeelSeed(e) = f[e]
  BY DEF PeelSeed, Peeling, PeelStep
<1> HIDE DEF f
<1>3. \A e \in SeedExpr : f[e] = PeelStep(f, e)
  BY <1>1 DEF Peeling
<1> QED BY <1>2, <1>3

\* What an expression is under Anchor.
Valued(s, c, f) == f = [e \in SeedExpr |-> AnchorBytes(s, c, f, e)]

LEMMA ValuedRound ==
    ASSUME NEW s, NEW c, NEW f, NEW g, NEW h,
           \A e \in SeedExpr : g[e] = AnchorBytes(s, c, f, e),
           \A e \in SeedExpr : h[e] = AnchorBytes(s, c, g, e)
    PROVE  SeedRound(f, g, h)
<1> SUFFICES ASSUME NEW e \in SeedExpr, \A v \in Inner(e) : f[v] = g[v]
             PROVE  AnchorBytes(s, c, f, e) = AnchorBytes(s, c, g, e)
  BY DEF SeedRound
<1>1. e.k \in {"ref", "call"} => f[e.of] = g[e.of]
  BY DEF Inner
<1>2. e.k \in {"bytes", "str", "name", "slice", "ref", "call"}
  <2>1. \A E : \A x \in Wrap(E) : x \in E \/ x.k \in {"ref", "call"}
    BY DEF Wrap
  <2>2. e \in Seed2 \/ e.k \in {"ref", "call"}
    BY <2>1, SeedLevels
  <2>3. e \in Seed2 => e \in Seed1 \/ e.k \in {"ref", "call"}
    BY <2>1 DEF Seed2
  <2>4. e \in Seed1 => e \in SeedLeaf \/ e.k \in {"ref", "call"}
    BY <2>1 DEF Seed1
  <2> QED BY <2>2, <2>3, <2>4, InnerOfLeaf
<1>3. CASE e.k \in {"ref", "call"}
  BY <1>1, <1>3 DEF AnchorBytes
<1>4. CASE e.k \in {"bytes", "str", "name", "slice"}
  BY <1>4 DEF AnchorBytes
<1> QED BY <1>2, <1>3, <1>4

LEMMA ValuedExists ==
    ASSUME NEW s, NEW c
    PROVE  \E f : Valued(s, c, f)
<1> DEFINE f0 == [e \in SeedExpr |-> {}]
           f1 == [e \in SeedExpr |-> AnchorBytes(s, c, f0, e)]
           f2 == [e \in SeedExpr |-> AnchorBytes(s, c, f1, e)]
           f3 == [e \in SeedExpr |-> AnchorBytes(s, c, f2, e)]
           f4 == [e \in SeedExpr |-> AnchorBytes(s, c, f3, e)]
           f5 == [e \in SeedExpr |-> AnchorBytes(s, c, f4, e)]
<1>1. \A e \in SeedExpr : f1[e] = AnchorBytes(s, c, f0, e)
  <2> HIDE DEF f0
  <2> QED OBVIOUS
<1>2. \A e \in SeedExpr : f2[e] = AnchorBytes(s, c, f1, e)
  <2> HIDE DEF f1
  <2> QED OBVIOUS
<1>3. \A e \in SeedExpr : f3[e] = AnchorBytes(s, c, f2, e)
  <2> HIDE DEF f2
  <2> QED OBVIOUS
<1>4. \A e \in SeedExpr : f4[e] = AnchorBytes(s, c, f3, e)
  <2> HIDE DEF f3
  <2> QED OBVIOUS
<1>5. \A e \in SeedExpr : f5[e] = AnchorBytes(s, c, f4, e)
  <2> HIDE DEF f4
  <2> QED OBVIOUS
<1>6. f4 = [e \in SeedExpr |-> f4[e]]
  <2> HIDE DEF f3
  <2> QED OBVIOUS
<1> HIDE DEF f0, f1, f2, f3, f4, f5
<1>7. SeedRound(f0, f1, f2) /\ SeedRound(f1, f2, f3)
      /\ SeedRound(f2, f3, f4) /\ SeedRound(f3, f4, f5)
  BY <1>1, <1>2, <1>3, <1>4, <1>5, ValuedRound
<1>8. \A e \in SeedExpr : f4[e] = f5[e]
  BY <1>7, FourSeedRounds
<1>9. \A e \in SeedExpr : f4[e] = AnchorBytes(s, c, f4, e)
  BY <1>5, <1>8
<1>10. f4 = [e \in SeedExpr |-> AnchorBytes(s, c, f4, e)]
  BY <1>6, <1>9
<1> QED BY <1>10 DEF Valued

LEMMA Values ==
    ASSUME NEW s, NEW c
    PROVE  \E f : \A e \in SeedExpr : AnchorSeed(s, c, e) = f[e] /\ f[e] = AnchorBytes(s, c, f, e)
<1> DEFINE f == CHOOSE g : Valued(s, c, g)
<1>1. Valued(s, c, f)
  BY ValuedExists
<1>2. \A e : AnchorSeed(s, c, e) = f[e]
  BY DEF AnchorSeed, Valued
<1> HIDE DEF f
<1>3. \A e \in SeedExpr : f[e] = AnchorBytes(s, c, f, e)
  BY <1>1 DEF Valued
<1> QED BY <1>2, <1>3

\* What is peeled off does not count: a reference or a view of something, a key
\* or the bytes of something named.
NameBytes(s, c, n) == IF n \in Declared(s) THEN AnchorArg(s, c.instr, n)
                      ELSE {c.accounts[IndexOf(s, n)].key}
Meant(s, c, p) == IF p.e = "literal" THEN {p.b}
                  ELSE IF p.e = "key" THEN {c.accounts[IndexOf(s, p.n)].key}
                  ELSE NameBytes(s, c, p.n)
Peeled(s, c, p, bytes) ==
    /\ p.e \in {"literal", "key", "arg", "bare"}
    /\ p.e = "arg" => p.form \in {"as_bytes", "to_le_bytes"}
    /\ bytes = Meant(s, c, p)

LEMMA PeelingKeepsMeaning ==
    ASSUME NEW s, NEW c
    PROVE  \A e \in SeedExpr : \A p \in PeelSeed(e) : Peeled(s, c, p, AnchorSeed(s, c, e))
<1>1. PICK f : \A e \in SeedExpr : PeelSeed(e) = f[e] /\ f[e] = PeelStep(f, e)
  BY Peels
<1>2. PICK v : \A e \in SeedExpr : AnchorSeed(s, c, e) = v[e] /\ v[e] = AnchorBytes(s, c, v, e)
  BY Values
<1> DEFINE S == {e \in SeedExpr : \A p \in f[e] : Peeled(s, c, p, v[e])}
<1>3. ASSUME NEW e \in SeedExpr, Inner(e) \subseteq S PROVE e \in S
  <2> SUFFICES ASSUME NEW p \in PeelStep(f, e) PROVE Peeled(s, c, p, AnchorBytes(s, c, v, e))
    BY <1>1, <1>2
  <2>1. e.k \in {"ref", "call"} => e.of \in SeedExpr /\ \A q \in f[e.of] : Peeled(s, c, q, v[e.of])
    BY <1>3 DEF Inner
  <2>2. e.k \in {"ref", "call"} => v[e.of] = AnchorBytes(s, c, v, e.of)
    BY <1>2, <2>1
  <2> HIDE DEF S
  <2>3. CASE e.k = "ref"
    <3>1. p \in f[e.of] /\ AnchorBytes(s, c, v, e) = v[e.of]
      BY <2>3 DEF PeelStep, AnchorBytes
    <3> QED BY <2>1, <2>3, <3>1
  <2>4. CASE e.k = "name"
    <3>1. p = [e |-> "bare", n |-> e.n] /\ AnchorBytes(s, c, v, e) = NameBytes(s, c, e.n)
      BY <2>4 DEF PeelStep, AnchorBytes, NameBytes
    <3> QED BY <3>1 DEF Peeled, Meant
  <2>5. CASE e.k = "bytes"
    <3>1. p = [e |-> "literal", b |-> e.b] /\ AnchorBytes(s, c, v, e) = {e.b}
      BY <2>5 DEF PeelStep, AnchorBytes
    <3> QED BY <3>1 DEF Peeled, Meant
  <2>6. CASE e.k = "call"
    <3>1. CASE e.m = "key" /\ e.of.k = "name"
      <4>1. p = [e |-> "key", n |-> e.of.n]
        BY <2>6, <3>1 DEF PeelStep
      <4>2. AnchorBytes(s, c, v, e) = {c.accounts[IndexOf(s, e.of.n)].key}
        BY <2>6, <3>1 DEF AnchorBytes
      <4> QED BY <4>1, <4>2 DEF Peeled, Meant
    <3>2. CASE e.m = "as_bytes" /\ e.of.k = "str"
      <4>1. p = [e |-> "literal", b |-> e.of.b]
        BY <2>6, <3>2 DEF PeelStep
      <4>2. AnchorBytes(s, c, v, e) = v[e.of] /\ AnchorBytes(s, c, v, e.of) = {e.of.b}
        BY <2>6, <3>2 DEF AnchorBytes
      <4> QED BY <2>2, <2>6, <4>1, <4>2 DEF Peeled, Meant
    <3>3. CASE e.m \in {"as_bytes", "to_le_bytes"} /\ e.of.k = "name"
      <4>1. p = [e |-> "arg", n |-> e.of.n, form |-> e.m]
        BY <2>6, <3>3 DEF PeelStep
      <4>2. AnchorBytes(s, c, v, e) = v[e.of] /\ AnchorBytes(s, c, v, e.of) = NameBytes(s, c, e.of.n)
        BY <2>6, <3>3 DEF AnchorBytes, NameBytes
      <4> QED BY <2>2, <2>6, <3>3, <4>1, <4>2 DEF Peeled, Meant
    <3>4. CASE e.m \in {"as_ref", "as_slice"}
      <4>1. p \in f[e.of] /\ AnchorBytes(s, c, v, e) = v[e.of]
        BY <2>6, <3>4 DEF PeelStep, AnchorBytes
      <4> QED BY <2>1, <2>6, <4>1
    <3>5. CASE /\ ~(e.m = "key" /\ e.of.k = "name") /\ ~(e.m = "as_bytes" /\ e.of.k = "str")
               /\ ~(e.m \in {"as_bytes", "to_le_bytes"} /\ e.of.k = "name")
               /\ e.m \notin {"as_ref", "as_slice"}
      BY <2>6, <3>5 DEF PeelStep
    <3> QED BY <3>1, <3>2, <3>3, <3>4, <3>5
  <2>7. CASE e.k \notin {"ref", "name", "bytes", "call"}
    BY <2>7 DEF PeelStep
  <2> QED BY <2>3, <2>4, <2>5, <2>6, <2>7
<1>4. SeedExpr \subseteq S
  <2> HIDE DEF S
  <2> QED BY <1>3, SeedInduction
<1> QED BY <1>1, <1>2, <1>4

\* A seed that compiles is the literal, slice or key its source is, or an
\* argument the layout has, of a type that is a seed.
LEMMA SeedMeans ==
    ASSUME NEW s, StructOf(s.args) \in Ty, NEW c, NEW expr \in SeedExpr, SeedCompiles(s, expr),
           NEW seed, seed = The(Seed(s, expr))
    PROVE  \/ seed.e # "arg" /\ SeedBytes(s, c, seed) = AnchorSeed(s, c, expr)
           \/ /\ seed.e = "arg" /\ seed.n \in Mappable(s) /\ SeedType(ArgType(s, seed.n))
              /\ AnchorSeed(s, c, expr) = AnchorArg(s, c.instr, seed.n)
<1>1. seed \in Seed(s, expr)
  BY DEF SeedCompiles, The
<1>2. PICK p \in ParseSeed(expr) : seed \in ResolveSeed(s, p)
  <2> DEFINE P == ParseSeed(expr)
  <2>1. seed \in UNION {ResolveSeed(s, e) : e \in P}
    BY <1>1 DEF Seed
  <2> HIDE DEF P
  <2> QED BY <2>1 DEF P
<1>3. /\ seed.e = "arg" => seed.n \in Mappable(s) /\ SpellingFits(s, seed)
      /\ seed.e = "key" => seed.n \in FieldNames(s)
  BY DEF SeedCompiles
<1>4. PICK v : \A e \in SeedExpr : AnchorSeed(s, c, e) = v[e] /\ v[e] = AnchorBytes(s, c, v, e)
  BY Values
<1>5. CASE expr.k = "bytes"
  <2>1. p = [e |-> "literal", b |-> expr.b] /\ AnchorSeed(s, c, expr) = {expr.b}
    BY <1>2, <1>4, <1>5 DEF ParseSeed, AnchorBytes
  <2>2. seed = p
    BY <1>2, <2>1 DEF ResolveSeed
  <2> QED BY <2>1, <2>2 DEF SeedBytes
<1>6. CASE expr.k = "slice"
  <2>1. p = [e |-> "slice", off |-> expr.off, len |-> expr.len]
        /\ AnchorSeed(s, c, expr) = {Slice(c.instr, expr.off, expr.len)}
    BY <1>2, <1>4, <1>6 DEF ParseSeed, AnchorBytes
  <2>2. seed = p
    BY <1>2, <2>1 DEF ResolveSeed
  <2> QED BY <2>1, <2>2 DEF SeedBytes
<1>7. CASE expr.k \in {"call", "ref"}
  <2>1. p \in PeelSeed(expr)
    BY <1>2, <1>7 DEF ParseSeed
  <2>2. Peeled(s, c, p, AnchorSeed(s, c, expr))
    BY <2>1, PeelingKeepsMeaning
  <2>3. Mappable(s) \subseteq Declared(s)
    <3>1. \A j \in DOMAIN ArgsLayout(s).fs : ArgsLayout(s).fs[j] = s.args[j] /\ j \in DOMAIN s.args
      BY FrontOfDescriptor DEF ArgsLayout
    <3> QED BY <3>1 DEF Mappable, Declared
  <2>4. ASSUME seed.e = "arg", seed.form \in {"as_bytes", "to_le_bytes", "bare"}
        PROVE  seed.n \in Mappable(s) /\ SeedType(ArgType(s, seed.n))
    BY <1>3, <2>4 DEF SpellingFits, SeedType
  <2>5. CASE p.e = "literal"
    <3>1. seed = p
      BY <1>2, <2>5 DEF ResolveSeed
    <3> QED BY <2>2, <2>5, <3>1 DEF Peeled, Meant, SeedBytes
  <2>6. CASE p.e = "key"
    <3>1. seed = p
      BY <1>2, <2>6 DEF ResolveSeed
    <3> QED BY <2>2, <2>6, <3>1 DEF Peeled, Meant, SeedBytes
  <2>7. CASE p.e = "arg"
    <3>1. seed = p
      BY <1>2, <2>7 DEF ResolveSeed
    <3>2. p.form \in {"as_bytes", "to_le_bytes"} /\ AnchorSeed(s, c, expr) = NameBytes(s, c, p.n)
      BY <2>2, <2>7 DEF Peeled, Meant
    <3> QED BY <2>3, <2>4, <2>7, <3>1, <3>2 DEF NameBytes
  <2>8. CASE p.e = "bare"
    <3>0. AnchorSeed(s, c, expr) = NameBytes(s, c, p.n)
      BY <2>2, <2>8 DEF Peeled, Meant
    <3>1. \/ p.n \in Mappable(s) /\ seed = [e |-> "arg", n |-> p.n, form |-> "bare"]
          \/ p.n \notin Declared(s) /\ seed = [e |-> "key", n |-> p.n]
      BY <1>2, <2>8 DEF ResolveSeed
    <3>2. CASE p.n \in Mappable(s) /\ seed = [e |-> "arg", n |-> p.n, form |-> "bare"]
      BY <2>3, <2>4, <3>0, <3>2 DEF NameBytes
    <3>3. CASE p.n \notin Declared(s) /\ seed = [e |-> "key", n |-> p.n]
      BY <3>0, <3>3 DEF NameBytes, SeedBytes
    <3> QED BY <3>1, <3>2, <3>3
  <2> QED BY <2>2, <2>5, <2>6, <2>7, <2>8 DEF Peeled
<1>8. CASE expr.k \notin {"bytes", "slice", "call", "ref"}
  BY <1>2, <1>8 DEF ParseSeed
<1> QED BY <1>5, <1>6, <1>7, <1>8

LEMMA SeedIsAnchors ==
    ASSUME NEW s, WellFormed(s), NEW c, Buffer(c.instr), Decode(StructOf(s.args), c.instr, 0) # {},
           NEW expr \in SeedExpr, SeedCompiles(s, expr),
           NEW seed, seed = The(Seed(s, expr))
    PROVE  /\ SeedBytes(s, c, seed) \subseteq AnchorSeed(s, c, expr)
           /\ (seed.e = "arg" => Reached(s, seed.n)) =>
                SeedBytes(s, c, seed) = AnchorSeed(s, c, expr)
<1>1. StructOf(s.args) \in Ty
  BY DEF WellFormed
<1>2. Distinct(s.args)
  BY DistinctNames
<1>3. CASE seed.e # "arg"
  BY <1>1, <1>3, SeedMeans
<1>4. CASE seed.e = "arg"
  <2>1. /\ seed.n \in Mappable(s) /\ SeedType(ArgType(s, seed.n))
        /\ AnchorSeed(s, c, expr) = AnchorArg(s, c.instr, seed.n)
    BY <1>1, <1>4, SeedMeans
  <2>2. SeedBytes(s, c, seed) = ArgSeed(s, c.instr, seed.n)
    BY <1>4 DEF SeedBytes
  <2> DEFINE fs == s.args
             t  == Descriptor(fs)
             n  == seed.n
  <2>3. PICK j \in DOMAIN t.fs : t.fs[j].name = n
    BY <2>1 DEF Mappable, ArgsLayout
  <2>4. \A m \in DOMAIN t.fs : t.fs[m] = fs[m] /\ m \in DOMAIN fs
    BY <1>1, FrontOfDescriptor
  <2>5. t.k = "struct"
    BY DEF Descriptor, StructOf
  <2>6. ArgType(s, n) = fs[j].ty
    <3>1. ArgType(s, n) = The(TopLevelField(t, n))
      BY DEF ArgType, ArgsLayout
    <3> HIDE DEF t, n, fs
    <3>2. TopLevelField(t, n) = {t.fs[m].ty : m \in {m \in DOMAIN t.fs : t.fs[m].name = n}}
      BY <2>5 DEF TopLevelField
    <3>3. \A m \in DOMAIN t.fs : t.fs[m].name = n => m = j
      BY <1>2, <2>3, <2>4 DEF Distinct, fs
    <3>4. TopLevelField(t, n) = {t.fs[j].ty}
      BY <2>3, <3>2, <3>3
    <3> QED BY <2>4, <3>1, <3>4 DEF The
  <2>7. n = fs[j].name /\ SeedType(fs[j].ty) /\ j \in DOMAIN fs
    BY <2>1, <2>3, <2>4, <2>6
  <2>8. /\ ArgSeed(s, c.instr, fs[j].name) \subseteq AnchorArg(s, c.instr, fs[j].name)
        /\ (\A m \in 1..j - 1 : ~NoWidth(fs[m].ty)) =>
             ArgSeed(s, c.instr, fs[j].name) = AnchorArg(s, c.instr, fs[j].name)
    BY <1>1, <1>2, <2>3, <2>7, ArgMeans
  <2>9. Reached(s, n) => \A m \in 1..j - 1 : ~NoWidth(fs[m].ty)
    BY <2>7 DEF Reached
  <2> HIDE DEF n, fs, t
  <2> QED BY <1>4, <2>1, <2>2, <2>7, <2>8, <2>9 DEF n
<1> QED BY <1>3, <1>4

\* The bytes of a seed are those its source has under Anchor. Code:
\* parse_seed_elem, the resolution of bare names, arg_field_seed_expr.
THEOREM SeedsMeanAnchor == Spec => []SeedMeansAnchor
<1>1. ASSUME IInv PROVE SeedMeansAnchor
  <2> SUFFICES ASSUME Decode(StructOf(ins.s.args), call.instr, 0) # {},
                      NEW i \in SeededFields(ins.s),
                      NEW j \in DOMAIN First(ins.s.fields[i], {"seeds"}).seeds
               PROVE  LET expr == First(ins.s.fields[i], {"seeds"}).seeds[j]
                          seed == The(Seed(ins.s, expr))
                      IN  /\ SeedBytes(ins.s, call, seed) \subseteq AnchorSeed(ins.s, call, expr)
                          /\ (seed.e = "arg" => Reached(ins.s, seed.n)) =>
                               SeedBytes(ins.s, call, seed) = AnchorSeed(ins.s, call, expr)
    BY DEF SeedMeansAnchor
  <2> DEFINE s    == ins.s
             f    == s.fields[i]
             d    == First(f, {"seeds"})
             expr == d.seeds[j]
  <2>1. WellFormed(s) /\ Buffer(call.instr) /\ Compiles(s)
    BY <1>1, InstructionAssumption DEF IInv, Buffer
  <2>2. i \in DOMAIN s.fields /\ Has(f, "seeds")
    BY DEF SeededFields
  <2>3. PICK k \in Listed(f, {"seeds"}) : d = f.cs[k]
    <3>1. PICK k \in Listed(f, {"seeds"}) : TRUE
      BY <2>2 DEF Has
    <3>2. IsSequence(f.cs) /\ \A m \in Listed(f, {"seeds"}) : k = m
      BY <2>1, <2>2, <3>1 DEF WellFormed
    <3> HIDE DEF f
    <3>3. First(f, {"seeds"}) = f.cs[k]
      BY <3>1, <3>2, FirstIs
    <3> QED BY <3>1, <3>3
  <2>4. expr \in SeedExpr
    <3>1. d.seeds \in Seq(SeedExpr)
      BY <2>1, <2>2, <2>3 DEF WellFormed
    <3>2. j \in DOMAIN d.seeds
      OBVIOUS
    <3> DEFINE q == d.seeds
    <3> HIDE DEF q, d
    <3>3. q[j] \in SeedExpr
      BY <3>1, <3>2 DEF q
    <3> QED BY <3>3 DEF q
  <2>5. SeedCompiles(s, expr)
    BY <2>1, <2>2, <2>3 DEF Compiles, FieldCompiles
  <2> QED BY <2>1, <2>4, <2>5, SeedIsAnchors
<1> QED BY <1>1, IInvHolds, PTL
=============================================================================
