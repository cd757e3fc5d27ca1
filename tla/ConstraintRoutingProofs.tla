----------------------- MODULE ConstraintRoutingProofs -----------------------
(***************************************************************************)
(* Proofs about ConstraintRouting for every width of integers and every    *)
(* set of structures.                                                      *)
(*                                                                         *)
(* First that the emitted comparison agrees with the contract's on all     *)
(* values (ApplyIsEvalCmp), hence the emitted expression with evalExpr     *)
(* (EmittedIsEvalExpr); then that a value it yields is what the source     *)
(* means as Rust (EmittedIsRust), and that it yields one whenever all it   *)
(* mentions can be read and ordered (TrueRustPasses); then the invariant.  *)
(***************************************************************************)
EXTENDS ConstraintRouting, TLAPS

Value == [t : {"nat"}, n : Unsigned] \cup [t : {"int"}, n : Signed]
           \cup [t : {"bool", "key"}, n : 0..2]

\* What TypeOK says of a call.
CallFits(st, c) ==
    /\ \A i \in 1..2 : /\ Fits(st.fields[i], c.data[i])
                       /\ Fits(st.args[i], c.args[i])
                       /\ c.keys[i] \in 0..1
    /\ c.len \in 0..2 /\ c.arglen \in 0..2
    /\ c.lamports \in 0..1 /\ c.signer \in 0..1

-----------------------------------------------------------------------------
\* The cast under its guard is exact, so the 128-bit comparison is the
\* comparison of integers.
LEMMA ApplyIsEvalCmp ==
    ASSUME NEW a \in Value, NEW b \in Value, NEW cmp \in Cmps
    PROVE  Apply(cmp, a, b, FALSE) = EvalCmp(cmp, a, b)
<1> USE TopAssumption
<1>1. CASE Numeric(a) /\ Numeric(b)
  <2>1. /\ \/ a.t = "nat" /\ a.n \in 0..2 * Top + 1
           \/ a.t = "int" /\ a.n \in -(Top + 1)..Top
        /\ \/ b.t = "nat" /\ b.n \in 0..2 * Top + 1
           \/ b.t = "int" /\ b.n \in -(Top + 1)..Top
    BY <1>1 DEF Value, Numeric, Unsigned, Signed
  <2>2. EmittedOrdering(a, b, FALSE) = {Compare(a.n, b.n)}
    BY <2>1, <1>1, SMTT(20) DEF EmittedOrdering, Compare, AsSigned, Numeric
  <2>3. Satisfies(cmp, Compare(a.n, b.n)) = Holds(cmp, a.n, b.n)
    BY <2>1, SMTT(20) DEF Satisfies, Compare, Holds, Cmps
  <2>4. Apply(cmp, a, b, FALSE) = {Satisfies(cmp, Compare(a.n, b.n))}
    BY <2>2 DEF Apply
  <2> QED BY <2>3, <2>4, <1>1 DEF EvalCmp
<1>2. CASE ~(Numeric(a) /\ Numeric(b))
  <2>1. EmittedOrdering(a, b, FALSE) = {}
    BY <1>2 DEF EmittedOrdering, Numeric, Value
  <2> QED BY <2>1, <1>2 DEF Apply, EvalCmp
<1> QED BY <1>1, <1>2

\* Numbers and flags fit their types.
LEMMA OperandIsValue ==
    ASSUME NEW st \in Struct, NEW c, CallFits(st, c), NEW o \in Operand
    PROVE  EvalOperand(st, c, o) \subseteq Value
<1>1. CASE o.kind \in {"field", "arg"}
  <2>1. ASSUME NEW t \in Types, NEW raw, Fits(t, raw)
        PROVE  ReadVal(t, raw) \subseteq Value
    BY <2>1, SMTT(20) DEF Fits, ReadVal, Value, Types, Mapped, Means,
                          Nat_, Int_, Bool_, Key_
  <2>2. /\ st.fields[o.n] \in Types /\ Fits(st.fields[o.n], c.data[o.n])
        /\ st.args[o.n] \in Types /\ Fits(st.args[o.n], c.args[o.n])
    BY <1>1 DEF Struct, CallFits, Operand
  <2> QED BY <1>1, <2>1, <2>2 DEF EvalOperand, Located
<1>2. CASE o.kind \notin {"field", "arg"}
  BY <1>2, TopAssumption, SMTT(20)
     DEF EvalOperand, Value, Operand, CallFits, Unsigned, Signed,
         Nat_, Int_, Bool_, Key_
<1> QED BY <1>1, <1>2

LEMMA AtomIsEvalAtom ==
    ASSUME NEW st \in Struct, NEW c, CallFits(st, c), NEW a \in Atom
    PROVE  EmittedAtom(st, c, a, FALSE) = EvalAtom(st, c, a)
<1> DEFINE l == EvalOperand(st, c, a.l)
           r == EvalOperand(st, c, a.r)
<1>1. l \subseteq Value /\ r \subseteq Value
  BY OperandIsValue DEF Atom
<1>2. /\ OperandValue(st, c, a.l, FALSE) = l
      /\ OperandValue(st, c, a.r, FALSE) = r
  BY DEF OperandValue
<1> HIDE DEF l, r
<1>3. a.cmp \in Cmps \/ a.cmp = "truthy"
  BY DEF Atom
<1>4. a.cmp # "truthy" =>
        \A x \in l, y \in r : Apply(a.cmp, x, y, FALSE) = EvalCmp(a.cmp, x, y)
  BY <1>1, <1>3, ApplyIsEvalCmp
<1> DEFINE A == {b \in BOOLEAN : \E x \in l, y \in r :
                                   b \in Apply(a.cmp, x, y, FALSE)}
           E == {b \in BOOLEAN : \E x \in l, y \in r :
                                   b \in EvalCmp(a.cmp, x, y)}
<1>5. a.cmp # "truthy" => A = E
  BY <1>4
<1>6. EvalAtom(st, c, a)
        = Negated(a.neg, IF a.cmp = "truthy" THEN Truth(l) ELSE E)
  BY DEF EvalAtom, l, r
<1>7. EmittedAtom(st, c, a, FALSE)
        = Negated(a.neg, IF a.cmp = "truthy" THEN Truth(l) ELSE A)
  <2> DEFINE F(x1, y1) == Negated(a.neg,
               IF a.cmp = "truthy" THEN Truth(x1)
               ELSE {b \in BOOLEAN : \E x \in x1, y \in y1 :
                                       b \in Apply(a.cmp, x, y, FALSE)})
  <2>1. EmittedAtom(st, c, a, FALSE)
          = F(OperandValue(st, c, a.l, FALSE), OperandValue(st, c, a.r, FALSE))
    BY DEF EmittedAtom
  <2> QED BY <2>1, <1>2
<1> HIDE DEF A, E
<1>8. CASE a.cmp = "truthy"
  <2> DEFINE T == Truth(l)
  <2>1. EvalAtom(st, c, a) = Negated(a.neg, T)
    BY <1>6, <1>8
  <2>2. EmittedAtom(st, c, a, FALSE) = Negated(a.neg, T)
    BY <1>7, <1>8
  <2> HIDE DEF T
  <2> QED BY <2>1, <2>2
<1>9. CASE a.cmp # "truthy"
  <2>1. EvalAtom(st, c, a) = Negated(a.neg, E)
    BY <1>6, <1>9
  <2>2. EmittedAtom(st, c, a, FALSE) = Negated(a.neg, A)
    BY <1>7, <1>9
  <2> QED BY <2>1, <2>2, <1>5, <1>9
<1> QED BY <1>8, <1>9

\* The code in validate computes what the contract says, on every call.
THEOREM EmittedIsEvalExpr ==
    ASSUME NEW st \in Struct, NEW c, CallFits(st, c)
    PROVE  Emitted(st, c, FALSE) = EvalExpr(st, c)
<1>1. st.l \in Atom /\ st.r \in Atom
  BY DEF Struct
<1> QED BY <1>1, AtomIsEvalAtom DEF Emitted, EvalExpr, EmittedJoin

-----------------------------------------------------------------------------
\* Values of one type, or a literal and a number, compare as in Rust.
LEMMA ApplyIsHolds ==
    ASSUME NEW a \in Value, NEW b \in Value, NEW cmp \in Cmps,
           a.t = b.t \/ (Numeric(a) /\ Numeric(b)),
           NEW deser \in BOOLEAN, NEW ok \in Apply(cmp, a, b, deser)
    PROVE  ok = Holds(cmp, a.n, b.n)
<1> USE TopAssumption
<1>1. a.n \in Int /\ b.n \in Int
  BY DEF Value, Unsigned, Signed
<1>2. Satisfies(cmp, Compare(a.n, b.n)) = Holds(cmp, a.n, b.n)
  BY <1>1, SMTT(20) DEF Satisfies, Compare, Holds, Cmps
<1>3. CASE Numeric(a) \/ deser
  <2>1. EmittedOrdering(a, b, deser) = {Compare(a.n, b.n)}
    <3>1. CASE a.t = b.t
      BY <1>3, <3>1 DEF EmittedOrdering
    <3>2. CASE a.t # b.t
      <4>1. \/ /\ a.t = "nat" /\ a.n \in 0..2 * Top + 1
               /\ b.t = "int" /\ b.n \in -(Top + 1)..Top
            \/ /\ a.t = "int" /\ a.n \in -(Top + 1)..Top
               /\ b.t = "nat" /\ b.n \in 0..2 * Top + 1
        BY <3>2 DEF Value, Numeric, Unsigned, Signed
      <4> QED BY <4>1, SMTT(20) DEF EmittedOrdering, Compare, AsSigned
    <3> QED BY <3>1, <3>2
  <2>2. Apply(cmp, a, b, deser) = {Satisfies(cmp, Compare(a.n, b.n))}
    BY <2>1 DEF Apply
  <2> QED BY <2>2, <1>2
<1>4. CASE ~(Numeric(a) \/ deser)
  <2>1. a.t = b.t /\ ~Numeric(a) /\ ~deser
    BY <1>4
  <2>2. EmittedOrdering(a, b, deser) = {}
    BY <2>1 DEF EmittedOrdering, Numeric
  <2>3. cmp \in {"eq", "ne"} /\ ok = ((a = b) <=> (cmp = "eq"))
    BY <2>2 DEF Apply, Cmps, Orderings
  <2>4. (a = b) <=> (a.n = b.n)
    BY <2>1 DEF Value
  <2> QED BY <2>3, <2>4 DEF Holds
<1> QED BY <1>3, <1>4

\* What is read has been, or can be, decoded.
Decoded(st, c, o) ==
    /\ o.kind = "field" => Decodes(st.fields[o.n], c.data[o.n])
    /\ o.kind = "arg" => Decodes(st.args[o.n], c.args[o.n])

\* Resolving an alias leaves a type there is no more to resolve in.
LEMMA MeansIsIdempotent ==
    ASSUME NEW t \in Types
    PROVE  Means(t) \in Types /\ Means(Means(t)) = Means(t)
BY SMTT(20) DEF Means, Types, Mapped

LEMMA OperandIsRust ==
    ASSUME NEW st \in Struct, NEW c, CallFits(st, c), NEW o \in Operand,
           Decoded(st, c, o), NEW deser \in BOOLEAN,
           NEW v \in OperandValue(st, c, o, deser)
    PROVE  /\ v \in Value
           /\ v.t = RustType(st, o)
           /\ v.n = RustNumber(c, o)
<1>1. ASSUME NEW t \in Types, NEW raw, Fits(t, raw), Decodes(t, raw),
             NEW w \in ReadVal(t, raw)
      PROVE  w \in Value /\ w.t = Means(t) /\ w.n = raw
  BY <1>1, SMTT(20) DEF Fits, Decodes, ReadVal, Value, Types, Mapped, Means,
                        Nat_, Int_, Bool_, Key_
<1>2. CASE o.kind = "field"
  <2> DEFINE t == st.fields[o.n]
             raw == c.data[o.n]
  <2>1. t \in Types /\ Fits(t, raw) /\ Decodes(t, raw)
    BY <1>2 DEF Struct, CallFits, Operand, Decoded
  <2>2. RustType(st, o) = Means(t) /\ RustNumber(c, o) = raw
    BY <1>2 DEF RustType, RustNumber
  <2>3. v \in ReadVal(t, raw) \/ v \in ReadVal(Means(t), raw)
    BY <1>2 DEF OperandValue, FieldValue, EvalOperand, Located
  <2>4. Means(t) \in Types /\ Means(Means(t)) = Means(t)
    BY <2>1, MeansIsIdempotent
  <2> HIDE DEF t, raw
  <2>7. Fits(Means(t), raw)
    BY <2>1, <2>4 DEF Fits
  <2>8. Decodes(Means(t), raw)
    BY <2>1 DEF Decodes, Means
  <2>5. CASE v \in ReadVal(t, raw)
    BY <1>1, <2>1, <2>2, <2>5
  <2>6. CASE v \in ReadVal(Means(t), raw)
    BY <1>1, <2>2, <2>4, <2>6, <2>7, <2>8
  <2> QED BY <2>3, <2>5, <2>6
<1>3. CASE o.kind = "arg"
  <2>1. /\ st.args[o.n] \in Types /\ Fits(st.args[o.n], c.args[o.n])
        /\ Decodes(st.args[o.n], c.args[o.n])
    BY <1>3 DEF Struct, CallFits, Operand, Decoded
  <2>2. v \in ReadVal(st.args[o.n], c.args[o.n])
    BY <1>3 DEF OperandValue, EvalOperand, Located
  <2> QED BY <1>1, <1>3, <2>1, <2>2 DEF RustType, RustNumber
<1>4. CASE o.kind \notin {"field", "arg"}
  <2>1. v \in EvalOperand(st, c, o)
    BY <1>4 DEF OperandValue
  <2>2. v \in Value
    BY <2>1, OperandIsValue
  <2> QED BY <1>4, <2>1, <2>2, SMTT(20)
          DEF EvalOperand, Operand, RustType, RustNumber, Nat_, Int_, Bool_, Key_
<1> QED BY <1>2, <1>3, <1>4

\* A truth value an atom yields is that of the Rust expression.
LEMMA AtomIsRust ==
    ASSUME NEW st \in Struct, NEW c, CallFits(st, c), NEW a \in Atom,
           AtomTyped(st, a), \A o \in OperandsOf(a) : Decoded(st, c, o),
           NEW deser \in BOOLEAN, NEW b \in EmittedAtom(st, c, a, deser)
    PROVE  b = RustAtom(c, a)
<1> DEFINE l == OperandValue(st, c, a.l, deser)
           r == OperandValue(st, c, a.r, deser)
           lt == RustType(st, a.l)
           rt == RustType(st, a.r)
           ln == RustNumber(c, a.l)
           rn == RustNumber(c, a.r)
<1>1. a.l \in Operand /\ a.r \in Operand /\ a.neg \in BOOLEAN
  BY DEF Atom
<1>2. \A v \in l : v \in Value /\ v.t = lt /\ v.n = ln
  BY <1>1, OperandIsRust DEF OperandsOf
<1>3. CASE a.cmp = "truthy"
  <2>1. b \in Negated(a.neg, Truth(l))
    BY <1>3 DEF EmittedAtom
  <2>2. PICK v \in l : b = ((v.n = 1) # a.neg)
    BY <2>1 DEF Negated, Truth
  <2>3. RustAtom(c, a) = ((ln = 1) # a.neg)
    BY <1>3 DEF RustAtom
  <2> QED BY <2>2, <2>3, <1>2
<1>4. CASE a.cmp # "truthy"
  <2>1. \A v \in r : v \in Value /\ v.t = rt /\ v.n = rn
    BY <1>1, <1>4, OperandIsRust DEF OperandsOf
  <2>2. a.cmp \in Cmps
    BY <1>4 DEF Atom
  <2>3. PICK x \in l, y \in r, ok \in BOOLEAN :
          ok \in Apply(a.cmp, x, y, deser) /\ b = (ok # a.neg)
    <3>1. b \in Negated(a.neg, {ok \in BOOLEAN : \E x \in l, y \in r :
                                  ok \in Apply(a.cmp, x, y, deser)})
      BY <1>4 DEF EmittedAtom
    <3> QED BY <3>1 DEF Negated
  <2>4. lt = rt \/ (a.l.kind = "nat" /\ rt = "int")
                \/ (a.r.kind = "nat" /\ lt = "int")
    BY <1>4 DEF AtomTyped
  <2>5. (a.l.kind = "nat" => lt = "nat") /\ (a.r.kind = "nat" => rt = "nat")
    BY DEF RustType
  <2>6. x.t = y.t \/ (Numeric(x) /\ Numeric(y))
    BY <1>2, <2>1, <2>4, <2>5 DEF Numeric
  <2>7. ok = Holds(a.cmp, x.n, y.n)
    BY <1>2, <2>1, <2>2, <2>3, <2>6, ApplyIsHolds
  <2>8. RustAtom(c, a) = (Holds(a.cmp, ln, rn) # a.neg)
    BY <1>4 DEF RustAtom
  <2> QED BY <2>3, <2>7, <2>8, <1>2, <2>1
<1> QED BY <1>3, <1>4

\* A truth value the generated code yields, in validate or in the hatch, is
\* that of the constraint as Rust.
THEOREM EmittedIsRust ==
    ASSUME NEW st \in Struct, NEW c, CallFits(st, c), RustTyped(st),
           \A o \in Operands(st) : Decoded(st, c, o),
           NEW deser \in BOOLEAN, NEW b \in Emitted(st, c, deser)
    PROVE  b = RustValue(st, c)
<1> DEFINE l == EmittedAtom(st, c, st.l, deser)
           r == EmittedAtom(st, c, st.r, deser)
<1>1. st.l \in Atom /\ st.r \in Atom /\ st.op \in {"only", "and", "or"}
  BY DEF Struct
<1>2. \A a \in Atoms(st) : /\ AtomTyped(st, a)
                           /\ \A o \in OperandsOf(a) : Decoded(st, c, o)
  BY DEF RustTyped, Operands
<1>3. \A x \in l : x = RustAtom(c, st.l)
  BY <1>1, <1>2, AtomIsRust DEF Atoms
<1>4. b \in Combine(st.op, l, r)
  BY DEF Emitted, EmittedJoin
<1> HIDE DEF l, r
<1>5. CASE st.op = "only"
  BY <1>3, <1>4, <1>5 DEF Combine, RustValue
<1>6. CASE st.op \in {"and", "or"}
  <2>1. \A y \in r : y = RustAtom(c, st.r)
    BY <1>1, <1>2, <1>6, AtomIsRust DEF Atoms, r
  <2>2. PICK x \in l, y \in r :
          b = IF st.op = "and" THEN x /\ y ELSE x \/ y
    BY <1>4, <1>6 DEF Combine
  <2>3. x = RustAtom(c, st.l) /\ y = RustAtom(c, st.r)
    BY <1>3, <2>1
  <2>4. CASE st.op = "and"
    <3>1. RustValue(st, c) = (RustAtom(c, st.l) /\ RustAtom(c, st.r))
      BY <2>4 DEF RustValue
    <3>2. b = (x /\ y)
      BY <2>2, <2>4
    <3> QED BY <2>3, <3>1, <3>2
  <2>5. CASE st.op = "or"
    <3>1. RustValue(st, c) = (RustAtom(c, st.l) \/ RustAtom(c, st.r))
      BY <2>5 DEF RustValue
    <3>2. b = (x \/ y)
      BY <2>2, <2>5
    <3> QED BY <2>3, <3>1, <3>2
  <2> QED BY <1>6, <2>4, <2>5
<1> QED BY <1>1, <1>5, <1>6

-----------------------------------------------------------------------------
\* The other direction: when the generated code yields a value at all.

\* A comparison is undefined only for orderings of what has no order.
LEMMA ApplyYields ==
    ASSUME NEW a \in Value, NEW b \in Value, NEW cmp \in Cmps,
           NEW deser \in BOOLEAN,
           cmp \in Orderings => \/ Numeric(a) /\ Numeric(b)
                                \/ deser /\ a.t = b.t
    PROVE  Apply(cmp, a, b, deser) # {}
<1>1. CASE cmp \in Orderings
  <2>1. EmittedOrdering(a, b, deser) # {}
    BY <1>1 DEF EmittedOrdering, Numeric
  <2> QED BY <2>1 DEF Apply
<1>2. CASE cmp \notin Orderings
  <2>1. CASE EmittedOrdering(a, b, deser) = {}
    BY <1>2, <2>1 DEF Apply
  <2>2. CASE EmittedOrdering(a, b, deser) # {}
    BY <2>2 DEF Apply
  <2> QED BY <2>1, <2>2
<1> QED BY <1>1, <1>2

\* An atom whose operands are read, and can be ordered if it orders them, has a
\* truth value.
LEMMA AtomYields ==
    ASSUME NEW st \in Struct, NEW c, CallFits(st, c), NEW a \in Atom,
           NEW deser \in BOOLEAN, AtomTyped(st, a),
           \A o \in OperandsOf(a) : /\ Decoded(st, c, o)
                                    /\ OperandValue(st, c, o, deser) # {},
           a.cmp \in Orderings =>
             \A o \in OperandsOf(a) : deser \/ RustType(st, o) \in {"nat", "int"}
    PROVE  EmittedAtom(st, c, a, deser) # {}
<1> DEFINE l == OperandValue(st, c, a.l, deser)
           r == OperandValue(st, c, a.r, deser)
<1>1. a.l \in Operand /\ a.r \in Operand /\ a.neg \in BOOLEAN
  BY DEF Atom
<1>2. PICK x \in l : x \in Value /\ x.t = RustType(st, a.l)
  BY <1>1, OperandIsRust DEF OperandsOf
<1>3. CASE a.cmp = "truthy"
  <2>1. x.t = "bool"
    BY <1>2, <1>3 DEF AtomTyped
  <2>2. (x.n = 1) \in Truth(l)
    BY <1>2, <2>1 DEF Truth
  <2>3. EmittedAtom(st, c, a, deser) = Negated(a.neg, Truth(l))
    BY <1>3 DEF EmittedAtom
  <2> HIDE DEF l
  <2> QED BY <2>2, <2>3 DEF Negated
<1>4. CASE a.cmp # "truthy"
  <2>1. PICK y \in r : y \in Value /\ y.t = RustType(st, a.r)
    BY <1>1, <1>4, OperandIsRust DEF OperandsOf
  <2>2. a.cmp \in Cmps
    BY <1>4 DEF Atom
  <2>3. a.cmp \in Orderings => \/ Numeric(x) /\ Numeric(y)
                               \/ deser /\ x.t = y.t
    <3>1. \/ x.t = y.t
          \/ a.l.kind = "nat" /\ y.t = "int"
          \/ a.r.kind = "nat" /\ x.t = "int"
      BY <1>2, <1>4, <2>1 DEF AtomTyped
    <3>2. /\ a.l.kind = "nat" => x.t = "nat"
          /\ a.r.kind = "nat" => y.t = "nat"
      BY <1>2, <2>1 DEF RustType
    <3>3. x.t = y.t \/ (Numeric(x) /\ Numeric(y))
      BY <3>1, <3>2 DEF Numeric
    <3>4. a.cmp \in Orderings =>
            deser \/ (x.t \in {"nat", "int"} /\ y.t \in {"nat", "int"})
      BY <1>2, <1>4, <2>1 DEF OperandsOf
    <3> QED BY <3>3, <3>4 DEF Numeric
  <2>4. PICK ok : ok \in Apply(a.cmp, x, y, deser)
    BY <1>2, <2>1, <2>2, <2>3, ApplyYields
  <2>5. ok \in BOOLEAN
    BY <2>2, <2>4 DEF Apply, Satisfies, Cmps
  <2>6. EmittedAtom(st, c, a, deser)
          = Negated(a.neg, {b \in BOOLEAN : \E v \in l, w \in r :
                                  b \in Apply(a.cmp, v, w, deser)})
    BY <1>4 DEF EmittedAtom
  <2> HIDE DEF l, r
  <2> QED BY <1>2, <2>1, <2>4, <2>5, <2>6 DEF Negated
<1> QED BY <1>3, <1>4

\* So a well-typed constraint that is true as Rust passes wherever all it
\* mentions can be read and ordered.
LEMMA TrueRustPasses ==
    ASSUME NEW st \in Struct, NEW c, CallFits(st, c), RustTyped(st),
           RustValue(st, c), NEW deser \in BOOLEAN,
           \A o \in Operands(st) : /\ Decoded(st, c, o)
                                   /\ OperandValue(st, c, o, deser) # {},
           deser \/ \A o \in OrderingOperands(st) :
                      RustType(st, o) \in {"nat", "int"}
    PROVE  Passes(Emitted(st, c, deser))
<1> DEFINE l == EmittedAtom(st, c, st.l, deser)
           r == EmittedAtom(st, c, st.r, deser)
<1>1. st.l \in Atom /\ st.r \in Atom /\ st.op \in {"only", "and", "or"}
  BY DEF Struct
<1>2. ASSUME NEW a \in Atoms(st) PROVE EmittedAtom(st, c, a, deser) # {}
  <2>1. a \in Atom /\ AtomTyped(st, a)
    BY <1>1 DEF Atoms, RustTyped
  <2>2. \A o \in OperandsOf(a) : /\ Decoded(st, c, o)
                                 /\ OperandValue(st, c, o, deser) # {}
    BY DEF Operands
  <2>3. a.cmp \in Orderings =>
          \A o \in OperandsOf(a) : deser \/ RustType(st, o) \in {"nat", "int"}
    BY DEF OrderingOperands
  <2> QED BY <2>1, <2>2, <2>3, AtomYields
<1>3. Emitted(st, c, deser) # {}
  <2>1. Emitted(st, c, deser) = Combine(st.op, l, r)
    BY DEF Emitted, EmittedJoin
  <2>2. l # {}
    BY <1>2 DEF Atoms
  <2>3. st.op # "only" => r # {}
    BY <1>2 DEF Atoms
  <2> HIDE DEF l, r
  <2>4. CASE st.op = "only"
    BY <2>1, <2>2, <2>4 DEF Combine
  <2>5. CASE st.op # "only"
    <3>1. PICK x \in l, y \in r : TRUE
      BY <2>2, <2>3, <2>5
    <3> DEFINE b == IF st.op = "and" THEN x /\ y ELSE x \/ y
    <3>2. b \in BOOLEAN
      OBVIOUS
    <3>3. b \in Combine(st.op, l, r)
      BY <2>5, <3>1, <3>2 DEF Combine
    <3> QED BY <2>1, <3>3
  <2> QED BY <2>4, <2>5
<1>4. \A b \in Emitted(st, c, deser) : b = RustValue(st, c)
  BY EmittedIsRust
<1>5. RustValue(st, c) = TRUE
  <2>1. RustValue(st, c) \in BOOLEAN
    BY <1>1 DEF RustValue, RustAtom
  <2> QED BY <2>1
<1> QED BY <1>3, <1>4, <1>5 DEF Passes

-----------------------------------------------------------------------------
\* What a call supplies fits the types of what reads it.
LEMMA CallsFit ==
    ASSUME NEW st \in Struct, NEW c \in Calls(st)
    PROVE  CallFits(st, c)
<1>1. \A n \in 1..2 : st.fields[n] \in Types /\ st.args[n] \in Types
  BY DEF Struct
<1>2. ASSUME NEW t \in Types, NEW x \in Raw(t) \cup {0}
      PROVE  Fits(t, x)
  <2>1. Means(t) = "bool" <=> t = "bool"
    BY DEF Means
  <2>2. 0 \in Unsigned /\ 0 \in Signed
    BY TopAssumption, SMT DEF Unsigned, Signed
  <2> QED BY <2>1, <2>2 DEF Raw, Fits
<1>3. \A n \in 1..2 : /\ Field(st, n) \subseteq Raw(st.fields[n]) \cup {0}
                      /\ Arg(st, n) \subseteq Raw(st.args[n]) \cup {0}
                      /\ Key(st, n) \subseteq 0..1
  BY DEF Field, Arg, Key, IfRead
<1>4. /\ \A n \in 1..2 : /\ c.data[n] \in Field(st, n)
                         /\ c.args[n] \in Arg(st, n)
                         /\ c.keys[n] \in Key(st, n)
      /\ c.len \in 0..2 /\ c.arglen \in 0..2
      /\ c.lamports \in IfRead(st, "lamports", 0, 0..1)
      /\ c.signer \in IfRead(st, "signer", 0, 0..1)
  BY DEF Calls
<1>5. c.lamports \in 0..1 /\ c.signer \in 0..1
  BY <1>4 DEF IfRead
<1> QED BY <1>1, <1>2, <1>3, <1>4, <1>5 DEF CallFits

LEMMA NoCallFits ==
    ASSUME NEW st \in Struct
    PROVE  CallFits(st, NoCall)
<1>1. 0 \in Unsigned /\ 0 \in Signed
  BY TopAssumption, SMT DEF Unsigned, Signed
<1> QED BY <1>1 DEF CallFits, Fits, NoCall

-----------------------------------------------------------------------------
\* The inductive invariant: what a call that has come so far has passed, and
\* what one that was refused has failed.
Passed ==
    /\ phase \in {"deserialised", "accepted"} => Deserialises(s, call)
    /\ phase = "accepted" => (Hatched(s) => HatchPasses(s, call))

Failed ==
    /\ phase = "broken" => ~Compiles(s)
    /\ phase = "borsh_failed" => ~Deserialises(s, call)
    /\ phase = "violated" => Hatched(s) /\ ~HatchPasses(s, call)

IInv == TypeOK /\ ValidateIsContract /\ Passed /\ Failed

\* In a typed state validate evaluates the contract.
LEMMA ValidatesContract ==
    ASSUME TypeOK
    PROVE  (Validates(s) => Passes(Emitted(s, call, FALSE)))
             <=> (InSpec(s) => Passes(EvalExpr(s, call)))
<1>1. Emitted(s, call, FALSE) = EvalExpr(s, call)
  BY EmittedIsEvalExpr DEF TypeOK, CallFits
<1> QED BY <1>1 DEF Validates, InSpec

LEMMA Inductive == IInv /\ [Next]_vars => IInv'
<1> SUFFICES ASSUME IInv, [Next]_vars PROVE IInv'
  OBVIOUS
<1> USE DEF IInv
<1>1. TypeOK'
  <2>1. TypeOK <=> s \in Struct /\ phase \in Phases /\ CallFits(s, call)
    BY DEF TypeOK, CallFits
  <2>2. s' \in Struct /\ phase' \in Phases /\ CallFits(s', call') => TypeOK'
    BY DEF TypeOK, CallFits
  <2>3. CASE Build
    BY <2>1, <2>2, <2>3 DEF Build, Phases
  <2>4. CASE Call
    BY <2>1, <2>2, <2>4, CallsFit DEF Call, Phases
  <2>5. CASE Validate
    BY <2>1, <2>2, <2>5 DEF Validate, Phases, Rejections
  <2>6. CASE Deserialise
    BY <2>1, <2>2, <2>6 DEF Deserialise, Phases, Rejections
  <2>7. CASE Hatch
    BY <2>1, <2>2, <2>7 DEF Hatch, Phases, Rejections
  <2>8. CASE Return
    BY <2>1, <2>2, <2>8, NoCallFits DEF Return, Phases
  <2>9. CASE UNCHANGED vars
    BY <2>1, <2>2, <2>9 DEF vars
  <2> QED BY <2>3, <2>4, <2>5, <2>6, <2>7, <2>8, <2>9 DEF Next
<1>2. ValidateIsContract'
  <2> DEFINE contract == InSpec(s) => Passes(EvalExpr(s, call))
  <2>1. CASE Validate
    <3>1. phase' = IF contract THEN "validated" ELSE "rejected"
      BY <2>1, ValidatesContract DEF Validate
    <3>2. s' = s /\ call' = call
      BY <2>1 DEF Validate
    <3> QED BY <3>1, <3>2 DEF ValidateIsContract
  <2>2. CASE Build \/ Call \/ Return
    BY <2>2 DEF Build, Call, Return, ValidateIsContract
  <2>3. CASE Deserialise \/ Hatch \/ UNCHANGED vars
    <3>1. s' = s /\ call' = call
      BY <2>3 DEF Deserialise, Hatch, vars
    <3>2. phase \in {"validated", "deserialised"} \/ phase' = phase
      BY <2>3 DEF Deserialise, Hatch, vars
    <3>3. phase' # "rejected" \/ phase' = phase
      BY <2>3 DEF Deserialise, Hatch, vars
    <3>4. CASE phase' = phase
      BY <3>1, <3>4 DEF ValidateIsContract
    <3>5. CASE phase' # phase
      <4>1. contract
        BY <3>2, <3>5 DEF ValidateIsContract
      <4> QED BY <3>1, <3>3, <3>5, <4>1 DEF ValidateIsContract
    <3> QED BY <3>4, <3>5
  <2> QED BY <2>1, <2>2, <2>3 DEF Next
<1>3. Passed'
  <2>1. CASE Build \/ Call \/ Validate \/ Return
    BY <2>1 DEF Build, Call, Validate, Return, Passed
  <2>2. CASE Deserialise
    BY <2>2 DEF Deserialise, Passed
  <2>3. CASE Hatch
    BY <2>3 DEF Hatch, Passed
  <2>4. CASE UNCHANGED vars
    BY <2>4 DEF vars, Passed
  <2> QED BY <2>1, <2>2, <2>3, <2>4 DEF Next
<1>4. Failed'
  <2>1. CASE Build
    BY <2>1 DEF Build, Failed
  <2>2. CASE Call \/ Validate \/ Return
    BY <2>2 DEF Call, Validate, Return, Failed
  <2>3. CASE Deserialise
    BY <2>3 DEF Deserialise, Failed
  <2>4. CASE Hatch
    BY <2>4 DEF Hatch, Failed
  <2>5. CASE UNCHANGED vars
    BY <2>5 DEF vars, Failed
  <2> QED BY <2>1, <2>2, <2>3, <2>4, <2>5 DEF Next
<1> QED BY <1>1, <1>2, <1>3, <1>4

\* The invariant holds in every reachable state.
THEOREM Invariance == Spec => []IInv
<1>1. Init => IInv
  <2> SUFFICES ASSUME Init PROVE IInv
    OBVIOUS
  <2>1. s \in Struct /\ CallFits(s, call) /\ phase = "written"
    BY StructsAssumption, NoCallFits DEF Init
  <2>2. TypeOK
    BY <2>1 DEF TypeOK, CallFits, Phases
  <2> QED BY <2>1, <2>2 DEF IInv, ValidateIsContract, Passed, Failed
<1> QED BY <1>1, Inductive, PTL DEF Spec

\* The variables keep their types: a call never supplies a value outside the
\* range of the type that reads it.
THEOREM TypeCorrect == Spec => []TypeOK
<1>1. IInv => TypeOK
  BY DEF IInv
<1> QED BY <1>1, Invariance, PTL

\* The generated validate rejects exactly what the Lean contract of the
\* structure refuses, for every width of integers and all constraints.
THEOREM ValidateDecidesContract == Spec => []ValidateIsContract
<1>1. IInv => ValidateIsContract
  BY DEF IInv
<1> QED BY <1>1, Invariance, PTL

\* What is accepted, and not listed as unproven, the contract has and finds
\* true: the three uses of the locatability condition leave no gap.
THEOREM UnlistedAccountsAreProven == Spec => []UnlistedIsProven
<1>1. IInv => UnlistedIsProven
  BY DEF IInv, ValidateIsContract, UnlistedIsProven, Listed, InSpec
<1> QED BY <1>1, Invariance, PTL

\* Wherever the constraint ran, nothing is accepted that the source refuses
\* as Rust.
THEOREM ConstraintsAreEnforced == Spec => []EnforcedSomewhere
<1>1. IInv => EnforcedSomewhere
  <2> SUFFICES ASSUME IInv, phase = "accepted", RustTyped(s),
                      ArgsDecode(s, call)
               PROVE  RustValue(s, call)
    BY DEF EnforcedSomewhere
  <2>1. s \in Struct /\ CallFits(s, call)
    BY DEF IInv, TypeOK, CallFits
  <2>2. Deserialises(s, call)
    BY DEF IInv, Passed
  <2>3. ASSUME NEW o \in Operands(s) PROVE Decoded(s, call, o)
    <3>1. o \in Operand
      BY <2>1 DEF Operands, OperandsOf, Atoms, Struct, Atom
    <3>2. o.kind \in {"field", "arg"} => o.n \in 1..2
      BY <3>1 DEF Operand
    <3>3. CASE o.kind = "field"
      BY <2>2, <3>2, <3>3 DEF Deserialises, Decoded
    <3>4. CASE o.kind = "arg"
      <4>1. Reads(s, "arg", o.n)
        BY <3>4 DEF Reads
      <4> QED BY <3>2, <3>4, <4>1 DEF ArgsDecode, Decoded
    <3> QED BY <3>3, <3>4 DEF Decoded
  <2>4. ASSUME NEW deser \in BOOLEAN, Passes(Emitted(s, call, deser))
        PROVE  RustValue(s, call)
    BY <2>1, <2>3, <2>4, EmittedIsRust DEF Passes
  <2>5. CASE Hatched(s)
    BY <2>4, <2>5 DEF IInv, Passed, HatchPasses
  <2>6. CASE ~Hatched(s)
    <3>1. Passes(EvalExpr(s, call))
      BY <2>6 DEF IInv, ValidateIsContract, Hatched, Listed, InSpec
    <3> QED BY <2>1, <2>4, <3>1, EmittedIsEvalExpr
  <2> QED BY <2>5, <2>6
<1> QED BY <1>1, Invariance, PTL
-----------------------------------------------------------------------------
\* What Anchor has decoded can be decoded here.
LEMMA AnchorDecodes ==
    ASSUME TypeOK, Deserialises(s, call), ArgsDecode(s, call)
    PROVE  \A o \in Operands(s) :
              /\ o \in Operand /\ Decoded(s, call, o)
              /\ o.kind = "field" => o.n \in 1..2 /\ call.len = 2
              /\ o.kind = "arg" => o.n \in 1..2 /\ o.n <= call.arglen
<1> SUFFICES ASSUME NEW o \in Operands(s)
             PROVE  /\ o \in Operand /\ Decoded(s, call, o)
                    /\ o.kind = "field" => o.n \in 1..2 /\ call.len = 2
                    /\ o.kind = "arg" => o.n \in 1..2 /\ o.n <= call.arglen
  OBVIOUS
<1>1. o \in Operand
  BY DEF TypeOK, Operands, OperandsOf, Atoms, Struct, Atom
<1>2. o.kind \in {"field", "arg"} => o.n \in 1..2
  BY <1>1 DEF Operand
<1>3. o.kind = "arg" => Reads(s, "arg", o.n)
  BY DEF Reads
<1>4. o.kind = "arg" => /\ call.arglen >= o.n
                        /\ Decodes(s.args[o.n], call.args[o.n])
  BY <1>2, <1>3 DEF ArgsDecode
<1>5. call.arglen \in 0..2
  BY DEF TypeOK
<1> QED BY <1>1, <1>2, <1>4, <1>5 DEF Deserialises, Decoded

\* A type of the language that is a scalar reads as one value.
LEMMA ScalarIsRead ==
    ASSUME NEW t \in Types, IsReadableScalar(t), NEW raw
    PROVE  ReadVal(t, raw) # {}
BY DEF IsReadableScalar, ReadVal

\* In the proved core: what validate takes up it can evaluate.
LEMMA CorePasses ==
    ASSUME TypeOK, RustTyped(s), Ordinary, AnchorAccepts, Validates(s)
    PROVE  Passes(Emitted(s, call, FALSE))
<1>1. s \in Struct /\ CallFits(s, call)
  BY DEF TypeOK, CallFits
<1>2. \A n \in 1..2 : s.fields[n] \in Types /\ s.args[n] \in Types
  BY <1>1 DEF Struct
<1>3. \A a \in Atoms(s) : \A o \in OperandsOf(a) : o \in Operands(s)
  BY DEF Operands
<1>4. ASSUME NEW a \in Atoms(s), NEW o \in OperandsOf(a)
      PROVE  OperandValue(s, call, o, FALSE) # {}
  <2>1. /\ o \in Operands(s) /\ o \in Operand
        /\ o.kind = "field" => o.n \in 1..2 /\ call.len = 2
        /\ o.kind = "arg" => o.n \in 1..2 /\ o.n <= call.arglen
    BY <1>3, AnchorDecodes DEF AnchorAccepts
  <2>2. OperandValue(s, call, o, FALSE) = EvalOperand(s, call, o)
    BY DEF OperandValue
  <2>3. CASE o.kind = "field"
    <3>1. InDescriptor(s.fields, o.n) /\ IsReadableScalar(s.fields[o.n])
      BY <2>1, <2>3 DEF Validates, Conditional, Locatable, FieldOperands
    <3>2. Located(s.fields, call.data, call.len, o.n)
            = ReadVal(s.fields[o.n], call.data[o.n])
      BY <2>1, <2>3, <3>1 DEF Located
    <3> QED BY <1>2, <2>1, <2>2, <2>3, <3>1, <3>2, ScalarIsRead DEF EvalOperand
  <2>4. CASE o.kind = "arg"
    <3>1. InDescriptor(s.args, o.n)
      BY <2>1, <2>4 DEF Validates, InSublanguage
    <3>2. s.args[o.n] \in Mapped
      BY <2>1, <2>4, <3>1 DEF InDescriptor
    <3>3. IsReadableScalar(s.args[o.n])
      <4>1. SUFFICES ASSUME s.args[o.n] = "agg" PROVE FALSE
        BY <3>2 DEF IsReadableScalar, Mapped
      <4>2. RustType(s, o) = "agg"
        BY <2>4, <4>1 DEF RustType, Means
      <4>3. ~Scalar(o)
        BY <4>2 DEF Scalar
      <4>4. PICK p \in OperandsOf(a) : Scalar(p) \/ p.kind # "arg"
        BY DEF Ordinary
      <4>5. AtomTyped(s, a)
        BY DEF RustTyped
      <4>6. /\ a.cmp # "truthy"
            /\ RustType(s, p) = "agg"
        <5>1. a.l.kind = "nat" => RustType(s, a.l) = "nat"
          BY DEF RustType
        <5>2. a.r.kind = "nat" => RustType(s, a.r) = "nat"
          BY DEF RustType
        <5> QED BY <4>2, <4>5, <5>1, <5>2 DEF AtomTyped, OperandsOf
      <4>7. p \in Operands(s) /\ p \in Operand /\ p.kind # "arg"
        BY <1>3, <4>4, <4>6, AnchorDecodes DEF AnchorAccepts, Scalar
      <4>8. p.kind = "field"
        BY <4>6, <4>7 DEF RustType, Operand
      <4>9. IsReadableScalar(s.fields[p.n])
        BY <4>7, <4>8 DEF Validates, Conditional, Locatable, FieldOperands
      <4> QED BY <4>6, <4>8, <4>9 DEF RustType, Means, IsReadableScalar
    <3>4. Located(s.args, call.args, call.arglen, o.n)
            = ReadVal(s.args[o.n], call.args[o.n])
      BY <2>1, <2>4, <3>1 DEF Located
    <3> QED BY <1>2, <2>1, <2>2, <2>4, <3>3, <3>4, ScalarIsRead DEF EvalOperand
  <2>5. CASE o.kind \notin {"field", "arg"}
    <3>1. o.kind # "call"
      BY <2>1 DEF Validates, InSublanguage
    <3> QED BY <2>1, <2>2, <2>5, <3>1 DEF EvalOperand, Operand
  <2> QED BY <2>3, <2>4, <2>5
<1>5. ASSUME NEW o \in OrderingOperands(s)
      PROVE  RustType(s, o) \in {"nat", "int"}
  <2>1. o \in Operands(s) /\ o \in Operand
    BY AnchorDecodes DEF AnchorAccepts, OrderingOperands, Operands
  <2>2. ~NeverOrderable(s, o) /\ o.kind # "call"
    BY <2>1, <1>5 DEF Validates, Conditional, Locatable, InSublanguage
  <2>3. o.kind = "field" => s.fields[o.n] \in {"nat", "int"}
    BY <2>1, <1>5 DEF Validates, Conditional, Locatable, FieldOperands,
                      IsOrderableScalar
  <2>4. o.kind = "arg" => s.args[o.n] \in {"nat", "int"}
    BY <2>2 DEF NeverOrderable, IsOrderableScalar
  <2>5. o.kind \in {"field", "arg", "nat", "int", "lamports"}
    BY <2>1, <2>2 DEF NeverOrderable, Operand
  <2> QED BY <2>3, <2>4, <2>5 DEF RustType, Means
<1>6. \A o \in Operands(s) : /\ Decoded(s, call, o)
                             /\ OperandValue(s, call, o, FALSE) # {}
  <2> SUFFICES ASSUME NEW o \in Operands(s)
               PROVE  /\ Decoded(s, call, o)
                      /\ OperandValue(s, call, o, FALSE) # {}
    OBVIOUS
  <2>1. PICK a \in Atoms(s) : o \in OperandsOf(a)
    BY DEF Operands
  <2> QED BY <2>1, <1>4, AnchorDecodes DEF AnchorAccepts
<1> QED BY <1>1, <1>5, <1>6, TrueRustPasses DEF AnchorAccepts

\* In the hatch: the value form is only compiled for what has values.
LEMMA HatchTakes ==
    ASSUME TypeOK, RustTyped(s), Ordinary, AnchorAccepts
    PROVE  HatchPasses(s, call)
<1>1. CASE ~ValueForm(s)
  BY <1>1 DEF HatchPasses, AnchorAccepts
<1>2. CASE ValueForm(s)
  <2>1. s \in Struct /\ CallFits(s, call)
    BY DEF TypeOK, CallFits
  <2>2. \A n \in 1..2 : s.fields[n] \in Types /\ s.args[n] \in Types
    BY <2>1 DEF Struct
  <2>3. ASSUME NEW o \in Operands(s)
        PROVE  OperandValue(s, call, o, TRUE) # {}
    <3>1. /\ o \in Operand
          /\ o.kind = "field" => o.n \in 1..2 /\ call.len = 2
          /\ o.kind = "arg" => o.n \in 1..2 /\ o.n <= call.arglen
      BY AnchorDecodes DEF AnchorAccepts
    <3>2. Scalar(o)
      BY <1>2 DEF Ordinary, ValueForm
    <3>3. CASE o.kind = "field"
      <4> DEFINE t == s.fields[o.n]
      <4>1. t \in Types /\ Means(t) \in Types
        BY <2>2, <3>1, <3>3, MeansIsIdempotent
      <4>2. IsReadableScalar(Means(t))
        BY <3>2, <3>3 DEF Scalar, RustType, IsReadableScalar
      <4> HIDE DEF t
      <4>3. ReadVal(Means(t), call.data[o.n]) # {}
        BY <4>1, <4>2, ScalarIsRead
      <4> QED BY <3>3, <4>3 DEF OperandValue, FieldValue, t
    <3>4. CASE o.kind = "arg"
      <4>1. InDescriptor(s.args, o.n)
        BY <1>2, <3>4 DEF ValueForm, InSublanguage
      <4>2. s.args[o.n] \in Mapped
        BY <3>1, <3>4, <4>1 DEF InDescriptor
      <4>3. IsReadableScalar(s.args[o.n])
        BY <3>2, <3>4, <4>2 DEF Scalar, RustType, Means, Mapped, IsReadableScalar
      <4>4. ReadVal(s.args[o.n], call.args[o.n]) # {}
        BY <2>2, <3>1, <3>4, <4>3, ScalarIsRead
      <4> QED BY <3>1, <3>4, <4>1, <4>4 DEF OperandValue, EvalOperand, Located
    <3>5. CASE o.kind \notin {"field", "arg"}
      <4>1. o.kind # "call"
        BY <1>2 DEF ValueForm, InSublanguage
      <4> QED BY <3>1, <3>5, <4>1 DEF OperandValue, EvalOperand, Operand
    <3> QED BY <3>3, <3>4, <3>5
  <2>4. \A o \in Operands(s) : Decoded(s, call, o)
    BY AnchorDecodes DEF AnchorAccepts
  <2>5. Passes(Emitted(s, call, TRUE))
    BY <2>1, <2>3, <2>4, TrueRustPasses DEF AnchorAccepts
  <2> QED BY <1>2, <2>5 DEF HatchPasses
<1> QED BY <1>1, <1>2

\* The derive is a drop-in for every ordinary constraint: if Anchor compiles it
\* then so does this, and what Anchor accepts is accepted.
THEOREM OrdinaryConstraintsDropIn == Spec => []DropIn
<1>1. IInv => DropIn
  <2> SUFFICES ASSUME IInv, RustTyped(s), Ordinary
               PROVE  /\ phase # "broken"
                      /\ Returned /\ AnchorAccepts => phase = "accepted"
    BY DEF DropIn
  <2> USE DEF IInv
  <2>1. Compiles(s)
    <3> SUFFICES ASSUME ValueForm(s), NEW o \in FieldOperands(s)
                 PROVE  HasFieldValue(s.fields[o.n])
      BY DEF Compiles
    <3>1. Scalar(o) /\ o.kind = "field"
      BY DEF Ordinary, ValueForm, FieldOperands
    <3> QED BY <3>1 DEF Scalar, RustType, Means, HasFieldValue
  <2>2. ASSUME Returned, AnchorAccepts PROVE phase = "accepted"
    <3>1. phase # "borsh_failed"
      BY <2>2 DEF Failed, AnchorAccepts
    <3>2. phase # "violated"
      BY <2>2, HatchTakes DEF Failed
    <3>3. phase # "rejected"
      <4>1. Validates(s) => Passes(Emitted(s, call, FALSE))
        BY <2>2, CorePasses
      <4> QED BY <4>1, ValidatesContract DEF ValidateIsContract
    <3> QED BY <2>2, <3>1, <3>2, <3>3 DEF Returned, Rejections
  <2> QED BY <2>1, <2>2 DEF Failed
<1> QED BY <1>1, Invariance, PTL
=============================================================================
