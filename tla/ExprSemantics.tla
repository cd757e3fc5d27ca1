---------------------------- MODULE ExprSemantics ----------------------------
(***************************************************************************)
(* The three meanings of `constraint = <expr>` on an Account<'info, T>:    *)
(*   EvalExpr   what the Lean contract says it means,                      *)
(*   Emitted    what the code generated for the sublanguage computes,      *)
(*   RustValue  what the same source means as Rust, which is Anchor's.     *)
(* An Option is the set of its value: {} is None, {x} is Some(x), so that  *)
(* Lean's `do` is the set of what some values of the operands give.        *)
(*                                                                         *)
(* A structure s has the declared types of two fields of T and of two      *)
(* #[instruction(..)] arguments, and one constraint: an atom, or two       *)
(* joined by && or ||. A call c has the bytes of both, how many of the     *)
(* fields and arguments its buffers hold in full, and metadata of accounts *)
(* (two keys; lamports, which stands for data_len too; is_signer, which    *)
(* stands for is_writable and executable).                                 *)
(***************************************************************************)
EXTENDS Integers

CONSTANT Top     \* i128::MAX, the largest signed value; u128::MAX is 2*Top+1

ASSUME TopAssumption == Top \in Nat

Unsigned == 0..2 * Top + 1
Signed   == -(Top + 1)..Top

\* Declared Rust types. `agg`: a literal-length array, String, Vec or Option.
\* Not recognised by map_ty: `alias` (a type alias of the unsigned type),
\* `named_array` (a length that is not a literal), `enum` (also floats).
Mapped    == {"nat", "int", "bool", "key", "agg"}
Types     == Mapped \cup {"alias", "named_array", "enum"}
Means(t)  == CASE t = "alias" -> "nat" [] t = "named_array" -> "agg"
               [] OTHER -> t

\* Mistake: two's complement with its sign one too high.
RawOffByOne(t) ==
    CASE Means(t) = "nat" -> Unsigned [] Means(t) = "int" -> -Top..Top + 1
      [] t = "bool" -> 0..2 [] OTHER -> 0..1

\* What the bytes of a type may hold, as the number read_val decodes them to; a
\* bool byte may be neither 0 nor 1.
Raw(t) == CASE Means(t) = "nat" -> Unsigned [] Means(t) = "int" -> Signed
            [] t = "bool" -> 0..2 [] OTHER -> 0..1

IsReadableScalar(t)  == t \in {"nat", "int", "bool", "key"}
IsOrderableScalar(t) == t \in {"nat", "int"}

-----------------------------------------------------------------------------
\* The syntax of constraints.

Cmps      == {"eq", "ne", "lt", "le", "gt", "ge"}
Orderings == {"lt", "le", "gt", "ge"}
Operand   == [kind : {"field", "arg"}, n : 1..2]
               \cup [kind : {"nat"}, n : Unsigned]
               \cup [kind : {"int"}, n : Signed]
               \cup [kind : {"bool"}, n : 0..1]
               \cup [kind : {"key"}, n : 1..2]
               \cup [kind : {"lamports", "signer", "call"}, n : {0}]
Atom      == [neg : BOOLEAN, cmp : Cmps \cup {"truthy"},
              l : Operand, r : Operand]
Struct    == [fields : [1..2 -> Types], args : [1..2 -> Types],
              op : {"only", "and", "or"}, l : Atom, r : Atom]

Atoms(s)      == IF s.op = "only" THEN {s.l} ELSE {s.l, s.r}
OperandsOf(a) == IF a.cmp = "truthy" THEN {a.l} ELSE {a.l, a.r}
Operands(s)   == UNION {OperandsOf(a) : a \in Atoms(s)}

\* A descriptor stops at the first type map_ty does not recognise.
InDescriptor(types, n) == \A i \in 1..n : types[i] \in Mapped

-----------------------------------------------------------------------------
\* Values, and how they are read from bytes.

Nat_(n)  == [t |-> "nat", n |-> n]
Int_(n)  == [t |-> "int", n |-> n]
Bool_(n) == [t |-> "bool", n |-> n]
Key_(n)  == [t |-> "key", n |-> n]

ReadVal(t, raw) ==
    CASE t = "nat"  -> {Nat_(raw)}
      [] t = "int"  -> {Int_(raw)}
      [] t = "bool" -> {Bool_(IF raw # 0 THEN 1 ELSE 0)}
      [] t = "key"  -> {Key_(raw)}
      [] OTHER      -> {}

\* locate, then read_val: nothing when the bytes end before the value does.
Located(types, raws, len, n) ==
    IF InDescriptor(types, n) /\ n <= len THEN ReadVal(types[n], raws[n])
                                          ELSE {}

\* evalOperand; account metadata can always be read.
EvalOperand(s, c, o) ==
    CASE o.kind = "field"    -> Located(s.fields, c.data, c.len, o.n)
      [] o.kind = "arg"      -> Located(s.args, c.args, c.arglen, o.n)
      [] o.kind = "nat"      -> {Nat_(o.n)}
      [] o.kind = "int"      -> {Int_(o.n)}
      [] o.kind = "bool"     -> {Bool_(o.n)}
      [] o.kind = "key"      -> {Key_(c.keys[o.n])}
      [] o.kind = "lamports" -> {Nat_(c.lamports)}
      [] o.kind = "signer"   -> {Bool_(c.signer)}
      [] OTHER               -> {}

\* The operand of the code for validate, or of the code that runs on the
\* deserialised structure, where any field with a FieldValue can be had.
FieldValue(t, raw) == ReadVal(Means(t), raw)
HasFieldValue(t)   == t # "enum"

OperandValue(s, c, o, deser) ==
    IF o.kind = "field" /\ deser THEN FieldValue(s.fields[o.n], c.data[o.n])
                                 ELSE EvalOperand(s, c, o)

-----------------------------------------------------------------------------
\* Comparison.

Holds(cmp, x, y) ==
    CASE cmp = "eq" -> x = y [] cmp = "ne" -> x # y
      [] cmp = "lt" -> x < y [] cmp = "le" -> x <= y
      [] cmp = "gt" -> x > y [] OTHER      -> x >= y

Numeric(v) == v.t \in {"nat", "int"}

\* evalCmp: numbers compare as unbounded integers; other values compare for
\* equality, constructor included, and have no order.
EvalCmp(cmp, a, b) ==
    IF Numeric(a) /\ Numeric(b) THEN {Holds(cmp, a.n, b.n)}
    ELSE IF cmp \in Orderings THEN {}
    ELSE {(a = b) <=> (cmp = "eq")}

\* `n as i128`: two's complement of the same width.
AsSigned(n) == IF n > Top THEN n - 2 * (Top + 1) ELSE n

Compare(x, y) == IF x < y THEN "Less" ELSE IF x = y THEN "Equal" ELSE "Greater"

\* Mistake: the bare cast, without the guard.
EmittedOrderingCast(a, b, deser) ==
    CASE a.t = b.t /\ (Numeric(a) \/ deser) -> {Compare(a.n, b.n)}
      [] a.t = "nat" /\ b.t = "int" -> {Compare(AsSigned(a.n), b.n)}
      [] a.t = "int" /\ b.t = "nat" -> {Compare(a.n, AsSigned(b.n))}
      [] OTHER -> {}

\* The emitted Ordering. Numbers of different signedness compare as signed,
\* except that an unsigned one beyond the signed range is larger than any.
EmittedOrdering(a, b, deser) ==
    CASE a.t = b.t /\ (Numeric(a) \/ deser) -> {Compare(a.n, b.n)}
      [] a.t = "nat" /\ b.t = "int" ->
           {IF a.n > Top THEN "Greater" ELSE Compare(AsSigned(a.n), b.n)}
      [] a.t = "int" /\ b.t = "nat" ->
           {IF b.n > Top THEN "Less" ELSE Compare(a.n, AsSigned(b.n))}
      [] OTHER -> {}

Satisfies(cmp, o) ==
    CASE cmp = "eq" -> o = "Equal"   [] cmp = "ne" -> o # "Equal"
      [] cmp = "lt" -> o = "Less"    [] cmp = "le" -> o # "Greater"
      [] cmp = "gt" -> o = "Greater" [] OTHER      -> o # "Less"

\* Cmp::apply
Apply(cmp, a, b, deser) ==
    LET ord == EmittedOrdering(a, b, deser)
    IN  IF ord # {} THEN {Satisfies(cmp, o) : o \in ord}
        ELSE IF cmp \in Orderings THEN {}
        ELSE {(a = b) <=> (cmp = "eq")}

-----------------------------------------------------------------------------
\* Expressions. Both operands of && and || are evaluated before they are
\* combined, so one that cannot be evaluated spoils the whole.

Truth(vs)        == {v.n = 1 : v \in {x \in vs : x.t = "bool"}}
Negated(neg, bs) == {b # neg : b \in bs}
Combine(op, l, r) ==
    IF op = "only" THEN l
    ELSE {b \in BOOLEAN : \E x \in l, y \in r :
                            b = IF op = "and" THEN x /\ y ELSE x \/ y}

\* evalExpr
EvalAtom(s, c, a) ==
    LET l == EvalOperand(s, c, a.l)
        r == EvalOperand(s, c, a.r)
    IN  Negated(a.neg,
          IF a.cmp = "truthy" THEN Truth(l)
          ELSE {b \in BOOLEAN : \E x \in l, y \in r :
                                   b \in EvalCmp(a.cmp, x, y)})

EvalExpr(s, c) == Combine(s.op, EvalAtom(s, c, s.l), EvalAtom(s, c, s.r))

\* VExpr::to_tokens
EmittedAtom(s, c, a, deser) ==
    LET l == OperandValue(s, c, a.l, deser)
        r == OperandValue(s, c, a.r, deser)
    IN  Negated(a.neg,
          IF a.cmp = "truthy" THEN Truth(l)
          ELSE {b \in BOOLEAN : \E x \in l, y \in r :
                                   b \in Apply(a.cmp, x, y, deser)})

\* Mistake: Rust's own ||, which does not look at the right of a true left.
EmittedJoinNative(op, l, r) ==
    IF op = "or" /\ l = {TRUE} THEN {TRUE} ELSE Combine(op, l, r)

EmittedJoin(op, l, r) == Combine(op, l, r)

Emitted(s, c, deser) ==
    EmittedJoin(s.op, EmittedAtom(s, c, s.l, deser),
                      EmittedAtom(s, c, s.r, deser))

-----------------------------------------------------------------------------
\* The source as Rust, on decoded values: typed, so a number stands for each
\* value, and never undefined. `call` is some function of the first field.

RustType(s, o) ==
    CASE o.kind = "field"           -> Means(s.fields[o.n])
      [] o.kind = "arg"             -> Means(s.args[o.n])
      [] o.kind = "lamports"        -> "nat"
      [] o.kind \in {"signer", "call"} -> "bool"
      [] OTHER                      -> o.kind

RustNumber(c, o) ==
    CASE o.kind = "field"    -> c.data[o.n]
      [] o.kind = "arg"      -> c.args[o.n]
      [] o.kind = "key"      -> c.keys[o.n]
      [] o.kind = "lamports" -> c.lamports
      [] o.kind = "signer"   -> c.signer
      [] o.kind = "call"     -> IF c.data[1] = 0 THEN 1 ELSE 0
      [] OTHER               -> o.n

\* An integer literal takes its type from the other side.
Literal(o) == o.kind \in {"nat", "int", "bool"}

AtomTyped(s, a) ==
    LET lt == RustType(s, a.l)
        rt == RustType(s, a.r)
    IN  IF a.cmp = "truthy" THEN lt = "bool"
        ELSE \/ lt = rt
             \/ a.l.kind = "nat" /\ rt = "int"
             \/ a.r.kind = "nat" /\ lt = "int"

RustTyped(s) == \A a \in Atoms(s) : AtomTyped(s, a)

RustAtom(c, a) ==
    (IF a.cmp = "truthy" THEN RustNumber(c, a.l) = 1
     ELSE Holds(a.cmp, RustNumber(c, a.l), RustNumber(c, a.r))) # a.neg

RustValue(s, c) ==
    CASE s.op = "and"  -> RustAtom(c, s.l) /\ RustAtom(c, s.r)
      [] s.op = "or"   -> RustAtom(c, s.l) \/ RustAtom(c, s.r)
      [] s.op = "only" -> RustAtom(c, s.l)
=============================================================================
