------------------------- MODULE MCConstraintRouting -------------------------
(***************************************************************************)
(* Structures for TLC: every comparison between the kinds of operand, over *)
(* every type of what is compared, and connectives over a few atoms.       *)
(***************************************************************************)
EXTENDS ConstraintRouting, FiniteSets

F(n) == [kind |-> "field", n |-> n]
A(n) == [kind |-> "arg", n |-> n]
K(n) == [kind |-> "key", n |-> n]
N(n) == [kind |-> "nat", n |-> n]
I(n) == [kind |-> "int", n |-> n]
B(n) == [kind |-> "bool", n |-> n]
M(k) == [kind |-> k, n |-> 0]

Compared(c, x, y) == [neg |-> FALSE, cmp |-> c, l |-> x, r |-> y]
Flag(neg, x)      == [neg |-> neg, cmp |-> "truthy", l |-> x, r |-> x]

Pairs == {<<F(1), F(2)>>, <<F(2), A(1)>>, <<A(1), F(1)>>, <<A(1), A(2)>>,
          <<K(1), K(2)>>, <<M("lamports"), N(1)>>, <<M("signer"), B(1)>>}
           \cup {<<x, y>> : x \in {F(1), A(1)},
                  y \in {K(1), M("lamports"), M("signer"), N(1), I(-1), B(1)}}

Single == {Compared(c, p[1], p[2]) : c \in Cmps, p \in Pairs}
            \cup {Flag(neg, x) : neg \in BOOLEAN,
                   x \in {F(1), F(2), A(1), M("signer"), M("call"), B(1)}}

Parts == {Flag(FALSE, B(1)), Flag(FALSE, M("call")), Flag(TRUE, F(1)),
          Compared("eq", F(1), A(1)), Compared("eq", A(1), A(2)),
          Compared("lt", F(1), F(2)), Compared("gt", A(1), N(0))}

Stored(c) == {o \in UNION {OperandsOf(a) : a \in Atoms(c)} :
                o.kind \in {"field", "arg"}}

AllConstraints ==
    {[op |-> "only", l |-> a, r |-> a] : a \in Single}
      \cup {c \in [op : {"and", "or"}, l : Parts, r : Parts] :
              Cardinality(Stored(c)) <= 2}

\* Types of what is read: all of them in single atoms, one of each kind
\* (readable, aggregate, unmapped) under connectives. What is not read has
\* one type, but for a first field that decides where the second one is.
Choices(c, kind, n) ==
    LET read(m) == [kind |-> kind, n |-> m] \in Stored(c)
    IN  IF read(n) THEN IF c.op = "only" THEN Types
                        ELSE {"int", "bool", "agg", "enum"}
        ELSE IF n = 1 /\ read(2) THEN {"int", "enum"} ELSE {"nat"}

MCStructs ==
    UNION {{[fields |-> <<f1, f2>>, args |-> <<a1, a2>>,
             op |-> c.op, l |-> c.l, r |-> c.r] :
              f1 \in Choices(c, "field", 1), f2 \in Choices(c, "field", 2),
              a1 \in Choices(c, "arg", 1), a2 \in Choices(c, "arg", 2)} :
           c \in AllConstraints}
=============================================================================
