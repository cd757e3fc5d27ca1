-------------------------- MODULE ConstraintRouting --------------------------
(***************************************************************************)
(* What becomes of one `constraint = <expr>`: the derive sends it to the   *)
(* proved core (validate), to the escape hatch (try_accounts, after the    *)
(* account is deserialised), or leaves the choice between the two to       *)
(* constants of the user's crate; the compiler accepts the code or not;    *)
(* then calls of try_accounts run it.                                      *)
(***************************************************************************)
EXTENDS ExprSemantics

CONSTANT Structs     \* the structures somebody writes

ASSUME StructsAssumption == Structs \subseteq Struct

VARIABLES
    s,        \* the structure
    phase,    \* how far it has come, or the call of it has
    call      \* the data of the call

vars == <<s, phase, call>>

Rejections == {"rejected", "borsh_failed", "violated"}
Phases     == {"written", "broken", "built", "called", "validated",
               "deserialised", "accepted"} \cup Rejections

-----------------------------------------------------------------------------
\* The derive.

\* compile_expr: calls, and arguments behind an unmapped type, are outside.
InSublanguage(st) ==
    \A o \in Operands(st) :
        /\ o.kind # "call"
        /\ o.kind = "arg" => InDescriptor(st.args, o.n)

FieldOperands(st)    == {o \in Operands(st) : o.kind = "field"}
OrderingOperands(st) ==
    UNION {OperandsOf(a) : a \in {b \in Atoms(st) : b.cmp \in Orderings}}

\* No value of the operand can be ordered, in any crate.
NeverOrderable(st, o) ==
    \/ o.kind \in {"bool", "key", "signer"}
    \/ o.kind = "arg" /\ ~IsOrderableScalar(st.args[o.n])

\* locatability_cond: whether there is a condition, and what it evaluates to.
Conditional(st) ==
    \/ FieldOperands(st) # {}
    \/ \E o \in OrderingOperands(st) : NeverOrderable(st, o)

Locatable(st) ==
    /\ \A o \in FieldOperands(st) :
          /\ InDescriptor(st.fields, o.n)
          /\ IsReadableScalar(st.fields[o.n])
    /\ \A o \in OrderingOperands(st) :
          /\ ~NeverOrderable(st, o)
          /\ o.kind = "field" => IsOrderableScalar(st.fields[o.n])

\* The three consumers of the condition: validate_body, lean_spec_string and
\* unproven_checks with the hatch.
Validates(st) == InSublanguage(st) /\ (Conditional(st) => Locatable(st))
InSpec(st)    == InSublanguage(st) /\ (Conditional(st) => Locatable(st))

\* Mistake: a field is taken for readable when the descriptor has it.
ListedIfAbsent(st) ==
    ~InSublanguage(st)
      \/ \E o \in FieldOperands(st) : ~InDescriptor(st.fields, o.n)

Listed(st)    == ~InSublanguage(st) \/ (Conditional(st) /\ ~Locatable(st))
Hatched(st)   == Listed(st)

\* fallback_needs_value_form
Negative(o) == o.kind = "int" /\ o.n < 0

NeedsValueForm(st) ==
    \E a \in Atoms(st) :
        \/ \E o \in OperandsOf(a) : Negative(o)
        \/ /\ a.cmp \in Orderings
           /\ \A o \in OperandsOf(a) : ~Literal(o)

\* Mistake: one form of fallback for all expressions.
ValueFormAlways(st) == InSublanguage(st)

ValueForm(st) == InSublanguage(st) /\ NeedsValueForm(st)

\* Both arms of a choice are compiled. Verbatim Rust has to type-check; the
\* value form asks for a FieldValue of every field it reads.
Compiles(st) ==
    LET hatch == ~InSublanguage(st) \/ Conditional(st)
    IN  /\ hatch /\ ~ValueForm(st) => RustTyped(st)
        /\ hatch /\ ValueForm(st) =>
              \A o \in FieldOperands(st) : HasFieldValue(st.fields[o.n])

-----------------------------------------------------------------------------
\* Calls.

\* What a call supplies: values for what the expression reads.
Reads(st, kind, n) == \E o \in Operands(st) : o.kind = kind /\ o.n = n
IfRead(st, kind, n, values) == IF Reads(st, kind, n) THEN values ELSE {0}

Field(st, n) == IF Reads(st, "call", 0) THEN Raw(st.fields[n])
                ELSE IfRead(st, "field", n, Raw(st.fields[n]))
Arg(st, n)   == IfRead(st, "arg", n, Raw(st.args[n]))
Key(st, n)   == IfRead(st, "key", n, 0..1)

Calls(st) ==
    [data : Field(st, 1) \X Field(st, 2), len : 0..2,
     args : Arg(st, 1) \X Arg(st, 2), arglen : 0..2,
     keys : Key(st, 1) \X Key(st, 2),
     lamports : IfRead(st, "lamports", 0, 0..1),
     signer : IfRead(st, "signer", 0, 0..1)]

NoCall == [data |-> <<0, 0>>, args |-> <<0, 0>>, len |-> 0, arglen |-> 0,
           keys |-> <<0, 0>>, lamports |-> 0, signer |-> 0]

Decodes(t, raw) == t = "bool" => raw \in 0..1

\* try_from_slice of T; deserialize of the arguments an expression names.
Deserialises(st, c) == c.len = 2 /\ \A i \in 1..2 : Decodes(st.fields[i], c.data[i])
ArgsDecode(st, c)   ==
    \A n \in 1..2 : Reads(st, "arg", n) =>
        c.arglen >= n /\ \A i \in 1..n : Decodes(st.args[i], c.args[i])

-----------------------------------------------------------------------------
Init ==
    /\ s \in Structs
    /\ phase = "written"
    /\ call = NoCall

\* The derive expands and the crate is compiled.
Build ==
    /\ phase = "written"
    /\ phase' = IF Compiles(s) THEN "built" ELSE "broken"
    /\ UNCHANGED <<s, call>>

Call ==
    /\ phase = "built"
    /\ call' \in Calls(s)
    /\ phase' = "called"
    /\ UNCHANGED s

\* Mistake: what cannot be evaluated passes.
PassesUnlessFalse(ok) == FALSE \notin ok

\* to_tokens_check: anything but Some(true) is a rejection.
Passes(ok) == TRUE \in ok

Validate ==
    /\ phase = "called"
    /\ phase' = IF Validates(s) => Passes(Emitted(s, call, FALSE))
                THEN "validated" ELSE "rejected"
    /\ UNCHANGED <<s, call>>

Deserialise ==
    /\ phase = "validated"
    /\ phase' = IF Deserialises(s, call) THEN "deserialised"
                                         ELSE "borsh_failed"
    /\ UNCHANGED <<s, call>>

HatchPasses(st, c) ==
    IF ValueForm(st) THEN Passes(Emitted(st, c, TRUE))
                     ELSE ArgsDecode(st, c) /\ RustValue(st, c)

Hatch ==
    /\ phase = "deserialised"
    /\ phase' = IF Hatched(s) => HatchPasses(s, call) THEN "accepted"
                                                      ELSE "violated"
    /\ UNCHANGED <<s, call>>

Return ==
    /\ phase \in Rejections \cup {"accepted"}
    /\ phase' = "built"
    /\ call' = NoCall
    /\ UNCHANGED s

Next == Build \/ Call \/ Validate \/ Deserialise \/ Hatch \/ Return

Spec == Init /\ [][Next]_vars

-----------------------------------------------------------------------------
(***************************************************************************)
(* Properties                                                              *)
(***************************************************************************)

\* The variables have their types; what a call supplies fits the type it is
\* supplied for.
Fits(t, n) == n \in CASE Means(t) = "nat" -> Unsigned
                      [] Means(t) = "int" -> Signed
                      [] OTHER -> 0..2

TypeOK ==
    /\ s \in Struct
    /\ phase \in Phases
    /\ \A i \in 1..2 : /\ Fits(s.fields[i], call.data[i])
                       /\ Fits(s.args[i], call.args[i])
                       /\ call.keys[i] \in 0..1
    /\ call.len \in 0..2 /\ call.arglen \in 0..2
    /\ call.lamports \in 0..1 /\ call.signer \in 0..1

\* What Anchor does with the call: decode everything, then test the Rust
\* expression.
AnchorAccepts ==
    Deserialises(s, call) /\ ArgsDecode(s, call) /\ RustValue(s, call)

Returned == phase \in Rejections \cup {"accepted"}

\* validate decides a constraint exactly as the Lean contract of the structure
\* does: rejected when the specification has it and does not find it true,
\* and never on account of one the specification leaves out. (The generated
\* comparison works in 128 bits, the contract's in unbounded integers.)
ValidateIsContract ==
    LET contract == InSpec(s) => Passes(EvalExpr(s, call))
    IN  /\ phase = "rejected" => ~contract
        /\ phase \in {"validated", "deserialised", "accepted"} => contract

\* An account is accepted without mention in UNPROVEN_CHECKS only if the Lean
\* contract has the constraint and finds it true.
UnlistedIsProven ==
    phase = "accepted" /\ ~Listed(s) =>
        InSpec(s) /\ Passes(EvalExpr(s, call))

\* Wherever it ran, a constraint that is well-typed Rust has been enforced:
\* nothing Anchor's test refuses is accepted. (Anchor decodes arguments before
\* it comes to the test; that is not what this is about.)
EnforcedSomewhere ==
    phase = "accepted" /\ RustTyped(s) /\ ArgsDecode(s, call) =>
        RustValue(s, call)

\* Values the sublanguage can hold.
Scalar(o) == RustType(s, o) \in {"nat", "int", "bool", "key"}

\* Two kinds of constraint are known not to carry over: an ordering of floats or
\* aggregates, which the value form of the hatch has to refuse, and an equality
\* of two aggregate arguments, which validate can never read. Of all others,
\* what Anchor compiles compiles, and what Anchor accepts is accepted.
Ordinary ==
    /\ (\A o \in Operands(s) : Scalar(o)) \/ ~NeedsValueForm(s)
    /\ \A a \in Atoms(s) :
         \E o \in OperandsOf(a) : Scalar(o) \/ o.kind # "arg"

DropIn ==
    RustTyped(s) /\ Ordinary =>
        /\ phase # "broken"
        /\ Returned /\ AnchorAccepts => phase = "accepted"

-----------------------------------------------------------------------------
(***************************************************************************)
(* What the documents say, and the code does not keep.                     *)
(***************************************************************************)

\* "The false branch routes to the verbatim-Rust hatch rather than to the
\* recompiled FieldValue form, because FieldValue refuses the same aggregate
\* set": the hatch accepts what the verbatim Rust accepts.
AggregatesRunVerbatim ==
    phase = "violated" /\ RustTyped(s) => ~AnchorAccepts
=============================================================================
