------------------------------- MODULE Layout -------------------------------
(***************************************************************************)
(* Where a field is in the bytes of an account: the Rust walk over the     *)
(* Borsh descriptor (layout.rs), the Lean walk its proofs are about        *)
(* (Locate.lean), and what Borsh itself makes of the same bytes.           *)
(*                                                                         *)
(* Bytes are sequences of 0..Base-1, offsets count from 0. An Option is    *)
(* the set of its value: {} is None, {x} is Some(x), and `?` is a UNION    *)
(* over what is there. No buffer is longer than UsizeMax.                  *)
(***************************************************************************)
EXTENDS Integers, Sequences

CONSTANTS
    Base,        \* number of values of a byte (256)
    PrefixLen,   \* bytes of a length prefix (4)
    KeyLen,      \* bytes of a Pubkey (32)
    DiscLen,     \* bytes of a discriminator (8)
    UsizeMax     \* usize::MAX

ASSUME LayoutAssumption ==
    /\ Base \in Nat \ {0, 1} /\ UsizeMax \in Nat
    /\ PrefixLen \in Nat \ {0} /\ KeyLen \in Nat \ {0} /\ DiscLen \in Nat \ {0}

Byte  == 0..Base - 1
Bytes == Seq(Byte)

\* Types, nested three deep. `other` (an enum, a float, a nested struct) and an
\* array whose length is not a literal have no descriptor; a descriptor's
\* `struct` is the account type itself.
Scalar  == [k : {"uint", "int", "other"}, w : Nat]
             \cup [k : {"bool", "pubkey", "string"}]
Over(T) == T \cup [k : {"vec", "option"}, of : T]
             \cup [k : {"array"}, of : T, n : Nat, literal : BOOLEAN]
             \cup [k : {"struct"}, fs : Seq([name : STRING, ty : T])]
Ty      == Over(Over(Over(Scalar)))

StructOf(fs) == [k |-> "struct", fs |-> fs]

\* map_ty finds a descriptor for the type.
Mapped(t) ==
    LET mapped[u \in Ty] ==
          CASE u.k \in {"vec", "option"}   -> mapped[u.of]
            [] u.k = "array"               -> u.literal /\ mapped[u.of]
            [] u.k \in {"other", "struct"} -> FALSE
            [] OTHER                       -> TRUE
    IN  mapped[t]

Types(fs)    == [i \in DOMAIN fs |-> fs[i].ty]
Copies(t, n) == [i \in 1..n |-> t]

\* Mutant: unmapped fields are left out and what is behind them moves up.
DescriptorSkipping(fs) == StructOf(SelectSeq(fs, LAMBDA f : Mapped(f.ty)))

\* T::LAYOUT of a struct with fields fs: cut at the first unmapped field.
Descriptor(fs) ==
    StructOf([i \in {i \in DOMAIN fs : \A j \in 1..i : Mapped(fs[j].ty)}
                |-> fs[i]])

TopLevelField(t, name) ==
    IF t.k = "struct"
    THEN {t.fs[i].ty : i \in {i \in DOMAIN t.fs : t.fs[i].name = name}} ELSE {}
HasTopLevelField(t, name)       == TopLevelField(t, name) # {}
HasTopLevelPubkeyField(t, name) ==
    TopLevelField(t, name) = {[k |-> "pubkey"]}

-----------------------------------------------------------------------------
\* The Rust walk. Checked: checked_add, checked_mul.

Wrapping(n) == {n % (UsizeMax + 1)}   \* Mutant: plain arithmetic in a release build.

Checked(n) == {m \in {n} : m <= UsizeMax}

LittleEndian(data, off, w) ==
    LET value[i \in 0..w] == IF i = 0 THEN 0
          ELSE Base * value[i - 1] + data[off + w - i + 1]
    IN  value[w]

ReadUIntLE(data, off, w) ==
    {LittleEndian(data, off, w) : end \in
       {end \in Checked(off + w) : end <= Len(data)}}

\* Values of the types one behind the other from off + from, where width[t][o] is
\* the width of a t at o: how far behind off they end.
Walk(width, types, off, from) ==
    LET upto[i \in 0..Len(types)] ==
          IF i = 0 THEN {from}
          ELSE UNION {{a + w : w \in width[types[i]][off + a]} : a \in upto[i - 1]}
    IN  upto[Len(types)]

\* Of type u, given the size of what it is made of; likewise below.
SizeOf(size, u) ==
    CASE u.k \in {"uint", "int"} -> {u.w}
      [] u.k = "bool"            -> {1}
      [] u.k = "pubkey"          -> {KeyLen}
      [] u.k = "array"           -> {w * u.n : w \in size[u.of]}
      [] u.k = "struct"          ->
           Walk([v \in Ty |-> [o \in Nat |-> size[v]]], Types(u.fs), 0, 0)
      [] OTHER                   -> {}

ByteSize(t) == LET size[u \in Ty] == SizeOf(size, u) IN size[t]

\* A vector of fixed-width elements is measured in one multiplication, without
\* looking whether the elements are there; the cursor of both loops is the
\* offset the value starts at plus the width so far.
WidthAt(width, data, u, o) ==
    LET inside == [v \in Ty |-> [p \in Nat |-> {w \in width[v][p] : p + w <= UsizeMax}]]
        read(w) == ReadUIntLE(data, o, w)
    IN  CASE u.k = "string" ->
               {PrefixLen + n : n \in {m \in read(PrefixLen) :
                                         o + PrefixLen + m <= Len(data)}}
          [] u.k = "vec" /\ ByteSize(u.of) # {} ->
               UNION {Checked(PrefixLen + n * w) :
                        n \in read(PrefixLen), w \in ByteSize(u.of)}
          [] u.k = "vec" /\ ByteSize(u.of) = {} ->
               UNION {Walk(inside, Copies(u.of, n), o, PrefixLen) : n \in read(PrefixLen)}
          [] u.k = "option" ->
               UNION {IF tag = 0 THEN {1}
                      ELSE UNION {Checked(1 + w) : w \in width[u.of][o + 1]} :
                        tag \in read(1)}
          [] u.k = "struct" -> Walk(inside, Types(u.fs), o, 0)
          [] OTHER -> ByteSize(u)

EncodedWidth(t, data, off) ==
    LET width[u \in Ty] == [o \in Nat |-> WidthAt(width, data, u, o)] IN width[t][off]

\* Offset and type of what path names, from start: the fields in front of the
\* first of that name are stepped over, as the struct they would be.
FirstNamed(fs, name) ==
    {i \in DOMAIN fs : fs[i].name = name /\ \A j \in 1..i - 1 : fs[j].name # name}

\* Mutant: offsets from the widths of the types alone.
LocateFixed(t, path, data, start) ==
    UNION {{<<start + w, t.fs[i].ty>> : w \in ByteSize(StructOf(SubSeq(t.fs, 1, i - 1)))} :
             i \in FirstNamed(t.fs, path[1])}

Locate(t, path, data, start) ==
    LET found[n \in 0..Len(path)] ==
          IF n = 0 THEN {<<start, t>>}
          ELSE UNION {UNION {{<<at[1] + w, at[2].fs[i].ty>> :
                                w \in EncodedWidth(StructOf(SubSeq(at[2].fs, 1, i - 1)),
                                                   data, at[1])} :
                               i \in FirstNamed(at[2].fs, path[n])} :
                        at \in {x \in found[n - 1] : x[2].k = "struct"}}
    IN  found[Len(path)]

ReadVal(t, data, off) ==
    CASE t.k = "uint" -> {<<"nat", n>> : n \in ReadUIntLE(data, off, t.w)}
      [] t.k = "int"  -> {<<"int", IF 2 * n < Base ^ t.w THEN n ELSE n - Base ^ t.w>> :
                            n \in ReadUIntLE(data, off, t.w)}
      [] t.k = "bool" -> {<<"bool", n # 0>> : n \in ReadUIntLE(data, off, 1)}
      [] t.k = "pubkey" -> {<<"key", SubSeq(data, off + 1, end)>> :
                              end \in {e \in Checked(off + KeyLen) : e <= Len(data)}}
      [] OTHER -> {}

\* What every check on a data field reads: locate, then read_val.
ReadField(t, name, data, start) ==
    UNION {ReadVal(at[2], data, at[1]) : at \in Locate(t, <<name>>, data, start)}

-----------------------------------------------------------------------------
\* The Lean walk: natural numbers without a bound, every vector in a loop. The
\* width of a type is ByteSize here too: byte_size does not check its sums and
\* products, and a Rust type never is wider than a usize counts.

LeanReadUIntLE(data, off, w) ==
    IF off + w <= Len(data) THEN {LittleEndian(data, off, w)} ELSE {}

LeanWidthAt(width, data, u, o) ==
    CASE u.k = "string" ->
           {PrefixLen + n : n \in {m \in LeanReadUIntLE(data, o, PrefixLen) :
                                     o + PrefixLen + m <= Len(data)}}
      [] u.k = "vec" ->
           UNION {Walk(width, Copies(u.of, n), o, PrefixLen) :
                    n \in LeanReadUIntLE(data, o, PrefixLen)}
      [] u.k = "option" ->
           UNION {IF tag = 0 THEN {1} ELSE {1 + w : w \in width[u.of][o + 1]} :
                    tag \in LeanReadUIntLE(data, o, 1)}
      [] u.k = "struct" -> Walk(width, Types(u.fs), o, 0)
      [] OTHER -> ByteSize(u)

LeanEncodedWidth(t, data, off) ==
    LET width[u \in Ty] == [o \in Nat |-> LeanWidthAt(width, data, u, o)]
    IN  width[t][off]

LeanLocate(t, name, data, start) ==
    UNION {{<<start + w, t.fs[i].ty>> :
              w \in LeanEncodedWidth(StructOf(SubSeq(t.fs, 1, i - 1)), data, start)} :
             i \in FirstNamed(t.fs, name)}

LeanReadVal(t, data, off) ==
    LET read(w) == LeanReadUIntLE(data, off, w)
    IN  CASE t.k = "uint" -> {<<"nat", n>> : n \in read(t.w)}
          [] t.k = "int"  -> {<<"int", IF 2 * n < Base ^ t.w THEN n ELSE n - Base ^ t.w>> :
                                n \in read(t.w)}
          [] t.k = "bool" -> {<<"bool", n # 0>> : n \in read(1)}
          [] t.k = "pubkey" /\ off + KeyLen <= Len(data) ->
               {<<"key", SubSeq(data, off + 1, off + KeyLen)>>}
          [] OTHER -> {}

LeanReadField(t, name, data, start) ==
    UNION {LeanReadVal(at[2], data, at[1]) : at \in LeanLocate(t, name, data, start)}

-----------------------------------------------------------------------------
\* Borsh: the value of type t at off and the offset behind it. A bool or an
\* Option tag is 0 or 1, a String is UTF-8 (the last byte value never occurs
\* in it), elements are all there.

Row(decoded, types, from) ==
    LET upto[i \in 0..Len(types)] ==
          IF i = 0 THEN {<< << >>, from>>}
          ELSE UNION {{<<Append(g[1], x[1]), x[2]>> : x \in decoded[types[i]][g[2]]} :
                        g \in upto[i - 1]}
    IN  upto[Len(types)]

DecodedAt(decoded, data, u, o) ==
    LET bytes(n)  == {SubSeq(data, o + 1, e) : e \in {e \in {o + n} : e <= Len(data)}}
        scalar(w) == {<<v, o + w>> : v \in ReadVal(u, data, o)}
        prefix    == LeanReadUIntLE(data, o, PrefixLen)
    IN  CASE u.k \in {"uint", "int"} -> scalar(u.w)
          [] u.k = "pubkey" -> scalar(KeyLen)
          [] u.k = "bool"   -> {x \in scalar(1) : data[o + 1] \in {0, 1}}
          [] u.k = "other"  -> {<<b, o + u.w>> : b \in bytes(u.w)}
          [] u.k = "string" ->
               UNION {{<<SubSeq(b, PrefixLen + 1, Len(b)), o + Len(b)>> : b \in
                         {b \in bytes(PrefixLen + n) :
                            \A i \in PrefixLen + 1..Len(b) : b[i] < Base - 1}} :
                        n \in prefix}
          [] u.k = "vec"    -> UNION {Row(decoded, Copies(u.of, n), o + PrefixLen) :
                                        n \in prefix}
          [] u.k = "array"  -> Row(decoded, Copies(u.of, u.n), o)
          [] u.k = "struct" -> Row(decoded, Types(u.fs), o)
          [] u.k = "option" ->
               UNION {CASE tag = 0 -> {<< << >>, o + 1>>}
                        [] tag = 1 -> decoded[u.of][o + 1]
                        [] OTHER   -> {} : tag \in LeanReadUIntLE(data, o, 1)}

Decode(t, data, off) ==
    LET decoded[u \in Ty] == [o \in Nat |-> DecodedAt(decoded, data, u, o)]
    IN  decoded[t][off]

\* try_from_slice of data[off..]: all bytes belong to the value.
TryFromSlice(t, data, off) ==
    {x[1] : x \in {y \in Decode(t, data, off) : y[2] = Len(data)}}
=============================================================================
