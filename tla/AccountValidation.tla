------------------------- MODULE AccountValidation -------------------------
(***************************************************************************)
(* #[derive(VerifiedAccounts)]: which structs compile, the validate        *)
(* function generated for one, and the contract its Lean specification     *)
(* states. Arbitrary `constraint = <expr>` is in ConstraintRouting; here   *)
(* the one comparison on-chain programs use stands for those in the proof  *)
(* (at_least), and one key comparison for those in the hatch (hatch).      *)
(*                                                                         *)
(* A struct s has fields [name, kind, ty, disc, cs]: the wrapper, the      *)
(* fields and discriminator of T for Account<'info, T>, the constraints;   *)
(* and args [name, ty], the #[instruction(..)] list. A call has accounts   *)
(* [key, owner, signer, writable, executable, lamports, data] and the      *)
(* instruction data, its tag stripped.                                     *)
(***************************************************************************)
EXTENDS Layout, FiniteSets
LOCAL INSTANCE SequencesExt

CONSTANTS
    ProgramId,       \* crate::ID, which is also the id the program runs under
    SystemId,        \* system_program::ID
    MaxSeedLen,      \* MAX_SEED_LEN (32)
    MaxSeeds,        \* MAX_SEEDS (16), the bump included
    Hash(_, _),      \* bytes, program -> {key}, or {} where the hash is on the curve
    RentMinimum(_)   \* data length -> lamports that make it rent exempt

ASSUME ValidationAssumption == MaxSeedLen \in Nat \ {0} /\ MaxSeeds \in Nat

The(set) == CHOOSE x \in set : TRUE

\* What constraints of one kind a field lists.
Listed(f, kinds) == {k \in DOMAIN f.cs : f.cs[k].c \in kinds}
Has(f, kind)     == Listed(f, {kind}) # {}
First(f, kinds)  == f.cs[CHOOSE k \in Listed(f, kinds) :
                           \A j \in Listed(f, kinds) : k <= j]

FieldNames(s)   == {s.fields[i].name : i \in DOMAIN s.fields}
IndexOf(s, n)   == CHOOSE i \in DOMAIN s.fields : s.fields[i].name = n
LayoutOf(f)     == Descriptor(f.ty)

-----------------------------------------------------------------------------
\* #[instruction(..)]: the arguments in front of the first one without a
\* descriptor are mappable, all are declared.

Declared(s)     == {s.args[i].name : i \in DOMAIN s.args}
ArgsLayout(s)   == Descriptor(s.args)
Mappable(s)     == {ArgsLayout(s).fs[i].name : i \in DOMAIN ArgsLayout(s).fs}
ArgType(s, n)   == The(TopLevelField(ArgsLayout(s), n))

ArgKind(t) ==
    CASE t.k = "string"                             -> "prefixed"
      [] t.k = "vec" /\ t.of = [k |-> "uint", w |-> 1] -> "prefixed"
      [] t.k \in {"uint", "int"}                    -> "numeric"
      [] t.k = "pubkey"                             -> "key"
      [] OTHER                                      -> "other"

\* A seed as it is written: b"..", a name, a reference, a method call, or
\* arg(off, len).
SeedLeaf  == [k : {"bytes", "str"}, b : Bytes] \cup [k : {"name"}, n : STRING]
               \cup [k : {"slice"}, off : Nat, len : Nat]
Wrap(E)   == E \cup [k : {"ref"}, of : E]
               \cup [k : {"call"}, m : {"key", "as_bytes", "as_ref", "as_slice",
                     "to_le_bytes", "to_be_bytes", "to_ne_bytes"}, of : E]
SeedExpr  == Wrap(Wrap(Wrap(SeedLeaf)))

\* What it is peeled to: {} where it is not a seed.
PeelSeed(expr) ==
    LET peeled[e \in SeedExpr] ==
          CASE e.k = "ref"   -> peeled[e.of]
            [] e.k = "name"  -> {[e |-> "bare", n |-> e.n]}
            [] e.k = "bytes" -> {[e |-> "literal", b |-> e.b]}
            [] e.k = "call"  ->
                 CASE e.m = "key" /\ e.of.k = "name" -> {[e |-> "key", n |-> e.of.n]}
                   [] e.m = "as_bytes" /\ e.of.k = "str" ->
                        {[e |-> "literal", b |-> e.of.b]}
                   [] e.m \in {"as_bytes", "to_le_bytes"} /\ e.of.k = "name" ->
                        {[e |-> "arg", n |-> e.of.n, form |-> e.m]}
                   [] e.m \in {"as_ref", "as_slice"} -> peeled[e.of]
                   [] OTHER -> {}
            [] OTHER         -> {}
    IN  peeled[expr]

BigOrNativeEndian(expr) ==
    LET found[e \in SeedExpr] ==
          \/ e.k = "ref"  /\ found[e.of]
          \/ e.k = "call" /\ (e.m \in {"to_be_bytes", "to_ne_bytes"} \/ found[e.of])
    IN  found[expr]

\* A naked name or str literal is no seed: peeling starts at a method call or a
\* reference.
ParseSeed(e) ==
    CASE e.k = "bytes" -> {[e |-> "literal", b |-> e.b]}
      [] e.k = "slice" -> {[e |-> "slice", off |-> e.off, len |-> e.len]}
      [] e.k \in {"call", "ref"} -> IF BigOrNativeEndian(e) THEN {} ELSE PeelSeed(e)
      [] OTHER -> {}

\* Mutant: the account of that name first.
ResolveSeedFieldFirst(s, e) ==
    CASE e.e # "bare" -> {e}
      [] e.e = "bare" /\ e.n \in FieldNames(s) -> {[e |-> "key", n |-> e.n]}
      [] e.e = "bare" /\ e.n \in Mappable(s) \ FieldNames(s) ->
           {[e |-> "arg", n |-> e.n, form |-> "bare"]}
      [] OTHER -> {}

\* A bare name is the argument of that name before it is the account; one that
\* is both, or that was declared and dropped, is an error.
ResolveSeed(s, e) ==
    CASE e.e # "bare" -> {e}
      [] e.e = "bare" /\ e.n \in Declared(s) \ Mappable(s) -> {}
      [] e.e = "bare" /\ e.n \in Mappable(s) \ FieldNames(s) ->
           {[e |-> "arg", n |-> e.n, form |-> "bare"]}
      [] e.e = "bare" /\ e.n \in FieldNames(s) \ Declared(s) ->
           {[e |-> "key", n |-> e.n]}
      [] OTHER -> {}

SpellingFits(s, e) ==
    CASE e.form = "as_bytes"    -> ArgKind(ArgType(s, e.n)) = "prefixed"
      [] e.form = "to_le_bytes" -> ArgKind(ArgType(s, e.n)) = "numeric"
      [] e.form = "bare"        -> ArgKind(ArgType(s, e.n)) \in {"key", "prefixed"}

Seed(s, expr) == UNION {ResolveSeed(s, e) : e \in ParseSeed(expr)}

SeedCompiles(s, expr) ==
    /\ Seed(s, expr) # {}
    /\ LET e == The(Seed(s, expr))
       IN  /\ e.e = "arg" => e.n \in Mappable(s) /\ SpellingFits(s, e)
           /\ e.e = "key" => e.n \in FieldNames(s)

\* The build-time guards of the derive.
FieldCompiles(s, f) ==
    /\ \A k \in Listed(f, {"seeds"}) : \A j \in DOMAIN f.cs[k].seeds :
         /\ SeedCompiles(s, f.cs[k].seeds[j])
         /\ Has(f, "init_if_needed") =>
              The(Seed(s, f.cs[k].seeds[j])).e \notin {"arg", "slice"}
    /\ Has(f, "realloc") => Has(f, "mut")
    /\ Has(f, "init_if_needed") => f.kind = "account"
    /\ \A k \in Listed(f, {"has_one"}) :
         /\ f.kind = "account"
         /\ f.cs[k].n \in FieldNames(s)
         /\ HasTopLevelField(LayoutOf(f), f.cs[k].n)
         /\ HasTopLevelPubkeyField(LayoutOf(f), f.cs[k].n)

Compiles(s) == \A i \in DOMAIN s.fields : FieldCompiles(s, s.fields[i])

-----------------------------------------------------------------------------
\* The bytes of a seed at run time; {} is WrongPda.

Slice(data, off, len) ==
    LET clamp(n) == IF n <= Len(data) THEN n ELSE Len(data)
    IN  SubSeq(data, clamp(off) + 1, clamp(off + len))

\* A String or Vec argument without its prefix, any other whole.
ArgSeed(s, instr, n) ==
    UNION {IF at[2].k \in {"string", "vec"}
           THEN {SubSeq(instr, at[1] + PrefixLen + 1, at[1] + PrefixLen + len) :
                   len \in {m \in ReadUIntLE(instr, at[1], PrefixLen) :
                              at[1] + PrefixLen + m <= Len(instr)}}
           ELSE {SubSeq(instr, at[1] + 1, at[1] + w) :
                   w \in {x \in EncodedWidth(at[2], instr, at[1]) :
                            at[1] + x <= Len(instr)}} :
             at \in Locate(ArgsLayout(s), <<n>>, instr, 0)}

SeedBytes(s, call, e) ==
    CASE e.e = "literal" -> {e.b}
      [] e.e = "key"     -> {call.accounts[IndexOf(s, e.n)].key}
      [] e.e = "slice"   -> {Slice(call.instr, e.off, e.len)}
      [] e.e = "arg"     -> ArgSeed(s, call.instr, e.n)

\* The seeds of constraint c: their sources, whether all have bytes, and those.
Elems(s, c) == [j \in DOMAIN c.seeds |-> The(Seed(s, c.seeds[j]))]

Resolved(s, call, c) ==
    \A j \in DOMAIN c.seeds : SeedBytes(s, call, Elems(s, c)[j]) # {}
SeedList(s, call, c) ==
    [j \in DOMAIN c.seeds |-> The(SeedBytes(s, call, Elems(s, c)[j]))]

DeriveId(f) == IF Has(f, "seeds_program") THEN First(f, {"seeds_program"}).key
               ELSE ProgramId

\* Pubkey::create_program_address and find_program_address, whose search stops
\* before bump 0; finding nothing panics.
WithinLimits(seeds) ==
    Len(seeds) <= MaxSeeds /\ \A j \in DOMAIN seeds : Len(seeds[j]) <= MaxSeedLen

CreateAddress(seeds, pid) ==
    IF WithinLimits(seeds) THEN Hash(FlattenSeq(seeds), pid) ELSE {}

\* The largest bump with an address, if the search gets that far down.
FirstBump(hits, lowest) == {b \in hits : b >= lowest /\ \A h \in hits : h <= b}

FindAddress(seeds, pid) ==
    LET at(b) == CreateAddress(Append(seeds, <<b>>), pid)
        hits  == {b \in Byte : at(b) # {}}
    IN  {[key |-> The(at(b)), bump |-> b] : b \in FirstBump(hits, 1)}

\* The PDA block of a field with seeds. A stored bump wins over the others.
StoredPda(f, key, seeds, instr) ==
    LET off == First(f, {"stored"}).off
    IN  IF off < Len(instr)
             /\ key \in CreateAddress(Append(seeds, <<instr[off + 1]>>), DeriveId(f))
        THEN "Ok" ELSE "WrongPda"

\* Mutant: any bump will do.
DerivedPdaAnyBump(f, key, found) ==
    IF found = {} THEN "Panic"
    ELSE IF \E r \in found : r.key # key THEN "WrongPda" ELSE "Ok"

DerivedPda(f, key, found) ==
    IF found = {} THEN "Panic"
    ELSE IF \E r \in found : r.key # key THEN "WrongPda"
    ELSE IF \E k \in Listed(f, {"declared"}), r \in found :
              f.cs[k] = First(f, {"canonical", "declared"}) /\ f.cs[k].bump # r.bump
    THEN "WrongBump" ELSE "Ok"

PdaError(s, call, i) ==
    LET f      == s.fields[i]
        key    == call.accounts[i].key
        derive == First(f, {"seeds"})
        seeds  == SeedList(s, call, derive)
    IN  IF ~Resolved(s, call, derive) THEN "WrongPda"
        ELSE IF Has(f, "stored") THEN StoredPda(f, key, seeds, call.instr)
        ELSE DerivedPda(f, key, FindAddress(seeds, DeriveId(f)))

-----------------------------------------------------------------------------
\* validate: per field the constraints its wrapper implies and its own, in
\* order, then its PDA block; then every pair of mut fields.

\* Mutant: an Account<T> is told by its discriminator alone.
WrapperImpliedAnyOwner(f) ==
    CASE f.kind = "account"   -> <<[c |-> "discriminator", bytes |-> f.disc]>>
      [] f.kind = "signer"    -> <<[c |-> "signer"]>>
      [] f.kind = "system"    -> <<[c |-> "owner", key |-> SystemId]>>
      [] f.kind = "program"   -> <<[c |-> "program", key |-> f.id]>>
      [] f.kind = "unchecked" -> << >>

WrapperImplied(f) ==
    CASE f.kind = "account"   -> <<[c |-> "owner", key |-> ProgramId],
                                   [c |-> "discriminator", bytes |-> f.disc]>>
      [] f.kind = "signer"    -> <<[c |-> "signer"]>>
      [] f.kind = "system"    -> <<[c |-> "owner", key |-> SystemId]>>
      [] f.kind = "program"   -> <<[c |-> "program", key |-> f.id]>>
      [] f.kind = "unchecked" -> << >>

\* An init_if_needed field is not held to what its wrapper implies of owner and
\* discriminator: a fresh account has neither.
ImpliedChecked(f) ==
    IF Has(f, "init_if_needed") /\ f.kind \in {"account", "system"} THEN << >>
    ELSE WrapperImplied(f)

Effective(f) == ImpliedChecked(f) \o f.cs

HasPrefix(data, bytes) == /\ Len(data) >= DiscLen
                          /\ SubSeq(data, 1, DiscLen) = bytes
ZeroDisc == [i \in 1..DiscLen |-> 0]

\* The constraint refuses the account of field i.
Refuses(s, call, i, c) ==
    LET a == call.accounts[i]
    IN  CASE c.c = "signer"        -> ~a.signer
          [] c.c = "mut"           -> ~a.writable
          [] c.c = "owner"         -> a.owner # c.key
          [] c.c = "has_one"       ->
               <<"key", call.accounts[IndexOf(s, c.n)].key>> \notin
                 ReadField(LayoutOf(s.fields[i]), c.n, a.data, DiscLen)
          [] c.c = "discriminator" -> ~HasPrefix(a.data, c.bytes)
          [] c.c = "address"       -> a.key # c.key
          [] c.c = "executable"    -> ~a.executable
          [] c.c = "program"       -> ~a.executable \/ a.key # c.key
          [] c.c = "rent_exempt"   -> ~(a.lamports >= RentMinimum(Len(a.data)))
          [] c.c = "zero"          -> ~HasPrefix(a.data, ZeroDisc)
          [] c.c = "at_least"      ->
               ~\E v \in ReadField(LayoutOf(s.fields[i]), c.n, a.data, DiscLen) :
                  v[1] = "nat" /\ v[2] >= c.min
          [] OTHER                 -> FALSE

ErrorOf(c) ==
    CASE c.c = "signer"        -> "MissingSigner"
      [] c.c = "mut"           -> "NotWritable"
      [] c.c \in {"owner", "program"} -> "WrongOwner"
      [] c.c = "has_one"       -> "WrongHasOne"
      [] c.c = "discriminator" -> "WrongDiscriminator"
      [] c.c = "address"       -> "WrongAddress"
      [] c.c = "executable"    -> "NotExecutable"
      [] c.c = "rent_exempt"   -> "NotRentExempt"
      [] c.c = "zero"          -> "NotZeroed"
      [] OTHER                 -> "ConstraintViolated"

\* The first error of a list of verdicts.
FirstError(verdicts) ==
    IF \A k \in DOMAIN verdicts : verdicts[k] = "Ok" THEN "Ok"
    ELSE verdicts[CHOOSE k \in DOMAIN verdicts :
                    verdicts[k] # "Ok" /\ \A j \in 1..k - 1 : verdicts[j] = "Ok"]

FieldError(s, call, i) ==
    LET cs   == Effective(s.fields[i])
        own  == [k \in DOMAIN cs |->
                   IF Refuses(s, call, i, cs[k]) THEN ErrorOf(cs[k]) ELSE "Ok"]
        pda  == IF Has(s.fields[i], "seeds") THEN PdaError(s, call, i) ELSE "Ok"
    IN  FirstError(<<FirstError(own), pda>>)

IsMut(f)     == Has(f, "mut")
Allows(f, n) == \E k \in Listed(f, {"allow_duplicate"}) : f.cs[k].n = n
Exempt(f, g) == Allows(f, g.name) \/ Allows(g, f.name)

\* Mutants: fields next to one another are not compared; the opt-out counts on
\* the first of the two only.
DuplicatesApart(s, call) ==
    \E i, j \in DOMAIN s.fields :
       /\ i + 1 < j /\ IsMut(s.fields[i]) /\ IsMut(s.fields[j])
       /\ ~Exempt(s.fields[i], s.fields[j])
       /\ call.accounts[i].key = call.accounts[j].key
DuplicatesOneWay(s, call) ==
    \E i, j \in DOMAIN s.fields :
       /\ i < j /\ IsMut(s.fields[i]) /\ IsMut(s.fields[j])
       /\ ~Allows(s.fields[i], s.fields[j].name)
       /\ call.accounts[i].key = call.accounts[j].key

Duplicates(s, call) ==
    \E i, j \in DOMAIN s.fields :
       /\ i < j /\ IsMut(s.fields[i]) /\ IsMut(s.fields[j])
       /\ ~Exempt(s.fields[i], s.fields[j])
       /\ call.accounts[i].key = call.accounts[j].key

Validate(s, call) ==
    IF Len(call.accounts) < Len(s.fields) THEN "NotEnoughAccounts"
    ELSE FirstError([i \in DOMAIN s.fields |-> FieldError(s, call, i)]
                      \o <<IF Duplicates(s, call) THEN "DuplicateAccount" ELSE "Ok">>)

-----------------------------------------------------------------------------
\* The Lean specification emitted for the struct, and the contract it states.

LeanImplied(f) ==
    CASE f.kind = "account"   -> {[c |-> "owner", key |-> ProgramId],
                                  [c |-> "discriminator", bytes |-> f.disc]}
      [] f.kind = "signer"    -> {[c |-> "signer"]}
      [] f.kind = "system"    -> {[c |-> "owner", key |-> SystemId]}
      [] f.kind = "program"   -> {[c |-> "executable"], [c |-> "address", key |-> f.id]}
      [] f.kind = "unchecked" -> {}

LeanKinds == {"signer", "mut", "owner", "has_one", "seeds", "discriminator",
              "address", "executable", "rent_exempt", "zero", "at_least"}
Lifecycle == {"init", "close", "realloc", "init_if_needed"}

\* The first bump of the field, of whatever kind.
BumpSpec(f) ==
    IF Listed(f, {"canonical", "declared", "stored"}) = {} THEN [c |-> "canonical"]
    ELSE First(f, {"canonical", "declared", "stored"})

\* argBytes: the same two arms, over the Lean walk.
LeanArgBytes(s, instr, n) ==
    UNION {LET prefixed == at[2].k \in {"string", "vec"}
               from == IF prefixed THEN at[1] + PrefixLen ELSE at[1]
               sizes == IF prefixed THEN LeanReadUIntLE(instr, at[1], PrefixLen)
                        ELSE LeanEncodedWidth(at[2], instr, at[1])
           IN  {SubSeq(instr, from + 1, from + n2) :
                  n2 \in {m \in sizes : from + m <= Len(instr)}} :
             at \in LeanLocate(ArgsLayout(s), n, instr, 0)}

\* resolveSeeds: what cannot be resolved is empty, where validate refuses.
LeanSeed(s, call, e) ==
    IF e.e = "arg" THEN LeanArgBytes(s, call.instr, e.n) ELSE SeedBytes(s, call, e)

LeanResolve(s, call, c) ==
    [j \in DOMAIN c.seeds |->
       IF LeanSeed(s, call, Elems(s, c)[j]) = {} THEN << >>
       ELSE The(LeanSeed(s, call, Elems(s, c)[j]))]

LeanCreate(seeds, pid) == Hash(FlattenSeq(seeds), pid)

LeanFind(seeds, pid) ==
    LET at(b) == LeanCreate(Append(seeds, <<b>>), pid)
        hits  == {b \in Byte : at(b) # {}}
    IN  {[key |-> The(at(b)), bump |-> b] : b \in FirstBump(hits, 0)}

SatisfiesSeeds(s, call, i, c) ==
    LET f     == s.fields[i]
        key   == call.accounts[i].key
        seeds == LeanResolve(s, call, c)
        b     == BumpSpec(f)
    IN  IF b.c = "stored"
        THEN /\ b.off < Len(call.instr)
             /\ key \in LeanCreate(Append(seeds, <<call.instr[b.off + 1]>>), DeriveId(f))
        ELSE \E r \in LeanFind(seeds, DeriveId(f)) :
               r.key = key /\ (b.c = "declared" => r.bump = b.bump)

Satisfies(s, call, i, c) ==
    LET a == call.accounts[i]
    IN  CASE c.c = "signer"        -> a.signer
          [] c.c = "mut"           -> a.writable
          [] c.c = "owner"         -> a.owner = c.key
          [] c.c = "executable"    -> a.executable
          [] c.c = "address"       -> a.key = c.key
          [] c.c = "rent_exempt"   -> a.lamports >= RentMinimum(Len(a.data))
          [] c.c = "discriminator" -> HasPrefix(a.data, c.bytes)
          [] c.c = "zero"          -> HasPrefix(a.data, ZeroDisc)
          [] c.c = "has_one"       ->
               <<"key", call.accounts[IndexOf(s, c.n)].key>> \in
                 LeanReadField(LayoutOf(s.fields[i]), c.n, a.data, DiscLen)
          [] c.c = "at_least"      ->
               \E v \in LeanReadField(LayoutOf(s.fields[i]), c.n, a.data, DiscLen) :
                  v[1] = "nat" /\ v[2] >= c.min
          [] c.c = "seeds"         -> SatisfiesSeeds(s, call, i, c)

\* What the field's entry in the specification lists.
LeanConstraints(f) ==
    LeanImplied(f) \cup {f.cs[k] : k \in Listed(f, LeanKinds)}

DistinctMutKeys(s, call) ==
    \A i, j \in DOMAIN s.fields :
       (i < j /\ IsMut(s.fields[i]) /\ IsMut(s.fields[j])
          /\ ~Exempt(s.fields[i], s.fields[j]))
         => call.accounts[i].key # call.accounts[j].key

Contract(s, call) ==
    /\ Len(s.fields) <= Len(call.accounts)
    /\ DistinctMutKeys(s, call)
    /\ \A i \in DOMAIN s.fields : \A c \in LeanConstraints(s.fields[i]) :
         Satisfies(s, call, i, c)

\* The derive registers a struct with lifecycle constraints for another
\* obligation (StructLifecycleWF); this one is about those without.
HasLifecycle(s) ==
    \E i \in DOMAIN s.fields : Listed(s.fields[i], Lifecycle) # {}
=============================================================================
