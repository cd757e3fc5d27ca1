------------------------- MODULE VerifiedInstruction -------------------------
(***************************************************************************)
(* One instruction of a program that validates its accounts with the       *)
(* derive: validate, what try_accounts builds after it, and the handler.   *)
(***************************************************************************)
EXTENDS InstructionHandlers
LOCAL INSTANCE SequencesExt

CONSTANTS
    Instructions,   \* [name, s, entry]: a handler, its struct, what it calls
    Calls(_)        \* the accounts and instruction data a caller may send one

\* What the parser guarantees of a struct: fields and constraints in order, no
\* user constraint of the kind Program<P> implies, conditions in the proof only
\* on fields that can be found, names that tell arguments and fields of a type
\* apart; and what the structs here have in common, that a field has at most
\* one seeds and at most one bump constraint, and types and seeds are nested
\* three deep.
IsSequence(q) == q \in Seq({q[k] : k \in DOMAIN q})
BumpKinds     == {"canonical", "declared", "stored"}
WellFormed(s) ==
    /\ IsSequence(s.fields)
    /\ StructOf(s.args) \in Ty
    /\ \A j, m \in DOMAIN s.args : s.args[j].name = s.args[m].name => j = m
    /\ \A i \in DOMAIN s.fields : LET f == s.fields[i] IN
         /\ f.kind \in {"account", "signer", "system", "program", "unchecked"}
         /\ StructOf(f.ty) \in Ty
         /\ IsSequence(f.cs) /\ ~Has(f, "program")
         /\ \A k \in Listed(f, {"seeds"}) : f.cs[k].seeds \in Seq(SeedExpr)
         /\ \A k, m \in Listed(f, {"seeds"}) : k = m
         /\ \A k, m \in Listed(f, BumpKinds) : k = m
         /\ \A j, m \in DOMAIN f.ty : f.ty[j].name = f.ty[m].name => j = m
         /\ \A k \in Listed(f, {"at_least"}) :
              /\ f.kind = "account" /\ HasTopLevelField(LayoutOf(f), f.cs[k].n)
              /\ \A t \in TopLevelField(LayoutOf(f), f.cs[k].n) : t.k = "uint"

Key     == [1..KeyLen -> Byte]
AccountInfo ==
    [key : Key, owner : Key, signer : BOOLEAN, writable : BOOLEAN,
     executable : BOOLEAN, lamports : Nat, data : Bytes]

ASSUME InstructionAssumption ==
    \A p \in Instructions :
       /\ WellFormed(p.s)
       /\ \A q \in Process : p.name = q.name => p = q
       /\ \A c \in Calls(p) :
            /\ c.accounts \in Seq(AccountInfo) /\ c.instr \in Bytes
            /\ Len(c.instr) <= UsizeMax
            /\ \A i \in DOMAIN c.accounts : Len(c.accounts[i].data) <= UsizeMax

VARIABLES
    ins,     \* the instruction that runs
    call,    \* what it was sent
    phase,   \* how far it is
    error,   \* why it stopped
    built,   \* what try_accounts returned: values of Account<T> fields, bumps
    after    \* the accounts when the handler is through
vars == <<ins, call, phase, error, built, after>>

NotBuilt == [values |-> << >>, bumps |-> << >>]

Init == /\ ins \in {p \in Instructions : Compiles(p.s)}
        /\ call \in Calls(ins)
        /\ phase = "called" /\ error = "Ok"
        /\ built = NotBuilt
        /\ after = call.accounts

\* Mutant: the error is dropped.
StopSilently(p, e) == phase' = p /\ UNCHANGED <<ins, call, error, built, after>>
Stop(p, e) == phase' = p /\ error' = e /\ UNCHANGED <<ins, call, built, after>>

DoValidate ==
    /\ phase = "called"
    /\ \E verdict \in {Validate(ins.s, call)} :
         IF verdict # "Ok" THEN Stop("refused", verdict)
         ELSE phase' = "validated" /\ UNCHANGED <<ins, call, error, built, after>>

\* try_accounts behind validate: deserialise every Account<T>, run the checks of
\* the hatch, derive the canonical bump of every field with seeds.
TypedFields(s)  == {i \in DOMAIN s.fields : s.fields[i].kind = "account"}
SeededFields(s) == {i \in DOMAIN s.fields : Has(s.fields[i], "seeds")}

Deserialised(s, c, i) ==
    LET data == c.accounts[i].data
    IN  IF Len(data) < DiscLen THEN {}
        ELSE TryFromSlice(StructOf(s.fields[i].ty), data, DiscLen)

HatchRefuses(i) == \E k \in Listed(ins.s.fields[i], {"hatch"}) :
                     call.accounts[i].key # ins.s.fields[i].cs[k].key

\* Mutant: derived under the program's own id.
BumpOwn(i) ==
    LET c == First(ins.s.fields[i], {"seeds"})
    IN  IF Resolved(ins.s, call, c)
        THEN {r.bump : r \in FindAddress(SeedList(ins.s, call, c), ProgramId)}
        ELSE {}

Bump(i) ==
    LET f == ins.s.fields[i]
        c == First(f, {"seeds"})
    IN  IF Resolved(ins.s, call, c)
        THEN {r.bump : r \in FindAddress(SeedList(ins.s, call, c), DeriveId(f))}
        ELSE {}

DoConstruct ==
    /\ phase = "validated" /\ ins.entry = "try_accounts"
    /\ IF \E i \in TypedFields(ins.s) : Deserialised(ins.s, call, i) = {} THEN Stop("failed", "BorshFailed")
       ELSE IF \E i \in DOMAIN ins.s.fields : HatchRefuses(i)
       THEN Stop("failed", "ConstraintViolated")
       ELSE IF \E i \in SeededFields(ins.s) : Bump(i) = {} THEN Stop("failed", "Panic")
       ELSE /\ phase' = "built"
            /\ built' = [values |-> [i \in TypedFields(ins.s) |-> The(Deserialised(ins.s, call, i))],
                         bumps  |-> [i \in SeededFields(ins.s) |-> The(Bump(i))]]
            /\ UNCHANGED <<ins, call, error, after>>

DoHandle ==
    /\ phase = IF ins.entry = "validate" THEN "validated" ELSE "built"
    /\ LET outcomes == {a \in Effect(ins.name, call.accounts) :
                          Permitted(call.accounts, a)}
       IN  IF outcomes = {} THEN Stop("failed", "Failed")
           ELSE /\ phase' = "done" /\ after' \in outcomes
                /\ UNCHANGED <<ins, call, error, built>>

Next == DoValidate \/ DoConstruct \/ DoHandle

Spec == Init /\ [][Next]_vars

-----------------------------------------------------------------------------
\* One type invariant: the phases, and that nothing is built or written before
\* its phase or by an instruction that was refused.
TypeOK ==
    /\ phase \in {"called", "refused", "validated", "built", "failed", "done"}
    /\ \A j \in DOMAIN call.accounts : call.accounts[j] \in AccountInfo
    /\ call.instr \in Bytes
    /\ phase # "done" => after = call.accounts
    /\ \A j \in DOMAIN after : after[j] \in AccountInfo
    /\ (error # "Ok") = (phase \in {"refused", "failed"})
    /\ phase = "called" => built = NotBuilt
    /\ \A i \in DOMAIN built.bumps : built.bumps[i] \in Byte

ReadsAgreeOn(s, c) ==
    /\ \A i \in DOMAIN s.fields : i \in DOMAIN c.accounts =>
         LET t == LayoutOf(s.fields[i])
         IN  \A j \in DOMAIN t.fs :
               ReadField(t, t.fs[j].name, c.accounts[i].data, DiscLen)
                 = LeanReadField(t, t.fs[j].name, c.accounts[i].data, DiscLen)
    /\ \A n \in Mappable(s) : ArgSeed(s, c.instr, n) = LeanArgBytes(s, c.instr, n)

\* The Rust walk, with a usize that overflows and its shortcut over vectors,
\* reads at every field and argument name what the Lean walk over unbounded
\* numbers reads, whatever the bytes are.
\* Code: encoded_width, locate and read_val against Locate.lean; the seeds'
\* arg_field_seed_expr against argBytes.
ReadsAgree == phase = "called" => ReadsAgreeOn(ins.s, call)

\* An array of Strings, Vecs or Options, which encoded_width cannot step over.
NoWidth(t) ==
    LET stuck[u \in Ty] ==
          \/ u.k = "array" /\ (ByteSize(u.of) = {} \/ stuck[u.of])
          \/ u.k \in {"vec", "option"} /\ stuck[u.of]
    IN  stuck[t]

\* What a checked field is read as, where the bytes are a value of the
\* account's type: nothing but the value Borsh decodes, and that value unless
\* a field in front cannot be stepped over.
ReadsBorshOn(s, c, i) ==
    LET t    == LayoutOf(s.fields[i])
        read(j) == ReadField(t, t.fs[j].name, c.accounts[i].data, DiscLen)
    IN  \A v \in Deserialised(s, c, i) : \A j \in DOMAIN t.fs :
          t.fs[j].ty.k \in {"uint", "int", "bool", "pubkey"} =>
            /\ read(j) \subseteq {v[j]}
            /\ (\A m \in 1..j - 1 : ~NoWidth(t.fs[m].ty)) => read(j) = {v[j]}

\* Fields are read as Borsh decodes them, wherever the fields in front put them
\* and however the type goes on behind the field that cuts its descriptor.
\* Code: locate from offset 8, and the cut in derive(AccountData).
LocatorIsBorsh ==
    phase = "called" =>
      \A i \in TypedFields(ins.s) \cap DOMAIN call.accounts :
        ReadsBorshOn(ins.s, call, i)

\* What validate accepts meets the contract the struct's Lean specification
\* states. Code: validate_body against lean_spec_string and Validates.lean.
AcceptedMeetsContract ==
    phase \in {"validated", "built", "done"} /\ ~HasLifecycle(ins.s)
      => Contract(ins.s, call)

\* The derivation of field f does not fail for the seeds themselves.
Derivable(f, seeds) ==
    IF Has(f, "stored") THEN WithinLimits(Append(seeds, <<0>>))
    ELSE FindAddress(seeds, DeriveId(f)) # {}

SeedsViable(s, c) ==
    \A i \in SeededFields(s) : i \in DOMAIN c.accounts =>
      LET d == First(s.fields[i], {"seeds"})
      IN  Resolved(s, c, d) /\ Derivable(s.fields[i], SeedList(s, c, d))

\* What validate refuses does not meet it, if every seed has bytes and the
\* address can be derived: with a stored bump, from no seed too many or too
\* long; with any other, at a bump above 0, where the code does not panic.
\* Code: the error paths of validate_body against Validates.lean.
RefusedFailsContract ==
    phase = "refused" /\ ~HasLifecycle(ins.s) /\ SeedsViable(ins.s, call)
      => ~Contract(ins.s, call)

\* Anchor decodes the declared arguments in order, all of them, and knows them
\* by name before the accounts: argument j is between the ends of what is
\* decoded without and with it, a String or Vec behind its prefix.
AnchorArg(s, instr, n) ==
    LET upto(j)  == Decode(StructOf(SubSeq(s.args, 1, j)), instr, 0)
        front(j) == IF s.args[j].ty.k \in {"string", "vec"} THEN PrefixLen ELSE 0
    IN  UNION {{SubSeq(instr, x[2] + 1 + front(j), y[2]) : x \in upto(j - 1), y \in upto(j)} :
                 j \in {j \in DOMAIN s.args : s.args[j].name = n}}

\* What an expression is, given what it is made of.
AnchorBytes(s, c, value, e) ==
    CASE e.k \in {"bytes", "str"} -> {e.b}
      [] e.k = "slice" -> {Slice(c.instr, e.off, e.len)}
      [] e.k = "name"  -> IF e.n \in Declared(s) THEN AnchorArg(s, c.instr, e.n)
                          ELSE {c.accounts[IndexOf(s, e.n)].key}
      [] e.k = "call" /\ e.m = "key" -> {c.accounts[IndexOf(s, e.of.n)].key}
      [] e.k = "call" /\ e.m = "to_be_bytes" -> {Reverse(b) : b \in value[e.of]}
      [] OTHER -> value[e.of]

AnchorSeed(s, c, expr) ==
    LET value[e \in SeedExpr] == AnchorBytes(s, c, value, e) IN value[expr]

\* No argument in front of the one named n keeps the walk from it.
Reached(s, n) ==
    \A j \in DOMAIN s.args : s.args[j].name = n =>
      \A m \in 1..j - 1 : ~NoWidth(s.args[m].ty)

\* A seed has the bytes the same source has under Anchor, those or none if it is
\* an argument behind one that cannot be stepped over.
\* Code: parse_seed_elem, the resolution of bare names, arg_field_seed_expr.
SeedMeansAnchor ==
    /\ phase = "called" /\ Len(call.accounts) >= Len(ins.s.fields)
    /\ Decode(StructOf(ins.s.args), call.instr, 0) # {}
    => \A i \in SeededFields(ins.s) :
         LET exprs == First(ins.s.fields[i], {"seeds"}).seeds
         IN  \A j \in DOMAIN exprs :
               LET seed   == The(Seed(ins.s, exprs[j]))
                   bytes  == SeedBytes(ins.s, call, seed)
                   anchor == AnchorSeed(ins.s, call, exprs[j])
               IN  /\ bytes \subseteq anchor
                   /\ (seed.e = "arg" => Reached(ins.s, seed.n)) => bytes = anchor

\* The values a handler gets are the ones validation looked at: the field a
\* has_one names is the key of the account it was compared with, an at_least
\* field is large enough. Code: has_one of validate_body, field_inits.
HandlerSeesWhatWasChecked ==
    \A i \in DOMAIN built.values : \A k \in Listed(ins.s.fields[i], {"has_one", "at_least"}) :
      LET f == ins.s.fields[i]
          v == built.values[i][CHOOSE j \in DOMAIN f.ty : f.ty[j].name = f.cs[k].n]
      IN  IF f.cs[k].c = "has_one"
          THEN v = <<"key", call.accounts[IndexOf(ins.s, f.cs[k].n)].key>>
          ELSE v[2] >= f.cs[k].min

\* A bump handed to the handler derives the account it came with, under the
\* program the field names; the stored, not canonical, bump is exempt.
\* Code: the PDA block of validate_body against the Bumps of try_accounts.
BumpsDeriveAccount ==
    \A i \in DOMAIN built.bumps :
      LET f == ins.s.fields[i]
      IN  ~Has(f, "stored") =>
            call.accounts[i].key \in
              CreateAddress(Append(SeedList(ins.s, call, First(f, {"seeds"})),
                                   <<built.bumps[i]>>), DeriveId(f))

Stored(i, n) ==
    LET ty == ins.s.fields[i].ty
        j  == CHOOSE j \in DOMAIN ty : ty[j].name = n
    IN  {x[1][j] : x \in Decode(StructOf(ty), call.accounts[i].data, DiscLen)}

\* What a handler leaves behind was earned: the amount echoed is the one stored
\* in the account of the right owner and parent (if that is UTF-8), a flag is set for the stored
\* authority that signed, a key written is derived from the signer or argument.
\* Code: the verified_* handlers and process.
EffectIsEarned ==
    phase = "done" =>
      LET a == call.accounts
          written(j) == after[j].data # a[j].data
          amount(j)  == {<<"nat", n>> : n \in ReadU64(after[j].data, 0)}
          pda(i)     == \E b \in Byte :
                          a[i].key \in CreateAddress(Append(SeedList(ins.s, call,
                            First(ins.s.fields[i], {"seeds"})), <<b>>), ProgramId)
      IN  CASE ins.name = "cashio" -> /\ amount(3) = Stored(1, "amount")
                                      /\ Stored(1, "bank") = {<<"key", a[2].key>>}
                                      /\ a[1].owner = ProgramId
            [] ins.name \in {"confusion", "wrong_offset"} ->
                 written(3) => /\ Stored(1, "authority") = {<<"key", a[2].key>>}
                               /\ a[2].signer /\ a[1].owner = ProgramId
                               /\ HasPrefix(a[1].data, Disc)
            [] ins.name = "crema" -> /\ a[1].owner = AMM_PROG
                                     /\ ReadU64(after[2].data, 0) = ReadU64(a[1].data, 0)
            [] ins.name = "seeds" -> written(3) => pda(2) /\ a[1].signer
            [] ins.name = "after_string" ->
                 /\ \A v \in Stored(1, "amount") : amount(2) = {v}
                 /\ \A n \in ReadU64(after[2].data, 0) : n >= LeastAmount
            [] ins.name = "named_seed" -> written(2) => pda(1)
            [] ins.name = "hatch" -> written(2) => a[1].key = ProgramId
            [] OTHER -> after = a \/ ins.name = "dup"

\* Moving an amount between two accounts neither makes nor loses any, if it is
\* there and fits. Code: verified_dup behind the distinct-key check.
TransferConserves ==
    phase = "done" /\ ins.name = "dup" =>
      \A x \in ReadU64(call.accounts[1].data, 0), y \in ReadU64(call.accounts[2].data, 0) :
        x >= Moved /\ y + Moved <= U64Max =>
          /\ ReadU64(after[1].data, 0) = {x - Moved}
          /\ ReadU64(after[2].data, 0) = {y + Moved}

-----------------------------------------------------------------------------
\* What the documentation says and the code does not do.

\* "A target unlocatable in T::LAYOUT is a build error, not a runtime brick":
\* a well-typed account whose field names the account given is not refused for
\* it. Code: has_top_level_pubkey_field looks at the descriptor, locate has to
\* step over the fields in front.
GuardedFieldIsFound ==
    error = "WrongHasOne" =>
      \E i \in TypedFields(ins.s) : \E k \in Listed(ins.s.fields[i], {"has_one"}) :
        \A v \in Deserialised(ins.s, call, i) :
          LET f == ins.s.fields[i]
          IN  v[CHOOSE j \in DOMAIN f.ty : f.ty[j].name = f.cs[k].n]
                # <<"key", call.accounts[IndexOf(ins.s, f.cs[k].n)].key>>

\* "init_if_needed is a genuine drop-in": try_accounts lets a fresh account
\* through to the step that creates it. Code: field_inits deserialises it.
FreshIsAccepted ==
    error = "BorshFailed" =>
      ~\E i \in TypedFields(ins.s) : /\ Has(ins.s.fields[i], "init_if_needed")
                                     /\ call.accounts[i].owner = SystemId
                                     /\ call.accounts[i].data = << >>
=============================================================================
