------------------------ MODULE MCVerifiedInstruction ------------------------
(***************************************************************************)
(* Instances of VerifiedInstruction: three byte values, keys of two bytes, *)
(* prefixes, amounts and discriminators of one, a usize of eight. The      *)
(* instructions are those of the programs, and small ones for what those   *)
(* do not use.                                                             *)
(***************************************************************************)
EXTENDS VerifiedInstruction
LOCAL INSTANCE SequencesExt

Upto(n)    == UNION {[1..m -> 0..2] : m \in 0..n}

MCProgramId == <<0, 1>>
MCSystemId  == <<0, 0>>
MCAmm       == <<0, 2>>
MCForeign   == <<1, 0>>
MCVault     == <<1>>
KeyA        == <<1, 1>>
KeyB        == <<2, 0>>
OutKey      == <<2, 2>>

\* A third of the inputs are on the curve.
MCHash(seeds, pid) ==
    LET h == FoldLeft(LAMBDA acc, b : (4 * acc + 8 * b + 1) % 27, pid[1] + 2 * pid[2], seeds)
    IN  IF h >= 18 THEN {} ELSE {<<(h % 9) \div 3, h % 3>>}
MCRentMinimum(len) == len + 1

-----------------------------------------------------------------------------
\* Accounts. One key is one account: a call that names it twice names the same.
Acct(key, owner, signer, writable, data) ==
    [key |-> key, owner |-> owner, signer |-> signer, writable |-> writable,
     executable |-> FALSE, lamports |-> 2, data |-> data]
Plain(key)   == Acct(key, MCSystemId, FALSE, FALSE, << >>)
\* The inputs <<2, 1>> and <<2, 2>> derive no address at the highest bump, the
\* latter and <<0>> none above bump 0.
Users        == {Acct(k, MCSystemId, sg, FALSE, << >>) : k \in {KeyA, KeyB}, sg \in BOOLEAN}
Outs         == {Acct(OutKey, o, FALSE, w, d) : o \in {MCProgramId, MCForeign},
                   w \in BOOLEAN, d \in {<<0, 0>>, << >>}}
GoodOut      == Acct(OutKey, MCProgramId, FALSE, TRUE, <<0, 0>>)
Vaults(datas) == {Acct(OutKey, MCProgramId, FALSE, FALSE, d) : d \in datas}
After(discs, tails) == {d \o t : d \in discs, t \in tails}
AnyKey       == [1..2 -> 0..2]

Send(accounts, instr) == [accounts |-> accounts, instr |-> instr]
Coherent(calls) ==
    {c \in calls : \A i, j \in DOMAIN c.accounts :
       c.accounts[i].key = c.accounts[j].key => c.accounts[i] = c.accounts[j]}

-----------------------------------------------------------------------------
\* Account types in front of a checked key, all buffers of up to five bytes
\* behind the discriminator.
U8 == U64
Vec(t)       == [k |-> "vec", of |-> t]
Option(t)    == [k |-> "option", of |-> t]
Array(t, n)  == [k |-> "array", of |-> t, n |-> n, literal |-> TRUE]
Const(t, n)  == [k |-> "array", of |-> t, n |-> n, literal |-> FALSE]
Str          == [k |-> "string"]
Enum         == [k |-> "other", w |-> 1]
Flag         == [k |-> "bool"]
Short        == [k |-> "int", w |-> 2]
Authority    == Field("authority", Pubkey)

Vault(name, ty) ==
    Program(name, NoArgs(<<Account("vault", ty, Disc, <<HasOne("authority")>>),
                           Unchecked("authority", << >>)>>), "try_accounts")
Behind(name, t) == Vault(name, <<Field("front", t), Authority>>)

Layouts ==
    {Vault("first", <<Authority, Field("rest", Enum), Field("more", U8)>>),
     Vault("fixed", <<Field("flag", Flag), Field("n", U8), Authority>>),
     Vault("enum_between", <<Field("n", Flag), Authority, Field("e", Enum),
                             Field("authority2", U8)>>),
     Vault("int", <<Authority, Field("short", Short)>>),
     Vault("enum_in_front", <<Field("e", Enum), Authority>>),
     Vault("not_a_key", <<Field("authority", Array(U8, 2))>>),
     Behind("string", Str), Behind("vec", Vec(U8)),
     Behind("vec_wide", Vec(Array(U8, 5))), Behind("vec_vec", Vec(Vec(U8))),
     Behind("vec_option", Vec(Option(U8))), Behind("option", Option(U8)),
     Behind("option_string", Option(Str)), Behind("array_array", Array(Array(U8, 1), 2)),
     Behind("const_array", Const(U8, 2))}
VariableArrays ==
    {Behind("array_string", Array(Str, 2)), Behind("array_option", Array(Option(U8), 2))}
LayoutNames == {p.name : p \in Layouts \cup VariableArrays}

LayoutCalls ==
    {Send(<<v, Plain(k)>>, << >>) : k \in {KeyA, KeyB},
       v \in Vaults(After({Disc}, Upto(5)))}

-----------------------------------------------------------------------------
\* Seeds: instruction data of up to four bytes, every key for the PDA.
Pda(name, args, seeds, more) ==
    Program(name, [fields |-> <<Unchecked("pda", <<Seeds(seeds)>> \o more),
                                Unchecked("user", << >>)>>, args |-> args], "try_accounts")
Canonical      == <<C("canonical")>>
Declare(b)     == <<[c |-> "declared", bump |-> b]>>
Ref(n)         == Call("as_ref", Named(n))

SeedCases ==
    {Pda("string_arg", <<Field("s", Str), Field("n", U8)>>,
         <<Literal(MCVault), Call("as_bytes", Named("s")), Call("to_le_bytes", Named("n"))>>,
         Canonical),
     Pda("key_arg", <<Field("o", Option(U8)), Field("who", Pubkey)>>, <<Ref("who")>>, << >>),
     Pda("vec_arg", <<Field("v", Vec(U8)), Field("w", Vec(U8))>>, <<Ref("w")>>, Canonical),
     Pda("behind_strings", <<Field("tags", Array(Str, 1)), Field("n", U8)>>,
         <<Call("to_le_bytes", Named("n"))>>, Canonical),
     Pda("wide_arg", <<Field("n", [k |-> "uint", w |-> 2])>>,
         <<Call("to_le_bytes", Named("n"))>>, Canonical),
     Pda("big_endian", <<Field("n", [k |-> "uint", w |-> 2])>>,
         <<Call("to_be_bytes", Named("n"))>>, Canonical),
     Pda("wide_vec", <<Field("v", Vec([k |-> "uint", w |-> 2]))>>,
         <<Call("as_bytes", Named("v"))>>, Canonical),
     Pda("account", << >>, <<Ref("user")>>, Canonical),
     Pda("both", <<Field("user", Pubkey)>>, <<Ref("user")>>, Canonical),
     Pda("dropped", <<Field("e", Enum), Field("user", Pubkey)>>, <<Ref("user")>>, Canonical),
     Pda("flag_arg", <<Field("b", Flag)>>, <<Ref("b")>>, Canonical),
     Pda("slice", << >>, <<[k |-> "slice", off |-> 1, len |-> 2]>>, Canonical),
     Pda("long", << >>, <<Literal(<<0, 1, 0>>), Ref("user")>>, Canonical),
     Pda("many", << >>, [j \in 1..4 |-> Literal(<<j % 3>>)], Canonical),
     Pda("many_stored", << >>, [j \in 1..4 |-> Literal(<<j % 3>>)], <<[c |-> "stored", off |-> 0]>>),
     Pda("declared", << >>, <<Call("key", Named("user"))>>, Declare(1)),
     Pda("stored", << >>, <<[k |-> "slice", off |-> 1, len |-> 1]>>, <<[c |-> "stored", off |-> 0]>>),
     Pda("foreign", <<Field("n", U8)>>, <<Call("to_le_bytes", Named("n")), Ref("user")>>,
         <<[c |-> "seeds_program", key |-> MCForeign]>> \o Canonical)}
SeedNames == {p.name : p \in SeedCases}

SeedCalls ==
    Coherent({Send(<<Plain(pda), Plain(user)>>, instr) :
                pda \in AnyKey, user \in {KeyA, <<2, 1>>, <<2, 2>>}, instr \in Upto(3)})

-----------------------------------------------------------------------------
\* One constraint or wrapper at a time, over every flag of an account.
One(name, f) == Program(name, NoArgs(<<f>>), "try_accounts")
OneOf(name, c) == One(name, Unchecked("x", <<c>>))

Singles ==
    {OneOf("is_signer", C("signer")), OneOf("is_mut", C("mut")),
     OneOf("is_address", [c |-> "address", key |-> KeyA]),
     OneOf("is_executable", C("executable")), OneOf("is_rent_exempt", C("rent_exempt")),
     OneOf("is_zero", C("zero")), OneOf("has_disc", [c |-> "discriminator", bytes |-> Disc]),
     OneOf("is_owned", [c |-> "owner", key |-> MCForeign]),
     One("account", Account("x", <<Field("n", U8)>>, Disc, <<C("mut"), C("signer")>>)),
     One("program", [id |-> KeyA] @@ Bare("x", "program", << >>)),
     One("system", Bare("x", "system", << >>)), One("signer", Signer("x"))}
SingleNames == {p.name : p \in Singles}

SingleCalls ==
    {Send(<<[key |-> k, owner |-> o, signer |-> sg, writable |-> w, executable |-> x,
             lamports |-> l, data |-> d]>>, << >>) :
       k \in {KeyA, KeyB}, o \in {MCProgramId, MCSystemId, MCForeign}, sg \in BOOLEAN,
       w \in BOOLEAN, x \in BOOLEAN, l \in {1, 2}, d \in {<< >>, <<0>>, <<1>>, <<1, 2>>}}

\* Three accounts that may be one another, and lists too short or too long.
Trio(name, c1, c2, c3) ==
    Program(name, NoArgs(<<Unchecked("x", c1), Unchecked("y", c2), Unchecked("z", c3)>>),
            "validate")
Mut(more)   == <<C("mut")>> \o more
May(n)      == <<[c |-> "allow_duplicate", n |-> n]>>
Trios ==
    {Trio("three_muts", Mut(<< >>), Mut(<< >>), Mut(<< >>)),
     Trio("two_muts", Mut(<< >>), << >>, Mut(<< >>)),
     Trio("may_forward", Mut(May("y")), Mut(<< >>), Mut(<< >>)),
     Trio("may_backward", Mut(<< >>), Mut(<< >>), Mut(May("x")))}
TrioNames == {p.name : p \in Trios}

TrioCalls ==
    {Send([i \in 1..n |-> Acct(ks[i], MCProgramId, FALSE, ws[ks[i][1]], <<0>>)], << >>) :
       n \in 0..4, ks \in [1..4 -> {MCForeign, KeyB, OutKey}], ws \in [1..2 -> BOOLEAN]}

\* An account that init_if_needed creates when it is fresh.
Config == Account("config", <<Field("admin", Pubkey)>>, Disc, <<C("init_if_needed")>>)
Fresh  == Program("init_config", NoArgs(<<Config, Signer("payer")>>), "try_accounts")
FreshCalls ==
    {Send(<<c, u>>, << >>) : u \in Users,
       c \in Vaults(After({Disc, ZeroDisc}, Upto(3)))
               \cup {Plain(OutKey), Acct(OutKey, MCForeign, FALSE, TRUE, <<1, 1, 1>>)}}

-----------------------------------------------------------------------------
\* What the handlers of the programs are sent.
Named3(owners, datas) ==
    {Acct(KeyA, o, FALSE, TRUE, d) : o \in owners, d \in datas}
TwoOwners == {MCProgramId, MCForeign}
Discs     == {Disc, ZeroDisc}

ProcessCalls(name) ==
    CASE name = "cashio" ->
           {Send(<<c, Plain(b), o>>, << >>) :
              c \in Named3(TwoOwners, After(Discs, Upto(4))), b \in {KeyB, <<1, 2>>},
              o \in {GoodOut}}
             \cup {Send(<<c, Plain(KeyB), o>>, << >>) : o \in Outs \cup {c2 : c2 \in
                     Named3({MCProgramId}, {<<1, 2, 0, 2>>})},
                   c \in Named3({MCProgramId}, {<<1, 2, 0, 2>>})}
      [] name \in {"confusion", "wrong_offset"} ->
           {Send(<<v, u, GoodOut>>, << >>) : u \in Users,
              v \in Named3(TwoOwners, After(Discs, Upto(4)))}
      [] name = "dup" ->
           {Send(<<x, y>>, << >>) :
              x \in {Acct(k, o, FALSE, w, d) : k \in {KeyA, KeyB}, o \in TwoOwners,
                       w \in BOOLEAN, d \in Upto(2)},
              y \in {Acct(KeyA, o, FALSE, TRUE, d) : o \in TwoOwners, d \in Upto(2)}}
      [] name = "crema" ->
           {Send(<<p, o>>, << >>) : o \in Outs,
              p \in {Acct(KeyA, w, FALSE, FALSE, d) : w \in TwoOwners \cup {MCAmm},
                       d \in Upto(2)}}
      [] name = "seeds" ->
           {Send(<<u, Plain(k), o>>, << >>) : u \in Users, k \in AnyKey, o \in Outs}
      [] name \in {"pda", "stored_bump", "foreign_pda"} ->
           {Send(<<Plain(k)>>, i) : k \in AnyKey, i \in Upto(3)}
      [] name \in {"rent_exempt", "rent_skip"} ->
           {Send(<<[Plain(KeyA) EXCEPT !.lamports = l, !.data = d]>>, << >>) :
              l \in 0..3, d \in Upto(2)}
      [] name = "after_string" ->
           {Send(<<v, GoodOut>>, << >>) : v \in Named3(TwoOwners, After(Discs, Upto(4)))}
             \cup {Send(<<v, v>>, << >>) : v \in Named3({MCProgramId}, After({Disc}, Upto(3)))}
      [] name = "named_seed" ->
           {Send(<<Plain(k), o>>, i) : k \in AnyKey, o \in Outs, i \in Upto(3)}
      [] name = "hatch" ->
           {Send(<<Plain(k), o>>, << >>) : k \in AnyKey, o \in Outs}

MCCalls(p) ==
    Coherent(CASE p.name \in LayoutNames -> LayoutCalls
               [] p.name \in SeedNames   -> SeedCalls
               [] p.name \in SingleNames -> SingleCalls
               [] p.name \in TrioNames   -> TrioCalls
               [] p = Fresh              -> FreshCalls
               [] OTHER                  -> ProcessCalls(p.name))

All    == Process \cup Layouts \cup VariableArrays \cup SeedCases \cup Singles
            \cup Trios \cup {Fresh}
Arrays == VariableArrays
Typed  == {Fresh}
=============================================================================
