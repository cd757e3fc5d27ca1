------------------------- MODULE InstructionHandlers -------------------------
(***************************************************************************)
(* The account structs of the exploit suite (verified-anchor-exploits) and *)
(* of the instructions of verified-anchor-program that only validate, and  *)
(* what their handlers do once validation has accepted. A handler is a set *)
(* of outcomes: {accounts after it}, or {} where it fails or panics.       *)
(***************************************************************************)
EXTENDS AccountValidation

CONSTANTS
    AmountLen,   \* bytes of a u64 (8)
    AMM_PROG,    \* the owner verified_crema expects
    FOREIGN,     \* FOREIGN_PROGRAM
    Moved,       \* what dup moves (40)
    LeastAmount, \* the 1000 of `vault.amount >= 1000`
    VAULT        \* the literal seed b"vault"

ASSUME HandlersAssumption == AmountLen \in Nat /\ Moved \in Nat

U64    == [k |-> "uint", w |-> AmountLen]
Pubkey == [k |-> "pubkey"]
Field(n, t) == [name |-> n, ty |-> t]

\* Fields of an accounts struct.
Account(n, ty, disc, cs) ==
    [name |-> n, kind |-> "account", ty |-> ty, disc |-> disc, cs |-> cs]
Bare(n, kind, cs) == [name |-> n, kind |-> kind, ty |-> << >>, disc |-> << >>, cs |-> cs]
Unchecked(n, cs)  == Bare(n, "unchecked", cs)
Signer(n)         == Bare(n, "signer", << >>)

C(kind)       == [c |-> kind]
HasOne(n)     == [c |-> "has_one", n |-> n]
Seeds(exprs)  == [c |-> "seeds", seeds |-> exprs]
Literal(b)    == [k |-> "bytes", b |-> b]
Named(n)      == [k |-> "name", n |-> n]
Call(m, e)    == [k |-> "call", m |-> m, of |-> e]
Out           == Unchecked("out", <<C("mut")>>)
NoArgs(fs)    == [fields |-> fs, args |-> << >>]

Disc          == [i \in 1..DiscLen |-> 1]

VerifiedCashio == NoArgs(
    <<Account("collateral", <<Field("bank", Pubkey), Field("amount", U64)>>, Disc,
              <<HasOne("bank")>>),
      Unchecked("bank", << >>), Out>>)
VerifiedConfusion == NoArgs(
    <<Account("vault", <<Field("authority", Pubkey)>>, Disc, << >>),
      Signer("authority"), Out>>)
VerifiedWrongOffset == NoArgs(
    <<Account("vault", <<Field("admin", Pubkey), Field("authority", Pubkey)>>, Disc,
              <<HasOne("authority")>>),
      Signer("authority"), Out>>)
VerifiedDup == NoArgs(
    <<Unchecked("from", <<C("mut")>>), Unchecked("to", <<C("mut")>>)>>)
VerifiedCrema == NoArgs(
    <<Unchecked("price", <<[c |-> "owner", key |-> AMM_PROG]>>), Out>>)
VerifiedSeeds == NoArgs(
    <<Signer("user"),
      Unchecked("vault", <<Seeds(<<Literal(VAULT), Call("key", Named("user"))>>),
                           C("canonical")>>), Out>>)

CheckPda == NoArgs(
    <<Unchecked("pda", <<Seeds(<<Literal(VAULT), [k |-> "slice", off |-> 0, len |-> 2]>>),
                         C("canonical")>>)>>)
CheckStoredBump == NoArgs(
    <<Unchecked("pda", <<Seeds(<<Literal(VAULT)>>), [c |-> "stored", off |-> 0]>>)>>)
CheckForeignPda == NoArgs(
    <<Unchecked("pda", <<Seeds(<<Literal(VAULT)>>),
                         [c |-> "seeds_program", key |-> FOREIGN], C("canonical")>>)>>)
CheckRentExempt == NoArgs(<<Unchecked("vault", <<C("rent_exempt")>>)>>)
CheckRentSkip   == NoArgs(<<Unchecked("vault", <<C("rent_skip")>>)>>)
CheckConstraintAfterString == NoArgs(
    <<Account("vault", <<Field("label", [k |-> "string"]), Field("amount", U64)>>, Disc,
              <<[c |-> "at_least", n |-> "amount", min |-> LeastAmount]>>), Out>>)
CheckNamedSeed ==
    [fields |-> <<Unchecked("pda", <<Seeds(<<Literal(VAULT),
                                             Call("as_bytes", Named("name"))>>),
                                     C("canonical")>>), Out>>,
     args |-> <<Field("name", [k |-> "string"])>>]
CheckEscapeHatchOnChain == NoArgs(
    <<Unchecked("a", <<[c |-> "hatch", key |-> ProgramId]>>), Out>>)

-----------------------------------------------------------------------------
ReadU64(data, off) == ReadUIntLE(data, off, AmountLen)

\* All bytes 0xff.
U64Max == LittleEndian([i \in 1..AmountLen |-> Base - 1], 0, AmountLen)

EncodeU64(n) ==
    LET rest[i \in 0..AmountLen] == IF i = 0 THEN n ELSE rest[i - 1] \div Base
    IN  [i \in 1..AmountLen |-> rest[i - 1] % Base]

\* Every entry of the list with that key is the same account.
Write(accounts, i, bytes) ==
    {[j \in DOMAIN accounts |->
        IF accounts[j].key # accounts[i].key THEN accounts[j]
        ELSE [accounts[j] EXCEPT !.data =
                bytes \o SubSeq(@, Len(bytes) + 1, Len(@))]] :
       fits \in {f \in {TRUE} : Len(bytes) <= Len(accounts[i].data)}}

Cashio(a) == UNION {Write(a, 3, EncodeU64(n)) :
                      n \in ReadU64(a[1].data, DiscLen + KeyLen)}

Confusion(a) ==
    IF Len(a[1].data) >= DiscLen + KeyLen /\ a[2].signer
         /\ Slice(a[1].data, DiscLen, KeyLen) = a[2].key
    THEN Write(a, 3, <<1>>) ELSE {a}

\* Both balances are read before either is written; the debit saturates, the
\* credit wraps in a release build.
Dup(a) ==
    UNION {UNION {Write(debited, 2, EncodeU64((to + Moved) % (U64Max + 1))) :
                    debited \in Write(a, 1, EncodeU64(IF from < Moved THEN 0
                                                      ELSE from - Moved))} :
             from \in ReadU64(a[1].data, 0), to \in ReadU64(a[2].data, 0)}

Crema(a) == UNION {Write(a, 2, EncodeU64(n)) : n \in ReadU64(a[1].data, 0)}

\* Walks the String on its own.
EchoAmount(a) ==
    UNION {UNION {Write(a, 2, EncodeU64(n)) :
                    n \in ReadU64(a[1].data, DiscLen + PrefixLen + len)} :
             len \in ReadUIntLE(a[1].data, DiscLen, PrefixLen)}

Effect(name, a) ==
    CASE name = "cashio"          -> Cashio(a)
      [] name = "confusion"       -> Confusion(a)
      [] name = "wrong_offset"    -> Write(a, 3, <<1>>)
      [] name = "dup"             -> Dup(a)
      [] name = "crema"           -> Crema(a)
      [] name = "seeds"           -> Write(a, 3, a[2].key)
      [] name = "after_string"    -> EchoAmount(a)
      [] name = "named_seed"      -> Write(a, 2, a[1].key)
      [] name = "hatch"           -> Write(a, 2, <<1>>)
      [] OTHER                    -> {a}

\* The runtime undoes an instruction that wrote to an account that is not
\* writable or not the program's.
Permitted(before, after) ==
    \A j \in DOMAIN before : after[j].data # before[j].data =>
                               before[j].writable /\ before[j].owner = ProgramId

\* What process runs for a tag, by the name of its struct, and the entry it
\* calls.
Program(name, s, entry) == [name |-> name, s |-> s, entry |-> entry]

Process ==
    {Program("cashio", VerifiedCashio, "validate"),
     Program("confusion", VerifiedConfusion, "validate"),
     Program("wrong_offset", VerifiedWrongOffset, "validate"),
     Program("dup", VerifiedDup, "validate"),
     Program("crema", VerifiedCrema, "validate"),
     Program("seeds", VerifiedSeeds, "validate"),
     Program("pda", CheckPda, "validate"),
     Program("stored_bump", CheckStoredBump, "validate"),
     Program("foreign_pda", CheckForeignPda, "validate"),
     Program("rent_exempt", CheckRentExempt, "validate"),
     Program("rent_skip", CheckRentSkip, "validate"),
     Program("after_string", CheckConstraintAfterString, "validate"),
     Program("named_seed", CheckNamedSeed, "validate"),
     Program("hatch", CheckEscapeHatchOnChain, "try_accounts")}
=============================================================================
