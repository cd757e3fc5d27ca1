-------------------------- MODULE MCStructLifecycle --------------------------
(* Structs of an authority that pays and two more fields, each with up to  *)
(* two lifecycle constraints, over three keys: every way of passing them,  *)
(* the same key for several fields included.                               *)
EXTENDS StructLifecycle

CONSTANTS pda, alice, bob

MCKeys == {pda, alice, bob}
MCLens == {0, 8, 16, 32, 48}
MCRent == [len \in MCLens |-> IF len >= 32 THEN 3 ELSE IF len = 16 THEN 2 ELSE 1]

Plain(steps, dest, mut) ==
    [steps |-> steps, payer |-> 1, dest |-> dest, repayer |-> 1, newlen |-> 32,
     mut |-> mut, signer |-> FALSE, seeded |-> FALSE]
Seeded(f) == [f EXCEPT !.seeded = TRUE]

Authority == [Plain({}, 1, TRUE) EXCEPT !.signer = TRUE]

\* A close may or may not be `mut`, and may pay into the other field. An
\* account created here cannot grow to 48 bytes, one of 8 bytes can.
Forms(other) ==
    { Plain({}, 1, FALSE), Plain({"init"}, 1, TRUE), Plain({"init"}, 1, FALSE),
      Plain({"iin"}, 1, FALSE), Seeded(Plain({"iin"}, 1, FALSE)),
      Plain({"realloc"}, 1, TRUE), Plain({"init", "realloc"}, 1, TRUE),
      [Plain({"init", "realloc"}, 1, TRUE) EXCEPT !.newlen = 48],
      [Plain({"realloc"}, 1, TRUE) EXCEPT !.newlen = 8],
      Seeded([Plain({"iin", "realloc"}, 1, TRUE) EXCEPT !.newlen = 8]),
      [Plain({"init"}, 1, TRUE) EXCEPT !.payer = other],
      [Plain({"realloc"}, 1, TRUE) EXCEPT !.repayer = other] }
    \union { Plain({"close"}, dest, mut) : dest \in {1, other}, mut \in BOOLEAN }
    \union { Plain(steps, dest, TRUE) : dest \in {1, other},
                steps \in {{"init", "close"}, {"close", "realloc"}} }

MCStructs == { <<Authority, f, g>> : f \in Forms(3), g \in Forms(2) }

Acct(lamports, owner, len, disc) ==
    [lamports |-> lamports, owner |-> owner, len |-> len, disc |-> disc]
Wallet == Acct(6, "system", 0, "zero")
Vault  == Acct(2, "program", 8, "zero")
Alien  == Acct(1, "foreign", 8, "counter")
Typed  == Acct(2, "program", 16, "counter")

MCLedgers ==
    { l \in [MCKeys -> {Absent, Wallet, Vault, Alien, Typed}] :
        /\ l[alice] = Wallet
        /\ l[bob] # Typed
        /\ l[pda] \in {Absent, Typed} }

Message(signers, writable) == [signers |-> signers, writable |-> writable]
MCMessages == { Message({alice, bob}, MCKeys), Message({alice}, MCKeys),
                Message({alice}, {alice, bob}) }
=============================================================================
