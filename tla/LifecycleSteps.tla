--------------------------- MODULE LifecycleSteps ---------------------------
(***************************************************************************)
(* The four lifecycle steps `#[derive(VerifiedAccounts)]` emits into       *)
(* `execute_lifecycle`: init, close, realloc and init_if_needed.           *)
(*                                                                         *)
(* A step takes the ledger and returns a record:                           *)
(*    ok   the step returned Ok(())                                        *)
(*    cpi  the ledger when the System Program last returned to the program *)
(*         (what the runtime compares the program's own writes with)       *)
(*    out  the ledger after the program's own writes                       *)
(* A failing step leaves cpi and out unread: the transaction is undone.    *)
(***************************************************************************)
EXTENDS SolanaLedger

CONSTANT Pda    \* the address the seeds of the typed field derive to

DiscriminatorLen == 8

Done(cpi, out) == [ok |-> TRUE, cpi |-> cpi, out |-> out]
Failed(a)      == [ok |-> FALSE, cpi |-> a, out |-> a]

\* A data buffer keeps what its length leaves of the first eight bytes.
Prefix(len, disc) == IF len = 0 THEN "zero" ELSE disc

-----------------------------------------------------------------------------
\* Mistaken forms of a step, each just before the form the macro emits.  The
\* properties of OnChainProgram tell them apart.

\* init that stamps the discriminator of the typed account.
InitStepTyped(a, payer, target, rent, space, priv) ==
    LET created == CreateAccount(a, payer, target, rent,
                                 space + DiscriminatorLen, "program")
    IN  IF CanCreateAccount(a, payer, target, rent, priv)
        THEN Done(created, [created EXCEPT ![target].disc = "counter"])
        ELSE Failed(a)

\* init: create the account, then zero its discriminator.  The creation is
\* not signed with seeds, so the target itself must have signed.
InitStep(a, payer, target, rent, space, priv) ==
    LET created == CreateAccount(a, payer, target, rent,
                                 space + DiscriminatorLen, "program")
    IN  IF CanCreateAccount(a, payer, target, rent, priv)
        THEN Done(created, [created EXCEPT ![target].disc = "zero"])
        ELSE Failed(a)

\* close that forgets to zero the target's lamports.
CloseStepKeeping(a, target, dest) ==
    LET credited == [a EXCEPT ![dest].lamports = @ + a[target].lamports]
    IN  Done(a, [credited EXCEPT
                   ![target].disc = Prefix(a[target].len, "closed")])

\* close: credit the destination, empty the target, overwrite the start of
\* its data.  Length and owner stay, and the two may be the same account.
CloseStep(a, target, dest) ==
    LET credited == [a EXCEPT ![dest].lamports = @ + a[target].lamports]
    IN  Done(a, [credited EXCEPT
                   ![target].lamports = 0,
                   ![target].disc = Prefix(a[target].len, "closed")])

\* The resize at the end of a realloc, whatever was moved before it.
Resize(funded, vault, newlen, disc) ==
    Done(funded, [funded EXCEPT ![vault].len = newlen,
                                ![vault].disc = Prefix(newlen, disc)])

\* realloc that moves the lamports itself, without the payer's consent or
\* enough of them.
ReallocStepUnchecked(a, vault, payer, newlen, priv) ==
    LET delta == MinimumBalance[newlen] - a[vault].lamports
    IN  Resize(IF delta > 0 THEN MoveLamports(a, payer, vault, delta) ELSE a,
               vault, newlen, a[vault].disc)

\* realloc without the top-up.
ReallocStepUnfunded(a, vault, payer, newlen, priv) ==
    Resize(a, vault, newlen, a[vault].disc)

\* realloc that pays the difference of the two minimum balances.
ReallocStepByLength(a, vault, payer, newlen, priv) ==
    LET delta == MinimumBalance[newlen] - MinimumBalance[a[vault].len]
    IN  IF delta > 0
        THEN IF CanTransfer(a, payer, vault, delta, priv)
             THEN Resize(MoveLamports(a, payer, vault, delta), vault, newlen,
                         a[vault].disc)
             ELSE Failed(a)
        ELSE Resize(a, vault, newlen, a[vault].disc)

\* realloc that pays the whole minimum balance when any is missing.
ReallocStepInFull(a, vault, payer, newlen, priv) ==
    LET min == MinimumBalance[newlen]
    IN  IF a[vault].lamports < min
        THEN IF CanTransfer(a, payer, vault, min, priv)
             THEN Resize(MoveLamports(a, payer, vault, min), vault, newlen,
                         a[vault].disc)
             ELSE Failed(a)
        ELSE Resize(a, vault, newlen, a[vault].disc)

\* realloc that also refunds what a shorter account no longer needs.
ReallocStepRefunding(a, vault, payer, newlen, priv) ==
    LET min   == MinimumBalance[newlen]
        delta == min - a[vault].lamports
        surplus == MoveLamports(a, vault, payer, a[vault].lamports - min)
    IN  IF delta > 0
        THEN IF CanTransfer(a, payer, vault, delta, priv)
             THEN Resize(MoveLamports(a, payer, vault, delta), vault, newlen,
                         a[vault].disc)
             ELSE Failed(a)
        ELSE Done(a, Resize(surplus, vault, newlen, a[vault].disc).out)

\* realloc: top the account up to the minimum balance of the new length if
\* it holds less, then resize it.  The length an account may grow by within
\* an instruction depends on what it was at its start: see StructLifecycle.
ReallocStep(a, vault, payer, newlen, priv) ==
    LET min    == MinimumBalance[newlen]
        short  == a[vault].lamports < min
        delta  == min - a[vault].lamports
        funded == IF short THEN MoveLamports(a, payer, vault, delta) ELSE a
    IN  IF short => CanTransfer(a, payer, vault, delta, priv)
        THEN Resize(funded, vault, newlen, a[vault].disc)
        ELSE Failed(a)

\* init_if_needed's test for a fresh account.
NeedsInit(acct) == acct.len < DiscriminatorLen \/ acct.disc = "zero"

\* init_if_needed that stamps the discriminator on both branches.
InitIfNeededStepStamping(a, payer, target, rent, space, priv) ==
    LET len     == space + DiscriminatorLen
        created == CreateAccount(a, payer, target, rent, len, "program")
        fresh   == NeedsInit(a[target])
    IN  CASE fresh /\ CanCreateAccount(a, payer, target, rent, priv)
               -> Done(created, [created EXCEPT ![target].disc = "counter"])
          [] ~fresh /\ a[target].owner = "program" /\ a[target].len >= len
               -> Done(a, [a EXCEPT ![target].disc = "counter"])
          [] OTHER -> Failed(a)

\* init_if_needed on a typed field.  A fresh account is created, which without
\* seeds it must have signed for itself, and gets the discriminator of its
\* type.  Any other account is accepted as it is if the program owns it and it
\* is long enough.
InitIfNeededStep(a, payer, target, rent, space, priv) ==
    LET len     == space + DiscriminatorLen
        created == CreateAccount(a, payer, target, rent, len, "program")
        fresh   == NeedsInit(a[target])
    IN  CASE fresh /\ CanCreateAccount(a, payer, target, rent, priv)
               -> Done(created, [created EXCEPT ![target].disc = "counter"])
          [] ~fresh /\ a[target].owner = "program" /\ a[target].len >= len
               -> Done(a, a)
          [] OTHER -> Failed(a)

\* init_if_needed on a field with seeds: a fresh account is created only at the
\* address they derive to, and the program signs for it.
SeededInitIfNeededStep(a, payer, target, rent, space, priv) ==
    IF NeedsInit(a[target]) /\ target # Pda THEN Failed(a)
    ELSE InitIfNeededStep(a, payer, target, rent, space,
                          [priv EXCEPT !.signers = @ \union {Pda}])
=============================================================================
