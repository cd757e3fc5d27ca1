--------------------------- MODULE OnChainProgram ---------------------------
(***************************************************************************)
(* The BPF program of verified-anchor-program as the chain runs it: the    *)
(* `process` arms that change accounts (init, close, the two reallocs,     *)
(* init_if_needed), each `validate` followed by `execute_lifecycle`, and   *)
(* the zero check, inside transactions that mix them with instructions of  *)
(* the System Program and of other programs.                               *)
(*                                                                         *)
(* A transaction works on a copy of the accounts.  The first instruction   *)
(* that returns an error, or whose writes the runtime refuses, undoes the  *)
(* whole transaction.  An account drained by one instruction is still      *)
(* there, data and owner included, for the next one of the transaction.    *)
(***************************************************************************)
EXTENDS LifecycleSteps

CONSTANTS
    InitRent,        \* rent_lamports of tag 0
    CounterRent,     \* rent_lamports of tag 10
    Messages,        \* the privileges the messages of the model may grant
    Wallets,         \* the lamports each key holds before the program is used
    Amounts,         \* the lamports a System Program instruction may move
    CreateLens       \* the data lengths users create accounts with

\* None of these is near the 10 KiB an account may grow by in one instruction.
InitSpace    == 0
CounterSpace == 8
GrowLen      == 80
ShrinkLen    == 32
InitLen      == InitSpace + DiscriminatorLen
CounterLen   == CounterSpace + DiscriminatorLen

ASSUME ProgramAssumption ==
    /\ Pda \in Keys
    /\ {InitLen, CounterLen, GrowLen, ShrinkLen} \subseteq Lens
    /\ CreateLens \subseteq Lens
    /\ Amounts \subseteq Nat
    /\ Wallets \in [Keys -> Nat] /\ Wallets[Pda] = 0

\* `rent-exempt-ish lamports`: each fixed amount covers the account it funds.
ASSUME FundingAssumption ==
    /\ InitRent \in Nat /\ InitRent >= MinimumBalance[InitLen]
    /\ CounterRent \in Nat /\ CounterRent >= MinimumBalance[CounterLen]

\* Nobody holds a private key of a program-derived address.
ASSUME PdaAssumption ==
    Messages \subseteq [signers: SUBSET (Keys \ {Pda}), writable: SUBSET Keys]

VARIABLES
    chain,   \* [Keys -> Account], the committed accounts
    work,    \* [Keys -> Account], as the open transaction has changed them
    open,    \* BOOLEAN, a transaction is being executed
    priv,    \* the signers and writable accounts of its message
    last     \* the last instruction of the transaction and its outcome

vars == <<chain, work, open, priv, last>>

NoPrivileges == [signers |-> {}, writable |-> {}]

\* Outcomes of a program instruction: Ok; an error of validate; an error of
\* execute_lifecycle; a write the runtime refuses; a sum that changed.
Outcomes == {"ok", "rejected", "failed", "not_owner", "unbalanced"}
Ops == {"none", "external", "init", "close", "grow", "shrink", "zero", "iin"}

Observed(op, target, other, outcome) ==
    [op |-> op, target |-> target, other |-> other, outcome |-> outcome]
Nothing  == Observed("none", Pda, Pda, "ok")
External == Observed("external", Pda, Pda, "ok")

-----------------------------------------------------------------------------
(***************************************************************************)
(* Validation, one operator per `#[derive(VerifiedAccounts)]` struct.  sys *)
(* says whether the account passed as `system_program` is the executable   *)
(* System Program.                                                         *)
(***************************************************************************)
MutSigner(k) == k \in priv.signers \intersect priv.writable

ValidateInitOne(payer, sys) == MutSigner(payer) /\ sys

ValidateCloseOne(dest) == dest \in priv.writable

ValidateRealloc(vault, payer, sys) ==
    /\ vault \in priv.writable
    /\ MutSigner(payer)
    /\ sys
    /\ vault # payer                \* two `mut` fields, distinct keys

ValidateZeroCheck(data) ==
    work[data].len >= DiscriminatorLen /\ work[data].disc = "zero"

\* The wrapper's owner and discriminator checks are left out for this field.
ValidateInitIfNeeded(data, payer, sys) ==
    data = Pda /\ MutSigner(payer) /\ sys

-----------------------------------------------------------------------------
\* What becomes of an instruction whose validate said `valid` and whose
\* execute_lifecycle returned res.
Outcome(valid, res) ==
    CASE ~valid                                 -> "rejected"
      [] valid /\ ~res.ok                       -> "failed"
      [] valid /\ res.ok /\ ~WritesOwned(res.cpi, res.out, priv)
                                                -> "not_owner"
      [] valid /\ res.ok /\ WritesOwned(res.cpi, res.out, priv)
               /\ ~Balanced(work, res.out)      -> "unbalanced"
      [] OTHER                                  -> "ok"

\* Anything but Ok undoes the transaction.
Conclude(op, target, other, outcome, out) ==
    /\ open
    /\ last' = Observed(op, target, other, outcome)
    /\ work' = IF outcome = "ok" THEN out ELSE chain
    /\ open' = (outcome = "ok")
    /\ priv' = IF outcome = "ok" THEN priv ELSE NoPrivileges
    /\ UNCHANGED chain

ProcessInit(new, payer, sys) ==
    LET res == InitStep(work, payer, new, InitRent, InitSpace, priv)
    IN  Conclude("init", new, payer,
                 Outcome(ValidateInitOne(payer, sys), res), res.out)

ProcessClose(target, dest) ==
    LET res == CloseStep(work, target, dest)
    IN  Conclude("close", target, dest,
                 Outcome(ValidateCloseOne(dest), res), res.out)

ProcessReallocGrow(vault, payer, sys) ==
    LET res == ReallocStep(work, vault, payer, GrowLen, priv)
    IN  Conclude("grow", vault, payer,
                 Outcome(ValidateRealloc(vault, payer, sys), res), res.out)

ProcessReallocShrink(vault, payer, sys) ==
    LET res == ReallocStep(work, vault, payer, ShrinkLen, priv)
    IN  Conclude("shrink", vault, payer,
                 Outcome(ValidateRealloc(vault, payer, sys), res), res.out)

ProcessZeroCheck(data) ==
    Conclude("zero", data, data,
             IF ValidateZeroCheck(data) THEN "ok" ELSE "rejected", work)

ProcessInitIfNeeded(data, payer, sys) ==
    LET res == SeededInitIfNeededStep(work, payer, data, CounterRent,
                                      CounterSpace, priv)
    IN  Conclude("iin", data, payer,
                 Outcome(ValidateInitIfNeeded(data, payer, sys), res), res.out)

-----------------------------------------------------------------------------
(***************************************************************************)
(* The rest of the chain.                                                  *)
(***************************************************************************)
BeginTransaction(message) ==
    /\ ~open
    /\ open' = TRUE
    /\ priv' = message
    /\ last' = Nothing
    /\ UNCHANGED <<chain, work>>

\* An instruction of another program that succeeds with this ledger.
ExternalInstruction(after) ==
    /\ open
    /\ work' = after
    /\ last' = External
    /\ UNCHANGED <<chain, open, priv>>

\* Anybody may send lamports to any account, a closed one included.
SystemTransfer(from, to, lamports) ==
    /\ CanTransfer(work, from, to, lamports, priv)
    /\ ExternalInstruction(MoveLamports(work, from, to, lamports))

\* Anybody may create an account for any program, at a key they can sign for.
SystemCreate(from, to, lamports, len, owner) ==
    /\ CanCreateAccount(work, from, to, lamports, priv)
    /\ ExternalInstruction(CreateAccount(work, from, to, lamports, len, owner))

\* Another program may write anything into its own accounts.
ForeignWrite(k, disc) ==
    /\ k \in priv.writable
    /\ work[k].owner = "foreign"
    /\ work[k].len > 0
    /\ ExternalInstruction([work EXCEPT ![k].disc = disc])

Commit ==
    /\ open
    /\ RentStateOk(chain, work)
    /\ chain' = Reap(work)
    /\ work' = Reap(work)
    /\ open' = FALSE
    /\ priv' = NoPrivileges
    /\ last' = Nothing

\* The runtime refuses to leave an account between empty and rent-exempt.
RefuseCommit ==
    /\ open
    /\ ~RentStateOk(chain, work)
    /\ work' = chain
    /\ open' = FALSE
    /\ priv' = NoPrivileges
    /\ last' = Nothing
    /\ UNCHANGED chain

-----------------------------------------------------------------------------
\* The ledger starts with funded wallets and no accounts of the program.
Init ==
    /\ chain = [k \in Keys |-> [Absent EXCEPT !.lamports = Wallets[k]]]
    /\ work = chain
    /\ open = FALSE
    /\ priv = NoPrivileges
    /\ last = Nothing

ProgramStep ==
    \E target, other \in Keys :
        \/ ProcessClose(target, other)
        \/ ProcessZeroCheck(target)
        \/ \E sys \in BOOLEAN : \/ ProcessInit(target, other, sys)
                               \/ ProcessReallocGrow(target, other, sys)
                               \/ ProcessReallocShrink(target, other, sys)
                               \/ ProcessInitIfNeeded(target, other, sys)

EnvironmentStep ==
    \/ \E message \in Messages : BeginTransaction(message)
    \/ \E from, to \in Keys, n \in Amounts : SystemTransfer(from, to, n)
    \/ \E from, to \in Keys, n \in Amounts, len \in CreateLens,
          owner \in {"program", "foreign"} :
          SystemCreate(from, to, n, len, owner)
    \/ \E k \in Keys, disc \in Discs : ForeignWrite(k, disc)
    \/ Commit
    \/ RefuseCommit

Next == ProgramStep \/ EnvironmentStep

Spec == Init /\ [][Next]_vars

-----------------------------------------------------------------------------
(***************************************************************************)
(* Properties.                                                             *)
(***************************************************************************)
TypeOK ==
    /\ chain \in Ledger
    /\ work \in Ledger
    /\ open \in BOOLEAN
    /\ priv \in [signers: SUBSET (Keys \ {Pda}), writable: SUBSET Keys]
    /\ last \in [op: Ops, target: Keys, other: Keys, outcome: Outcomes]

\* No account of the program other than the derived one ever carries the
\* typed discriminator, whatever other programs write: `init` leaves zeros,
\* and only init_if_needed stamps the type, at the address of the seeds.
CounterOnlyAtPda ==
    \A k \in Keys \ {Pda}, a \in {chain, work} :
        a[k].owner = "program" => a[k].disc # "counter"

\* The derived address is either still nobody's or an account this program
\* made: long enough for its type, typed or closed, and rent-exempt while
\* typed.  This is what lets init_if_needed accept an existing account on
\* its owner and length alone.
PdaIsOurs(a) ==
    \/ a[Pda].owner = "system" /\ a[Pda].len = 0 /\ a[Pda].disc = "zero"
    \/ /\ a[Pda].owner = "program"
       /\ a[Pda].len >= CounterLen
       /\ \/ a[Pda].disc = "closed"
          \/ /\ a[Pda].disc = "counter"
             /\ a[Pda].lamports >= MinimumBalance[a[Pda].len]

PdaIdentity == PdaIsOurs(chain) /\ PdaIsOurs(work)

\* A lifecycle step that returns Ok establishes the post-condition the Lean
\* library states for it, funding included, in whatever state the earlier
\* instructions of the transaction left its accounts.
LifecyclePost ==
    LET acct   == work[last.target]
        exempt == acct.lamports >= MinimumBalance[acct.len]
    IN  last.outcome = "ok" =>
          CASE last.op = "init"   -> /\ acct.owner = "program"
                                     /\ acct.len >= InitLen
                                     /\ acct.disc = "zero" /\ exempt
            [] last.op = "close"  -> /\ acct.lamports = 0
                                     /\ acct.len >= DiscriminatorLen
                                        => acct.disc = "closed"
            [] last.op = "grow"   -> acct.len = GrowLen /\ exempt
            [] last.op = "shrink" -> acct.len = ShrinkLen /\ exempt
            [] last.op = "iin"    -> /\ acct.owner = "program"
                                     /\ acct.len >= CounterLen
                                     /\ acct.disc # "closed"
                                        => acct.disc = "counter" /\ exempt
            [] OTHER              -> TRUE

\* Inside a transaction nobody loses lamports without having signed, except
\* an account of the program that this instruction closes.
DebitsAuthorised ==
    [][open /\ open' =>
         \A k \in Keys : work'[k].lamports < work[k].lamports =>
            \/ k \in priv.signers
            \/ /\ last'.op = "close" /\ last'.target = k
               /\ work[k].owner = "program"]_vars

\* An account of the program keeps its owner and its discriminator until it
\* is closed: neither init nor init_if_needed writes over live data, and no
\* realloc loses it.
NoReinitialisation ==
    [][open /\ open' =>
         \A k \in Keys : work[k].owner = "program" =>
            /\ work'[k].owner = "program"
            /\ \/ work'[k].disc = work[k].disc
               \/ last'.op = "close" /\ work'[k].disc = "closed"]_vars

\* The generated code asks the runtime to destroy lamports in one case only:
\* closing an account into itself.  `close` does not require `mut`, so the
\* distinct-key check of validate does not see that pair of fields.
OnlySelfCloseUnbalances ==
    last.outcome = "unbalanced" => last.op = "close" /\ last.target = last.other

\* Every step of the program is one the contract of the Lean library allows.
Contract == INSTANCE LifecycleContract WITH SpaceOf <- {InitLen, CounterLen}
ImplementsContract == Contract!Spec

-----------------------------------------------------------------------------
(***************************************************************************)
(* Statements of the repository's documents that the code does not keep.   *)
(***************************************************************************)

\* Satisfies.lean: the closed marker is written "so it can never be
\* re-deserialized as a live account", and the macro's guard calls the
\* owner and discriminator checks of the typed field "the reinit guard".
\* So init_if_needed should never return Ok on a closed account.
ClosedIsNeverLive ==
    last.op = "iin" /\ last.outcome = "ok" => work[last.target].disc # "closed"

\* applyInit: creation fails only if the payer is no writable signer with
\* enough lamports or the target has data; a balance is added to.  So an
\* init_if_needed that validated should create an empty account whoever
\* has sent lamports to it.
FreshIsCreated ==
    [][open /\ last'.op = "iin" /\ last'.outcome = "failed" =>
         ~ /\ work[Pda].len = 0
           /\ {last'.other, Pda} \subseteq priv.writable
           /\ last'.other \in priv.signers
           /\ work[last'.other].owner = "system" /\ work[last'.other].len = 0
           /\ work[last'.other].lamports >= CounterRent]_vars
=============================================================================
