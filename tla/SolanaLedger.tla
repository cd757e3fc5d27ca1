---------------------------- MODULE SolanaLedger ----------------------------
(***************************************************************************)
(* The Solana runtime and its System Program, as far as the lifecycle code *)
(* of Verified Anchor relies on them.  None of this code is in the         *)
(* repository: each operator is read off the way the generated code and    *)
(* the on-chain tests use it.                                              *)
(*                                                                         *)
(* A ledger is a function from keys to accounts.  The operators take a     *)
(* ledger and return either a new ledger or whether a step is accepted;    *)
(* the module has no state of its own.                                     *)
(***************************************************************************)
EXTENDS Integers, FiniteSets, Functions

CONSTANTS
    Keys,            \* the account addresses a message may name
    Lens,            \* the data lengths an account may have
    MinimumBalance   \* Rent::minimum_balance, per data length

\* A ledger holds finitely many accounts: only then have their lamports a sum.
ASSUME KeysAssumption == IsFiniteSet(Keys)
ASSUME LensAssumption == Lens \subseteq Nat /\ 0 \in Lens
ASSUME RentAssumption == MinimumBalance \in [Lens -> Nat \ {0}]

Owners == {"system", "program", "foreign"}

\* The first eight bytes of an account's data (all of them if it is shorter):
\* zeros, the discriminator of the one typed account, or 0xff bytes.
Discs == {"zero", "counter", "closed"}

Account == [lamports: Nat, owner: Owners, len: Lens, disc: Discs]
Ledger  == [Keys -> Account]

\* An address nobody has used yet, and what is left of an emptied one.
Absent == [lamports |-> 0, owner |-> "system", len |-> 0, disc |-> "zero"]

\* Lamports of all accounts together.
Supply(a) == SumFunction([k \in Keys |-> a[k].lamports])

\* The signature and write privileges an instruction grants per key.
Privileges == [signers: SUBSET Keys, writable: SUBSET Keys]

(***************************************************************************)
(* system_instruction::create_account.  The target must sign and must be   *)
(* unused: no lamports, no data, owned by the System Program.  The funder  *)
(* must sign, carry no data and be owned by the System Program.            *)
(***************************************************************************)
CanCreateAccount(a, from, to, lamports, priv) ==
    /\ {from, to} \subseteq priv.signers
    /\ {from, to} \subseteq priv.writable
    /\ a[to].lamports = 0 /\ a[to].len = 0 /\ a[to].owner = "system"
    /\ a[from].len = 0 /\ a[from].owner = "system"
    /\ lamports <= a[from].lamports

CreateAccount(a, from, to, lamports, len, owner) ==
    [a EXCEPT ![from].lamports = @ - lamports,
              ![to] = [lamports |-> lamports, owner |-> owner,
                       len |-> len, disc |-> "zero"]]

(***************************************************************************)
(* system_instruction::transfer.                                           *)
(***************************************************************************)
CanTransfer(a, from, to, lamports, priv) ==
    /\ from \in priv.signers
    /\ {from, to} \subseteq priv.writable
    /\ a[from].len = 0 /\ a[from].owner = "system"
    /\ lamports <= a[from].lamports

MoveLamports(a, from, to, lamports) ==
    LET debited == [a EXCEPT ![from].lamports = @ - lamports]
    IN  [debited EXCEPT ![to].lamports = @ + lamports]

(***************************************************************************)
(* What the runtime checks of the writes a program made itself, when the   *)
(* instruction returns: only writable accounts changed, only accounts it   *)
(* owns were debited or had their data changed, and no lamport was created *)
(* or destroyed.                                                           *)
(***************************************************************************)
WritesOwned(before, after, priv) ==
    \A k \in Keys :
        /\ after[k] # before[k] => k \in priv.writable
        /\ \/ after[k].lamports < before[k].lamports
           \/ after[k].len # before[k].len
           \/ after[k].disc # before[k].disc
           => before[k].owner = "program"

Balanced(before, after) == Supply(after) = Supply(before)

(***************************************************************************)
(* When a transaction commits, an account without lamports is removed, and *)
(* every account it touched must be removed or rent-exempt.                *)
(***************************************************************************)
RentStateOk(before, after) ==
    \A k \in Keys :
        \/ after[k] = before[k]
        \/ after[k].lamports = 0
        \/ after[k].lamports >= MinimumBalance[after[k].len]

Reap(a) == [k \in Keys |-> IF a[k].lamports = 0 THEN Absent ELSE a[k]]
=============================================================================
