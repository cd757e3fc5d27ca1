# Verified Anchor in TLA+

Verified Anchor replaces Anchor's `#[derive(Accounts)]`. Its macro generates, for
a struct of Solana accounts, a validator (`validate`), the steps that create,
close and resize accounts (`execute_lifecycle`) and the construction of the typed
struct (`try_accounts`). It also emits a Lean description of each struct; the
command `cargo verified-anchor check` collects those descriptions and has Lean
check, against the project's proof library, that each validator meets its
contract.

The Lean library reasons about one call of one validator on one state. This
project is about what that leaves open:
* what a *sequence* of generated steps does to the ledger, inside transactions that
  mix them with other programs' instructions, and what the Solana runtime adds;
* whether the Rust the macro emits is what the Lean library reasons about: the
  steps against their state transformers, `validate` against the contract, the walk
  over an account's bytes against the Lean locator and against Borsh;
* what surrounds `validate` in an instruction: construction of the typed struct,
  bumps, the handler;
* the part of the macro where one expression of the user can end up in four
  places, `constraint = <expr>`;
* whether a green run of the gate means that the obligations were proved, when runs
  are killed, repeated or made at once.

Paths below are relative to the repository.

## 1. Inventory

### Lifecycle code generation (`rust/verified-anchor-macros/src/lib.rs:2030-2315`)
* State: none of its own. It emits code over the accounts of an instruction:
  lamports, owner, data length, data.
* Operations: the `init`, `close`, `realloc` and `init_if_needed` steps, emitted
  per field, run in the order of the fields.
* Interacts with: the System Program (`create_account`, `transfer`) by CPI; the
  runtime, which judges what the program wrote itself.
* Hard: an account drained by `close` stays in place until the transaction ends;
  `init_if_needed` decides from the data whether the account is fresh; source and
  destination of a step may be one account; a top-up has been paid when a later
  part of the step fails.
* Correct when: each step that returns Ok has established the post-condition the
  Lean library states; nobody pays without consent; live data is never reset; an
  existing account accepted by `init_if_needed` is one the program made.

### On-chain program (`rust/verified-anchor-program/src/lib.rs`)
* State: the ledger. Operations: fourteen tags, each a struct that derives
  `VerifiedAccounts`, run as `validate` and then `execute_lifecycle`. Tags 0, 1, 7,
  8, 9 and 10 create, close, resize, inspect or conditionally create an account;
  the others only validate, and echo what they have checked.
* Correct when: the lifecycle properties hold for every sequence of tags in every
  transaction, and what an instruction writes was earned by its accounts.

### Validation code generation (`macros/src/lib.rs:1614-2024`)
* State: none; a list of checks in order with early return, and the checks
  deferred to the hatch.
* Hard: the contract is written in one order and checked in another; a PDA is one
  block made of up to four constraints, the pairs of `mut` fields come last, and
  the opt-out of a pair may be on either field; an error path may stand where the
  contract has an answer.
* Correct when: `validate` returns Ok exactly when every check of the contract
  holds, the pairwise distinctness of `mut` fields included.

### Macro front end (`macros/src/lib.rs:1-1613`, `2319-3016`)
* State: the parsed fields. Operations: parse attributes, reject combinations (the
  compile guards), emit the specification, decide per constraint whether it is
  proved or goes to the escape hatch, turn the source of a seed into bytes.
* Hard: a bare name in `seeds` may be an argument, an account, both, or an argument
  behind the first one that has no descriptor.
* Correct when: no check is dropped between what was parsed, what is emitted and
  what is reported as proved, and a seed is what it is under Anchor.

### Account construction and runtime crate (`rust/verified-anchor/src/{lib,account,account_data,context}.rs`)
* State: the typed struct under construction. Operations: `try_accounts` (validate,
  deserialise each field, hatch checks, bumps), the wrappers' constructors.
* Hard: order (deserialisation comes before `execute_lifecycle`); bumps are derived a
  second time, after `validate`.
* Correct when: the handler gets the values and the bumps that were checked.

### Borsh layout (`rust/verified-anchor/src/layout.rs`)
* Pure: encoded width of a type, offset of a field, value at an offset.
* Hard: lengths and tags read from the data, widths that overflow a `usize`, types
  that cannot be stepped over, a descriptor cut at the first unmapped type.
* Correct when: a field is read as the Lean walk reads it, and as Borsh decodes it.

### Constraint expressions (`macros/src/expr.rs`, and their uses in `lib.rs`)
* State: none; a compiler. Operations: parse into the sublanguage (`compile_expr`),
  ask which operands must be readable and orderable (`locatability_cond`), emit
  the comparison for `validate`, the text for the specification, the entry of
  `UNPROVEN_CHECKS`, and the check of the hatch, verbatim or recompiled.
* Hard: the condition is evaluated in the user's crate, in four places, when types
  are known, while the form of the hatch is chosen before they are; comparison
  across signedness in 128 bits; operands that cannot be evaluated.
* Correct when: `validate` decides as the Lean contract; what the contract leaves out
  is listed, and enforced by the hatch; what compiles and is accepted under Anchor
  compiles and is accepted here.

### Proof gate (`rust/cargo-verified-anchor/src/`, `verified-anchor/src/lib.rs:232-299`)
* State: on disk, the directory `target/verified-anchor/specs` (the specification
  files and `check.lean`), shared by all packages of a workspace, and the clone of
  the proof library in the user's cache, shared by all workspaces.
* Operations: empty the directory, `cargo test` to fill it, read it back, write
  `check.lean`, find or clone the library, compare its tree with the pinned one,
  build, check, report.
* Hard: no locks; a run may be killed anywhere; the tag it clones may move; files
  of an earlier version of the code.
* Correct when: exit code 0 means that every struct the package derives has its
  obligation proved by the pinned library.

### Lean library (`lean/`)
Machine-checked itself. What the generated code is held against is translated:
the lifecycle transformers (`Codegen/Lifecycle.lean`), the validation contract
(`Contract/Satisfies.lean`, `Validates.lean`), the locator (`Locate.lean`) and the
meaning of expressions (`Constraints/Expr.lean`).

### Exploit and example programs
`rust/verified-anchor-exploits` has, for each of seven historical exploits, a naive
handler and one behind the derive. Correct when: what the verified handler writes
was earned. The example crate has a struct and no handler.

### Not modelled
The web site, the documents and scripts; section 5 has what is left out of the
modelled parts.

## 2. Modules

| Module | What it is |
| --- | --- |
| `SolanaLedger` | The runtime and the System Program as the generated code uses them. External: no code of it is in the repository. |
| `LifecycleSteps` | The four generated steps, as operators from ledger to ledger. |
| `OnChainProgram` | The program, one action per tag, and the rest of the chain. |
| `LifecycleContract` | The Lean state transformers as an abstract specification. |
| `StructLifecycle` | All the steps of one struct, inside one instruction. |
| `StepLemmas` | What each step does to which accounts, and to the sum of all balances. |
| `OnChainProgramProofs` | Inductive invariant, theorems and proofs of `OnChainProgram`. |
| `StructLifecycleProofs` | The same for `StructLifecycle`. |
| `MCOnChainProgram` | Three keys and five lengths for TLC. |
| `MCStructLifecycle` | 400 structs, eight ledgers and three messages for TLC. |
| `ProofGate` | `cargo verified-anchor check` and what runs share on disk. |
| `ProofGateProofs` | Inductive invariant, theorems and proofs of `ProofGate`. |
| `MCProofGate` | Three runs of two packages for TLC. |
| `ExprSemantics` | The meanings of a constraint: the Lean contract's, the emitted code's, and Rust's. |
| `ConstraintRouting` | Where the derive sends it, and what calls of `try_accounts` make of it. |
| `ConstraintRoutingProofs` | The emitted code computes the contract; theorems of `ConstraintRouting`. |
| `MCConstraintRouting` | 3472 structures for TLC. |
| `Layout` | Where a field is in an account's bytes: the Rust walk, the Lean walk, Borsh. |
| `AccountValidation` | Which structs compile, the `validate` generated for one, and the contract of its Lean specification. |
| `InstructionHandlers` | The structs and handlers of the exploit suite, and of the tags that only validate. |
| `VerifiedInstruction` | One instruction: `validate`, `try_accounts`, handler. |
| `VerifiedInstructionProofs` | `validate` decides as the contract; theorems of `VerifiedInstruction`. |
| `LayoutLemmas` | The walks of `Layout` agree, and read what Borsh decodes. |
| `OrderLemmas` | Every set of naturals has a least element. |
| `MCVerifiedInstruction` | 66 instructions and their calls for TLC. |

### SolanaLedger
An account is a record of lamports, owner (`system`, the `program`, or `foreign`),
data length and `disc`, what its first eight bytes hold: zeros, the discriminator
of the one typed account, or the closed marker's 0xff. No property depends on
other bytes. `CanCreateAccount`/`CreateAccount` and `CanTransfer`/`MoveLamports`
are the two System Program instructions used. `WritesOwned` is what the runtime
demands of writes a program made itself: writable accounts only, and no debit or
data change of an account the program does not own. `Balanced` is the
conservation of lamports. `RentStateOk` and `Reap` belong to the commit.

### LifecycleSteps
A step returns whether it succeeded, the ledger when the System Program last
returned (`cpi`), and the ledger after its own writes (`out`): the runtime compares
the two. The module also holds mistaken variants of the steps, which show that the
properties notice the difference.

| Definition | Code |
| --- | --- |
| `InitStep` | `create_account` by CPI, then the eight bytes zeroed |
| `CloseStep` | credit, zero the lamports, mark up to eight bytes; owner and length stay |
| `ReallocStep` | transfer `min - lamports` when short, then resize |
| `InitIfNeededStep` | fresh: `create_account` by plain CPI, discriminator stamped; else: owner and length tested |
| `SeededInitIfNeededStep` | the same on a field with seeds: created at their address only, signed with them |

### OnChainProgram
`chain` is what is committed, `work` what the open transaction has made of it,
`open` whether there is one, `priv` its signers and writable accounts, and `last`
the instruction just run and its outcome. A `Process...` action is a whole tag:
accounts are chosen, `validate` judges them, the step runs, the runtime judges the
writes, and on any failure the transaction is undone. `Outcome` keeps the four
reasons apart: `rejected` by validate, `failed` inside a step, `not_owner` for a
write the runtime forbids, `unbalanced` for lamports that do not add up.
Between these, users run System Program instructions and other programs write to
their own accounts, in the same transactions.

The account passed as system program is a Boolean input (`sys`): `validate` and the
CPI look at its key only.

### StructLifecycle
`execute_lifecycle` of a struct with several lifecycle constraints. A struct is data:
per field its constraints, the positions of its payer, close destination and realloc payer,
its realloc length, whether `validate` checks `mut` and `signer` of it, and whether it has
seeds. `keys` is the account list,
by position, so two fields may be given one account, which `validate` refuses only for
two `mut` fields (`Valid`).

There are two ledgers while an instruction runs. `mem` is what the generated code reads
and writes; `known` is what the runtime has. They meet at a CPI, for the two
accounts of the call only (`Read`): there the runtime judges what the program wrote so
far to these two (`WritesOwned`) and compares the sum of all balances as it then sees
them with the sum at the start (`Balanced`); and they meet for all accounts when the instruction
returns.

| Definition | Code |
| --- | --- |
| `StepsOf`, `Precedes`, `Due` | `lifecycle_steps`: fields in order; within a field init, close, realloc, init_if_needed |
| `Invoke` | a step with a call: refused by the runtime, failed, or done |
| `Write` | a step without: `close`, a realloc with enough lamports, init_if_needed of an account that is there |
| `Reject`, `Return` | the error of `validate`; `Ok(())` and the runtime's judgement |
| `InitIfNeeded` | the step with seeds or without, whichever the field has |
| `Realloc` | `ReallocStep`, and the runtime's limit on growth in one instruction (`MaxGrowth`), counted from the length the account came with |
| `WellFormed` | `StructLifecycleWF`, which the proof gate has decided of the struct |

`realloc = 0` is left out: an
account without data has no rent to hold. The System Program is among the
accounts, and `accounts` is as long as the struct. All seeds of a struct derive one
address. A created account is small, so that the same limit on creations is never reached
(`CallAssumption`); the lengths of `OnChainProgram` are all far below it.

### ProofGate
One action per step of a run that can be observed from outside: each touch of the
specification directory, of the cache, and each child process. `pc` says which one
comes next. `specs` is the directory with `check.lean` in it; `cache` the clone: the
commit it has checked out and how much of the working tree is written
(`git clone` writes files in index order, so `lean/` before `lean/lakefile.toml`
before `lean/lean-toolchain`). A killed run leaves both as they are.
`source` is what the packages derive at the moment: it changes under the runs.

### ExprSemantics
Pure operators. An Option is the set of its value, so `{}` is None. `EvalExpr` is
translated from `Constraints/Expr.lean`: numbers compare as unbounded integers.
`Emitted` is translated from `Cmp::apply` and `VExpr::to_tokens`: an ordering
computed in `u128` and `i128` with a guard for what does not fit, an equality where
there is no ordering, strict connectives. `RustValue` is what the same source means
to rustc, and `RustTyped` whether it compiles there; both are external. A type is
one of those the macro tells apart: unsigned, signed, bool, key, aggregate, and
three it does not recognise, `alias`, `named_array` and `enum` (which stands for
floats).

### ConstraintRouting
A structure is written, compiled, and called again and again. `Locatable` is the
const condition; `Validates`, `InSpec`, `Listed` and `Hatched` are its users, each
translated from its own place in `lib.rs`. `Validate`, `Deserialise` and `Hatch` are
the three parts of `try_accounts` that may reject, in its order.

| Definition | Code |
| --- | --- |
| `InSublanguage` | `compile_expr` returns Some |
| `Conditional`, `Locatable` | `locatability_cond` returns Some; what its tokens evaluate to |
| `NeedsValueForm` | `fallback_needs_value_form` |
| `Compiles` | both arms of `if COND { .. } else { .. }` type-check |
| `Passes` | `to_tokens_check`: only `Some(true)` passes |
| `HatchPasses` | `verbatim_check` with the arguments it decodes, or the recompiled form |

### Layout
Pure operators over sequences of bytes. A type is a record; `Mapped` is `map_ty`'s
answer, `Descriptor` the `T::LAYOUT` of a struct, cut at the first type without
one. The same question has three answers:

| Question | Rust (`layout.rs`) | Lean (`Locate.lean`) | Borsh |
| --- | --- | --- | --- |
| How wide is a value? | `EncodedWidth`, in a `usize`, None on overflow, a product for vectors of fixed width | `LeanEncodedWidth`, unbounded, element by element | `Decode`: the value and where it ends |
| Where is a field? | `Locate` | `LeanLocate` | the end of the one in front |
| What is in it? | `ReadVal`, `ReadField` | `LeanReadVal`, `LeanReadField` | the value, and only of valid bytes |

The width of a type of fixed width (`ByteSize`) is shared: it depends on no data, and the Lean
`byteSize` is the same function. Borsh is external. `TryFromSlice` refuses trailing bytes as the crate does.

### AccountValidation
The translation of the derive for a struct given as data. `Compiles` is its compile
guards; `Seed` the parser of a seed's source; `Refuses` one generated check;
`PdaError` the block made of `seeds`, `seeds_program` and the bump; `Duplicates`
the pairs of `mut` fields; `Validate` the function, an error code or `"Ok"`, checks
in the order of the code. `Contract` is the specification the derive emits for the
struct, evaluated as `Validates.lean` does: a conjunction over sets, with its own
resolution of seeds (`LeanResolve`, an unresolved seed is empty where the code
refuses) and its own derivation of addresses (`LeanFind`, total where
`find_program_address` panics, or `create_program_address` fails, because a seed is too
long or one too many: `WithinLimits`). A hash is a constant operator, so every property is
about any hash.

### InstructionHandlers
Each struct as a record, each handler as the set of account lists it may leave: {}
where it fails. `Write` writes every entry of the list with that key, since one key
is one account. `Permitted` is the runtime's judgement.

### VerifiedInstruction
`DoValidate`, `DoConstruct` and `DoHandle` are the three calls an instruction makes,
each whole, with its early returns. `ins` and `call` are chosen at the start and stay;
`built` is what the handler gets, `after` what it leaves. Which instruction calls
`try_accounts` and which only `validate` is the program's (`entry`).

## 3. What the runs check

Properties that hold:

| Run | Property | Meaning |
| --- | --- | --- |
| `lifecycle` | `TypeOK` | Types; balances never go negative, in particular in a top-up. |
| | `CounterOnlyAtPda` | Only the derived address carries the typed discriminator among accounts of the program, though others can create accounts for it and hand accounts over. |
| | `PdaIdentity` | What `init_if_needed` may meet at the derived address is nothing, or an account the program made: long enough, typed or closed, rent-exempt while typed. |
| | `LifecyclePost` | An Ok step has established its post-condition, funding included. |
| | `OnlySelfCloseUnbalances` | The code asks the runtime to destroy lamports in one case only, an account closed into itself (which the runtime refuses). |
| | `DebitsAuthorised` | No debit without a signature, except the account being closed. |
| | `NoReinitialisation` | Owner and discriminator stay until `close`. |
| | `ImplementsContract` | Every step of program and runtime is one of the contract's, undone transactions being rollbacks. |
| `struct_lifecycle` | `TypeOK` | Types; no step takes a balance below zero. |
| | `PostsHoldTogether` | After Ok the post-conditions of all constraints hold at once, whichever fields share an account, except those a later step by its nature undoes. |
| | `OnlyConsentingPay` | Over the whole instruction only signers and closed accounts of the program lose lamports. |
| | `OnlyStraddlingUnbalances` | The runtime refuses the sums only for an account closed into itself, or for a close ahead of a call that names one of its two accounts and not the other. |
| | `StepsAreLean` | On distinct accounts each step is the Lean transformer of its own constraint, in order: nothing a step reads is stale. |
| `gate` | `GreenMeansProven` | Exit code 0: all structs compiled are proved, and with `--deny-unproven` nothing is outside the proof. |
| | `ReportExact` | The report lists these structs and no others. |
| | `OnlyPinnedLibrary` | What is built from the cache is the pinned tree. |
| | `PopulatedCacheIsReused` | A complete clone of the pinned tree is not removed. |
| | `RunsEnd` | Every started run ends. |
| `constraint_routing` | `TypeOK` | Types; a call supplies values in the range of the type that reads them. |
| | `ValidateIsContract` | `validate` rejects on account of a constraint exactly when the specification has it and does not find it true. |
| | `UnlistedIsProven` | What is accepted and not in `UNPROVEN_CHECKS` is in the contract, and true. |
| | `EnforcedSomewhere` | Whichever way the constraint went, nothing is accepted that its Rust refuses. |
| | `DropIn` | Outside two kinds of expression named there, what Anchor compiles and accepts is compiled and accepted. |
| `verified_instruction` | `TypeOK` | Types; nothing is built or written before its phase or after a refusal. |
| | `ReadsAgree` | The Rust walk reads at every field and argument what the Lean walk reads, overflow and shortcuts included. |
| | `LocatorIsBorsh` | A checked field is read as Borsh decodes it, unless something in front cannot be stepped over; then it is not read. |
| | `AcceptedMeetsContract` | What `validate` accepts meets the contract. |
| | `RefusedFailsContract` | What it refuses does not, where seeds have bytes and addresses can be derived. Elsewhere the code refuses or panics where the contract may accept: that is outside the property. |
| | `SeedMeansAnchor` | A seed has the bytes its source has under Anchor, or none if it is an argument behind one that cannot be stepped over. |
| | `HandlerSeesWhatWasChecked` | The deserialised values are the ones the checks looked at. |
| | `BumpsDeriveAccount` | The bump a handler gets derives the account it came with, except for a stored bump: there it gets the highest one that works, not the one stored. |
| | `EffectIsEarned` | What a handler of the exploit suite writes was earned by its accounts. |
| | `TransferConserves` | Moving an amount between two accounts neither makes nor loses any. |

Statements of the repository that the code does not keep, each with a
counterexample (`findings` in `PROJECT.json` quotes the lines):

| Run | What happens |
| --- | --- |
| `reinit_closed` | Within a transaction, `init_if_needed` returns Ok on the account `close` has just emptied and marked. |
| `prefunded_pda` | A lamport sent to the derived address makes the first `init_if_needed` fail, as `create_account` refuses an address with a balance. `applyInit` adds to a balance instead. |
| `parallel_specs` | Two runs at once: one checks the other's `check.lean` and reports its own structs as proved. |
| `partial_clone` | A clone killed half way counts as a cache hit: the tree of the *commit* is compared, not the files. |
| `aggregate_ordering` | `v.a < v.b` over two `String` fields goes to the recompiled hatch, which cannot read them: every account is rejected. |
| `variable_arrays` | A field behind an array of `String` or `Option` is in the descriptor, so the guard that makes an unlocatable target a build error lets it through; it can never be found, and every account is rejected. |
| `fresh_typed` | `try_accounts` deserialises a fresh `init_if_needed` account before the step that would create it, and fails. |

Six more are visible in the models and have no run of their own:
* `close` of an account with fewer than eight bytes leaves no whole marker (the reason
  for the length in `LifecyclePost`);
* a struct whose `close` stands ahead of an `init` or a `realloc` with a top-up that
  involves one of the two closed accounts is refused as unbalanced, though each constraint
  alone is fine and the Lean theorem gives each its post-condition (the second disjunct of
  `OnlyStraddlingUnbalances`); with the close last, as in the example crate, it is not;
* with `Limit` = 2 one run of the gate can remove the clone another has completed;
* two structs of one name in different modules write one file, and one obligation is
  lost (the reason for `FilesDistinct` in the proofs);
* `a == b` over two `String` arguments is taken for provable, can never be read, and
  every call is rejected;
* `v.a < v.b` over two floats does not compile, as `f64` has no `FieldValue`. This one
  and the one before are the exceptions of `DropIn`.

These are differences between what is written and what the code does. Whether they
matter depends on the use: the runtime refuses a commit that would leave a revived
account below its rent, for example, so `reinit_closed` is about one transaction.

### Bounds, and why they are enough
* Keys: the derived address, a funded wallet, one more. A step touches two
  accounts; the third is the bystander whose balance must not change, and a
  second candidate for every role.
* Lengths 0, 8, 16, 32, 80: none, the marker, the typed account, the two realloc
  targets: every comparison in the code has values on both sides and at equality.
* Lamports: minimum balances 1, 2 and 3, wallet of 3, `Amounts` = {1}. The smallest
  numbers for which the fixed fundings (1 and 2) cover what they create and no
  more, growing needs a top-up, a payer can be too poor, and a closed account can be
  revived below, at and above its minimum.
* Messages: all sign and everything is writable; the wallet signs and the derived
  address is read-only; nobody signs. The state space is finite because lamports
  are conserved and transactions are not counted.
* Structs of several steps: an authority that signs and pays, and two fields of twenty forms
  each: no constraint, one of every kind, `mut` and not, init_if_needed with seeds and without,
  init then close, init then realloc, close then realloc, init_if_needed then realloc to less; closes into the authority or
  into the other field; an init and a realloc paid by the other field. `MaxGrowth` = 40 lets an account of 8 bytes grow
  to 48 and not one that the instruction has just created. Two fields are what
  every property is about (a step and one that undoes it, a close and the call that sees
  half of it). Three keys and all lists of them, so that any fields may share an account. The
  derived address is unused or typed; the third key is unused, a wallet, an account of
  the program or of another one. An instruction ends, so this run does not check deadlock.
* Gate: three runs, so that a run can meet what two earlier ones left; two
  packages; one kill; structs that hold and do not, with and without unproven
  checks. `Limit` is the number of runs at once: 1 in the passing run, since the
  findings show what happens with 2. `MaxKills` bounds kills. Structs in one package
  have different names.
* Expressions: `Top` = 1, so an unsigned value is in 0..3 and a signed one in -2..1:
  values on both sides of `i128::MAX`, zero, and both signs. Each comparison between
  the kinds of operand, over all pairs of types; connectives over seven atoms that
  can be true, false and without value. Two fields, so that one can stand behind a
  type the descriptor stops at. Buffers that hold none, one or both of the values
  (not more than both: trailing bytes are refused by `try_from_slice` and are not
  modelled). The widths of integer types are not told apart, `lamports` stands for
  `data_len` too, `signer` for `is_writable` and `executable`, and the two keys are
  also the owners. This run does not check deadlock: a structure that does not
  compile is never called.
* Instructions: three byte values, keys of two bytes, length prefixes, amounts and
  discriminators of one. Buffers are all sequences of up to five bytes behind
  the discriminator: the longest vector of bytes (two) and a key behind it. `UsizeMax` = 8 is large
  enough for every buffer and small enough for a length read from the data times a
  width to pass it (`vec_wide`). `Hash` puts a third of its inputs on the curve, so that
  derivations skip bumps, and some find nothing; `MaxSeedLen` = 2 makes one seed too
  long, `MaxSeeds` = 4 four seeds and a bump too many. The last byte value never occurs in a
  `String`: it stands for bytes that are not UTF-8. The instructions are those of the two programs and one for each behaviour these
  do not use: each shape of type in front of a key, each form of seed, each constraint
  and wrapper alone over all flags, three `mut` fields over all ways to pass accounts
  twice, lists of accounts of every length up to four. A field has at most one `seeds`
  and one bump constraint. An instruction ends, so these runs do not check deadlock.

### Fairness
`OnChainProgram` is a safety specification: nobody has to send a transaction.
So are `StructLifecycle`, `ConstraintRouting` and `VerifiedInstruction`: nobody has to call.
`ProofGate!FairSpec` has weak fairness of each run's own steps: the operating
system schedules a run that was started, and its children (cargo, git, lake)
terminate, by success or failure. Nothing makes a run start, and edits, kills and
tag moves have no fairness.

## 4. What is proved

`OnChainProgramProofs` proves, for every set of keys, of lengths, every rent table,
message, initial balance and amount, that `Spec` implies `[]TypeOK`,
`[]CounterOnlyAtPda`, `[]PdaIdentity`, `[]LifecyclePost`, `[]OnlySelfCloseUnbalances`,
`DebitsAuthorised` and `NoReinitialisation`, and that the program implements
`LifecycleContract` (`ImplementsContract`).

Assumptions, all named where the constants are declared and evaluated by TLC: keys
are finitely many (`KeysAssumption`, without which balances have no sum); lengths are naturals with 0 among them, a minimum balance is positive
(`RentAssumption`); the derived address has no balance at the start
(`ProgramAssumption`); the amounts written in the code cover the minimum balance of
what they fund, which the source's comment `rent-exempt-ish lamports` says of them
(`FundingAssumption`); nobody signs for the derived address (`PdaAssumption`).

The argument has five parts.
1. *Effects.* One lemma per operator (`InitStepEffect`, `CloseStepEffect`,
   `ReallocStepEffect`, ... in `StepLemmas`) says which accounts the result differs in and how; one
   per action (`InitEffect`, ...) adds what `validate` and the runtime demanded; and
   `StepEffect` sums up: a step aborts, is one of six done instructions, an
   outsider's instruction, or one of the steps that begin and end transactions.
2. *Sound ledgers.* `Sound(a)` is a property of one ledger: typed, the typed
   discriminator at the derived address only, the derived account ours, and data of
   length zero reads as zeros. Each effect preserves it.
3. *The invariant.* `IInv` is `TypeOK` with both ledgers `Sound`. Neither
   `CounterOnlyAtPda` nor `PdaIdentity` is inductive alone: an abort returns to
   `chain`, so `chain` has to be sound while `work` changes; and a step on an account
   without data could leave a discriminator behind, were it not that such data
   reads as zeros.
4. *Sums.* `Supply` is a fold over the keys. `StepLemmas` proves what is needed of such
   a fold without an induction principle: where two ways to sum differ there is a
   least set of keys on which they do, and taking one key out of it shows they do not. That leaves two facts, about ledgers that differ in one
   account and in two, and every effect is one of these.
5. *Refinement.* Each effect, under `IInv`, is the step of `LifecycleContract` for its
   instruction. An account closed into itself had no lamports, and is mapped to a close
   into any other; `Solitary`, the second half of the invariant, says that there is one
   whenever the program owns anything.

`StructLifecycleProofs` proves, for every set of structs the gate passes, of ledgers and of
messages, any number of fields and every way of passing them accounts, that `Spec` implies
`[]TypeOK`, `[]OnlyConsentingPay`, `[]PostsHoldTogether`, `[]OnlyStraddlingUnbalances` and
`StepsAreLean`. Assumptions:
positions are within the struct, a realloc field is `mut` (the macro's guard), structs are well
formed (`StructAssumption`); ledgers and messages have their types, nobody signs for the
derived address, created accounts are within the limit on growth (`CallAssumption`).
1. *Effects.* `StepEffect`: a step stops the instruction or is one of `Made`, `Kept`,
   `Closed`, `Sized` and `Topped`, which say what it needed and what it left in both ledgers.
2. *Who pays.* `OnlyConsentingPay` is not inductive: a close debits an account the runtime
   has not judged yet. `Ledgered` keeps the two ledgers apart: the program's view has less than the
   runtime's only on accounts a field closes, and the runtime's has less than
   the start only where consent was given (`MayPay`); an account that
   became the program's on the way was empty or had signed. What the runtime accepts, at a call or
   at the end, turns the first kind of loss into the second (`ReadLoss`).
3. *What stands.* `Standing` says that each step done has its post-condition, or that a
   later one done has undone it, or that it is `Doomed`: a realloc whose payer is its
   own account has moved nothing and resized a wallet, so its post-condition is false, and
   the runtime, which still has length 0, will refuse the write. Each pair of steps is
   looked at once (`MadeKeeps`, `ClosedKeeps`, `ReallocKeeps`, `DoomedKeeps`); two reallocs of
   one account cannot be, as both fields are `mut` (`ReallocsApart`).
4. *The transformers.* `MadeIsLean`, `ClosedIsLean` and `ReallocIsLean` put the effects
   together to the record updates of the Lean library.
5. *Sums.* `Accounted`: no step changes the sum of the program's ledger or of the runtime's;
   the two differ only on accounts of closes done, and a call still to come reads either both
   accounts of such a close or neither, unless a close straddles it. So what a call
   reads balances, and at the end all is read.

`ConstraintRoutingProofs` proves, for every `Top` and every set of structures, that
`Spec` implies `[]TypeOK`, `[]ValidateIsContract`, `[]UnlistedIsProven`,
`[]EnforcedSomewhere` and `[]DropIn`. The only assumptions are that `Top` is a natural number and
that the structures are structures. `ApplyIsEvalCmp` shows by cases that the guarded
casts are exact; `EmittedIsEvalExpr` carries that through operands, negation and
connectives; `EmittedIsRust` does the same against Rust, and is where typing is
needed: across constructors, the equality of the sublanguage is not Rust's. The
invariant `IInv` adds to `ValidateIsContract` what a call has passed by the time it
is deserialised and accepted; without that, nothing is known of the data the hatch
has looked at. `DropIn` also needs to know why a call failed (`Failed`), and the converse
of `EmittedIsRust`: what is true as Rust passes wherever all it mentions can be read and
ordered (`TrueRustPasses`).

`VerifiedInstructionProofs` proves for every struct, call, hash and size of the data
types that `Spec` implies `[]TypeOK`, `[]ReadsAgree`, `[]LocatorIsBorsh`,
`[]AcceptedMeetsContract`, `[]RefusedFailsContract`, `[]BumpsDeriveAccount`,
`[]HandlerSeesWhatWasChecked`, `[]SeedMeansAnchor`, `[]EffectIsEarned` and
`[]TransferConserves`. Assumptions:
`LayoutAssumption` (at least two byte values, positive sizes, a `usize` that holds them),
`ValidationAssumption`, `HandlersAssumption` (an amount has a width) and
`InstructionAssumption` (structs as the parser makes them, with names that tell arguments
and fields apart, types and seeds three deep; calls of
the right types, with buffers no longer than a `usize` counts; a handler runs behind
its own struct).
`LayoutLemmas` has the data walks, which recur over types and over bytes. Neither recursion
is unfolded blindly: types are three deep, so four rounds settle every function on them
(`FourRounds`), and along fields and elements an induction over a set of positions is a least
counterexample (`UpToInduction`, from `LeastElement`). On that rest
* *the walks agree* (`LeanWidths`, `FixedSize`): where the Rust walk's `usize` overflows the Lean walk is
  past the end, and multiplying a vector's length by the width of an element is stepping over
  its elements;
* *the walks are Borsh's* (`WalkIsBorsh`, `ReadIsBorsh`): where a decoder gets past a value,
  the walk takes it over as many bytes or stops, and stops only at a type `NoWidth` names.
  Two types that agree up to a field are stepped over alike up to it (`SameBelow`), which is
  what makes the cut descriptor harmless.

The argument goes up through the generated code:
1. a list of checks passes exactly when each of them does (`FirstErrorOk`, for which
   `OrderLemmas` finds the first failing one);
2. each check is its constraint (`OwnMatches`, `ImpliedMatches`); a PDA block is its
   `seeds` constraint when a bump can be found (`PdaMatches`: both derivations take the
   highest bump that works);
3. a field, and then `validate` with its pairs, decides as the contract
   (`FieldMatches`, `ValidateMatches`);
4. the invariant: `IInv` says that an instruction's phase tells what `Validate` has
   answered (`Decided`), where `built` came from (`Constructed`) and `after` (`Handled`). The
   properties do not say how the phase came about, so none of them is inductive alone;
5. amounts: what `EncodeU64` writes is read back (`EncodeReads`), and no amount read is over
   the greatest (`ReadBelowMax`), so the credit of `verified_dup` wraps for none that fits;
   that the two accounts differ is the pairs check of `validate` (`PairApart`).
6. earnings: a lemma per handler (`CashioEarned`, ...) says what `validate` has left for
   it to write. A key or an amount has one place in the data, as the Rust walk, Borsh and the
   handler's own arithmetic find it (`KeyThenAmount`, `AfterStringEarned`), a derivation `validate`
   accepted names the address (`PdaDerives`), and what is written is the amount read
   (`AmountArrives`). For the hatch the invariant has to say that construction was not
   refused (`HatchKept`), and that only where the handler calls `try_accounts`;
7. seeds: Borsh decodes all arguments, so it decodes those up to any of them (`FrontsDecode`),
   and the walk, where it gets to an argument, gets to the end of what is decoded in front
   (`ArgMeans`). A struct with an array of strings in front of a seed shows that it need not get
   there, so the statement is one of inclusion for these. What a seed is peeled of keeps
   its bytes (`PeelingKeepsMeaning`; `FourSeedRounds` is `FourRounds` for expressions).

`ProofGateProofs` proves `[]TypeOK` for any number of runs at once; and for one at a time
(`OneAtATime`) and structs of a package that do not share files (`FilesDistinct`), for
all runs, packages, programs and numbers of kills, `[]GreenMeansProven`, `[]ReportExact`,
`[]OnlyPinnedLibrary` and `PopulatedCacheIsReused`. Both assumptions are needed: the
findings and the remarks behind them show what happens without. `GateAssumption` adds
that runs are finitely many. `IInv` says for each step of the run under way what the
directory holds (`Directory`), what the clone is (`Library`), and what a run that has
ended had in its hands (`Result`); that at most one is under way makes these stable, since
no other run writes (`StepFrame`, `RestingKeeps`). A killed run leaves everything as it was:
the next one finds the directory emptied by its own first step, and a clone it either
takes for complete or removes.

Only model-checked is `ProofGate!RunsEnd`, which is liveness.

## 5. Not modelled, and why
* Data beyond the first eight bytes: no generated step reads or writes it.
  `realloc::zero` clears new bytes, which the model reads as zeros only for an
  account that had fewer than eight.
* The text of `check.lean` and of the report; a Lean check is "accepted exactly when
  all obligations hold", or anything at all for a library that is not the pinned one.
* Expressions nested deeper than two atoms: each further connective is combined like
  the first. What makes a macro argument parse as an operand; the rendering of
  expressions in reports.
* Errors of the file system other than those the runs cause each other.
* `verified_reinit` of the exploit suite, which is the `init_if_needed` of `OnChainProgram`.
* More than one struct with several steps per transaction: `StructLifecycle` starts
  from any ledger of its set instead, and leaves the rent of a commit to `OnChainProgram`.
* Names and positions of tokens in a macro argument; several `seeds` or several bump
  constraints on one field (the code takes another of them than the specification, and
  nothing says what is meant).
* Structs nested in account types, which have no descriptor and end one; maps, tuples.
* The derived Borsh code, which is Borsh's, and the panic of `find_program_address`,
  which is a failure like others.

## 6. What is left

A wider struct space for `validate`: two constraints of every pair of kinds on one field.
