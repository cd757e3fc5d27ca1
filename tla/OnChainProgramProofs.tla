------------------------ MODULE OnChainProgramProofs ------------------------
(***************************************************************************)
(* Proofs about OnChainProgram, for every set of keys, every rent table    *)
(* and every set of messages its assumptions allow.                        *)
(*                                                                         *)
(* Each instruction either undoes the transaction or has one effect on the *)
(* working ledger.  The first part proves that, action by action; the      *)
(* invariants then follow from the effects, without looking into the       *)
(* steps again.                                                            *)
(***************************************************************************)
EXTENDS OnChainProgram, StepLemmas

-----------------------------------------------------------------------------
(* Effects.                                                                *)

\* The instruction failed and the transaction is undone.
Aborted ==
    /\ open /\ open' = FALSE /\ work' = chain /\ chain' = chain
    /\ priv' = NoPrivileges
    /\ last' \in [op: Ops, target: Keys, other: Keys, outcome: Outcomes \ {"ok"}]

\* The instruction succeeded and the transaction goes on.
Succeeded(op, target, other) ==
    /\ open /\ open' = TRUE /\ chain' = chain /\ priv' = priv
    /\ last' = Observed(op, target, other, "ok")

LEMMA OutcomeOk ==
    ASSUME NEW valid \in BOOLEAN, NEW res, res.ok \in BOOLEAN
    PROVE  /\ Outcome(valid, res) \in Outcomes
           /\ Outcome(valid, res) = "ok" =>
                /\ valid /\ res.ok /\ WritesOwned(res.cpi, res.out, priv)
                /\ Balanced(work, res.out)
  BY DEF Outcome, Outcomes, WritesOwned, Balanced

LEMMA ConcludeEffect ==
    ASSUME NEW op \in Ops, NEW target \in Keys, NEW other \in Keys,
           NEW outcome \in Outcomes, NEW out,
           Conclude(op, target, other, outcome, out)
    PROVE  \/ Aborted
           \/ outcome = "ok" /\ Succeeded(op, target, other) /\ work' = out
  BY DEF Conclude, Aborted, Succeeded, Observed, Outcomes

LEMMA InitEffect ==
    ASSUME TypeOK, NEW new \in Keys, NEW payer \in Keys, NEW sys \in BOOLEAN,
           ProcessInit(new, payer, sys)
    PROVE  \/ Aborted
           \/ /\ Succeeded("init", new, payer)
              /\ CreatedBy(work, work', priv, new, payer, InitRent, InitLen, "zero")
  <1> DEFINE res == InitStep(work, payer, new, InitRent, InitSpace, priv)
             valid == ValidateInitOne(payer, sys)
  <1>1. res.ok \in BOOLEAN
    BY DEF InitStep, Done, Failed
  <1>2. valid \in BOOLEAN
    BY DEF ValidateInitOne, MutSigner
  <1>3. Conclude("init", new, payer, Outcome(valid, res), res.out)
    BY DEF ProcessInit
  <1>4. InitRent \in Nat /\ InitRent # 0 /\ InitSpace \in Nat
        /\ InitSpace + DiscriminatorLen \in Lens
    BY FundingAssumption, ProgramAssumption, RentAssumption, LensAssumption
       DEF InitLen, InitSpace, DiscriminatorLen
  <1>5. res.ok => CreatedBy(work, res.out, priv, new, payer, InitRent,
                            InitLen, "zero")
    BY <1>4, InitStepEffect DEF TypeOK, InitLen
  <1> HIDE DEF res, valid
  <1>6. QED
    BY <1>1, <1>2, <1>3, <1>5, OutcomeOk, ConcludeEffect DEF Ops

-----------------------------------------------------------------------------
(* close.                                                                  *)

LEMMA CloseEffect ==
    ASSUME TypeOK, NEW key \in Keys, NEW dest \in Keys,
           ProcessClose(key, dest)
    PROVE  \/ Aborted
           \/ /\ Succeeded("close", key, dest)
              /\ ClosedInto(work, work', key, dest)
              /\ WritesOwned(work, work', priv) /\ Balanced(work, work')
  <1> DEFINE res == CloseStep(work, key, dest)
             valid == ValidateCloseOne(dest)
  <1>1. valid \in BOOLEAN
    BY DEF ValidateCloseOne
  <1>2. Conclude("close", key, dest, Outcome(valid, res), res.out)
    BY DEF ProcessClose
  <1>3. res.ok = TRUE /\ res.cpi = work /\ ClosedInto(work, res.out, key, dest)
    BY CloseStepEffect DEF TypeOK
  <1> HIDE DEF res, valid
  <1>4. res.ok \in BOOLEAN
    BY <1>3
  <1>5. Outcome(valid, res) \in Outcomes
        /\ (Outcome(valid, res) = "ok" => /\ WritesOwned(work, res.out, priv)
                                          /\ Balanced(work, res.out))
    BY <1>1, <1>3, <1>4, OutcomeOk
  <1>6. QED
    BY <1>2, <1>3, <1>5, ConcludeEffect DEF Ops

-----------------------------------------------------------------------------
(* realloc.                                                                *)

LEMMA ReallocEffect ==
    ASSUME TypeOK, NEW vault \in Keys, NEW payer \in Keys, NEW sys \in BOOLEAN,
           NEW newlen \in Lens, newlen # 0, NEW op \in Ops,
           LET res == ReallocStep(work, vault, payer, newlen, priv)
           IN  Conclude(op, vault, payer,
                        Outcome(ValidateRealloc(vault, payer, sys), res), res.out)
    PROVE  \/ Aborted
           \/ /\ Succeeded(op, vault, payer)
              /\ vault # payer
              /\ Resized(work, work', priv, vault, payer, newlen)
              /\ ToppedUp(work, work', vault, payer, newlen)
  <1> DEFINE res == ReallocStep(work, vault, payer, newlen, priv)
             valid == ValidateRealloc(vault, payer, sys)
             outcome == Outcome(valid, res)
  <1>1. Conclude(op, vault, payer, outcome, res.out)
    OBVIOUS
  <1>2. res.ok \in BOOLEAN
    BY DEF ReallocStep, Resize, Done, Failed
  <1>3. valid \in BOOLEAN /\ (valid => vault # payer)
    BY DEF ValidateRealloc, MutSigner
  <1>4. vault # payer /\ res.ok /\ WritesOwned(res.cpi, res.out, priv)
          => /\ Resized(work, res.out, priv, vault, payer, newlen)
             /\ ToppedUp(work, res.out, vault, payer, newlen)
    BY ReallocStepEffect, ReallocTopsUp DEF TypeOK
  <1> HIDE DEF res, valid
  <1>5. /\ outcome \in Outcomes
        /\ outcome = "ok" => valid /\ res.ok /\ WritesOwned(res.cpi, res.out, priv)
    BY <1>2, <1>3, OutcomeOk
  <1> HIDE DEF outcome
  <1>6. QED
    BY <1>1, <1>3, <1>4, <1>5, ConcludeEffect

-----------------------------------------------------------------------------
(* The zero check and init_if_needed.                                      *)

LEMMA ZeroCheckEffect ==
    ASSUME TypeOK, NEW data \in Keys, ProcessZeroCheck(data)
    PROVE  \/ Aborted
           \/ Succeeded("zero", data, data) /\ work' = work
  <1> DEFINE outcome == IF ValidateZeroCheck(data) THEN "ok" ELSE "rejected"
  <1>1. outcome \in Outcomes
    BY DEF Outcomes
  <1>2. Conclude("zero", data, data, outcome, work)
    BY DEF ProcessZeroCheck
  <1> HIDE DEF outcome
  <1>3. QED
    BY <1>1, <1>2, ConcludeEffect DEF Ops

\* The privileges of the creation init_if_needed signs for with the seeds.
WithSeed == [priv EXCEPT !.signers = @ \union {Pda}]

\* Either the account was created or it was accepted as it is.
MadeOrAccepted(data, payer) ==
    \/ CreatedBy(work, work', WithSeed, Pda, payer, CounterRent, CounterLen,
                 "counter")
    \/ /\ work' = work
       /\ work[Pda].owner = "program" /\ work[Pda].len >= CounterLen
       /\ ~NeedsInit(work[Pda])

LEMMA InitIfNeededEffect ==
    ASSUME TypeOK, NEW data \in Keys, NEW payer \in Keys, NEW sys \in BOOLEAN,
           ProcessInitIfNeeded(data, payer, sys)
    PROVE  \/ Aborted
           \/ /\ Succeeded("iin", data, payer) /\ data = Pda
              /\ MadeOrAccepted(data, payer)
  <1> DEFINE res == SeededInitIfNeededStep(work, payer, data, CounterRent,
                                           CounterSpace, priv)
             valid == ValidateInitIfNeeded(data, payer, sys)
             outcome == Outcome(valid, res)
             created == CreateAccount(work, payer, data, CounterRent,
                                      CounterLen, "program")
             b == [created EXCEPT ![data].disc = "counter"]
             can == CanCreateAccount(work, payer, data, CounterRent, WithSeed)
             fresh == NeedsInit(work[data])
             accepts == work[data].owner = "program" /\ work[data].len >= CounterLen
  <1>1. Conclude("iin", data, payer, outcome, res.out)
    BY DEF ProcessInitIfNeeded
  <1>2. valid \in BOOLEAN /\ (valid => data = Pda)
    BY DEF ValidateInitIfNeeded, MutSigner
  <1>3. \/ fresh /\ data = Pda /\ can /\ res = Done(created, b)
        \/ ~fresh /\ accepts /\ res = Done(work, work)
        \/ res = Failed(work)
    BY DEF SeededInitIfNeededStep, InitIfNeededStep, CounterLen, WithSeed
  <1> HIDE DEF b, can, created, fresh, accepts
  <1>4. res.ok \in BOOLEAN
    <2> HIDE DEF res
    <2>1. res = Done(created, b) \/ res = Done(work, work) \/ res = Failed(work)
      BY <1>3, Zenon
    <2>2. /\ Done(created, b).ok = TRUE /\ Done(work, work).ok = TRUE
          /\ Failed(work).ok = FALSE
      BY DEF Done, Failed
    <2>3. res.ok = TRUE \/ res.ok = FALSE
      BY <2>1, <2>2, Zenon
    <2>4. QED
      BY <2>3
  <1> USE DEF b, can, created
  <1>5. can => CreatedBy(work, b, WithSeed, data, payer, CounterRent,
                         CounterLen, "counter")
    <2> SUFFICES ASSUME can PROVE CreatedBy(work, b, WithSeed, data, payer,
                                     CounterRent, CounterLen, "counter")
      OBVIOUS
    <2>0. CounterLen \in Lens /\ "program" \in Owners /\ work \in Ledger
      BY ProgramAssumption DEF TypeOK, Owners
    <2>1. CounterRent \in Nat /\ CounterRent # 0
      BY <2>0, FundingAssumption, RentAssumption
    <2>2. /\ payer # data
          /\ created \in Ledger
          /\ created[data] = [lamports |-> CounterRent, owner |-> "program",
                              len |-> CounterLen, disc |-> "zero"]
          /\ created[payer] = [work[payer] EXCEPT !.lamports = @ - CounterRent]
          /\ \A k \in Keys \ {payer, data} : created[k] = work[k]
      BY <2>0, <2>1, CreateAccountEffect, SMTT(20)
    <2> HIDE DEF created
    <2>3. /\ b \in Ledger
          /\ b[data] = [lamports |-> CounterRent, owner |-> "program",
                        len |-> CounterLen, disc |-> "counter"]
          /\ \A k \in Keys \ {data} : b[k] = created[k]
      BY <2>2 DEF Ledger, Account, Discs
    <2> HIDE DEF b
    <2>4. QED
      BY <2>1, <2>2, <2>3 DEF CreatedBy, CanCreateAccount
  <1> HIDE DEF b, can, created
  <1>6. res.ok /\ data = Pda =>
          \/ CreatedBy(work, res.out, WithSeed, Pda, payer, CounterRent,
                       CounterLen, "counter")
          \/ /\ res.out = work
             /\ work[Pda].owner = "program" /\ work[Pda].len >= CounterLen
             /\ ~NeedsInit(work[Pda])
    BY <1>3, <1>5 DEF Done, Failed, fresh, accepts
  <1> HIDE DEF res, valid
  <1>7. /\ outcome \in Outcomes
        /\ outcome = "ok" => valid /\ res.ok
    BY <1>2, <1>4, OutcomeOk
  <1> HIDE DEF outcome
  <1>8. QED
    BY <1>1, <1>2, <1>6, <1>7, ConcludeEffect DEF Ops, MadeOrAccepted

-----------------------------------------------------------------------------
(* Instructions of other programs.                                         *)

\* They credit but never debit or write what the program owns, debit only
\* signers, hand over accounts empty of any discriminator, and change of an
\* unused address that does not sign nothing but its balance.
Foreign(a, b, p) ==
    /\ b \in Ledger
    /\ \A k \in Keys :
         /\ a[k].owner = "program" =>
              /\ b[k].lamports >= a[k].lamports
              /\ b[k].owner = "program"
              /\ b[k].len = a[k].len /\ b[k].disc = a[k].disc
         /\ b[k].lamports < a[k].lamports => k \in p.signers
         /\ b[k].owner = "program" /\ a[k].owner # "program"
              => b[k].disc = "zero" /\ k \in p.signers
         /\ a[k].owner = "system" /\ k \notin p.signers
              => b[k].owner = "system" /\ b[k].len = a[k].len
                   /\ b[k].disc = a[k].disc
         /\ b[k].len = 0 => \/ a[k].len = 0 /\ b[k].disc = a[k].disc
                            \/ b[k].disc = "zero"

Outsider ==
    /\ open /\ open' = TRUE /\ chain' = chain /\ priv' = priv /\ last' = External
    /\ Foreign(work, work', priv) /\ Balanced(work, work')

LEMMA SystemTransferEffect ==
    ASSUME TypeOK, NEW from \in Keys, NEW to \in Keys, NEW n \in Amounts,
           SystemTransfer(from, to, n)
    PROVE  Outsider
  <1> DEFINE b == MoveLamports(work, from, to, n)
  <1>1. n \in Nat /\ n <= work[from].lamports /\ from \in priv.signers
        /\ work[from].owner = "system"
    BY ProgramAssumption DEF SystemTransfer, CanTransfer
  <1>2. /\ b \in Ledger
        /\ from = to => b = work
        /\ from # to =>
             /\ b[from] = [work[from] EXCEPT !.lamports = @ - n]
             /\ b[to] = [work[to] EXCEPT !.lamports = @ + n]
        /\ \A k \in Keys \ {from, to} : b[k] = work[k]
    BY <1>1, MoveLamportsEffect DEF TypeOK
  <1>3. Balanced(work, b)
    BY <1>1, MoveBalanced DEF TypeOK
  <1> HIDE DEF b
  <1>4. Foreign(work, b, priv)
    <2>1. CASE from = to
      BY <1>2, <2>1 DEF Foreign, TypeOK, Ledger, Account
    <2>2. CASE from # to
      <3>1. n \in Nat
        BY <1>1
      <3>2. b[to].lamports >= work[to].lamports
        BY <1>2, <2>2, <3>1 DEF TypeOK, Ledger, Account
      <3>3. QED
        BY <1>1, <1>2, <2>2, <3>2 DEF Foreign, TypeOK, Ledger, Account
    <2>3. QED
      BY <2>1, <2>2
  <1>5. QED
    BY <1>3, <1>4 DEF SystemTransfer, ExternalInstruction, Outsider, b

LEMMA SystemCreateEffect ==
    ASSUME TypeOK, NEW from \in Keys, NEW to \in Keys, NEW n \in Amounts,
           NEW len \in CreateLens, NEW owner \in {"program", "foreign"},
           SystemCreate(from, to, n, len, owner)
    PROVE  Outsider
  <1> DEFINE b == CreateAccount(work, from, to, n, len, owner)
  <1>1. /\ n \in Nat /\ len \in Lens /\ owner \in Owners /\ work \in Ledger
        /\ CanCreateAccount(work, from, to, n, priv)
    BY ProgramAssumption DEF SystemCreate, Owners, TypeOK
  <1>2. /\ b \in Ledger
        /\ b[to] = [lamports |-> n, owner |-> owner, len |-> len,
                    disc |-> "zero"]
        /\ from # to => b[from] = [work[from] EXCEPT !.lamports = @ - n]
        /\ \A k \in Keys \ {from, to} : b[k] = work[k]
    BY <1>1 DEF CreateAccount, CanCreateAccount, Ledger, Account, Discs
  <1> HIDE DEF b
  <1>3. Balanced(work, b)
    <2>1. CASE from = to
      <3>1. n = 0 /\ work[to].lamports = 0
        BY <1>1, <2>1 DEF CanCreateAccount, Ledger, Account
      <3>2. \A k \in Keys : b[k].lamports = work[k].lamports
        BY <1>2, <2>1, <3>1
      <3>3. QED
        BY <3>2, SameSupply DEF Balanced
    <2>2. CASE from # to
      <3>1. /\ b[from].lamports + b[to].lamports
                 = work[from].lamports + work[to].lamports
            /\ \A k \in Keys \ {from, to} : b[k].lamports = work[k].lamports
        BY <1>1, <1>2, <2>2 DEF CanCreateAccount, Ledger, Account
      <3>2. QED
        BY <1>1, <1>2, <2>2, <3>1, MovedSupply
    <2>3. QED
      BY <2>1, <2>2
  <1>4. Foreign(work, b, priv)
    BY <1>1, <1>2 DEF Foreign, CanCreateAccount, Ledger, Account
  <1>5. QED
    BY <1>3, <1>4 DEF SystemCreate, ExternalInstruction, Outsider, b

LEMMA ForeignWriteEffect ==
    ASSUME TypeOK, NEW k \in Keys, NEW disc \in Discs, ForeignWrite(k, disc)
    PROVE  Outsider
  <1> DEFINE b == [work EXCEPT ![k].disc = disc]
  <1>1. /\ b \in Ledger
        /\ b[k] = [work[k] EXCEPT !.disc = disc]
        /\ \A j \in Keys \ {k} : b[j] = work[j]
    BY DEF TypeOK, Ledger, Account
  <1> HIDE DEF b
  <1>2. work[k].owner = "foreign" /\ work[k].len > 0
    BY DEF ForeignWrite
  <1>3. Balanced(work, b)
    <2>1. \A j \in Keys : b[j].lamports = work[j].lamports
      BY <1>1 DEF TypeOK, Ledger, Account
    <2>2. QED
      BY <2>1, SameSupply DEF Balanced
  <1>4. Foreign(work, b, priv)
    BY <1>1, <1>2 DEF Foreign, TypeOK, Ledger, Account
  <1>5. QED
    BY <1>3, <1>4 DEF ForeignWrite, ExternalInstruction, Outsider, b

-----------------------------------------------------------------------------
(* Every step has one of these effects.                                    *)

Undone ==
    /\ open /\ open' = FALSE /\ work' = chain /\ chain' = chain /\ priv' = NoPrivileges
    /\ last' \in [op: Ops, target: Keys, other: Keys, outcome: Outcomes]
    /\ last'.outcome = "ok" => last'.op = "none"

Begun ==
    /\ ~open /\ open' = TRUE /\ chain' = chain /\ work' = work
    /\ priv' \in Messages /\ last' = Nothing

Committed ==
    /\ open /\ open' = FALSE /\ chain' = Reap(work) /\ work' = Reap(work)
    /\ priv' = NoPrivileges /\ last' = Nothing

InitDone(new, payer) ==
    /\ Succeeded("init", new, payer)
    /\ CreatedBy(work, work', priv, new, payer, InitRent, InitLen, "zero")

CloseDone(key, dest) ==
    /\ Succeeded("close", key, dest)
    /\ ClosedInto(work, work', key, dest)
    /\ WritesOwned(work, work', priv) /\ Balanced(work, work')

ReallocDone(op, vault, payer, newlen) ==
    /\ Succeeded(op, vault, payer)
    /\ vault # payer
    /\ Resized(work, work', priv, vault, payer, newlen)
    /\ ToppedUp(work, work', vault, payer, newlen)

ZeroCheckDone(data) == Succeeded("zero", data, data) /\ work' = work

InitIfNeededDone(payer) ==
    Succeeded("iin", Pda, payer) /\ MadeOrAccepted(Pda, payer)

LEMMA StepEffect ==
    ASSUME TypeOK, Next
    PROVE  \/ Undone \/ Begun \/ Committed \/ Outsider
           \/ \E target, other \in Keys :
                \/ InitDone(target, other)
                \/ CloseDone(target, other)
                \/ ReallocDone("grow", target, other, GrowLen)
                \/ ReallocDone("shrink", target, other, ShrinkLen)
                \/ ZeroCheckDone(target)
                \/ InitIfNeededDone(other)
  <1>1. Aborted => Undone
    BY DEF Aborted, Undone
  <1>2. CASE ProgramStep
    <2>1. PICK target, other \in Keys :
             \/ ProcessClose(target, other)
             \/ ProcessZeroCheck(target)
             \/ \E sys \in BOOLEAN :
                  \/ ProcessInit(target, other, sys)
                  \/ ProcessReallocGrow(target, other, sys)
                  \/ ProcessReallocShrink(target, other, sys)
                  \/ ProcessInitIfNeeded(target, other, sys)
      BY <1>2 DEF ProgramStep
    <2>2. CASE ProcessClose(target, other)
      BY <1>1, <2>2, CloseEffect DEF CloseDone
    <2>3. CASE ProcessZeroCheck(target)
      BY <1>1, <2>3, ZeroCheckEffect DEF ZeroCheckDone
    <2>4. ASSUME NEW sys \in BOOLEAN, ProcessInit(target, other, sys)
          PROVE  Undone \/ InitDone(target, other)
      BY <1>1, <2>4, InitEffect DEF InitDone
    <2>5. ASSUME NEW sys \in BOOLEAN, ProcessReallocGrow(target, other, sys)
          PROVE  Undone \/ ReallocDone("grow", target, other, GrowLen)
      <3>1. GrowLen \in Lens /\ GrowLen # 0 /\ "grow" \in Ops
        BY ProgramAssumption DEF GrowLen, Ops
      <3>2. QED
        BY <1>1, <2>5, <3>1, ReallocEffect DEF ReallocDone, ProcessReallocGrow
    <2>6. ASSUME NEW sys \in BOOLEAN, ProcessReallocShrink(target, other, sys)
          PROVE  Undone \/ ReallocDone("shrink", target, other, ShrinkLen)
      <3>1. ShrinkLen \in Lens /\ ShrinkLen # 0 /\ "shrink" \in Ops
        BY ProgramAssumption DEF ShrinkLen, Ops
      <3>2. QED
        BY <1>1, <2>6, <3>1, ReallocEffect DEF ReallocDone, ProcessReallocShrink
    <2>7. ASSUME NEW sys \in BOOLEAN, ProcessInitIfNeeded(target, other, sys)
          PROVE  Undone \/ InitIfNeededDone(other)
      BY <1>1, <2>7, InitIfNeededEffect DEF InitIfNeededDone
    <2>8. QED
      BY <2>1, <2>2, <2>3, <2>4, <2>5, <2>6, <2>7
  <1>3. CASE EnvironmentStep
    <2>1. ASSUME NEW message \in Messages, BeginTransaction(message)
          PROVE  Begun
      BY <2>1 DEF BeginTransaction, Begun
    <2>2. ASSUME NEW from \in Keys, NEW to \in Keys, NEW n \in Amounts,
                 SystemTransfer(from, to, n)
          PROVE  Outsider
      BY <2>2, SystemTransferEffect
    <2>3. ASSUME NEW from \in Keys, NEW to \in Keys, NEW n \in Amounts,
                 NEW len \in CreateLens, NEW owner \in {"program", "foreign"},
                 SystemCreate(from, to, n, len, owner)
          PROVE  Outsider
      BY <2>3, SystemCreateEffect
    <2>4. ASSUME NEW k \in Keys, NEW disc \in Discs, ForeignWrite(k, disc)
          PROVE  Outsider
      BY <2>4, ForeignWriteEffect
    <2>5. CASE Commit
      BY <2>5 DEF Commit, Committed
    <2>6. CASE RefuseCommit
      BY <2>6, ProgramAssumption
         DEF RefuseCommit, Undone, Nothing, Observed, Ops, Outcomes
    <2>7. QED
      BY <1>3, <2>1, <2>2, <2>3, <2>4, <2>5, <2>6 DEF EnvironmentStep
  <1>4. QED
    BY <1>2, <1>3 DEF Next

-----------------------------------------------------------------------------
(* The inductive invariant, ledger by ledger.                              *)

\* The typed discriminator only at the derived address.
Typed(a) == \A k \in Keys \ {Pda} : a[k].owner = "program" => a[k].disc # "counter"

\* An account without data has no discriminator either.
EmptyIsZeroed(a) == \A k \in Keys : a[k].len = 0 => a[k].disc = "zero"

Sound(a) == a \in Ledger /\ Typed(a) /\ EmptyIsZeroed(a) /\ PdaIsOurs(a)

IInv == TypeOK /\ Sound(chain) /\ Sound(work)

LEMMA PlanLens ==
    /\ InitLen = 8 /\ CounterLen = 16 /\ GrowLen = 80 /\ ShrinkLen = 32
    /\ {InitLen, CounterLen, GrowLen, ShrinkLen} \subseteq Lens
    /\ Lens \subseteq Nat /\ Pda \in Keys
  BY ProgramAssumption, LensAssumption
     DEF InitLen, CounterLen, GrowLen, ShrinkLen, InitSpace, CounterSpace,
         DiscriminatorLen

LEMMA CreatedSound ==
    ASSUME NEW a, Sound(a), NEW b, NEW p,
           NEW key \in Keys, NEW payer \in Keys \ {Pda}, NEW rent, NEW len \in Lens,
           NEW disc, CreatedBy(a, b, p, key, payer, rent, len, disc),
           \/ key # Pda /\ disc = "zero"
           \/ /\ key = Pda /\ disc = "counter" /\ len = CounterLen
              /\ rent >= MinimumBalance[len]
    PROVE  Sound(b)
  <1>1. b \in Ledger /\ b[key].disc = disc /\ b[key].len = len
        /\ b[key].owner = "program" /\ b[key].lamports = rent
    BY DEF CreatedBy
  <1>2. /\ b[payer].owner = a[payer].owner /\ b[payer].len = a[payer].len
        /\ b[payer].disc = a[payer].disc
        /\ a[payer].owner = "system"
        /\ \A k \in Keys \ {key, payer} : b[k] = a[k]
    BY DEF CreatedBy, Sound, Ledger, Account
  <1>3. Typed(b)
    BY <1>1, <1>2 DEF Sound, Typed
  <1>4. EmptyIsZeroed(b)
    BY <1>1, <1>2, PlanLens DEF Sound, EmptyIsZeroed
  <1>5. PdaIsOurs(b)
    BY <1>1, <1>2, PlanLens DEF Sound, PdaIsOurs
  <1>6. QED
    BY <1>1, <1>3, <1>4, <1>5 DEF Sound

LEMMA ClosedSound ==
    ASSUME NEW a, Sound(a), NEW b, NEW key \in Keys, NEW dest \in Keys,
           ClosedInto(a, b, key, dest),
           a[key].disc # b[key].disc => a[key].owner = "program"
    PROVE  Sound(b)
  <1>1. /\ b \in Ledger
        /\ b[key].owner = a[key].owner /\ b[key].len = a[key].len
        /\ b[key].disc = Prefix(a[key].len, "closed")
    BY DEF ClosedInto, Sound, Ledger, Account
  <1>2. ASSUME NEW k \in Keys, k # key
        PROVE  /\ b[k].owner = a[k].owner /\ b[k].len = a[k].len
               /\ b[k].disc = a[k].disc
               /\ b[k].lamports >= a[k].lamports
    BY <1>2 DEF ClosedInto, Sound, Ledger, Account
  <1>3. Typed(b)
    BY <1>1, <1>2 DEF Sound, Typed, Prefix
  <1>4. EmptyIsZeroed(b)
    BY <1>1, <1>2 DEF Sound, EmptyIsZeroed, Prefix
  <1>5. PdaIsOurs(b)
    <2>1. CASE key = Pda
      BY <1>1, <2>1, PlanLens DEF Sound, PdaIsOurs, Prefix
    <2>2. CASE key # Pda
      <3>1. /\ b[Pda].lamports \in Nat /\ a[Pda].lamports \in Nat
            /\ b[Pda].len \in Lens /\ MinimumBalance[b[Pda].len] \in Nat
        BY <1>1, PlanLens, RentAssumption DEF Sound, Ledger, Account
      <3>2. QED
        BY <1>2, <2>2, <3>1, PlanLens DEF Sound, PdaIsOurs
    <2>3. QED
      BY <2>1, <2>2
  <1>6. QED
    BY <1>1, <1>3, <1>4, <1>5 DEF Sound

LEMMA ResizedSound ==
    ASSUME NEW a, Sound(a), NEW b, NEW p, Pda \notin p.signers,
           NEW vault \in Keys, NEW payer \in Keys, vault # payer,
           NEW newlen \in Lens, newlen >= CounterLen,
           Resized(a, b, p, vault, payer, newlen)
    PROVE  Sound(b)
  <1>1. /\ b \in Ledger
        /\ b[vault].owner = a[vault].owner /\ b[vault].len = newlen
        /\ b[vault].disc = a[vault].disc
        /\ b[vault].lamports >= MinimumBalance[newlen]
        /\ a[vault].len # newlen => a[vault].owner = "program"
    BY DEF Resized
  <1>2. ASSUME NEW k \in Keys, k # vault
        PROVE  /\ b[k].owner = a[k].owner /\ b[k].len = a[k].len
               /\ b[k].disc = a[k].disc
    <2>1. CASE k = payer
      <3>1. b[payer] = [a[payer] EXCEPT !.lamports = b[payer].lamports]
        BY DEF Resized
      <3>2. QED
        BY <2>1, <3>1 DEF Sound, Ledger, Account
    <2>2. CASE k # payer
      BY <1>2, <2>2 DEF Resized
    <2>3. QED
      BY <2>1, <2>2
  <1>3. vault # Pda => b[Pda].lamports = a[Pda].lamports
    BY PlanLens DEF Resized
  <1>4. Typed(b)
    BY <1>1, <1>2 DEF Sound, Typed
  <1>5. EmptyIsZeroed(b)
    BY <1>1, <1>2, PlanLens DEF Sound, EmptyIsZeroed
  <1>6. PdaIsOurs(b)
    BY <1>1, <1>2, <1>3, PlanLens DEF Sound, PdaIsOurs
  <1>7. QED
    BY <1>1, <1>4, <1>5, <1>6 DEF Sound

LEMMA ForeignSound ==
    ASSUME NEW a, Sound(a), NEW b, NEW p, Pda \notin p.signers, Foreign(a, b, p)
    PROVE  Sound(b)
  <1>1. b \in Ledger
    BY DEF Foreign
  <1>2. Typed(b)
    BY DEF Sound, Typed, Foreign
  <1>3. EmptyIsZeroed(b)
    BY DEF Sound, EmptyIsZeroed, Foreign
  <1>4. PdaIsOurs(b)
    <2>1. /\ b[Pda].lamports \in Nat /\ a[Pda].lamports \in Nat
          /\ b[Pda].len \in Lens /\ MinimumBalance[b[Pda].len] \in Nat
      BY <1>1, PlanLens, RentAssumption DEF Sound, Ledger, Account
    <2>2. QED
      BY <2>1, PlanLens DEF Sound, PdaIsOurs, Foreign
  <1>5. QED
    BY <1>1, <1>2, <1>3, <1>4 DEF Sound

LEMMA ReapSound ==
    ASSUME NEW a, Sound(a)
    PROVE  Sound(Reap(a))
  <1>1. Absent \in Account
    BY LensAssumption DEF Absent, Account, Owners, Discs
  <1>2. Reap(a) \in Ledger
    BY <1>1 DEF Reap, Sound, Ledger
  <1>3. Typed(Reap(a)) /\ EmptyIsZeroed(Reap(a)) /\ PdaIsOurs(Reap(a))
    BY PlanLens DEF Sound, Typed, EmptyIsZeroed, PdaIsOurs, Reap, Absent
  <1>4. QED
    BY <1>2, <1>3 DEF Sound

-----------------------------------------------------------------------------
(* The invariant holds initially and is preserved.                         *)

LEMMA IInvInit == Init => IInv
  <1> SUFFICES ASSUME Init PROVE IInv
    OBVIOUS
  <1>1. Absent \in Account
    BY LensAssumption DEF Absent, Account, Owners, Discs
  <1>2. /\ chain \in Ledger
        /\ \A k \in Keys : /\ chain[k].owner = "system"
                           /\ chain[k].len = 0 /\ chain[k].disc = "zero"
    BY <1>1, ProgramAssumption DEF Init, Ledger, Account, Absent
  <1>3. Sound(chain)
    BY <1>2, PlanLens DEF Sound, Typed, EmptyIsZeroed, PdaIsOurs
  <1>4. TypeOK
    BY <1>2, ProgramAssumption
       DEF Init, TypeOK, NoPrivileges, Nothing, Observed, Ops, Outcomes
  <1>5. QED
    BY <1>3, <1>4 DEF Init, IInv

\* What a step that succeeded does to the invariant.
LEMMA SoundStep ==
    ASSUME IInv, Next
    PROVE  Sound(chain') /\ Sound(work')
  <1>1. Sound(chain) /\ Sound(work) /\ TypeOK
    BY DEF IInv
  <1>2. Pda \notin priv.signers
    BY <1>1 DEF TypeOK
  <1>3. CASE Undone \/ Begun
    BY <1>1, <1>3 DEF Undone, Begun
  <1>4. CASE Committed
    BY <1>1, <1>4, ReapSound DEF Committed
  <1>5. CASE Outsider
    BY <1>1, <1>2, <1>5, ForeignSound DEF Outsider
  <1>6. ASSUME NEW new \in Keys, NEW payer \in Keys, InitDone(new, payer)
        PROVE  Sound(chain') /\ Sound(work')
    <2>1. chain' = chain
          /\ CreatedBy(work, work', priv, new, payer, InitRent, InitLen, "zero")
      BY <1>6 DEF InitDone, Succeeded
    <2>2. new # Pda /\ payer # Pda
      BY <1>2, <2>1 DEF CreatedBy
    <2>3. QED
      BY <1>1, <2>1, <2>2, PlanLens, CreatedSound
  <1>7. ASSUME NEW key \in Keys, NEW dest \in Keys, CloseDone(key, dest)
        PROVE  Sound(chain') /\ Sound(work')
    <2>1. chain' = chain /\ ClosedInto(work, work', key, dest)
          /\ WritesOwned(work, work', priv)
      BY <1>7 DEF CloseDone, Succeeded
    <2>2. work[key].disc # work'[key].disc => work[key].owner = "program"
      BY <2>1 DEF WritesOwned
    <2>3. QED
      BY <1>1, <2>1, <2>2, ClosedSound
  <1>8. ASSUME NEW vault \in Keys, NEW payer \in Keys, NEW op,
               NEW newlen \in {GrowLen, ShrinkLen},
               ReallocDone(op, vault, payer, newlen)
        PROVE  Sound(chain') /\ Sound(work')
    <2>1. chain' = chain /\ vault # payer
          /\ Resized(work, work', priv, vault, payer, newlen)
      BY <1>8 DEF ReallocDone, Succeeded
    <2>2. newlen \in Lens /\ newlen >= CounterLen
      BY PlanLens
    <2>3. QED
      BY <1>1, <1>2, <2>1, <2>2, ResizedSound
  <1>9. ASSUME NEW data \in Keys, ZeroCheckDone(data)
        PROVE  Sound(chain') /\ Sound(work')
    BY <1>1, <1>9 DEF ZeroCheckDone, Succeeded
  <1>10. ASSUME NEW payer \in Keys, InitIfNeededDone(payer)
         PROVE  Sound(chain') /\ Sound(work')
    <2>1. chain' = chain /\ MadeOrAccepted(Pda, payer)
      BY <1>10 DEF InitIfNeededDone, Succeeded
    <2>2. CASE CreatedBy(work, work', WithSeed, Pda, payer, CounterRent,
                         CounterLen, "counter")
      <3>1. payer # Pda
        BY <2>2 DEF CreatedBy
      <3>2. QED
        BY <1>1, <2>1, <2>2, <3>1, PlanLens, FundingAssumption, CreatedSound
    <2>3. CASE work' = work
      BY <1>1, <2>1, <2>3
    <2>4. QED
      BY <2>1, <2>2, <2>3 DEF MadeOrAccepted
  <1>11. QED
    BY <1>1, <1>3, <1>4, <1>5, <1>6, <1>7, <1>8, <1>9, <1>10, StepEffect

LEMMA ControlStep ==
    ASSUME TypeOK, Next
    PROVE  /\ open' \in BOOLEAN
           /\ priv' \in [signers: SUBSET (Keys \ {Pda}), writable: SUBSET Keys]
           /\ last' \in [op: Ops, target: Keys, other: Keys, outcome: Outcomes]
  <1>1. Pda \in Keys
    BY ProgramAssumption
  <1>2. CASE Undone
    BY <1>2 DEF Undone, NoPrivileges
  <1>3. CASE Begun
    BY <1>1, <1>3, PdaAssumption DEF Begun, Nothing, Observed, Ops, Outcomes
  <1>4. CASE Committed
    BY <1>1, <1>4 DEF Committed, NoPrivileges, Nothing, Observed, Ops, Outcomes
  <1>5. CASE Outsider
    BY <1>1, <1>5 DEF Outsider, TypeOK, External, Observed, Ops, Outcomes
  <1>6. ASSUME NEW target \in Keys, NEW other \in Keys, NEW op \in Ops,
               Succeeded(op, target, other)
        PROVE  /\ open' \in BOOLEAN /\ priv' = priv
               /\ last' \in [op: Ops, target: Keys, other: Keys,
                             outcome: Outcomes]
    BY <1>6 DEF Succeeded, Observed, Outcomes
  <1>7. ASSUME NEW target \in Keys, NEW other \in Keys,
               \/ InitDone(target, other) \/ CloseDone(target, other)
               \/ ReallocDone("grow", target, other, GrowLen)
               \/ ReallocDone("shrink", target, other, ShrinkLen)
               \/ ZeroCheckDone(target) \/ InitIfNeededDone(other)
        PROVE  \E t, o \in Keys, op \in Ops : Succeeded(op, t, o)
    BY <1>1, <1>7 DEF InitDone, CloseDone, ReallocDone, ZeroCheckDone,
                      InitIfNeededDone, Ops
  <1>8. QED
    BY <1>2, <1>3, <1>4, <1>5, <1>6, <1>7, StepEffect DEF TypeOK

LEMMA IInvStep == IInv /\ [Next]_vars => IInv'
  <1> SUFFICES ASSUME IInv, [Next]_vars PROVE IInv'
    OBVIOUS
  <1>1. CASE Next
    <2>1. TypeOK
      BY DEF IInv
    <2>2. Sound(chain') /\ Sound(work')
      BY <1>1, SoundStep
    <2>3. TypeOK'
      BY <1>1, <2>1, <2>2, ControlStep DEF TypeOK, Sound
    <2>4. QED
      BY <2>2, <2>3 DEF IInv, Sound, Typed, EmptyIsZeroed, PdaIsOurs
  <1>2. CASE UNCHANGED vars
    BY <1>2 DEF vars, IInv, TypeOK, Sound, Typed, EmptyIsZeroed, PdaIsOurs
  <1>3. QED
    BY <1>1, <1>2

-----------------------------------------------------------------------------
(* Theorems.                                                               *)

\* Every reachable state is well typed and every ledger in it is sound.
THEOREM Invariance == Spec => []IInv
  BY IInvInit, IInvStep, PTL DEF Spec

\* The state variables keep their types: in particular no debit of a program
\* or of the System Program makes a balance negative, and no instruction
\* runs with the derived address among its signers.
THEOREM TypeCorrect == Spec => []TypeOK
  <1>1. IInv => TypeOK
    BY DEF IInv
  <1>2. QED
    BY <1>1, Invariance, PTL

\* Only the derived address ever carries the typed discriminator, whatever
\* init, close, realloc and init_if_needed are asked to do.
THEOREM TypedOnlyAtDerivedAddress == Spec => []CounterOnlyAtPda
  <1>1. IInv => CounterOnlyAtPda
    BY DEF IInv, Sound, Typed, CounterOnlyAtPda
  <1>2. QED
    BY <1>1, Invariance, PTL

\* The account init_if_needed accepts on owner and length alone is always
\* one it made itself: nobody can plant another account at that address.
THEOREM DerivedAccountIsOurs == Spec => []PdaIdentity
  <1>1. IInv => PdaIdentity
    BY DEF IInv, Sound, PdaIdentity
  <1>2. QED
    BY <1>1, Invariance, PTL

-----------------------------------------------------------------------------
(* Post-conditions and action properties, from the invariant and the       *)
(* effects.                                                                *)

\* No post-condition is due after these.
Quiet == last.outcome = "ok" => last.op \in {"none", "external", "zero"}

LEMMA QuietPost == Quiet => LifecyclePost
  BY DEF Quiet, LifecyclePost

LEMMA LifecyclePostStep ==
    ASSUME IInv, Next
    PROVE  LifecyclePost'
  <1>1. Sound(work) /\ TypeOK /\ Sound(work') /\ work' \in Ledger
    BY SoundStep DEF IInv, Sound
  <1>2. CASE Undone \/ Begun \/ Committed \/ Outsider
    <2>1. Quiet'
      BY <1>2 DEF Undone, Begun, Committed, Outsider, Nothing, External,
                  Observed, Quiet
    <2>2. QED
      BY <2>1 DEF Quiet, LifecyclePost
  <1>3. ASSUME NEW new \in Keys, NEW payer \in Keys, InitDone(new, payer)
        PROVE  LifecyclePost'
    <2>1. last' = Observed("init", new, payer, "ok")
          /\ work'[new] = [lamports |-> InitRent, owner |-> "program",
                           len |-> InitLen, disc |-> "zero"]
      BY <1>3 DEF InitDone, Succeeded, CreatedBy
    <2>2. QED
      BY <2>1, PlanLens, FundingAssumption DEF LifecyclePost, Observed
  <1>4. ASSUME NEW key \in Keys, NEW dest \in Keys, CloseDone(key, dest)
        PROVE  LifecyclePost'
    <2>1. last' = Observed("close", key, dest, "ok")
          /\ work'[key] = [work[key] EXCEPT !.lamports = 0,
                                   !.disc = Prefix(work[key].len, "closed")]
      BY <1>4 DEF CloseDone, Succeeded, ClosedInto
    <2>2. /\ work'[key].lamports = 0 /\ work'[key].len = work[key].len
          /\ work'[key].disc = Prefix(work[key].len, "closed")
      BY <1>1, <2>1 DEF Sound, Ledger, Account
    <2>3. work'[key].len >= DiscriminatorLen => work'[key].disc = "closed"
      BY <2>2 DEF Prefix, DiscriminatorLen
    <2>4. QED
      BY <2>1, <2>2, <2>3 DEF LifecyclePost, Observed
  <1>5. ASSUME NEW vault \in Keys, NEW payer \in Keys,
               ReallocDone("grow", vault, payer, GrowLen)
        PROVE  LifecyclePost'
    <2>1. /\ last' = Observed("grow", vault, payer, "ok")
          /\ work'[vault].len = GrowLen
          /\ work'[vault].lamports >= MinimumBalance[GrowLen]
      BY <1>5 DEF ReallocDone, Succeeded, Resized
    <2>2. QED
      BY <2>1 DEF LifecyclePost, Observed
  <1>6. ASSUME NEW vault \in Keys, NEW payer \in Keys,
               ReallocDone("shrink", vault, payer, ShrinkLen)
        PROVE  LifecyclePost'
    <2>1. /\ last' = Observed("shrink", vault, payer, "ok")
          /\ work'[vault].len = ShrinkLen
          /\ work'[vault].lamports >= MinimumBalance[ShrinkLen]
      BY <1>6 DEF ReallocDone, Succeeded, Resized
    <2>2. QED
      BY <2>1 DEF LifecyclePost, Observed
  <1>7. ASSUME NEW data \in Keys, ZeroCheckDone(data)
        PROVE  LifecyclePost'
    BY <1>7 DEF ZeroCheckDone, Succeeded, Observed, LifecyclePost
  <1>8. ASSUME NEW payer \in Keys, InitIfNeededDone(payer)
        PROVE  LifecyclePost'
    <2>1. last' = Observed("iin", Pda, payer, "ok") /\ MadeOrAccepted(Pda, payer)
      BY <1>8 DEF InitIfNeededDone, Succeeded
    <2>2. work'[Pda].owner = "program"
      BY <2>1 DEF MadeOrAccepted, CreatedBy
    <2>3. PdaIsOurs(work')
      BY <1>1 DEF Sound
    <2>4. QED
      BY <2>1, <2>2, <2>3 DEF LifecyclePost, Observed, PdaIsOurs
  <1>9. QED
    BY <1>1, <1>2, <1>3, <1>4, <1>5, <1>6, <1>7, <1>8, StepEffect

\* A lifecycle step that returns Ok leaves its account as the Lean library's
\* post-condition of the constraint says: emptied and marked by close, sized
\* and rent-exempt after init and realloc, typed or closed after
\* init_if_needed.
THEOREM PostConditions == Spec => []LifecyclePost
  <1>1. Init => LifecyclePost
    BY DEF Init, Nothing, Observed, LifecyclePost
  <1>2. IInv /\ LifecyclePost /\ [Next]_vars => LifecyclePost'
    <2> SUFFICES ASSUME IInv, LifecyclePost, [Next]_vars PROVE LifecyclePost'
      OBVIOUS
    <2>1. CASE Next
      BY <2>1, LifecyclePostStep
    <2>2. CASE UNCHANGED vars
      BY <2>2 DEF vars, LifecyclePost
    <2>3. QED
      BY <2>1, <2>2
  <1>3. QED
    BY <1>1, <1>2, Invariance, PTL DEF Spec

\* Debits of one step.
Authorised ==
    \A k \in Keys : work'[k].lamports < work[k].lamports =>
       \/ k \in priv.signers
       \/ /\ last'.op = "close" /\ last'.target = k
          /\ work[k].owner = "program"

LEMMA AuthorisedStep ==
    ASSUME IInv, Next, open, open'
    PROVE  Authorised
  <1>1. /\ work \in Ledger /\ \A k \in Keys : work[k].lamports \in Nat
        /\ Pda \notin priv.signers
        /\ priv \in [signers: SUBSET (Keys \ {Pda}), writable: SUBSET Keys]
    BY DEF IInv, TypeOK, Ledger, Account
  <1>2. ~Undone /\ ~Begun /\ ~Committed
    BY DEF Undone, Begun, Committed
  <1>3. CASE Outsider
    BY <1>3 DEF Outsider, Foreign, Authorised
  <1>4. ASSUME NEW p, NEW key \in Keys, NEW payer \in Keys, NEW rent \in Nat,
               NEW len, NEW disc, CreatedBy(work, work', p, key, payer, rent, len, disc),
               payer \in priv.signers
        PROVE  Authorised
    <2>1. work'[key].lamports = rent /\ work[key].lamports = 0
      BY <1>4 DEF CreatedBy
    <2>2. \A k \in Keys \ {key, payer} : work'[k] = work[k]
      BY <1>4 DEF CreatedBy
    <2>3. ~(work'[key].lamports < work[key].lamports)
      BY <2>1, <1>4
    <2>4. QED
      BY <1>1, <1>4, <2>2, <2>3 DEF Authorised
  <1>5. ASSUME NEW new \in Keys, NEW payer \in Keys, InitDone(new, payer)
        PROVE  Authorised
    <2>1. CreatedBy(work, work', priv, new, payer, InitRent, InitLen, "zero")
          /\ payer \in priv.signers
      BY <1>5 DEF InitDone, CreatedBy
    <2>2. QED
      BY <1>4, <2>1, FundingAssumption
  <1>6. ASSUME NEW key \in Keys, NEW dest \in Keys, CloseDone(key, dest)
        PROVE  Authorised
    <2>1. last' = Observed("close", key, dest, "ok")
          /\ ClosedInto(work, work', key, dest) /\ WritesOwned(work, work', priv)
      BY <1>6 DEF CloseDone, Succeeded
    <2>2. \A k \in Keys \ {key} : work'[k].lamports >= work[k].lamports
      BY <1>1, <2>1 DEF ClosedInto, Ledger, Account
    <2>3. work'[key].lamports < work[key].lamports => work[key].owner = "program"
      BY <2>1 DEF WritesOwned
    <2>4. last'.op = "close" /\ last'.target = key
      BY <2>1 DEF Observed
    <2>5. \A k \in Keys : work'[k].lamports \in Nat
      BY SoundStep DEF Sound, Ledger, Account
    <2>6. QED
      BY <1>1, <2>2, <2>3, <2>4, <2>5 DEF Authorised
  <1>7. ASSUME NEW vault \in Keys, NEW payer \in Keys, NEW op, NEW newlen,
               ReallocDone(op, vault, payer, newlen)
        PROVE  Authorised
    <2>1. Resized(work, work', priv, vault, payer, newlen)
      BY <1>7 DEF ReallocDone
    <2>2. \A k \in Keys : work'[k].lamports \in Nat
      BY SoundStep DEF Sound, Ledger, Account
    <2>3. /\ work'[vault].lamports >= work[vault].lamports
          /\ work'[payer] = work[payer] \/ payer \in priv.signers
          /\ \A k \in Keys \ {vault, payer} : work'[k] = work[k]
      BY <2>1 DEF Resized
    <2>4. ASSUME NEW k \in Keys, work'[k].lamports < work[k].lamports
          PROVE  k \in priv.signers
      <3>1. work'[k].lamports \in Nat /\ work[k].lamports \in Nat
        BY <1>1, <2>2
      <3>2. k = payer /\ work'[payer] # work[payer]
        BY <2>3, <2>4, <3>1
      <3>3. QED
        BY <2>3, <3>2
    <2>5. QED
      BY <2>4 DEF Authorised
  <1>8. ASSUME NEW data \in Keys, ZeroCheckDone(data) PROVE Authorised
    BY <1>1, <1>8 DEF ZeroCheckDone, Authorised
  <1>9. ASSUME NEW payer \in Keys, InitIfNeededDone(payer) PROVE Authorised
    <2>1. MadeOrAccepted(Pda, payer)
      BY <1>9 DEF InitIfNeededDone
    <2>2. CASE CreatedBy(work, work', WithSeed, Pda, payer, CounterRent,
                         CounterLen, "counter")
      <3>1. payer # Pda /\ payer \in WithSeed.signers
        BY <2>2 DEF CreatedBy
      <3>2. payer \in priv.signers
        BY <1>1, <3>1 DEF WithSeed
      <3>3. QED
        BY <1>4, <2>2, <3>2, PlanLens, FundingAssumption
    <2>3. CASE work' = work
      BY <1>1, <2>3 DEF Authorised
    <2>4. QED
      BY <2>1, <2>2, <2>3 DEF MadeOrAccepted
  <1>10. QED
    BY <1>2, <1>3, <1>5, <1>6, <1>7, <1>8, <1>9, StepEffect DEF IInv

\* Inside a transaction only signers pay: no step, of this program or of
\* another, debits an account that did not sign, except a close that empties
\* an account of the program.
THEOREM OnlySignersPay == Spec => DebitsAuthorised
  <1>1. IInv /\ [Next]_vars => [open /\ open' => Authorised]_vars
    BY AuthorisedStep
  <1>2. QED
    BY <1>1, Invariance, PTL DEF Spec, DebitsAuthorised, Authorised

\* What one step keeps of the accounts the program owns.
Kept ==
    \A k \in Keys : work[k].owner = "program" =>
       /\ work'[k].owner = "program"
       /\ \/ work'[k].disc = work[k].disc
          \/ last'.op = "close" /\ work'[k].disc = "closed"

LEMMA KeptStep ==
    ASSUME IInv, Next, open, open'
    PROVE  Kept
  <1>1. work \in Ledger /\ EmptyIsZeroed(work) /\ TypeOK
    BY DEF IInv, Sound
  <1>2. ~Undone /\ ~Begun /\ ~Committed
    BY DEF Undone, Begun, Committed
  <1>3. CASE Outsider
    BY <1>3 DEF Outsider, Foreign, Kept
  <1>4. ASSUME NEW p, NEW key \in Keys, NEW payer \in Keys, NEW rent,
               NEW len, NEW disc, CreatedBy(work, work', p, key, payer, rent, len, disc)
        PROVE  Kept
    BY <1>4 DEF CreatedBy, Kept
  <1>5. ASSUME NEW new \in Keys, NEW payer \in Keys, InitDone(new, payer)
        PROVE  Kept
    BY <1>4, <1>5 DEF InitDone
  <1>6. ASSUME NEW key \in Keys, NEW dest \in Keys, CloseDone(key, dest)
        PROVE  Kept
    <2>1. last'.op = "close" /\ ClosedInto(work, work', key, dest)
      BY <1>6 DEF CloseDone, Succeeded, Observed
    <2>2. /\ work'[key].owner = work[key].owner
          /\ work'[key].disc = Prefix(work[key].len, "closed")
      BY <1>1, <2>1 DEF ClosedInto, Ledger, Account
    <2>3. ASSUME NEW k \in Keys, k # key
          PROVE  work'[k].owner = work[k].owner /\ work'[k].disc = work[k].disc
      BY <1>1, <2>1, <2>3 DEF ClosedInto, Ledger, Account
    <2>4. QED
      BY <1>1, <2>1, <2>2, <2>3 DEF Kept, EmptyIsZeroed, Prefix
  <1>7. ASSUME NEW vault \in Keys, NEW payer \in Keys, NEW op, NEW newlen,
               ReallocDone(op, vault, payer, newlen)
        PROVE  Kept
    <2>1. Resized(work, work', priv, vault, payer, newlen)
      BY <1>7 DEF ReallocDone
    <2>2. work'[payer].owner = work[payer].owner /\ work'[payer].disc = work[payer].disc
      <3>1. work'[payer] = [work[payer] EXCEPT !.lamports = work'[payer].lamports]
        BY <2>1 DEF Resized
      <3>2. QED
        BY <1>1, <3>1 DEF Ledger, Account
    <2>3. QED
      BY <2>1, <2>2 DEF Resized, Kept
  <1>8. ASSUME NEW data \in Keys, ZeroCheckDone(data) PROVE Kept
    BY <1>8 DEF ZeroCheckDone, Kept
  <1>9. ASSUME NEW payer \in Keys, InitIfNeededDone(payer) PROVE Kept
    <2>1. MadeOrAccepted(Pda, payer)
      BY <1>9 DEF InitIfNeededDone
    <2>2. CASE CreatedBy(work, work', WithSeed, Pda, payer, CounterRent,
                         CounterLen, "counter")
      BY <1>4, <2>2, PlanLens
    <2>3. CASE work' = work
      BY <2>3 DEF Kept
    <2>4. QED
      BY <2>1, <2>2, <2>3 DEF MadeOrAccepted
  <1>10. QED
    BY <1>1, <1>2, <1>3, <1>5, <1>6, <1>7, <1>8, <1>9, StepEffect

\* No account of the program is initialised twice or handed away: within a
\* transaction its owner stays, and its discriminator only ever becomes the
\* closed marker.
THEOREM LiveDataIsKept == Spec => NoReinitialisation
  <1>1. IInv /\ [Next]_vars => [open /\ open' => Kept]_vars
    BY KeptStep
  <1>2. QED
    BY <1>1, Invariance, PTL DEF Spec, NoReinitialisation, Kept

-----------------------------------------------------------------------------
(* Lamports are conserved.                                                 *)

LEMMA OutcomeUnbalanced ==
    ASSUME NEW valid \in BOOLEAN, NEW res, res.ok \in BOOLEAN,
           Outcome(valid, res) = "unbalanced"
    PROVE  res.ok /\ ~Balanced(work, res.out)
  BY DEF Outcome

LEMMA ConcludeUnbalanced ==
    ASSUME NEW op, NEW target, NEW other, NEW outcome, NEW out,
           outcome = "unbalanced" => op = "close" /\ target = other,
           Conclude(op, target, other, outcome, out)
    PROVE  OnlySelfCloseUnbalances'
  BY DEF Conclude, Observed, OnlySelfCloseUnbalances

LEMMA SelfCloseStep ==
    ASSUME TypeOK, OnlySelfCloseUnbalances, Next
    PROVE  OnlySelfCloseUnbalances'
  <1>1. CASE ProgramStep
    <2>1. PICK target, other \in Keys :
             \/ ProcessClose(target, other)
             \/ ProcessZeroCheck(target)
             \/ \E sys \in BOOLEAN :
                  \/ ProcessInit(target, other, sys)
                  \/ ProcessReallocGrow(target, other, sys)
                  \/ ProcessReallocShrink(target, other, sys)
                  \/ ProcessInitIfNeeded(target, other, sys)
      BY <1>1 DEF ProgramStep
    <2>2. CASE ProcessClose(target, other)
      <3> DEFINE res == CloseStep(work, target, other)
                 valid == ValidateCloseOne(other)
                 outcome == Outcome(valid, res)
      <3>1. valid \in BOOLEAN
        BY DEF ValidateCloseOne
      <3>2. res.ok = TRUE /\ ClosedInto(work, res.out, target, other)
        BY CloseStepEffect DEF TypeOK
      <3>3. Conclude("close", target, other, outcome, res.out)
        BY <2>2 DEF ProcessClose
      <3> HIDE DEF res, valid
      <3>4. target # other => Balanced(work, res.out)
        BY <3>2, ClosedBalanced DEF TypeOK
      <3>5. outcome = "unbalanced" => target = other
        <4>1. res.ok \in BOOLEAN
          BY <3>2
        <4>2. outcome = "unbalanced" => ~Balanced(work, res.out)
          BY <3>1, <4>1, OutcomeUnbalanced
        <4>3. QED
          BY <3>4, <4>2
      <3> HIDE DEF outcome
      <3>6. QED
        BY <3>3, <3>5, ConcludeUnbalanced
    <2>3. CASE ProcessZeroCheck(target)
      BY <2>3 DEF ProcessZeroCheck, Conclude, Observed, OnlySelfCloseUnbalances
    <2>4. ASSUME NEW sys \in BOOLEAN, ProcessInit(target, other, sys)
          PROVE  OnlySelfCloseUnbalances'
      <3> DEFINE res == InitStep(work, other, target, InitRent, InitSpace, priv)
                 valid == ValidateInitOne(other, sys)
                 outcome == Outcome(valid, res)
      <3>1. valid \in BOOLEAN /\ res.ok \in BOOLEAN
        BY DEF ValidateInitOne, MutSigner, InitStep, Done, Failed
      <3>2. /\ InitRent \in Nat /\ InitRent # 0 /\ InitSpace \in Nat
            /\ InitSpace + DiscriminatorLen \in Lens /\ work \in Ledger
        BY FundingAssumption, ProgramAssumption, RentAssumption, LensAssumption
           DEF InitLen, InitSpace, DiscriminatorLen, TypeOK
      <3>3. res.ok => CreatedBy(work, res.out, priv, target, other, InitRent,
                                InitSpace + DiscriminatorLen, "zero")
        BY <3>2, InitStepEffect
      <3>4. Conclude("init", target, other, outcome, res.out)
        BY <2>4 DEF ProcessInit
      <3> HIDE DEF res, valid
      <3>5. res.ok => Balanced(work, res.out)
        BY <3>2, <3>3, CreatedBalanced
      <3>6. outcome # "unbalanced"
        BY <3>1, <3>5, OutcomeUnbalanced
      <3> HIDE DEF outcome
      <3>7. QED
        BY <3>4, <3>6, ConcludeUnbalanced
    <2>5. ASSUME NEW sys \in BOOLEAN, NEW newlen \in {GrowLen, ShrinkLen},
                 NEW op,
                 LET res == ReallocStep(work, target, other, newlen, priv)
                 IN  Conclude(op, target, other,
                              Outcome(ValidateRealloc(target, other, sys), res),
                              res.out)
          PROVE  OnlySelfCloseUnbalances'
      <3> DEFINE res == ReallocStep(work, target, other, newlen, priv)
                 valid == ValidateRealloc(target, other, sys)
                 outcome == Outcome(valid, res)
      <3>1. valid \in BOOLEAN /\ res.ok \in BOOLEAN
        BY DEF ValidateRealloc, MutSigner, ReallocStep, Resize, Done, Failed
      <3>2. newlen \in Lens /\ newlen # 0 /\ work \in Ledger
        BY PlanLens DEF TypeOK
      <3>3. res.ok => Balanced(work, res.out)
        BY <3>2, ReallocBalanced
      <3>4. Conclude(op, target, other, outcome, res.out)
        BY <2>5
      <3> HIDE DEF res, valid
      <3>5. outcome # "unbalanced"
        BY <3>1, <3>3, OutcomeUnbalanced
      <3> HIDE DEF outcome
      <3>6. QED
        BY <3>4, <3>5, ConcludeUnbalanced
    <2>6. ASSUME NEW sys \in BOOLEAN, ProcessInitIfNeeded(target, other, sys)
          PROVE  OnlySelfCloseUnbalances'
      <3> DEFINE res == SeededInitIfNeededStep(work, other, target, CounterRent,
                                               CounterSpace, priv)
                 len == CounterSpace + DiscriminatorLen
                 valid == ValidateInitIfNeeded(target, other, sys)
                 outcome == Outcome(valid, res)
      <3>1. valid \in BOOLEAN /\ res.ok \in BOOLEAN
        BY DEF ValidateInitIfNeeded, MutSigner, SeededInitIfNeededStep, InitIfNeededStep,
               Done, Failed
      <3>2. /\ CounterRent \in Nat /\ CounterRent # 0 /\ CounterSpace \in Nat
            /\ CounterSpace + DiscriminatorLen \in Lens /\ work \in Ledger
        BY FundingAssumption, ProgramAssumption, RentAssumption, LensAssumption
           DEF CounterLen, CounterSpace, DiscriminatorLen, TypeOK
      <3>3. res.ok => \/ CreatedBy(work, res.out, Seeded(priv), target, other,
                                   CounterRent, len, "counter")
                      \/ res.out = work
        BY <3>2, SeededInitIfNeededStepEffect
      <3>4. Conclude("iin", target, other, outcome, res.out)
        BY <2>6 DEF ProcessInitIfNeeded
      <3> HIDE DEF res, valid, len
      <3>5. res.ok => Balanced(work, res.out)
        BY <3>2, <3>3, CreatedBalanced DEF Balanced
      <3>6. outcome # "unbalanced"
        BY <3>1, <3>5, OutcomeUnbalanced
      <3> HIDE DEF outcome
      <3>7. QED
        BY <3>4, <3>6, ConcludeUnbalanced
    <2>7. QED
      BY <2>1, <2>2, <2>3, <2>4, <2>5, <2>6
         DEF ProcessReallocGrow, ProcessReallocShrink
  <1>2. CASE EnvironmentStep
    <2>1. last' \in {Nothing, External}
      BY <1>2 DEF EnvironmentStep, BeginTransaction, SystemTransfer, SystemCreate,
                  ForeignWrite, ExternalInstruction, Commit, RefuseCommit
    <2>2. QED
      BY <2>1 DEF Nothing, External, Observed, OnlySelfCloseUnbalances
  <1>3. QED
    BY <1>1, <1>2 DEF Next

\* The runtime never finds the program to have created or destroyed lamports,
\* unless an account was closed into itself: init, realloc, init_if_needed and
\* every other close conserve them whatever the accounts are.
THEOREM LamportsAreMoved == Spec => []OnlySelfCloseUnbalances
  <1>1. Init => OnlySelfCloseUnbalances
    BY DEF Init, Nothing, Observed, OnlySelfCloseUnbalances
  <1>2. IInv /\ OnlySelfCloseUnbalances /\ [Next]_vars => OnlySelfCloseUnbalances'
    <2>1. IInv => TypeOK
      BY DEF IInv
    <2>2. OnlySelfCloseUnbalances /\ UNCHANGED vars => OnlySelfCloseUnbalances'
      BY DEF OnlySelfCloseUnbalances, vars
    <2>3. QED
      BY <2>1, <2>2, SelfCloseStep
  <1>3. QED
    BY <1>1, <1>2, Invariance, PTL DEF Spec

-----------------------------------------------------------------------------
(* The program implements the contract of the Lean library.                *)

\* The contract counts lamports as the ledger does.
LEMMA ContractSupply == ASSUME NEW a PROVE Contract!Supply(a) = Supply(a)
  BY DEF Contract!Supply, Supply, Contract!SumFunction, SumFunction,
         Contract!SumFunctionOnSet, SumFunctionOnSet,
         Contract!FoldFunctionOnSet, FoldFunctionOnSet,
         Contract!MapThenFoldSet, MapThenFoldSet

LEMMA ContractReap == ASSUME NEW a PROVE Contract!Reap(a) = Reap(a)
  BY DEF Contract!Reap, Reap, Contract!Absent, Absent

LEMMA CreatedIsLean ==
    ASSUME work \in Ledger, NEW p, NEW key \in Keys, NEW payer \in Keys,
           NEW rent \in Nat, NEW len \in {InitLen, CounterLen},
           NEW disc \in {"zero", "counter"},
           CreatedBy(work, work', p, key, payer, rent, len, disc)
    PROVE  Contract!ApplyInit(key, payer)
  <1> DEFINE made == work'[key]
             paid == made.lamports - work[key].lamports
             b == [work EXCEPT ![key] = [made EXCEPT !.owner = "program"],
                               ![payer].lamports = @ - paid]
  <1>1. /\ key # payer /\ work[key].lamports = 0 /\ work[key].len = 0
        /\ work' \in Ledger
        /\ made = [lamports |-> rent, owner |-> "program",
                   len |-> len, disc |-> disc]
        /\ work'[payer] = [work[payer] EXCEPT !.lamports = @ - rent]
        /\ \A k \in Keys \ {key, payer} : work'[k] = work[k]
    BY DEF CreatedBy
  <1>2. /\ work[key] \in Account /\ made \in Account
        /\ work[payer] \in Account /\ work'[payer] \in Account
    BY <1>1 DEF Ledger
  <1>3. paid = rent
    BY <1>1
  <1>4. paid \in 0..work[payer].lamports
    <2>1. /\ work'[payer].lamports = work[payer].lamports - rent
          /\ work'[payer].lamports \in Nat /\ work[payer].lamports \in Nat
      BY <1>1, <1>2 DEF Account
    <2>2. QED
      BY <1>3, <2>1
  <1>5. work' = b
    <2>1. [made EXCEPT !.owner = "program"] = made
      BY <1>1
    <2>2. b[key] = made /\ b[payer] = [work[payer] EXCEPT !.lamports = @ - rent]
      BY <1>1, <1>3, <2>1 DEF Ledger
    <2>3. \A k \in Keys \ {key, payer} : b[k] = work[k]
      BY DEF Ledger
    <2>4. \A k \in Keys : work'[k] = b[k]
      BY <1>1, <2>2, <2>3
    <2>5. b = [k \in Keys |-> b[k]] /\ work' = [k \in Keys |-> work'[k]]
      BY <1>1 DEF Ledger
    <2>6. QED
      BY <2>4, <2>5
  <1>6. /\ made.len \in {InitLen, CounterLen} /\ made.disc \in {"zero", "counter"}
    BY <1>1
  <1>7. QED
    BY <1>1, <1>4, <1>5, <1>6 DEF Contract!ApplyInit

LEMMA ToppedUpIsLean ==
    ASSUME work \in Ledger, NEW vault \in Keys, NEW payer \in Keys,
           vault # payer, NEW newlen \in Lens, newlen # 0,
           ToppedUp(work, work', vault, payer, newlen)
    PROVE  Contract!ApplyRealloc(vault, payer)
  <1> DEFINE min == MinimumBalance[newlen]
             delta == IF work[vault].lamports < min
                      THEN min - work[vault].lamports ELSE 0
             b == [work EXCEPT ![vault].lamports = @ + delta,
                               ![vault].len = newlen,
                               ![vault].disc = IF newlen = 0 THEN "zero" ELSE @,
                               ![payer].lamports = @ - delta]
  <1>1. /\ delta \in Nat /\ delta <= work[payer].lamports /\ work' \in Ledger
        /\ work'[vault] = [work[vault] EXCEPT !.lamports = @ + delta,
                                              !.len = newlen]
        /\ work'[payer] = [work[payer] EXCEPT !.lamports = @ - delta]
        /\ \A k \in Keys \ {vault, payer} : work'[k] = work[k]
    BY DEF ToppedUp
  <1>2. work[vault] \in Account /\ work[payer] \in Account
    BY DEF Ledger
  <1>3. work'[vault].len = newlen
    BY <1>1, <1>2 DEF Account
  <1> HIDE DEF delta
  <1>4. work' = b
    <2>1. /\ b[vault] = [work[vault] EXCEPT !.lamports = @ + delta,
                                            !.len = newlen]
          /\ b[payer] = [work[payer] EXCEPT !.lamports = @ - delta]
      BY <1>2 DEF Ledger, Account
    <2>2. \A k \in Keys \ {vault, payer} : b[k] = work[k]
      BY DEF Ledger
    <2>3. \A k \in Keys : work'[k] = b[k]
      BY <1>1, <2>1, <2>2
    <2>4. b = [k \in Keys |-> b[k]] /\ work' = [k \in Keys |-> work'[k]]
      BY <1>1 DEF Ledger
    <2>5. QED
      BY <2>3, <2>4
  <1>5. QED
    BY <1>1, <1>3, <1>4 DEF Contract!ApplyRealloc, delta

LEMMA ClosedIsLean ==
    ASSUME work \in Ledger, NEW key \in Keys, NEW dest \in Keys, key # dest,
           ClosedInto(work, work', key, dest)
    PROVE  Contract!ApplyClose(key, dest)
  <1> DEFINE b == [work EXCEPT
                     ![dest].lamports = @ + work[key].lamports,
                     ![key] = [@ EXCEPT !.lamports = 0, !.len = work'[key].len,
                                        !.disc = work'[key].disc]]
  <1>1. /\ work' \in Ledger
        /\ work'[key] = [work[key] EXCEPT !.lamports = 0,
                                  !.disc = Prefix(work[key].len, "closed")]
        /\ work'[dest] = [work[dest] EXCEPT !.lamports = @ + work[key].lamports]
        /\ \A k \in Keys \ {key, dest} : work'[k] = work[k]
    BY DEF ClosedInto
  <1>2. work[key] \in Account
    BY DEF Ledger
  <1>3. /\ work'[key].lamports = 0 /\ work'[key].owner = work[key].owner
        /\ work'[key].len = work[key].len
        /\ work'[key].disc = Prefix(work[key].len, "closed")
    BY <1>1, <1>2 DEF Account
  <1>4. Contract!Marked(work'[key])
    BY <1>3 DEF Contract!Marked, Prefix
  <1>5. work' = b
    <2>1. work'[key] = [work[key] EXCEPT !.lamports = 0, !.len = work'[key].len,
                                         !.disc = work'[key].disc]
      BY <1>1, <1>2, <1>3 DEF Account
    <2>2. /\ b[key] = [work[key] EXCEPT !.lamports = 0, !.len = work'[key].len,
                                        !.disc = work'[key].disc]
          /\ b[dest] = [work[dest] EXCEPT !.lamports = @ + work[key].lamports]
      BY DEF Ledger
    <2>3. \A k \in Keys \ {key, dest} : b[k] = work[k]
      BY DEF Ledger
    <2>4. \A k \in Keys : work'[k] = b[k]
      BY <1>1, <2>1, <2>2, <2>3
    <2>5. b = [k \in Keys |-> b[k]] /\ work' = [k \in Keys |-> work'[k]]
      BY <1>1 DEF Ledger
    <2>6. QED
      BY <2>4, <2>5
  <1>6. QED
    BY <1>4, <1>5 DEF Contract!ApplyClose

\* The program owns nothing on a chain with no key but the derived one: there
\* is nobody to pay for an account.
Solitary ==
    (\A k \in Keys : k = Pda) =>
        chain[Pda].owner # "program" /\ work[Pda].owner # "program"

LEMMA SolitaryStep ==
    ASSUME IInv, Solitary, Next
    PROVE  Solitary'
  <1> SUFFICES ASSUME \A k \in Keys : k = Pda
               PROVE  chain'[Pda].owner # "program" /\ work'[Pda].owner # "program"
    BY DEF Solitary
  <1>1. /\ TypeOK /\ Pda \in Keys /\ Pda \notin priv.signers
        /\ chain[Pda].owner # "program" /\ work[Pda].owner # "program"
    BY PlanLens DEF IInv, TypeOK, Solitary
  <1>2. CASE Undone \/ Begun
    BY <1>1, <1>2 DEF Undone, Begun
  <1>3. CASE Committed
    BY <1>1, <1>3 DEF Committed, Reap, Absent
  <1>4. CASE Outsider
    BY <1>1, <1>4 DEF Outsider, Foreign
  <1>5. ASSUME NEW target \in Keys, NEW other \in Keys,
               InitDone(target, other)
        PROVE  FALSE
    BY <1>5 DEF InitDone, CreatedBy
  <1>6. ASSUME NEW target \in Keys, NEW other \in Keys,
               CloseDone(target, other)
        PROVE  chain' = chain /\ work'[Pda].owner = work[Pda].owner
    <2>1. target = Pda /\ chain' = chain
      BY <1>6 DEF CloseDone, Succeeded
    <2>2. work'[Pda] = [work[Pda] EXCEPT !.lamports = 0,
                                  !.disc = Prefix(work[Pda].len, "closed")]
      BY <1>6, <2>1 DEF CloseDone, ClosedInto
    <2>3. work[Pda] \in Account
      BY <1>1 DEF TypeOK, Ledger
    <2>4. QED
      BY <2>1, <2>2, <2>3 DEF Account
  <1>7. ASSUME NEW target \in Keys, NEW other \in Keys, NEW op, NEW newlen,
               ReallocDone(op, target, other, newlen)
        PROVE  FALSE
    BY <1>7 DEF ReallocDone
  <1>8. ASSUME NEW target \in Keys, ZeroCheckDone(target)
        PROVE  chain' = chain /\ work' = work
    BY <1>8 DEF ZeroCheckDone, Succeeded
  <1>9. ASSUME NEW other \in Keys, InitIfNeededDone(other)
        PROVE  chain' = chain /\ work' = work
    BY <1>9 DEF InitIfNeededDone, Succeeded, MadeOrAccepted, CreatedBy
  <1>10. QED
    BY <1>1, <1>2, <1>3, <1>4, <1>5, <1>6, <1>7, <1>8, <1>9, StepEffect

\* An account closed into itself had no lamports.  If the program owned it,
\* any other account is one it may be said to have been closed into.
LEMMA SelfClosedIsLean ==
    ASSUME TypeOK, Solitary, NEW key \in Keys, CloseDone(key, key)
    PROVE  work' = work \/ \E dest \in Keys : Contract!ApplyClose(key, dest)
  <1>1. /\ work \in Ledger /\ work' \in Ledger /\ Balanced(work, work')
        /\ WritesOwned(work, work', priv)
        /\ work'[key] = [work[key] EXCEPT !.lamports = 0,
                                  !.disc = Prefix(work[key].len, "closed")]
        /\ \A k \in Keys \ {key} : work'[k] = work[k]
    BY DEF TypeOK, CloseDone, ClosedInto
  <1>2. work[key] \in Account /\ work'[key] \in Account
    BY <1>1 DEF Ledger
  <1>3. work[key].lamports = 0
    <2>1. Supply(work') = Supply(work)
                            + (work'[key].lamports - work[key].lamports)
      BY <1>1, SupplyChange
    <2>2. Supply(work') = Supply(work) /\ Supply(work) \in Int
      BY <1>1, SupplyType DEF Balanced
    <2>3. work'[key].lamports = 0 /\ work[key].lamports \in Nat
      BY <1>1, <1>2 DEF Account
    <2>4. QED
      BY <2>1, <2>2, <2>3
  <1>4. CASE work[key].owner # "program"
    <2>1. work'[key].disc = work[key].disc
      BY <1>1, <1>4 DEF WritesOwned
    <2>2. work'[key] = work[key]
      BY <1>1, <1>2, <1>3, <2>1 DEF Account
    <2>3. \A k \in Keys : work'[k] = work[k]
      BY <1>1, <2>2
    <2>4. QED
      BY <1>1, <2>3 DEF Ledger
  <1>5. CASE work[key].owner = "program"
    <2>1. PICK dest \in Keys : dest # key
      <3>1. Pda \in Keys
        BY ProgramAssumption
      <3>2. QED
        BY <1>5, <3>1 DEF Solitary
    <2>2. work'[dest] = [work[dest] EXCEPT !.lamports = @ + work[key].lamports]
      <3>1. work'[dest] = work[dest] /\ work[dest] \in Account
        BY <1>1, <2>1 DEF Ledger
      <3>2. work[dest].lamports + work[key].lamports = work[dest].lamports
        BY <1>3, <3>1 DEF Account
      <3>3. QED
        BY <3>1, <3>2 DEF Account
    <2>3. ClosedInto(work, work', key, dest)
      BY <1>1, <2>1, <2>2 DEF ClosedInto
    <2>4. QED
      BY <1>1, <2>1, <2>3, ClosedIsLean
  <1>6. QED
    BY <1>4, <1>5

\* Instructions of other programs.
LEMMA OutsiderIsOutside ==
    ASSUME TypeOK, Outsider
    PROVE  Contract!Outside
  <1>1. /\ open /\ open' = TRUE /\ chain' = chain
        /\ work \in Ledger /\ work' \in Ledger
        /\ Foreign(work, work', priv) /\ Balanced(work, work')
    BY DEF TypeOK, Outsider, Foreign
  <1>2. work' \in [Keys -> Contract!Account]
    BY <1>1 DEF Ledger, Account, Contract!Account, Owners, Contract!Owners,
                Discs, Contract!Discs
  <1>3. Contract!Balanced(work, work')
    BY <1>1, ContractSupply DEF Balanced, Contract!Balanced
  <1>4. ASSUME NEW k \in Keys, work[k].owner = "program"
        PROVE  [work'[k] EXCEPT !.lamports = 0] = [work[k] EXCEPT !.lamports = 0]
    <2>1. work[k] \in Account /\ work'[k] \in Account
      BY <1>1 DEF Ledger
    <2>2. /\ work'[k].owner = work[k].owner /\ work'[k].len = work[k].len
          /\ work'[k].disc = work[k].disc
      BY <1>1, <1>4 DEF Foreign
    <2>3. QED
      BY <2>1, <2>2 DEF Account
  <1>5. \A k \in Keys :
          /\ work[k].owner = "program" => work'[k].lamports >= work[k].lamports
          /\ work'[k].owner = "program" /\ work[k].owner # "program"
               => work'[k].disc = "zero"
    BY <1>1 DEF Foreign
  <1>6. QED
    BY <1>1, <1>2, <1>3, <1>4, <1>5 DEF Contract!Outside

LEMMA ContractInit == Init => Contract!Init
  <1> SUFFICES ASSUME Init PROVE Contract!Init
    OBVIOUS
  <1>1. Sound(chain) /\ work = chain /\ open = FALSE
    BY IInvInit DEF IInv, Init
  <1>2. chain \in Contract!Ledger
    BY <1>1 DEF Sound, Ledger, Account, Contract!Ledger, Contract!Account,
                Owners, Contract!Owners, Discs, Contract!Discs
  <1>3. \A k \in Keys : chain[k].owner # "program"
    BY DEF Init, Absent
  <1>4. QED
    BY <1>1, <1>2, <1>3 DEF Contract!Init

\* Every step is one of the contract's, or changes none of its variables.
LEMMA ContractStep ==
    ASSUME IInv, Solitary, [Next]_vars
    PROVE  [Contract!Next]_Contract!vars
  <1> DEFINE Mapped == Contract!Next \/ UNCHANGED <<chain, work, open>>
  <1>1. SUFFICES ASSUME Next PROVE Mapped
    BY DEF vars, Contract!vars
  <1>2. TypeOK /\ work \in Ledger
    BY DEF IInv, TypeOK
  <1>3. CASE Undone \/ Begun \/ Committed
    <2>1. Undone => Contract!Rollback
      BY DEF Undone, Contract!Rollback
    <2>2. Begun => Contract!Start
      BY DEF Begun, Contract!Start
    <2>3. Committed => Contract!Commit
      BY ContractReap DEF Committed, Contract!Commit
    <2>4. QED
      BY <1>3, <2>1, <2>2, <2>3 DEF Contract!Next
  <1>4. CASE Outsider
    BY <1>2, <1>4, OutsiderIsOutside DEF Contract!Next
  <1>5. ASSUME NEW key \in Keys, NEW other \in Keys, NEW op, NEW target,
               Succeeded(op, target, other),
               \/ Contract!ApplyInit(key, other)
               \/ Contract!ApplyClose(key, other)
               \/ Contract!ApplyRealloc(key, other)
        PROVE  Mapped
    BY <1>5 DEF Succeeded, Contract!Lifecycle, Contract!Next
  <1>6. ASSUME NEW target \in Keys, NEW other \in Keys,
               InitDone(target, other)
        PROVE  Mapped
    <2>1. InitRent \in Nat
      BY FundingAssumption
    <2>2. Contract!ApplyInit(target, other)
      BY <1>2, <1>6, <2>1, CreatedIsLean DEF InitDone
    <2>3. QED
      BY <1>5, <1>6, <2>2 DEF InitDone
  <1>7. ASSUME NEW target \in Keys, NEW other \in Keys,
               CloseDone(target, other)
        PROVE  Mapped
    <2>0. open /\ open' = TRUE /\ chain' = chain
      BY <1>7 DEF CloseDone, Succeeded
    <2>1. CASE target # other
      <3>1. Contract!ApplyClose(target, other)
        BY <1>2, <1>7, <2>1, ClosedIsLean DEF CloseDone
      <3>2. QED
        BY <2>0, <3>1 DEF Contract!Lifecycle, Contract!Next
    <2>2. CASE target = other
      <3>1. work' = work \/ \E dest \in Keys : Contract!ApplyClose(target, dest)
        BY <1>2, <1>7, <2>2, SelfClosedIsLean
      <3>2. QED
        BY <2>0, <3>1 DEF Contract!Lifecycle, Contract!Next
    <2>3. QED
      BY <2>1, <2>2
  <1>8. ASSUME NEW target \in Keys, NEW other \in Keys, NEW op,
               NEW newlen \in {GrowLen, ShrinkLen},
               ReallocDone(op, target, other, newlen)
        PROVE  Mapped
    <2>1. newlen \in Lens /\ newlen # 0
      BY PlanLens
    <2>2. Contract!ApplyRealloc(target, other)
      BY <1>2, <1>8, <2>1, ToppedUpIsLean DEF ReallocDone
    <2>3. QED
      BY <1>5, <1>8, <2>2 DEF ReallocDone
  <1>9. ASSUME NEW target \in Keys, ZeroCheckDone(target)
        PROVE  Mapped
    BY <1>9 DEF ZeroCheckDone, Succeeded
  <1>10. ASSUME NEW other \in Keys, InitIfNeededDone(other)
         PROVE  Mapped
    <2>1. CounterRent \in Nat /\ Pda \in Keys
      BY FundingAssumption, ProgramAssumption
    <2>2. CASE work' = work
      BY <1>10, <2>2 DEF InitIfNeededDone, Succeeded
    <2>3. CASE work' # work
      <3>1. Contract!ApplyInit(Pda, other)
        BY <1>2, <1>10, <2>1, <2>3, CreatedIsLean
           DEF InitIfNeededDone, MadeOrAccepted
      <3>2. QED
        BY <1>5, <1>10, <2>1, <3>1 DEF InitIfNeededDone
    <2>4. QED
      BY <2>2, <2>3
  <1> HIDE DEF Mapped
  <1>11. \/ Undone \/ Begun \/ Committed \/ Outsider
         \/ \E target, other \in Keys :
              \/ InitDone(target, other) \/ CloseDone(target, other)
              \/ ReallocDone("grow", target, other, GrowLen)
              \/ ReallocDone("shrink", target, other, ShrinkLen)
              \/ ZeroCheckDone(target) \/ InitIfNeededDone(other)
    BY <1>1, <1>2, StepEffect
  <1>12. QED
    BY <1>3, <1>4, <1>6, <1>7, <1>8, <1>9, <1>10, <1>11, Zenon

\* The program as it runs on chain, transactions and other programs included,
\* implements the contract of the Lean library: whatever happens to the
\* accounts is one of applyInit, applyClose and applyRealloc, an effect other
\* programs may have, or the beginning or end of a transaction.
THEOREM ContractImplemented == Spec => ImplementsContract
  <1>1. Init => Solitary
    BY ProgramAssumption DEF Init, Solitary, Absent
  <1>2. IInv /\ Solitary /\ [Next]_vars => Solitary'
    <2>1. Solitary /\ UNCHANGED vars => Solitary'
      BY DEF Solitary, vars
    <2>2. QED
      BY <2>1, SolitaryStep
  <1>3. IInv /\ Solitary /\ [Next]_vars => [Contract!Next]_Contract!vars
    BY ContractStep
  <1>4. QED
    BY <1>1, <1>2, <1>3, ContractInit, Invariance, PTL
       DEF Spec, ImplementsContract, Contract!Spec
=============================================================================
