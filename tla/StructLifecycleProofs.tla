------------------------ MODULE StructLifecycleProofs ------------------------
(***************************************************************************)
(* Proofs about StructLifecycle, for every struct the proof gate passes,   *)
(* every way of passing it accounts and every ledger.                      *)
(*                                                                         *)
(* The first part reduces a step to its effect on the accounts it names;   *)
(* the invariants then relate the program's view, the runtime's view and   *)
(* the ledger at the start of the instruction.                             *)
(***************************************************************************)
EXTENDS StructLifecycle, StepLemmas

-----------------------------------------------------------------------------
(* Effects.                                                                *)

Stopped == /\ UNCHANGED <<known, mem, todo, struct, keys, priv, before>>
           /\ outcome' \in Outcomes \ {"running", "ok"}

\* The runtime accepted the call and both views agree on its accounts.
Called(p) ==
    /\ WritesOwned(known, Read(Pair(p)), priv)
    /\ \A k \in Pair(p) : /\ known'[k].lamports = mem'[k].lamports
                          /\ known'[k].owner = mem'[k].owner

\* init, or init_if_needed of a fresh account.
Made(p) ==
    LET t == Target(p)
        o == Partner(p)
    IN  /\ p[2] \in {"init", "iin"}
        /\ Called(p)
        /\ t # o /\ o \in priv.signers
        /\ mem[t].lamports = 0 /\ mem[t].len = 0 /\ mem[t].owner = "system"
        /\ mem[o].len = 0 /\ mem[o].owner = "system"
        /\ mem'[t].lamports = RentLamports /\ mem'[t].owner = "program"
        /\ mem'[t].len = Length(p) /\ mem'[t].disc \in {"zero", "counter"}
        /\ mem'[o] = [mem[o] EXCEPT !.lamports = @ - RentLamports]

\* init_if_needed of an account that is there already.
Kept(p) ==
    /\ p[2] = "iin"
    /\ mem' = mem /\ known' = known
    /\ mem[Target(p)].owner = "program" /\ mem[Target(p)].len >= CounterLen

Closed(p) ==
    /\ p[2] = "close"
    /\ known' = known
    /\ ClosedInto(mem, mem', Target(p), Partner(p))

\* realloc of an account with enough lamports.
Sized(p) ==
    LET t == Target(p)
    IN  /\ p[2] = "realloc"
        /\ known' = known
        /\ mem[t].lamports >= MinimumBalance[NewLen(p)]
        /\ mem'[t] = [mem[t] EXCEPT !.len = NewLen(p)]
        /\ \A k \in Keys \ {t} : mem'[k] = mem[k]

\* realloc of an account with too few.
Topped(p) ==
    LET t == Target(p)
        o == Partner(p)
        min == MinimumBalance[NewLen(p)]
    IN  /\ p[2] = "realloc"
        /\ Called(p)
        /\ mem[t].lamports < min
        /\ o \in priv.signers
        /\ mem[o].len = 0 /\ mem[o].owner = "system"
        /\ t = o => /\ known'[t] = mem[t]
                    /\ mem'[t] = [mem[t] EXCEPT !.len = NewLen(p)]
        /\ t # o => /\ mem'[t] = [mem[t] EXCEPT !.lamports = min, !.len = NewLen(p)]
                    /\ mem'[o] = [mem[o] EXCEPT
                                   !.lamports = @ - (min - mem[t].lamports)]

Advanced(p) ==
    /\ Running /\ Due(p)
    /\ outcome' = "running" /\ todo' = todo \ {p}
    /\ UNCHANGED <<struct, keys, priv, before>>
    /\ mem' \in Ledger /\ known' \in Ledger
    /\ \A k \in Keys \ Pair(p) : mem'[k] = mem[k] /\ known'[k] = known[k]
    /\ Made(p) \/ Kept(p) \/ Closed(p) \/ Sized(p) \/ Topped(p)

\* The parts of a step of a struct are what its constraint says they are.
LEMMA StepParts ==
    ASSUME TypeOK, NEW p \in StepsOf(struct)
    PROVE  /\ p[1] \in DOMAIN struct /\ p[2] \in Kinds /\ p = <<p[1], p[2]>>
           /\ p[2] \in struct[p[1]].steps
           /\ Target(p) \in Keys /\ Partner(p) \in Keys
           /\ NewLen(p) \in Lens /\ NewLen(p) \in Nat /\ NewLen(p) # 0
           /\ MinimumBalance[NewLen(p)] \in Nat \ {0}
           /\ Other(struct, p) \in DOMAIN struct /\ Other(struct, p) # p[1]
           /\ p[2] = "realloc" => struct[p[1]].mut
  <1>1. /\ p[1] \in DOMAIN struct /\ p[2] \in Kinds /\ p = <<p[1], p[2]>>
        /\ p[2] \in struct[p[1]].steps
    BY DEF StepsOf
  <1>2. struct \in Structs /\ struct \in Seq(Field)
    BY StructAssumption DEF TypeOK
  <1>3. struct[p[1]] \in Field
    BY <1>1, <1>2
  <1>4. /\ struct[p[1]].payer \in DOMAIN struct
        /\ struct[p[1]].dest \in DOMAIN struct
        /\ struct[p[1]].repayer \in DOMAIN struct
        /\ "realloc" \in struct[p[1]].steps => struct[p[1]].mut
    BY <1>1, <1>2, StructAssumption
  <1>5. Other(struct, p) # p[1]
    BY <1>2, StructAssumption DEF WellFormed
  <1>6. Other(struct, p) \in DOMAIN struct
    BY <1>1, <1>4 DEF Other, Kinds
  <1>7. NewLen(p) \in Lens /\ NewLen(p) \in Nat /\ NewLen(p) # 0
    BY <1>3, LensAssumption DEF NewLen, Field
  <1>8. Target(p) \in Keys /\ Partner(p) \in Keys
    BY <1>1, <1>6 DEF TypeOK, Target, Partner
  <1>9. MinimumBalance[NewLen(p)] \in Nat \ {0}
    BY <1>7, RentAssumption
  <1>10. QED
    BY <1>1, <1>4, <1>5, <1>6, <1>7, <1>8, <1>9

\* How a step that returned Ok moves on.
Moved(p, cpi, out) ==
    /\ Running /\ Due(p)
    /\ outcome' = "running" /\ todo' = todo \ {p}
    /\ UNCHANGED <<struct, keys, priv, before>>
    /\ mem' = out
    /\ \/ /\ Invokes(p)
          /\ WritesOwned(known, Read(Pair(p)), priv)
          /\ known' = [k \in Keys |-> IF k \in Pair(p) THEN cpi[k] ELSE known[k]]
       \/ ~Invokes(p) /\ known' = known

LEMMA StepMoves ==
    ASSUME TypeOK, NEW p \in todo, Invoke(p) \/ Write(p)
    PROVE  \/ Stopped
           \/ Result(p).ok /\ Moved(p, Result(p).cpi, Result(p).out)
  <1>1. Refusal(p) \in {"not_owner", "unbalanced", "none"}
        /\ (Refusal(p) = "none" => WritesOwned(known, Read(Pair(p)), priv))
    BY DEF Refusal
  <1>2. CASE Invoke(p)
    <2>1. CASE Refusal(p) # "none" /\ Stop(Refusal(p))
      BY <1>1, <2>1 DEF Stop, Stopped, input, Outcomes
    <2>2. CASE Stop("failed")
      BY <2>2 DEF Stop, Stopped, input, Outcomes
    <2>3. CASE ~(Refusal(p) # "none" /\ Stop(Refusal(p))) /\ ~Stop("failed")
      BY <1>1, <1>2, <2>3 DEF Invoke, Moved, Running, input
    <2>4. QED
      BY <2>1, <2>2, <2>3
  <1>3. CASE Write(p)
    <2>1. CASE Stop("failed")
      BY <2>1 DEF Stop, Stopped, input, Outcomes
    <2>2. CASE ~Stop("failed")
      BY <1>3, <2>2 DEF Write, Moved, Running, input
    <2>3. QED
      BY <2>1, <2>2
  <1>4. QED
    BY <1>2, <1>3

LEMMA InitMoves ==
    ASSUME TypeOK, NEW p \in StepsOf(struct), p[2] = "init", Result(p).ok,
           Moved(p, Result(p).cpi, Result(p).out)
    PROVE  Advanced(p)
  <1> DEFINE t == Target(p)
             o == Partner(p)
             res == InitStep(mem, o, t, RentLamports, 0, priv)
  <1>1. Result(p) = res
    BY DEF Result
  <1>2. t \in Keys /\ o \in Keys
    BY StepParts
  <1>3. /\ RentLamports \in Nat /\ RentLamports # 0
        /\ 0 + DiscriminatorLen \in Lens /\ 0 + DiscriminatorLen = InitLen
    BY CallAssumption DEF InitLen, DiscriminatorLen
  <1>4. mem \in Ledger /\ known \in Ledger
    BY DEF TypeOK
  <1>5. /\ CreatedBy(mem, res.out, priv, t, o, RentLamports, InitLen, "zero")
        /\ res.cpi = res.out
    <2> DEFINE space == 0
    <2>1. space \in Nat
      OBVIOUS
    <2>2. res = InitStep(mem, o, t, RentLamports, space, priv) /\ res.ok
      BY <1>1
    <2>3. space + DiscriminatorLen \in Lens /\ space + DiscriminatorLen = InitLen
      BY <1>3
    <2> HIDE DEF space, t, o, res
    <2>4. QED
      BY <1>2, <1>3, <1>4, <2>1, <2>2, <2>3, InitStepEffect, InitStepCall
  <1>6. Invokes(p)
    BY DEF Invokes
  <1> HIDE DEF res
  <1>7. /\ mem' = res.out
        /\ WritesOwned(known, Read(Pair(p)), priv)
        /\ known' = [k \in Keys |-> IF k \in Pair(p) THEN res.out[k] ELSE known[k]]
    BY <1>1, <1>5, <1>6 DEF Moved
  <1>8. mem' \in Ledger /\ known' \in Ledger
    BY <1>4, <1>5, <1>7 DEF CreatedBy, Ledger
  <1>9. \A k \in Keys \ Pair(p) : mem'[k] = mem[k] /\ known'[k] = known[k]
    BY <1>5, <1>7 DEF CreatedBy, Pair
  <1>10. Called(p)
    BY <1>2, <1>7 DEF Called, Pair
  <1>11. Made(p)
    BY <1>5, <1>7, <1>10 DEF Made, CreatedBy, Length
  <1>12. QED
    BY <1>8, <1>9, <1>11 DEF Moved, Advanced

LEMMA CloseMoves ==
    ASSUME TypeOK, NEW p \in StepsOf(struct), p[2] = "close", Result(p).ok,
           Moved(p, Result(p).cpi, Result(p).out)
    PROVE  Advanced(p)
  <1>1. Result(p) = CloseStep(mem, Target(p), Partner(p)) /\ ~Invokes(p)
    BY DEF Result, Invokes
  <1>2. Target(p) \in Keys /\ Partner(p) \in Keys
    BY StepParts
  <1>3. mem \in Ledger /\ known \in Ledger
    BY DEF TypeOK
  <1>4. ClosedInto(mem, Result(p).out, Target(p), Partner(p))
    BY <1>1, <1>2, <1>3, CloseStepEffect
  <1>5. Closed(p)
    BY <1>1, <1>4 DEF Closed, Moved
  <1>6. QED
    BY <1>1, <1>3, <1>4, <1>5 DEF Moved, Advanced, ClosedInto, Pair

LEMMA InitIfNeededMoves ==
    ASSUME TypeOK, NEW p \in StepsOf(struct), p[2] = "iin", Result(p).ok,
           Moved(p, Result(p).cpi, Result(p).out)
    PROVE  Advanced(p)
  <1> DEFINE t == Target(p)
             o == Partner(p)
             res == InitIfNeeded(p)
             seed == IF struct[p[1]].seeded THEN Seeded(priv) ELSE priv
  <1>1. Result(p) = res
    BY DEF Result
  <1>2. t \in Keys /\ o \in Keys
    BY StepParts
  <1>3. /\ RentLamports \in Nat /\ RentLamports # 0
        /\ 8 + DiscriminatorLen \in Lens /\ 8 + DiscriminatorLen = CounterLen
    BY CallAssumption DEF CounterLen, DiscriminatorLen
  <1>4. mem \in Ledger /\ known \in Ledger
    BY DEF TypeOK
  <1>5. \/ /\ NeedsInit(mem[t])
           /\ struct[p[1]].seeded => t = Pda
           /\ CreatedBy(mem, res.out, seed, t, o, RentLamports, CounterLen, "counter")
           /\ res.cpi \in Ledger
           /\ \A k \in Keys : /\ res.cpi[k].lamports = res.out[k].lamports
                              /\ res.cpi[k].owner = res.out[k].owner
           /\ \A k \in Keys \ {t, o} : res.cpi[k] = mem[k]
        \/ /\ ~NeedsInit(mem[t])
           /\ res.out = mem /\ res.cpi = mem
           /\ mem[t].owner = "program" /\ mem[t].len >= CounterLen
    <2> DEFINE space == 8
    <2>1. space \in Nat
      OBVIOUS
    <2>2. space + DiscriminatorLen \in Lens /\ space + DiscriminatorLen = CounterLen
      BY <1>3
    <2>3. res.ok
      BY <1>1
    <2>4. CASE struct[p[1]].seeded
      <3>1. /\ res = SeededInitIfNeededStep(mem, o, t, RentLamports, space, priv)
            /\ seed = Seeded(priv)
        BY <2>4 DEF InitIfNeeded
      <3> HIDE DEF space, t, o, res, seed
      <3>2. QED
        BY <1>2, <1>3, <1>4, <2>1, <2>2, <2>3, <3>1,
           SeededInitIfNeededStepEffect
    <2>5. CASE ~struct[p[1]].seeded
      <3>1. /\ res = InitIfNeededStep(mem, o, t, RentLamports, space, priv)
            /\ seed = priv
        BY <2>5 DEF InitIfNeeded
      <3> HIDE DEF space, t, o, res, seed
      <3>2. QED
        BY <1>2, <1>3, <1>4, <2>1, <2>2, <2>3, <2>5, <3>1,
           InitIfNeededStepEffect
    <2>6. QED
      BY <2>4, <2>5
  <1>6. Invokes(p) = NeedsInit(mem[t])
    BY DEF Invokes
  <1> HIDE DEF res
  <1>7. CASE ~NeedsInit(mem[t])
    <2>1. Kept(p)
      BY <1>1, <1>5, <1>6, <1>7 DEF Kept, Moved
    <2>2. QED
      BY <1>4, <2>1 DEF Kept, Moved, Advanced
  <1>8. CASE NeedsInit(mem[t])
    <2>1. /\ struct[p[1]].seeded => t = Pda
          /\ res.cpi \in Ledger
          /\ CreatedBy(mem, res.out, seed, t, o, RentLamports, CounterLen, "counter")
          /\ \A k \in Keys : /\ res.cpi[k].lamports = res.out[k].lamports
                             /\ res.cpi[k].owner = res.out[k].owner
      BY <1>5, <1>8
    <2>2. /\ mem' = res.out
          /\ WritesOwned(known, Read(Pair(p)), priv)
          /\ known' = [k \in Keys |-> IF k \in Pair(p) THEN res.cpi[k] ELSE known[k]]
      BY <1>1, <1>6, <1>8 DEF Moved
    <2>3. mem' \in Ledger /\ known' \in Ledger
      BY <1>4, <2>1, <2>2 DEF CreatedBy, Ledger
    <2>4. \A k \in Keys \ Pair(p) : mem'[k] = mem[k] /\ known'[k] = known[k]
      BY <2>1, <2>2 DEF CreatedBy, Pair
    <2>5. Called(p)
      BY <1>2, <2>1, <2>2 DEF Called, Pair
    <2>6. o \in priv.signers
      <3>1. priv \in [signers: SUBSET (Keys \ {Pda}), writable: SUBSET Keys]
        BY CallAssumption DEF TypeOK
      <3>2. o \in seed.signers /\ o # t
        BY <2>1 DEF CreatedBy
      <3>3. QED
        BY <2>1, <3>1, <3>2 DEF Seeded
    <2>7. Made(p)
      BY <2>1, <2>2, <2>5, <2>6 DEF Made, CreatedBy, Length
    <2>8. QED
      BY <2>3, <2>4, <2>7 DEF Moved, Advanced
  <1>9. QED
    BY <1>7, <1>8

LEMMA ReallocMoves ==
    ASSUME TypeOK, NEW p \in StepsOf(struct), p[2] = "realloc", Result(p).ok,
           Moved(p, Result(p).cpi, Result(p).out)
    PROVE  Advanced(p)
  <1> DEFINE t == Target(p)
             o == Partner(p)
             n == NewLen(p)
             min == MinimumBalance[n]
             c == Result(p).cpi
             b == Result(p).out
  <1>1. Result(p) = ReallocStep(mem, t, o, n, priv)
    <2>1. Result(p) = Realloc(mem, p)
      BY DEF Result
    <2>2. Realloc(mem, p).ok
      BY <2>1
    <2>3. Realloc(mem, p) = ReallocStep(mem, t, o, n, priv)
      BY <2>2 DEF Realloc, Failed
    <2>4. QED
      BY <2>1, <2>3
  <1>2. /\ t \in Keys /\ o \in Keys /\ n \in Lens /\ n # 0
        /\ min \in Nat /\ Pair(p) = {t, o}
    BY StepParts DEF Pair
  <1>3. mem \in Ledger /\ known \in Ledger
    BY DEF TypeOK
  <1>4. Invokes(p) = (mem[t].lamports < min)
    BY DEF Invokes
  <1> HIDE DEF t, o, n
  <1>5. /\ c \in Ledger /\ b \in Ledger
        /\ b[t] = [c[t] EXCEPT !.len = n]
        /\ \A k \in Keys \ {t} : b[k] = c[k]
        /\ mem[t].lamports >= min => c = mem
        /\ mem[t].lamports < min =>
             /\ CanTransfer(mem, o, t, min - mem[t].lamports, priv)
             /\ o = t => c = mem
             /\ o # t =>
                  /\ c[o] = [mem[o] EXCEPT !.lamports = @ - (min - mem[t].lamports)]
                  /\ c[t] = [mem[t] EXCEPT !.lamports = min]
             /\ \A k \in Keys \ {t, o} : c[k] = mem[k]
    <2>1. ReallocStep(mem, t, o, n, priv).ok
      BY <1>1
    <2>2. QED
      BY <1>1, <1>2, <1>3, <2>1, ReallocStepCases
  <1>6. mem[t].lamports \in Nat
    BY <1>2, <1>3 DEF Ledger, Account
  <1>7. mem' = b
    BY DEF Moved
  <1> HIDE DEF c, b, min
  <1>8. CASE mem[t].lamports < min
    <2>1. /\ WritesOwned(known, Read(Pair(p)), priv)
          /\ known' = [k \in Keys |-> IF k \in Pair(p) THEN c[k] ELSE known[k]]
      BY <1>4, <1>8 DEF Moved, c
    <2>2. mem' \in Ledger /\ known' \in Ledger
      BY <1>3, <1>5, <1>7, <2>1 DEF Ledger
    <2>3. \A k \in Keys \ Pair(p) : mem'[k] = mem[k] /\ known'[k] = known[k]
      BY <1>2, <1>5, <1>7, <1>8, <2>1
    <2>4. \A k \in Keys : /\ c[k].lamports = b[k].lamports
                          /\ c[k].owner = b[k].owner
      BY <1>2, <1>5 DEF Ledger, Account
    <2>5. Called(p)
      BY <1>2, <1>7, <2>1, <2>4 DEF Called
    <2>6. /\ o \in priv.signers /\ mem[o].len = 0 /\ mem[o].owner = "system"
      BY <1>5, <1>8 DEF CanTransfer
    <2>7. t = o => /\ known'[t] = mem[t]
                   /\ mem'[t] = [mem[t] EXCEPT !.len = n]
      BY <1>2, <1>5, <1>7, <1>8, <2>1
    <2>8. t # o => /\ mem'[t] = [mem[t] EXCEPT !.lamports = min, !.len = n]
                   /\ mem'[o] = [mem[o] EXCEPT
                                   !.lamports = @ - (min - mem[t].lamports)]
      BY <1>2, <1>5, <1>7, <1>8
    <2>9. Topped(p)
      BY <1>8, <2>5, <2>6, <2>7, <2>8 DEF Topped, t, o, n, min
    <2>10. QED
      BY <2>2, <2>3, <2>9 DEF Moved, Advanced
  <1>9. CASE ~(mem[t].lamports < min)
    <2>1. mem[t].lamports >= min /\ c = mem
      BY <1>2, <1>5, <1>6, <1>9 DEF min
    <2>2. known' = known
      BY <1>4, <1>9 DEF Moved
    <2>3. /\ mem'[t] = [mem[t] EXCEPT !.len = n]
          /\ \A k \in Keys \ {t} : mem'[k] = mem[k]
      BY <1>5, <1>7, <2>1
    <2>4. Sized(p)
      BY <2>1, <2>2, <2>3 DEF Sized, t, n, min
    <2>5. QED
      BY <1>2, <1>3, <1>5, <1>7, <2>2, <2>3, <2>4 DEF Moved, Advanced
  <1>10. QED
    BY <1>8, <1>9

LEMMA StepEffect ==
    ASSUME TypeOK, NEW p \in todo, Invoke(p) \/ Write(p)
    PROVE  Stopped \/ Advanced(p)
  <1>1. p \in StepsOf(struct)
    BY DEF TypeOK
  <1>2. p[2] \in {"init", "close", "realloc", "iin"}
    BY <1>1, StepParts DEF Kinds
  <1>3. QED
    BY <1>1, <1>2, StepMoves, InitMoves, CloseMoves, ReallocMoves,
       InitIfNeededMoves

-----------------------------------------------------------------------------
(* Type correctness.                                                       *)

LEMMA NextEffect ==
    ASSUME TypeOK, Next
    PROVE  \/ Stopped
           \/ /\ outcome' = "ok" /\ Running /\ todo = {}
              /\ WritesOwned(known, mem, priv)
              /\ UNCHANGED <<known, mem, todo, struct, keys, priv, before>>
           \/ \E p \in todo : Advanced(p)
  <1>1. CASE Reject
    BY <1>1 DEF Reject, Stop, Stopped, input, Outcomes
  <1>2. CASE Return
    BY <1>2 DEF Return, Stop, Stopped, input, Outcomes
  <1>3. CASE \E p \in todo : Invoke(p) \/ Write(p)
    BY <1>3, StepEffect
  <1>4. QED
    BY <1>1, <1>2, <1>3 DEF Next

LEMMA TypeInit == Init => TypeOK
  BY CallAssumption DEF Init, TypeOK, Outcomes

LEMMA TypeStep == TypeOK /\ [Next]_vars => TypeOK'
  <1> SUFFICES ASSUME TypeOK, [Next]_vars PROVE TypeOK'
    OBVIOUS
  <1>1. CASE UNCHANGED vars
    BY <1>1 DEF TypeOK, vars
  <1>2. CASE Next /\ Stopped
    BY <1>2 DEF TypeOK, Stopped, Outcomes
  <1>3. CASE /\ outcome' = "ok"
             /\ UNCHANGED <<known, mem, todo, struct, keys, priv, before>>
    BY <1>3 DEF TypeOK, Outcomes
  <1>4. CASE \E p \in todo : Advanced(p)
    BY <1>4 DEF TypeOK, Advanced, Outcomes
  <1>5. QED
    BY <1>1, <1>2, <1>3, <1>4, NextEffect

\* The type invariant, for every struct and call: in particular no step of a
\* sequence takes a balance below zero, whatever the steps before it paid.
THEOREM TypesHold == Spec => []TypeOK
  BY TypeInit, TypeStep, PTL DEF Spec

-----------------------------------------------------------------------------
(* The fields of an account after a step.                                  *)

LEMMA Emptied ==
    ASSUME NEW r \in Account, NEW d
    PROVE  LET e == [r EXCEPT !.lamports = 0, !.disc = d]
           IN  /\ e.lamports = 0 /\ e.disc = d
               /\ e.owner = r.owner /\ e.len = r.len
  BY DEF Account

LEMMA Funded ==
    ASSUME NEW r \in Account, NEW n, NEW len
    PROVE  LET e == [r EXCEPT !.lamports = n, !.len = len]
           IN  /\ e.lamports = n /\ e.len = len
               /\ e.owner = r.owner /\ e.disc = r.disc
  BY DEF Account

LEMMA Paid ==
    ASSUME NEW r \in Account, NEW n
    PROVE  LET e == [r EXCEPT !.lamports = n]
           IN  /\ e.lamports = n /\ e.len = r.len
               /\ e.owner = r.owner /\ e.disc = r.disc
  BY DEF Account

LEMMA Relengthed ==
    ASSUME NEW r \in Account, NEW len
    PROVE  LET e == [r EXCEPT !.len = len]
           IN  /\ e.len = len /\ e.lamports = r.lamports
               /\ e.owner = r.owner /\ e.disc = r.disc
  BY DEF Account

\* The accounts of a close, of a top-up and of a resize, field by field.
LEMMA ClosedFields ==
    ASSUME TypeOK, NEW p \in StepsOf(struct), Closed(p)
    PROVE  LET t == Target(p)
               o == Partner(p)
           IN  /\ mem'[t].lamports = 0 /\ mem'[t].disc = Prefix(mem[t].len, "closed")
               /\ mem'[t].owner = mem[t].owner /\ mem'[t].len = mem[t].len
               /\ o # t => /\ mem'[o].lamports = mem[o].lamports + mem[t].lamports
                           /\ mem'[o].owner = mem[o].owner
                           /\ mem'[o].len = mem[o].len
                           /\ mem'[o].disc = mem[o].disc
               /\ \A k \in Keys \ {t, o} : mem'[k] = mem[k]
  <1> DEFINE t == Target(p)
             o == Partner(p)
             d == Prefix(mem[t].len, "closed")
  <1>1. t \in Keys /\ o \in Keys /\ mem[t] \in Account /\ mem[o] \in Account
    BY StepParts DEF TypeOK, Ledger
  <1>2. /\ mem'[t] = [mem[t] EXCEPT !.lamports = 0, !.disc = d]
        /\ o # t => mem'[o] = [mem[o] EXCEPT !.lamports = @ + mem[t].lamports]
        /\ \A k \in Keys \ {t, o} : mem'[k] = mem[k]
    BY DEF Closed, ClosedInto
  <1> HIDE DEF t, o, d
  <1>3. o # t => /\ mem'[o].lamports = mem[o].lamports + mem[t].lamports
                 /\ mem'[o].owner = mem[o].owner
                 /\ mem'[o].len = mem[o].len
                 /\ mem'[o].disc = mem[o].disc
    BY <1>1, <1>2 DEF Account
  <1>4. /\ mem'[t].lamports = 0 /\ mem'[t].disc = d
        /\ mem'[t].owner = mem[t].owner /\ mem'[t].len = mem[t].len
    BY <1>1, <1>2, Emptied
  <1>5. QED
    BY <1>2, <1>3, <1>4 DEF t, o, d

LEMMA ToppedFields ==
    ASSUME TypeOK, NEW p \in StepsOf(struct), Topped(p)
    PROVE  LET t == Target(p)
               o == Partner(p)
               min == MinimumBalance[NewLen(p)]
           IN  /\ mem'[t].len = NewLen(p) /\ mem'[t].owner = mem[t].owner
               /\ mem'[t].disc = mem[t].disc
               /\ t = o => mem'[t].lamports = mem[t].lamports
               /\ t # o => /\ mem'[t].lamports = min
                           /\ mem'[o].lamports = mem[o].lamports - (min - mem[t].lamports)
                           /\ mem'[o].owner = mem[o].owner
                           /\ mem'[o].len = mem[o].len
                           /\ mem'[o].disc = mem[o].disc
  <1> DEFINE t == Target(p)
             o == Partner(p)
             n == NewLen(p)
             min == MinimumBalance[n]
  <1>1. t \in Keys /\ o \in Keys /\ mem[t] \in Account /\ mem[o] \in Account
    BY StepParts DEF TypeOK, Ledger
  <1>2. /\ t = o => mem'[t] = [mem[t] EXCEPT !.len = n]
        /\ t # o => /\ mem'[t] = [mem[t] EXCEPT !.lamports = min, !.len = n]
                    /\ mem'[o] = [mem[o] EXCEPT
                                   !.lamports = @ - (min - mem[t].lamports)]
    BY DEF Topped
  <1> HIDE DEF t, o, n, min
  <1>3. t = o => /\ mem'[t].len = n /\ mem'[t].owner = mem[t].owner
                 /\ mem'[t].disc = mem[t].disc
                 /\ mem'[t].lamports = mem[t].lamports
    <2> SUFFICES ASSUME t = o
        PROVE  /\ mem'[t].len = n /\ mem'[t].owner = mem[t].owner
               /\ mem'[t].disc = mem[t].disc
               /\ mem'[t].lamports = mem[t].lamports
      OBVIOUS
    <2>1. mem'[t] = [mem[t] EXCEPT !.len = n]
      BY <1>2
    <2>2. QED
      BY <1>1, <2>1, Relengthed
  <1>4. t # o => /\ mem'[t].len = n /\ mem'[t].owner = mem[t].owner
                 /\ mem'[t].disc = mem[t].disc /\ mem'[t].lamports = min
    <2> SUFFICES ASSUME t # o
        PROVE  /\ mem'[t].len = n /\ mem'[t].owner = mem[t].owner
               /\ mem'[t].disc = mem[t].disc /\ mem'[t].lamports = min
      OBVIOUS
    <2>1. mem'[t] = [mem[t] EXCEPT !.lamports = min, !.len = n]
      BY <1>2
    <2>2. QED
      BY <1>1, <2>1, Funded
  <1>5. t # o => /\ mem'[o].lamports = mem[o].lamports - (min - mem[t].lamports)
                 /\ mem'[o].owner = mem[o].owner
                 /\ mem'[o].len = mem[o].len
                 /\ mem'[o].disc = mem[o].disc
    BY <1>1, <1>2 DEF Account
  <1>6. QED
    BY <1>3, <1>4, <1>5 DEF t, o, n, min

-----------------------------------------------------------------------------
(* Who pays.                                                               *)

\* Some field closes the account at k.
ToClose(k) == \E p \in StepsOf(struct) : p[2] = "close" /\ Target(p) = k

\* k may hold less than it did when the instruction began.
MayPay(k) == k \in priv.signers \/ (before[k].owner = "program" /\ ToClose(k))

\* The two views disagree about lamports only where the program closed an
\* account the runtime has not read since, and never about owners.  What the
\* runtime knows to be paid was paid by consent; what became the program's on
\* the way was empty before, or was emptied by consent.
Ledgered ==
    \A k \in Keys :
       /\ mem[k].owner = known[k].owner
       /\ mem[k].lamports < known[k].lamports => ToClose(k)
       /\ known[k].lamports < before[k].lamports => MayPay(k)
       /\ known[k].owner = "program" /\ before[k].owner # "program"
             => before[k].lamports = 0 \/ k \in priv.signers

\* Once the runtime has accepted what the program wrote to k, a loss of k is
\* a loss by consent.
LEMMA ReadLoss ==
    ASSUME TypeOK, Ledgered, NEW k \in Keys,
           mem[k].lamports < known[k].lamports => known[k].owner = "program",
           mem[k].lamports < before[k].lamports
    PROVE  MayPay(k)
  <1>1. /\ mem[k].lamports \in Nat /\ known[k].lamports \in Nat
        /\ before[k].lamports \in Nat
    BY DEF TypeOK, Ledger, Account
  <1>2. CASE known[k].lamports < before[k].lamports
    BY <1>2 DEF Ledgered
  <1>3. CASE ~(known[k].lamports < before[k].lamports)
    <2>1. mem[k].lamports < known[k].lamports /\ before[k].lamports # 0
      BY <1>1, <1>3
    <2>2. QED
      BY <2>1 DEF Ledgered, MayPay
  <1>4. QED
    BY <1>2, <1>3

\* What a step that calls the System Program does to the lamports and owners.
LEMMA LedgeredCall ==
    ASSUME TypeOK, Ledgered, NEW p \in StepsOf(struct), Advanced(p),
           Made(p) \/ Topped(p)
    PROVE  Ledgered'
  <1> DEFINE t == Target(p)
             o == Partner(p)
  <1>1. t \in Keys /\ o \in Keys /\ Pair(p) = {t, o}
    BY StepParts DEF Pair
  <1>2. Called(p) /\ o \in priv.signers
    BY DEF Made, Topped
  <1>3. \A k \in Keys : ToClose(k)' = ToClose(k) /\ MayPay(k)' = MayPay(k)
    BY DEF Advanced, ToClose, MayPay, StepsOf, Target
  <1>4. /\ mem \in Ledger /\ known \in Ledger /\ before \in Ledger
        /\ mem' \in Ledger /\ known' \in Ledger
    BY DEF TypeOK, Advanced
  <1>5. ASSUME NEW k \in Keys, k \in Pair(p),
               mem[k].lamports < known[k].lamports
        PROVE  known[k].owner = "program"
    <2>1. Read(Pair(p))[k] = mem[k]
      BY <1>5 DEF Read
    <2>2. QED
      BY <1>2, <1>5, <2>1 DEF Called, WritesOwned
  <1>6. ASSUME NEW k \in Keys, mem'[k].lamports < mem[k].lamports
        PROVE  k \in priv.signers
    <2>1. /\ mem[k].lamports \in Nat /\ mem'[k].lamports \in Nat
          /\ mem[t].lamports \in Nat
      BY <1>1, <1>4 DEF Ledger, Account
    <2>2. CASE k \notin Pair(p)
      BY <1>6, <2>1, <2>2 DEF Advanced
    <2>3. CASE k = t /\ Made(p)
      BY <1>6, <2>1, <2>3, CallAssumption DEF Made
    <2>4. CASE k = t /\ Topped(p)
      <3>1. t = o => mem'[t].lamports = mem[t].lamports
        BY <2>4, ToppedFields
      <3>2. t # o => mem'[t].lamports > mem[t].lamports
        <4>1. mem[t].lamports < MinimumBalance[NewLen(p)]
          BY <2>4 DEF Topped
        <4>2. MinimumBalance[NewLen(p)] \in Nat
          BY StepParts
        <4>3. QED
          BY <2>1, <2>4, <4>1, <4>2, ToppedFields
      <3>3. QED
        BY <1>6, <2>1, <2>4, <3>1, <3>2
    <2>5. CASE k = o
      BY <1>2, <2>5
    <2>6. QED
      BY <1>1, <2>2, <2>3, <2>4, <2>5
  <1>7. ASSUME NEW k \in Keys, mem'[k].owner # mem[k].owner
        PROVE  k = t /\ Made(p)
    <2>1. k \in Pair(p)
      BY <1>7 DEF Advanced
    <2>2. CASE Made(p)
      <3>1. mem'[o].owner = mem[o].owner
        BY <1>1, <1>4, <2>2 DEF Made, Ledger, Account
      <3>2. QED
        BY <1>1, <1>7, <2>1, <2>2, <3>1
    <2>3. CASE Topped(p)
      <3>1. mem'[t].owner = mem[t].owner /\ mem'[o].owner = mem[o].owner
        BY <2>3, ToppedFields
      <3>2. QED
        BY <1>1, <1>7, <2>1, <3>1
    <2>4. QED
      BY <2>2, <2>3
  <1>8. ASSUME NEW k \in Keys
        PROVE  /\ mem'[k].owner = known'[k].owner
               /\ mem'[k].lamports < known'[k].lamports => ToClose(k)
               /\ known'[k].lamports < before[k].lamports => MayPay(k)
               /\ known'[k].owner = "program" /\ before[k].owner # "program"
                     => before[k].lamports = 0 \/ k \in priv.signers
    <2>1. CASE k \notin Pair(p)
      BY <2>1 DEF Advanced, Ledgered
    <2>2. CASE k \in Pair(p)
      <3>1. /\ known'[k].lamports = mem'[k].lamports
            /\ known'[k].owner = mem'[k].owner
        BY <1>2, <2>2 DEF Called
      <3>2. /\ mem[k].lamports \in Nat /\ mem'[k].lamports \in Nat
            /\ known[k].lamports \in Nat /\ before[k].lamports \in Nat
        BY <1>4 DEF Ledger, Account
      <3>3. known'[k].lamports < before[k].lamports => MayPay(k)
        <4>1. CASE mem'[k].lamports < mem[k].lamports
          BY <1>6, <4>1 DEF MayPay
        <4>2. CASE mem[k].lamports < before[k].lamports
          BY <1>5, <2>2, <4>2, ReadLoss
        <4>3. QED
          BY <3>1, <3>2, <4>1, <4>2
      <3>4. known'[k].owner = "program" /\ before[k].owner # "program"
               => before[k].lamports = 0 \/ k \in priv.signers
        <4>1. CASE mem'[k].owner = mem[k].owner
          BY <3>1, <4>1 DEF Ledgered
        <4>2. CASE mem'[k].owner # mem[k].owner
          <5>1. mem[k].lamports = 0
            BY <1>7, <4>2 DEF Made
          <5>2. before[k].lamports # 0 => MayPay(k)
            BY <1>5, <2>2, <3>2, <5>1, ReadLoss
          <5>3. QED
            BY <5>2 DEF MayPay
        <4>3. QED
          BY <4>1, <4>2
      <3>5. QED
        BY <3>1, <3>2, <3>3, <3>4
    <2>3. QED
      BY <2>1, <2>2
  <1>9. priv' = priv /\ before' = before
    BY DEF Advanced
  <1>10. QED
    BY <1>3, <1>8, <1>9 DEF Ledgered

LEMMA LedgeredWrite ==
    ASSUME TypeOK, Ledgered, NEW p \in StepsOf(struct), Advanced(p),
           Kept(p) \/ Closed(p) \/ Sized(p)
    PROVE  Ledgered'
  <1> DEFINE t == Target(p)
             o == Partner(p)
  <1>1. t \in Keys /\ o \in Keys
    BY StepParts
  <1>2. known' = known /\ priv' = priv /\ before' = before
    BY DEF Kept, Closed, Sized, Advanced
  <1>3. \A k \in Keys : ToClose(k)' = ToClose(k) /\ MayPay(k)' = MayPay(k)
    BY DEF Advanced, ToClose, MayPay, StepsOf, Target
  <1>4. mem \in Ledger /\ mem' \in Ledger /\ known \in Ledger
    BY DEF TypeOK, Advanced
  <1>5. ASSUME NEW k \in Keys
        PROVE  /\ mem'[k].owner = mem[k].owner
               /\ mem'[k].lamports >= mem[k].lamports \/ ToClose(k)
    <2>1. CASE Kept(p)
      BY <1>4, <2>1 DEF Kept, Ledger, Account
    <2>2. CASE Sized(p)
      BY <1>1, <1>4, <2>2 DEF Sized, Ledger, Account
    <2>3. CASE Closed(p)
      <3>1. CASE k = t
        <4>1. ToClose(k)
          BY <2>3, <3>1 DEF Closed, ToClose
        <4>2. QED
          BY <2>3, <3>1, <4>1, ClosedFields
      <3>2. CASE k = o /\ k # t
        <4>1. mem[o].lamports \in Nat /\ mem[t].lamports \in Nat
          BY <1>1, <1>4 DEF Ledger, Account
        <4>2. QED
          BY <2>3, <3>2, <4>1, ClosedFields
      <3>3. CASE k # o /\ k # t
        BY <1>4, <2>3, <3>3, ClosedFields DEF Ledger, Account
      <3>4. QED
        BY <3>1, <3>2, <3>3
    <2>4. QED
      BY <2>1, <2>2, <2>3
  <1>6. \A k \in Keys : mem[k].lamports \in Nat /\ mem'[k].lamports \in Nat
                        /\ known[k].lamports \in Nat
    BY <1>4 DEF Ledger, Account
  <1>7. \A k \in Keys : mem'[k].lamports < known[k].lamports => ToClose(k)
    BY <1>5, <1>6 DEF Ledgered
  <1>8. QED
    BY <1>2, <1>3, <1>5, <1>7 DEF Ledgered

\* A finished instruction has no step left and no unread write refused.
Finished == outcome = "ok" => todo = {} /\ WritesOwned(known, mem, priv)

Paying == TypeOK /\ Ledgered /\ Finished

LEMMA PayingInit == Init => Paying
  <1> SUFFICES ASSUME Init PROVE Paying
    OBVIOUS
  <1>1. TypeOK
    BY TypeInit
  <1>2. \A k \in Keys : before[k].lamports \in Nat
    BY <1>1 DEF TypeOK, Ledger, Account
  <1>3. known = before /\ mem = before /\ outcome = "running"
    BY DEF Init
  <1>4. QED
    BY <1>1, <1>2, <1>3 DEF Paying, Ledgered, Finished

LEMMA PayingStep == Paying /\ [Next]_vars => Paying'
  <1> SUFFICES ASSUME Paying, [Next]_vars PROVE Paying'
    OBVIOUS
  <1>1. TypeOK /\ TypeOK'
    BY TypeStep DEF Paying
  <1>2. CASE \E p \in todo : Advanced(p)
    <2>1. PICK p \in todo : Advanced(p)
      BY <1>2
    <2>2. p \in StepsOf(struct)
      BY <1>1 DEF TypeOK
    <2>3. Ledgered'
      BY <1>1, <2>1, <2>2, LedgeredCall, LedgeredWrite DEF Advanced, Paying
    <2>4. Finished'
      BY <2>1 DEF Advanced, Finished
    <2>5. QED
      BY <1>1, <2>3, <2>4 DEF Paying
  <1>3. CASE UNCHANGED vars
    BY <1>1, <1>3 DEF Paying, Ledgered, Finished, vars, WritesOwned, ToClose,
                      MayPay, StepsOf, Target
  <1>4. CASE /\ UNCHANGED <<known, mem, todo, struct, keys, priv, before>>
             /\ outcome' = "ok" => todo = {} /\ WritesOwned(known, mem, priv)
    BY <1>1, <1>4 DEF Paying, Ledgered, Finished, WritesOwned, ToClose,
                      MayPay, StepsOf, Target
  <1>5. QED
    BY <1>1, <1>2, <1>3, <1>4, NextEffect DEF Stopped

LEMMA PayingConsents == Paying => OnlyConsentingPay
  <1> SUFFICES ASSUME Paying, outcome = "ok", NEW k \in Keys,
                      mem[k].lamports < before[k].lamports
               PROVE  \/ k \in priv.signers
                      \/ before[k].owner = "program" /\ ToClose(k)
    BY DEF OnlyConsentingPay, ToClose
  <1>1. mem[k].lamports < known[k].lamports => known[k].owner = "program"
    BY DEF Paying, Finished, WritesOwned
  <1>2. QED
    BY <1>1, ReadLoss DEF Paying, MayPay

\* An instruction with any number of lifecycle steps, given any accounts,
\* takes lamports from signers and from the program's closed accounts only.
THEOREM OnlySignersAndClosedPay == Spec => []OnlyConsentingPay
<1>1. Spec => []Paying
  BY PayingInit, PayingStep, PTL DEF Spec
<1>2. QED
  BY <1>1, PayingConsents, PTL

-----------------------------------------------------------------------------
(* What the steps leave behind.                                            *)

\* A realloc whose payer is its own account: the System Program moved the
\* lamports nowhere, and the runtime has not seen the new length yet.  It
\* will refuse it, the account being a wallet.
Doomed(p) ==
    LET t == Target(p)
    IN  /\ p[2] = "realloc"
        /\ known[t].len = 0 /\ known[t].owner = "system"
        /\ mem[t].len # 0

\* A step keeps its post-condition until a later one undoes it.
Stands(p) ==
    \/ Post(p)
    \/ Doomed(p)
    \/ \E q \in StepsOf(struct) \ todo : Precedes(p, q) /\ Undoes(q, p)

Standing ==
    \A p \in StepsOf(struct) \ todo :
       Stands(p) /\ \A q \in todo : Precedes(p, q)

\* Nothing a step refers to changes while the steps run.
LEMMA SameInput ==
    ASSUME UNCHANGED <<struct, keys, priv, before>>
    PROVE  /\ StepsOf(struct)' = StepsOf(struct)
           /\ \A p : /\ Target(p)' = Target(p) /\ Partner(p)' = Partner(p)
                     /\ NewLen(p)' = NewLen(p) /\ Length(p)' = Length(p)
           /\ \A p, q : /\ Precedes(p, q)' = Precedes(p, q)
                        /\ Undoes(q, p)' = Undoes(q, p)
  BY DEF StepsOf, Target, Partner, NewLen, Length, Precedes, Undoes

\* Post and Doomed of the next state, on the accounts of this one.
LEMMA PostPrimed ==
    ASSUME NEW p, UNCHANGED <<struct, keys, priv, before>>
    PROVE  /\ p[2] \in {"init", "iin"} =>
                (Post(p)' <=> /\ mem'[Target(p)].owner = "program"
                              /\ mem'[Target(p)].len >= Length(p))
           /\ p[2] = "close" =>
                (Post(p)' <=> /\ mem'[Target(p)].lamports = 0
                              /\ mem'[Target(p)].len >= DiscriminatorLen
                                   => mem'[Target(p)].disc = "closed")
           /\ p[2] = "realloc" =>
                (Post(p)' <=> /\ mem'[Target(p)].len = NewLen(p)
                              /\ mem'[Target(p)].lamports
                                    >= MinimumBalance[NewLen(p)])
           /\ p[2] = "realloc" =>
                (Doomed(p)' <=> /\ known'[Target(p)].len = 0
                                /\ known'[Target(p)].owner = "system"
                                /\ mem'[Target(p)].len # 0)
  <1>1. Target(p)' = Target(p) /\ NewLen(p)' = NewLen(p) /\ Length(p)' = Length(p)
    BY SameInput
  <1>2. CASE p[2] \in {"init", "iin"}
    BY <1>1, <1>2 DEF Post
  <1>3. CASE p[2] = "close"
    BY <1>1, <1>3 DEF Post
  <1>4. CASE p[2] = "realloc"
    BY <1>1, <1>4 DEF Post, Doomed
  <1>5. QED
    BY <1>2, <1>3, <1>4

\* The step just executed has its post-condition, or is doomed.
LEMMA PostNow ==
    ASSUME TypeOK, NEW p \in StepsOf(struct), Advanced(p)
    PROVE  Post(p)' \/ Doomed(p)'
  <1> DEFINE t == Target(p)
             o == Partner(p)
  <1>1. /\ t \in Keys /\ o \in Keys /\ NewLen(p) \in Nat /\ NewLen(p) # 0
        /\ MinimumBalance[NewLen(p)] \in Nat
    BY StepParts
  <1>2. UNCHANGED <<struct, keys, priv, before>>
    BY DEF Advanced
  <1>3. mem[t] \in Account /\ mem'[t] \in Account
    BY <1>1 DEF TypeOK, Advanced, Ledger
  <1>4. CASE Made(p)
    <2>1. Length(p) \in Nat
      BY DEF Length, InitLen, CounterLen, DiscriminatorLen
    <2>2. QED
      BY <1>2, <1>4, <2>1, PostPrimed DEF Made
  <1>5. CASE Kept(p)
    BY <1>2, <1>5, PostPrimed DEF Kept, Length
  <1>6. CASE Closed(p)
    <2>1. mem'[t].len = 0 \/ mem'[t].disc = "closed"
      BY <1>6, ClosedFields DEF Prefix
    <2>2. mem'[t].lamports = 0 /\ p[2] = "close"
      BY <1>6, ClosedFields DEF Closed
    <2>3. QED
      BY <1>2, <2>1, <2>2, PostPrimed DEF DiscriminatorLen
  <1>7. CASE Sized(p)
    <2>1. mem'[t].len = NewLen(p) /\ mem'[t].lamports = mem[t].lamports
      BY <1>3, <1>7, Relengthed DEF Sized
    <2>2. QED
      BY <1>2, <1>7, <2>1, PostPrimed DEF Sized
  <1>8. CASE Topped(p)
    <2>1. mem'[t].len = NewLen(p)
      BY <1>8, ToppedFields
    <2>2. CASE t = o
      <3>1. /\ p[2] = "realloc" /\ known'[t] = mem[t]
            /\ mem[t].len = 0 /\ mem[t].owner = "system"
        BY <1>8, <2>2 DEF Topped
      <3>2. Doomed(p)'
        BY <1>1, <1>2, <2>1, <3>1, PostPrimed
      <3>3. QED
        BY <3>2
    <2>3. CASE t # o
      <3>1. p[2] = "realloc" /\ mem'[t].lamports = MinimumBalance[NewLen(p)]
        BY <1>8, <2>3, ToppedFields DEF Topped
      <3>2. Post(p)'
        BY <1>1, <1>2, <2>1, <3>1, PostPrimed
      <3>3. QED
        BY <3>2
    <2>4. QED
      BY <2>2, <2>3
  <1>9. QED
    BY <1>4, <1>5, <1>6, <1>7, <1>8 DEF Advanced

\* Two reallocs of one struct never meet in an account: both fields are mut.
LEMMA ReallocsApart ==
    ASSUME TypeOK, Valid, NEW p \in StepsOf(struct), NEW q \in StepsOf(struct),
           p[2] = "realloc", q[2] = "realloc", p # q
    PROVE  Target(p) # Target(q)
  <1>1. p[1] # q[1]
    BY StepParts
  <1>2. struct[p[1]].mut /\ struct[q[1]].mut
    BY StepParts
  <1>3. struct \in Seq(Field)
    BY StructAssumption DEF TypeOK
  <1>4. p[1] \in DOMAIN struct /\ q[1] \in DOMAIN struct
    BY StepParts
  <1>5. p[1] \in Int /\ q[1] \in Int
    BY <1>3, <1>4
  <1>6. p[1] < q[1] \/ q[1] < p[1]
    BY <1>1, <1>5
  <1>7. QED
    BY <1>2, <1>4, <1>6 DEF Valid, Target

\* One step after another: q keeps the post-condition of p unless it undoes it.
LEMMA MadeKeeps ==
    ASSUME TypeOK, NEW p \in StepsOf(struct), NEW q \in StepsOf(struct),
           Advanced(q), Made(q), ~Undoes(q, p), Post(p)
    PROVE  Post(p)'
  <1> DEFINE k == Target(p)
             t == Target(q)
             o == Partner(q)
  <1>1. /\ k \in Keys /\ t \in Keys /\ o \in Keys /\ Pair(q) = {t, o}
        /\ p[2] \in {"init", "close", "realloc", "iin"}
        /\ NewLen(p) # 0
    BY StepParts DEF Pair, Kinds
  <1>2. UNCHANGED <<struct, keys, priv, before>>
    BY DEF Advanced
  <1>3. /\ mem[t].len = 0 /\ mem[t].owner = "system"
        /\ mem[o].len = 0 /\ mem[o].owner = "system"
        /\ mem'[o] = [mem[o] EXCEPT !.lamports = @ - RentLamports]
        /\ q[2] # "close"
    BY DEF Made
  <1>4. CASE k \notin Pair(q)
    <2>1. mem'[k] = mem[k]
      BY <1>1, <1>4 DEF Advanced
    <2>2. QED
      BY <1>1, <1>2, <2>1, PostPrimed DEF Post
  <1>5. CASE k \in Pair(q)
    <2>1. mem[k].owner # "program" /\ mem[k].len = 0
      BY <1>1, <1>3, <1>5
    <2>2. p[2] = "close"
      BY <1>1, <2>1 DEF Post
    <2>3. k = o
      BY <1>1, <1>3, <1>5, <2>2 DEF Undoes
    <2>4. mem[o].lamports = 0
      BY <2>2, <2>3 DEF Post
    <2>5. mem[o] \in Account /\ mem'[o] \in Account
      BY <1>1 DEF TypeOK, Advanced, Ledger
    <2>6. mem'[o].lamports = 0 - RentLamports
      BY <1>3, <2>4, <2>5 DEF Account
    <2>7. FALSE
      BY <2>5, <2>6, CallAssumption DEF Account
    <2>8. QED
      BY <2>7
  <1>6. QED
    BY <1>4, <1>5

LEMMA ClosedKeeps ==
    ASSUME TypeOK, NEW p \in StepsOf(struct), NEW q \in StepsOf(struct),
           Advanced(q), Closed(q), ~Undoes(q, p), Post(p) \/ Doomed(p)
    PROVE  Post(p)' \/ Doomed(p)'
  <1> DEFINE k == Target(p)
             t == Target(q)
             o == Partner(q)
  <1>1. /\ k \in Keys /\ t \in Keys /\ o \in Keys
        /\ p[2] \in {"init", "close", "realloc", "iin"}
        /\ MinimumBalance[NewLen(p)] \in Nat
    BY StepParts DEF Kinds
  <1>2. UNCHANGED <<struct, keys, priv, before>> /\ known' = known /\ q[2] = "close"
    BY DEF Advanced, Closed
  <1>3. mem \in Ledger /\ mem' \in Ledger
    BY DEF TypeOK, Advanced
  <1>4. /\ mem'[k].len = mem[k].len /\ mem'[k].owner = mem[k].owner
        /\ k # t => /\ mem'[k].lamports >= mem[k].lamports
                    /\ mem'[k].disc = mem[k].disc
        /\ k # t /\ k # o => mem'[k].lamports = mem[k].lamports
    <2>1. CASE k = t
      BY <2>1, ClosedFields
    <2>2. CASE k = o /\ k # t
      <3>1. mem[o].lamports \in Nat /\ mem[t].lamports \in Nat
        BY <1>1, <1>3 DEF Ledger, Account
      <3>2. QED
        BY <2>2, <3>1, ClosedFields
    <2>3. CASE k # o /\ k # t
      <3>1. mem'[k] = mem[k] /\ mem[k].lamports \in Nat
        BY <1>1, <1>3, <2>3, ClosedFields DEF Ledger, Account
      <3>2. QED
        BY <2>3, <3>1
    <2>4. QED
      BY <2>1, <2>2, <2>3
  <1>5. CASE p[2] \in {"init", "iin"}
    <2>1. Post(p)
      BY <1>5 DEF Doomed
    <2>2. QED
      BY <1>2, <1>4, <1>5, <2>1, PostPrimed DEF Post
  <1>6. CASE p[2] = "close"
    <2>1. Post(p) /\ k # o
      BY <1>2, <1>6 DEF Doomed, Undoes
    <2>2. mem[k].lamports = 0
          /\ (mem[k].len >= DiscriminatorLen => mem[k].disc = "closed")
      BY <1>6, <2>1 DEF Post
    <2>3. mem'[k].lamports = 0
          /\ (mem'[k].len >= DiscriminatorLen => mem'[k].disc = "closed")
      <3>1. CASE k = t
        <4>1. mem'[k].lamports = 0 /\ mem'[k].disc = Prefix(mem[k].len, "closed")
          BY <3>1, ClosedFields
        <4>2. mem[k].len >= DiscriminatorLen => mem[k].len # 0
          BY DEF DiscriminatorLen
        <4>3. QED
          BY <1>4, <4>1, <4>2 DEF Prefix
      <3>2. CASE k # t
        BY <1>4, <2>1, <2>2, <3>2
      <3>3. QED
        BY <3>1, <3>2
    <2>4. QED
      BY <1>2, <1>6, <2>3, PostPrimed
  <1>7. CASE p[2] = "realloc"
    <2>1. k # t
      BY <1>2, <1>7 DEF Undoes
    <2>2. CASE Doomed(p)
      BY <1>2, <1>4, <1>7, <2>2, PostPrimed DEF Doomed
    <2>3. CASE Post(p)
      <3>1. mem[k].len = NewLen(p) /\ mem[k].lamports >= MinimumBalance[NewLen(p)]
        BY <1>7, <2>3 DEF Post
      <3>2. mem'[k].lamports \in Nat /\ mem[k].lamports \in Nat
        BY <1>1, <1>3 DEF Ledger, Account
      <3>3. mem'[k].lamports >= MinimumBalance[NewLen(p)]
        BY <1>1, <1>4, <2>1, <3>1, <3>2
      <3>4. QED
        BY <1>2, <1>4, <1>7, <3>1, <3>3, PostPrimed
    <2>4. QED
      BY <2>2, <2>3
  <1>8. QED
    BY <1>1, <1>5, <1>6, <1>7

\* The runtime refuses a call with a doomed account, so none has been made.
LEMMA DoomedKeeps ==
    ASSUME TypeOK, NEW p \in StepsOf(struct), NEW q \in StepsOf(struct),
           Advanced(q), Called(q), Doomed(p)
    PROVE  Doomed(p)'
  <1> DEFINE k == Target(p)
  <1>1. k \in Keys
    BY StepParts
  <1>2. CASE k \in Pair(q)
    <2>1. Read(Pair(q))[k] = mem[k]
      BY <1>1, <1>2 DEF Read
    <2>2. FALSE
      BY <1>1, <2>1 DEF Called, WritesOwned, Doomed
    <2>3. QED
      BY <2>2
  <1>3. CASE k \notin Pair(q)
    <2>1. mem'[k] = mem[k] /\ known'[k] = known[k]
      BY <1>1, <1>3 DEF Advanced
    <2>2. p[2] = "realloc" /\ UNCHANGED <<struct, keys, priv, before>>
      BY DEF Doomed, Advanced
    <2>3. QED
      BY <2>1, <2>2, PostPrimed DEF Doomed
  <1>4. QED
    BY <1>2, <1>3

\* A realloc changes no more of another account than its payer's balance.
LEMMA ReallocKeeps ==
    ASSUME TypeOK, NEW p \in StepsOf(struct), NEW q \in StepsOf(struct),
           p # q, Advanced(q), Sized(q) \/ Topped(q), ~Undoes(q, p), Post(p)
    PROVE  Post(p)'
  <1> DEFINE k == Target(p)
             t == Target(q)
             o == Partner(q)
  <1>1. /\ k \in Keys /\ t \in Keys /\ o \in Keys /\ Pair(q) = {t, o}
        /\ p[2] \in {"init", "close", "realloc", "iin"}
        /\ NewLen(p) # 0 /\ NewLen(q) \in Nat
        /\ MinimumBalance[NewLen(q)] \in Nat
    BY StepParts DEF Pair, Kinds
  <1>2. UNCHANGED <<struct, keys, priv, before>> /\ q[2] = "realloc" /\ Valid
    BY DEF Advanced, Sized, Topped, Running
  <1>3. mem \in Ledger /\ mem' \in Ledger
    BY DEF TypeOK, Advanced
  <1>4. mem[k] \in Account /\ mem[t] \in Account /\ mem[o] \in Account
        /\ mem'[o] \in Account
    BY <1>1, <1>3 DEF Ledger
  <1>5. p[2] = "realloc" => k # t
    BY <1>2, ReallocsApart
  <1>6. p[2] = "close" => k # t
    BY <1>2 DEF Undoes
  <1>7. CASE k = t
    <2>1. p[2] \in {"init", "iin"} /\ NewLen(q) >= Length(p)
      <3>1. p[2] \in {"init", "iin"} /\ ~(NewLen(q) < Length(p))
        BY <1>1, <1>2, <1>5, <1>6, <1>7 DEF Undoes
      <3>2. Length(p) \in Nat
        BY DEF Length, InitLen, CounterLen, DiscriminatorLen
      <3>3. QED
        BY <1>1, <3>1, <3>2
    <2>2. mem'[t].len = NewLen(q) /\ mem'[t].owner = mem[t].owner
      <3>1. CASE Sized(q)
        BY <1>4, <3>1, Relengthed DEF Sized
      <3>2. CASE Topped(q)
        BY <3>2, ToppedFields
      <3>3. QED
        BY <3>1, <3>2
    <2>3. QED
      BY <1>2, <1>7, <2>1, <2>2, PostPrimed DEF Post
  <1>8. CASE k # t /\ mem'[k] = mem[k]
    BY <1>1, <1>2, <1>8, PostPrimed DEF Post
  <1>9. CASE k # t /\ mem'[k] # mem[k]
    <2>1. Topped(q) /\ k = o
      BY <1>1, <1>9 DEF Sized, Topped, Advanced
    <2>2. /\ mem[o].len = 0 /\ mem[o].owner = "system"
          /\ mem[t].lamports < MinimumBalance[NewLen(q)]
      BY <2>1 DEF Topped
    <2>3. p[2] = "close" /\ mem[o].lamports = 0
      BY <1>1, <2>1, <2>2 DEF Post
    <2>4. mem'[o].lamports
            = 0 - (MinimumBalance[NewLen(q)] - mem[t].lamports)
      BY <1>9, <2>1, <2>3, ToppedFields
    <2>5. mem'[o].lamports \in Nat /\ mem[t].lamports \in Nat
      BY <1>4 DEF Account
    <2>6. FALSE
      BY <1>1, <2>2, <2>4, <2>5
    <2>7. QED
      BY <2>6
  <1>10. QED
    BY <1>7, <1>8, <1>9

LEMMA SizedKeepsDoomed ==
    ASSUME TypeOK, NEW p \in StepsOf(struct), NEW q \in StepsOf(struct),
           p # q, Advanced(q), Sized(q), Doomed(p)
    PROVE  Doomed(p)'
  <1>1. Target(p) \in Keys /\ Target(p) # Target(q)
    BY StepParts, ReallocsApart DEF Sized, Doomed, Advanced, Running
  <1>2. mem'[Target(p)] = mem[Target(p)] /\ known' = known /\ p[2] = "realloc"
    BY <1>1 DEF Sized, Doomed
  <1>3. UNCHANGED <<struct, keys, priv, before>>
    BY DEF Advanced
  <1>4. QED
    BY <1>2, <1>3, PostPrimed DEF Doomed

LEMMA StepKeeps ==
    ASSUME TypeOK, NEW p \in StepsOf(struct), NEW q \in StepsOf(struct),
           p # q, Advanced(q), ~Undoes(q, p), Post(p) \/ Doomed(p)
    PROVE  Post(p)' \/ Doomed(p)'
  <1>1. CASE Made(q)
    BY <1>1, MadeKeeps, DoomedKeeps DEF Made
  <1>2. CASE Kept(q)
    <2>1. /\ mem' = mem /\ known' = known
          /\ UNCHANGED <<struct, keys, priv, before>>
      BY <1>2 DEF Kept, Advanced
    <2>2. p[2] \in {"init", "close", "realloc", "iin"}
      BY StepParts DEF Kinds
    <2>3. Post(p) => Post(p)'
      BY <2>1, <2>2, PostPrimed DEF Post
    <2>4. Doomed(p) => Doomed(p)'
      BY <2>1, PostPrimed DEF Doomed
    <2>5. QED
      BY <2>3, <2>4
  <1>3. CASE Closed(q)
    BY <1>3, ClosedKeeps
  <1>4. CASE Sized(q)
    BY <1>4, ReallocKeeps, SizedKeepsDoomed
  <1>5. CASE Topped(q)
    BY <1>5, ReallocKeeps, DoomedKeeps DEF Topped
  <1>6. QED
    BY <1>1, <1>2, <1>3, <1>4, <1>5 DEF Advanced

LEMMA StandingStep ==
    ASSUME TypeOK, Standing, NEW q \in todo, Advanced(q)
    PROVE  Standing'
  <1>1. /\ UNCHANGED <<struct, keys, priv, before>> /\ todo' = todo \ {q}
        /\ q \in StepsOf(struct) /\ \A r \in todo \ {q} : Precedes(q, r)
    BY DEF Advanced, Due, TypeOK
  <1>2. /\ StepsOf(struct)' = StepsOf(struct)
        /\ \A p, r : /\ Precedes(p, r)' = Precedes(p, r)
                     /\ Undoes(r, p)' = Undoes(r, p)
    BY <1>1, SameInput
  <1>3. ASSUME NEW p \in StepsOf(struct) \ todo'
        PROVE  Stands(p)' /\ \A r \in todo' : Precedes(p, r)
    <2>1. CASE p = q
      <3>1. Post(p)' \/ Doomed(p)'
        BY <1>1, <2>1, PostNow
      <3>2. QED
        BY <1>1, <2>1, <3>1 DEF Stands
    <2>2. CASE p # q
      <3>1. p \in StepsOf(struct) \ todo
        BY <1>1, <1>3, <2>2
      <3>2. Precedes(p, q) /\ \A r \in todo : Precedes(p, r)
        BY <3>1 DEF Standing
      <3>3. CASE Undoes(q, p)
        <4>1. q \in (StepsOf(struct) \ todo)'
          BY <1>1, <1>2
        <4>2. QED
          BY <1>1, <1>2, <3>2, <3>3, <4>1 DEF Stands
      <3>4. CASE \E r \in StepsOf(struct) \ todo : Precedes(p, r) /\ Undoes(r, p)
        <4>1. PICK r \in StepsOf(struct) \ todo : Precedes(p, r) /\ Undoes(r, p)
          BY <3>4
        <4>2. r \in (StepsOf(struct) \ todo)'
          BY <1>1, <1>2, <4>1
        <4>3. QED
          BY <1>1, <1>2, <3>2, <4>1, <4>2 DEF Stands
      <3>5. CASE ~Undoes(q, p) /\ (Post(p) \/ Doomed(p))
        <4>1. Post(p)' \/ Doomed(p)'
          BY <1>1, <2>2, <3>1, <3>5, StepKeeps
        <4>2. QED
          BY <1>1, <3>2, <4>1 DEF Stands
      <3>6. QED
        BY <3>1, <3>3, <3>4, <3>5 DEF Standing, Stands
    <2>3. QED
      BY <2>1, <2>2
  <1>4. QED
    BY <1>2, <1>3 DEF Standing

\* Where no account changes nothing is lost.
LEMMA StandingStays ==
    ASSUME TypeOK, Standing,
           UNCHANGED <<known, mem, todo, struct, keys, priv, before>>
    PROVE  Standing'
  <1>1. /\ StepsOf(struct)' = StepsOf(struct) /\ todo' = todo
        /\ \A p, q : /\ Precedes(p, q)' = Precedes(p, q)
                     /\ Undoes(q, p)' = Undoes(q, p)
    BY SameInput
  <1>2. ASSUME NEW p \in StepsOf(struct) \ todo
        PROVE  Stands(p)' /\ \A r \in todo : Precedes(p, r)
    <2>1. Stands(p) /\ \A r \in todo : Precedes(p, r)
      BY <1>2 DEF Standing
    <2>2. p[2] \in {"init", "close", "realloc", "iin"}
      BY <1>2, StepParts DEF Kinds
    <2>3. Post(p) => Post(p)'
      BY <2>2, PostPrimed DEF Post
    <2>4. Doomed(p) => Doomed(p)'
      BY PostPrimed DEF Doomed
    <2>5. CASE Post(p) \/ Doomed(p)
      BY <2>1, <2>3, <2>4, <2>5 DEF Stands
    <2>6. CASE \E q \in StepsOf(struct) \ todo : Precedes(p, q) /\ Undoes(q, p)
      BY <1>1, <2>1, <2>6 DEF Stands
    <2>7. QED
      BY <2>1, <2>5, <2>6 DEF Stands
  <1>3. QED
    BY <1>1, <1>2 DEF Standing

-----------------------------------------------------------------------------
IInv == Paying /\ Standing

LEMMA IInvInit == Init => IInv
  BY PayingInit DEF IInv, Init, Standing

LEMMA IInvStep == IInv /\ [Next]_vars => IInv'
  <1> SUFFICES ASSUME IInv, [Next]_vars PROVE IInv'
    OBVIOUS
  <1>1. TypeOK /\ Paying'
    BY PayingStep DEF IInv, Paying
  <1>2. CASE \E p \in todo : Advanced(p)
    BY <1>1, <1>2, StandingStep DEF IInv
  <1>3. CASE UNCHANGED <<known, mem, todo, struct, keys, priv, before>>
    BY <1>1, <1>3, StandingStays DEF IInv
  <1>4. QED
    BY <1>1, <1>2, <1>3, NextEffect DEF Stopped, vars

LEMMA StandingPosts == IInv => PostsHoldTogether
  <1> SUFFICES ASSUME IInv, outcome = "ok", NEW p \in StepsOf(struct)
               PROVE  \/ Post(p)
                      \/ \E q \in StepsOf(struct) : Precedes(p, q) /\ Undoes(q, p)
    BY DEF PostsHoldTogether
  <1>1. todo = {} /\ WritesOwned(known, mem, priv) /\ TypeOK
    BY DEF IInv, Paying, Finished
  <1>2. ~Doomed(p)
    <2>1. Target(p) \in Keys
      BY <1>1, StepParts
    <2>2. QED
      BY <1>1, <2>1 DEF WritesOwned, Doomed
  <1>3. QED
    BY <1>1, <1>2 DEF IInv, Standing, Stands

\* When an instruction returns Ok, the post-conditions of all its lifecycle
\* constraints hold at once, for every struct and every choice of accounts,
\* except one that a later constraint of the struct undoes.
THEOREM PostConditionsTogether == Spec => []PostsHoldTogether
<1>1. Spec => []IInv
  BY IInvInit, IInvStep, PTL DEF Spec
<1>2. QED
  BY <1>1, StandingPosts, PTL

-----------------------------------------------------------------------------
(* Steps and the transformers of the Lean library.                         *)

\* Without aliasing the two accounts of a constraint are two accounts.
LEMMA Apart ==
    ASSUME TypeOK, Distinct, NEW p \in StepsOf(struct)
    PROVE  Target(p) # Partner(p)
  <1>1. /\ p[1] \in DOMAIN struct /\ Other(struct, p) \in DOMAIN struct
        /\ Other(struct, p) # p[1]
    BY StepParts
  <1>2. DOMAIN keys = DOMAIN struct
    BY DEF TypeOK
  <1>3. QED
    BY <1>1, <1>2 DEF Distinct, Target, Partner

LEMMA MadeIsLean ==
    ASSUME TypeOK, Distinct, NEW p \in StepsOf(struct), Advanced(p), Made(p)
    PROVE  Contract!ApplyInit(Target(p), Partner(p))
  <1> DEFINE t == Target(p)
             o == Partner(p)
             rent == mem'[t].lamports - mem[t].lamports
             b == [mem EXCEPT ![t] = [mem'[t] EXCEPT !.owner = "program"],
                              ![o].lamports = @ - rent]
  <1>1. t \in Keys /\ o \in Keys /\ t # o
    BY StepParts, Apart
  <1>2. mem \in Ledger /\ mem' \in Ledger
    BY DEF TypeOK, Advanced
  <1>3. /\ mem[t].lamports = 0 /\ mem[t].len = 0
        /\ mem'[t].lamports = RentLamports /\ mem'[t].owner = "program"
        /\ mem'[t].len \in {InitLen, CounterLen}
        /\ mem'[t].disc \in {"zero", "counter"}
        /\ mem'[o] = [mem[o] EXCEPT !.lamports = @ - RentLamports]
    BY DEF Made, Length
  <1>4. \A k \in Keys \ {t, o} : mem'[k] = mem[k]
    BY DEF Advanced, Pair
  <1>5. /\ mem[t] \in Account /\ mem'[t] \in Account
        /\ mem[o] \in Account /\ mem'[o] \in Account
    BY <1>1, <1>2 DEF Ledger
  <1>6. RentLamports \in Nat /\ rent = RentLamports
    BY <1>3, CallAssumption
  <1>7. rent \in 0..mem[o].lamports
    <2>1. mem'[o].lamports = mem[o].lamports - RentLamports
      BY <1>3, <1>5 DEF Account
    <2>2. mem'[o].lamports \in Nat /\ mem[o].lamports \in Nat
      BY <1>5 DEF Account
    <2>3. QED
      BY <1>6, <2>1, <2>2
  <1>8. mem' = b
    <2>1. [mem'[t] EXCEPT !.owner = "program"] = mem'[t]
      BY <1>3, <1>5 DEF Account
    <2>2. b[t] = mem'[t] /\ b[o] = [mem[o] EXCEPT !.lamports = @ - rent]
      BY <1>1, <1>2, <2>1 DEF Ledger
    <2>3. \A k \in Keys \ {t, o} : b[k] = mem[k]
      BY <1>2 DEF Ledger
    <2>4. \A k \in Keys : mem'[k] = b[k]
      BY <1>3, <1>4, <1>6, <2>2, <2>3
    <2>5. b = [k \in Keys |-> b[k]] /\ mem' = [k \in Keys |-> mem'[k]]
      BY <1>2 DEF Ledger
    <2>6. QED
      BY <2>4, <2>5
  <1>9. QED
    BY <1>1, <1>3, <1>7, <1>8 DEF Contract!ApplyInit

LEMMA ClosedIsLean ==
    ASSUME TypeOK, Distinct, NEW p \in StepsOf(struct), Advanced(p), Closed(p)
    PROVE  Contract!ApplyClose(Target(p), Partner(p))
  <1> DEFINE t == Target(p)
             o == Partner(p)
             b == [mem EXCEPT
                     ![o].lamports = @ + mem[t].lamports,
                     ![t] = [@ EXCEPT !.lamports = 0, !.len = mem'[t].len,
                                      !.disc = mem'[t].disc]]
  <1>1. t \in Keys /\ o \in Keys /\ t # o
    BY StepParts, Apart
  <1>2. mem \in Ledger /\ mem' \in Ledger
    BY DEF TypeOK, Advanced
  <1>3. /\ mem'[t] = [mem[t] EXCEPT !.lamports = 0,
                                    !.disc = Prefix(mem[t].len, "closed")]
        /\ mem'[o] = [mem[o] EXCEPT !.lamports = @ + mem[t].lamports]
        /\ \A k \in Keys \ {t, o} : mem'[k] = mem[k]
    BY <1>1 DEF Closed, ClosedInto
  <1>4. mem[t] \in Account /\ mem'[t] \in Account
    BY <1>1, <1>2 DEF Ledger
  <1>5. /\ mem'[t].lamports = 0 /\ mem'[t].owner = mem[t].owner
        /\ mem'[t].len = mem[t].len
        /\ mem'[t].disc = Prefix(mem[t].len, "closed")
    BY <1>3, <1>4 DEF Account
  <1>6. Contract!Marked(mem'[t])
    BY <1>5 DEF Contract!Marked, Prefix
  <1>7. mem' = b
    <2>1. mem'[t] = [mem[t] EXCEPT !.lamports = 0, !.len = mem'[t].len,
                                   !.disc = mem'[t].disc]
      BY <1>4, <1>5 DEF Account
    <2>2. /\ b[t] = [mem[t] EXCEPT !.lamports = 0, !.len = mem'[t].len,
                                   !.disc = mem'[t].disc]
          /\ b[o] = [mem[o] EXCEPT !.lamports = @ + mem[t].lamports]
      BY <1>1, <1>2 DEF Ledger
    <2>3. \A k \in Keys \ {t, o} : b[k] = mem[k]
      BY <1>2 DEF Ledger
    <2>4. \A k \in Keys : mem'[k] = b[k]
      BY <1>3, <2>1, <2>2, <2>3
    <2>5. b = [k \in Keys |-> b[k]] /\ mem' = [k \in Keys |-> mem'[k]]
      BY <1>2 DEF Ledger
    <2>6. QED
      BY <2>4, <2>5
  <1>8. QED
    BY <1>1, <1>6, <1>7 DEF Contract!ApplyClose

\* Both ways a realloc may go: a top-up of what is missing, or of nothing.
LEMMA ReallocIsLean ==
    ASSUME TypeOK, Distinct, NEW p \in StepsOf(struct), Advanced(p),
           Sized(p) \/ Topped(p)
    PROVE  Contract!ApplyRealloc(Target(p), Partner(p))
  <1> DEFINE t == Target(p)
             o == Partner(p)
             n == NewLen(p)
             min == MinimumBalance[n]
             delta == IF mem[t].lamports < min THEN min - mem[t].lamports ELSE 0
             b == [mem EXCEPT ![t].lamports = @ + delta,
                              ![t].len = n,
                              ![t].disc = IF n = 0 THEN "zero" ELSE @,
                              ![o].lamports = @ - delta]
  <1>1. t \in Keys /\ o \in Keys /\ t # o /\ n # 0 /\ min \in Nat
    BY StepParts, Apart
  <1>2. mem \in Ledger /\ mem' \in Ledger
    BY DEF TypeOK, Advanced
  <1>3. \A k \in Keys \ {t, o} : mem'[k] = mem[k]
    BY DEF Advanced, Pair
  <1>4. /\ mem[t] \in Account /\ mem'[t] \in Account
        /\ mem[o] \in Account /\ mem'[o] \in Account
    BY <1>1, <1>2 DEF Ledger
  <1>5. /\ mem'[t] = [mem[t] EXCEPT !.lamports = @ + delta, !.len = n]
        /\ mem'[o] = [mem[o] EXCEPT !.lamports = @ - delta]
    <2>1. CASE Sized(p)
      <3>1. /\ mem[t].lamports >= min
            /\ mem'[t] = [mem[t] EXCEPT !.len = n] /\ mem'[o] = mem[o]
        BY <1>1, <2>1 DEF Sized
      <3>2. delta = 0
        BY <1>1, <1>4, <3>1 DEF Account
      <3>3. /\ mem[t].lamports + delta = mem[t].lamports
            /\ mem[o].lamports - delta = mem[o].lamports
        BY <1>4, <3>2 DEF Account
      <3> HIDE DEF delta, n
      <3>4. QED
        BY <1>4, <3>1, <3>3 DEF Account
    <2>2. CASE Topped(p)
      <3>1. /\ mem[t].lamports < min
            /\ mem'[t] = [mem[t] EXCEPT !.lamports = min, !.len = n]
            /\ mem'[o] = [mem[o] EXCEPT !.lamports = @ - (min - mem[t].lamports)]
        BY <1>1, <2>2 DEF Topped
      <3>2. delta = min - mem[t].lamports
        BY <3>1
      <3>3. mem[t].lamports + delta = min
        BY <1>1, <1>4, <3>2 DEF Account
      <3>4. QED
        BY <1>4, <3>1, <3>2, <3>3 DEF Account
    <2>3. QED
      BY <2>1, <2>2
  <1>6. delta \in Nat /\ delta <= mem[o].lamports
    <2>1. mem[t].lamports \in Nat /\ mem[o].lamports \in Nat
          /\ mem'[o].lamports \in Nat
      BY <1>4 DEF Account
    <2>2. mem'[o].lamports = mem[o].lamports - delta
      BY <1>4, <1>5 DEF Account
    <2>3. QED
      BY <1>1, <2>1, <2>2
  <1>7. mem'[t].len = n
    BY <1>4, <1>5 DEF Account
  <1> HIDE DEF delta, n
  <1>8. mem' = b
    <2>1. /\ b[t] = [mem[t] EXCEPT !.lamports = @ + delta, !.len = n]
          /\ b[o] = [mem[o] EXCEPT !.lamports = @ - delta]
      BY <1>1, <1>2, <1>4 DEF Ledger, Account
    <2>2. \A k \in Keys \ {t, o} : b[k] = mem[k]
      BY <1>2 DEF Ledger
    <2>3. \A k \in Keys : mem'[k] = b[k]
      BY <1>3, <1>5, <2>1, <2>2
    <2>4. b = [k \in Keys |-> b[k]] /\ mem' = [k \in Keys |-> mem'[k]]
      BY <1>2 DEF Ledger
    <2>5. QED
      BY <2>3, <2>4
  <1>9. QED
    BY <1>1, <1>6, <1>7, <1>8 DEF Contract!ApplyRealloc, delta

LEMMA StepIsLean ==
    ASSUME TypeOK, Distinct, [Next]_vars, NEW p \in todo \ todo'
    PROVE  Due(p) /\ Applied(p)
  <1>1. PICK q \in todo : Advanced(q)
    BY NextEffect DEF Stopped, vars
  <1>2. p = q /\ Due(p) /\ p \in StepsOf(struct)
    BY <1>1 DEF Advanced, TypeOK
  <1>3. Advanced(p)
    BY <1>1, <1>2
  <1>4. CASE Made(p)
    BY <1>2, <1>3, <1>4, MadeIsLean DEF Made, Applied
  <1>5. CASE Kept(p)
    BY <1>2, <1>5 DEF Kept, Applied
  <1>6. CASE Closed(p)
    BY <1>2, <1>3, <1>6, ClosedIsLean DEF Closed, Applied
  <1>7. CASE Sized(p) \/ Topped(p)
    BY <1>2, <1>3, <1>7, ReallocIsLean DEF Sized, Topped, Applied
  <1>8. QED
    BY <1>2, <1>3, <1>4, <1>5, <1>6, <1>7 DEF Advanced

\* Each step of a struct whose accounts are all different is the Lean
\* transformer of its constraint, in the order of the struct, whatever the
\* steps before it left.
THEOREM StepsImplementLean == Spec => StepsAreLean
<1>1. TypeOK /\ [Next]_vars
        => [Distinct => \A p \in todo \ todo' : Due(p) /\ Applied(p)]_vars
  BY StepIsLean
<1>2. QED
  BY <1>1, TypesHold, PTL DEF Spec, StepsAreLean

-----------------------------------------------------------------------------
(* Whose sums fail.                                                        *)

\* A close the runtime may catch half done.
Straddling(p) ==
    /\ p[2] = "close"
    /\ \/ Target(p) = Partner(p)
       \/ \E q \in StepsOf(struct) :
             /\ Precedes(p, q) /\ q[2] # "close"
             /\ Cardinality(Pair(p) \intersect Pair(q)) = 1

Tidy == \A p \in StepsOf(struct) : ~Straddling(p)

\* What the program has written to the balance of k and the runtime not read.
Unread(k) == mem[k].lamports - known[k].lamports

\* The same of the accounts a step names.
UnreadOf(q) == IF Target(q) = Partner(q) THEN Unread(Target(q))
               ELSE Unread(Target(q)) + Unread(Partner(q))

\* Without a straddling close both views add up to the lamports there were.
\* Only closes leave something unread, and a call still to come reads either
\* both accounts of such a close or neither.
Accounted ==
    /\ Supply(mem) = Supply(before)
    /\ Supply(known) = Supply(before)
    /\ \A k \in Keys : Unread(k) # 0 =>
          \E p \in StepsOf(struct) \ todo : p[2] = "close" /\ k \in Pair(p)
    /\ \A q \in todo : q[2] # "close" => UnreadOf(q) = 0

\* A close shares both its accounts with a later call or none.
LEMMA BothOrNone ==
    ASSUME Tidy, NEW p \in StepsOf(struct), NEW q \in StepsOf(struct),
           p[2] = "close", q[2] # "close", Precedes(p, q),
           NEW k, k \in Pair(p), k \in Pair(q)
    PROVE  Pair(p) = Pair(q) /\ Target(p) # Partner(p)
  <1>1. Target(p) # Partner(p) /\ Cardinality(Pair(p) \intersect Pair(q)) # 1
    BY DEF Tidy, Straddling
  <1>2. Pair(p) \intersect Pair(q) # {k}
    BY <1>1, FS_Singleton
  <1>3. PICK j \in Pair(p) \intersect Pair(q) : j # k
    BY <1>2
  <1>4. QED
    BY <1>1, <1>3 DEF Pair

\* A step moves lamports between its two accounts, or none at all.
LEMMA StepConserves ==
    ASSUME TypeOK, NEW p \in StepsOf(struct), Advanced(p),
           p[2] = "close" => Target(p) # Partner(p)
    PROVE  /\ Target(p) = Partner(p) =>
                mem'[Target(p)].lamports = mem[Target(p)].lamports
           /\ Target(p) # Partner(p) =>
                mem'[Target(p)].lamports + mem'[Partner(p)].lamports
                  = mem[Target(p)].lamports + mem[Partner(p)].lamports
  <1> DEFINE t == Target(p)
             o == Partner(p)
             min == MinimumBalance[NewLen(p)]
  <1>1. t \in Keys /\ o \in Keys /\ min \in Nat
    BY StepParts
  <1>2. /\ mem[t] \in Account /\ mem'[t] \in Account
        /\ mem[o] \in Account /\ mem'[o] \in Account
    BY <1>1 DEF TypeOK, Advanced, Ledger
  <1>3. CASE Made(p)
    <2>1. /\ t # o /\ mem[t].lamports = 0 /\ mem'[t].lamports = RentLamports
          /\ mem'[o] = [mem[o] EXCEPT !.lamports = @ - RentLamports]
      BY <1>3 DEF Made
    <2>2. mem'[o].lamports = mem[o].lamports - RentLamports
      BY <1>2, <2>1 DEF Account
    <2>3. RentLamports \in Nat /\ mem[o].lamports \in Nat
      BY <1>2, CallAssumption DEF Account
    <2>4. QED
      BY <2>1, <2>2, <2>3
  <1>4. CASE Kept(p)
    BY <1>4 DEF Kept
  <1>5. CASE Closed(p)
    <2>1. /\ t # o
          /\ mem'[t] = [mem[t] EXCEPT !.lamports = 0,
                                      !.disc = Prefix(mem[t].len, "closed")]
          /\ mem'[o] = [mem[o] EXCEPT !.lamports = @ + mem[t].lamports]
      BY <1>5 DEF Closed, ClosedInto
    <2>2. /\ mem'[t].lamports = 0
          /\ mem'[o].lamports = mem[o].lamports + mem[t].lamports
          /\ mem[t].lamports \in Nat /\ mem[o].lamports \in Nat
      BY <1>2, <2>1 DEF Account
    <2>3. QED
      BY <2>1, <2>2
  <1>6. CASE Sized(p)
    <2>1. mem'[t].lamports = mem[t].lamports
      BY <1>2, <1>6 DEF Sized, Account
    <2>2. t # o => mem'[o] = mem[o]
      BY <1>1, <1>6 DEF Sized
    <2>3. QED
      BY <2>1, <2>2
  <1>7. CASE Topped(p)
    <2>1. CASE t = o
      <3>1. mem'[t] = [mem[t] EXCEPT !.len = NewLen(p)]
        BY <1>7, <2>1 DEF Topped
      <3>2. QED
        BY <1>2, <2>1, <3>1 DEF Account
    <2>2. CASE t # o
      <3>1. /\ mem'[t] = [mem[t] EXCEPT !.lamports = min, !.len = NewLen(p)]
            /\ mem'[o] = [mem[o] EXCEPT
                            !.lamports = @ - (min - mem[t].lamports)]
        BY <1>7, <2>2 DEF Topped
      <3>2. /\ mem'[t].lamports = min
            /\ mem'[o].lamports = mem[o].lamports - (min - mem[t].lamports)
            /\ mem[t].lamports \in Nat /\ mem[o].lamports \in Nat
        BY <1>2, <3>1 DEF Account
      <3>3. QED
        BY <1>1, <2>2, <3>2
    <2>3. QED
      BY <2>1, <2>2
  <1>8. QED
    BY <1>3, <1>4, <1>5, <1>6, <1>7 DEF Advanced

LEMMA MemSupply ==
    ASSUME TypeOK, NEW p \in StepsOf(struct), Advanced(p),
           p[2] = "close" => Target(p) # Partner(p)
    PROVE  Supply(mem') = Supply(mem)
  <1> DEFINE t == Target(p)
             o == Partner(p)
  <1>1. t \in Keys /\ o \in Keys /\ mem \in Ledger /\ mem' \in Ledger
    BY StepParts DEF TypeOK, Advanced
  <1>2. \A k \in Keys \ {t, o} : mem'[k].lamports = mem[k].lamports
    BY DEF Advanced, Pair
  <1>3. /\ t = o => mem'[t].lamports = mem[t].lamports
        /\ t # o => mem'[t].lamports + mem'[o].lamports
                      = mem[t].lamports + mem[o].lamports
    BY StepConserves
  <1> HIDE DEF t, o
  <1>4. CASE t = o
    <2>1. \A k \in Keys : mem'[k].lamports = mem[k].lamports
      BY <1>2, <1>3, <1>4
    <2>2. QED
      BY <2>1, SameSupply
  <1>5. CASE t # o
    <2>1. Balanced(mem, mem')
      BY <1>1, <1>2, <1>3, <1>5, MovedSupply
    <2>2. QED
      BY <2>1 DEF Balanced
  <1>6. QED
    BY <1>4, <1>5

\* A call adds to what the runtime knows what was unread of its accounts.
LEMMA KnownSupply ==
    ASSUME TypeOK, NEW p \in StepsOf(struct), Advanced(p),
           Made(p) \/ Topped(p), UnreadOf(p) = 0
    PROVE  Supply(known') = Supply(known)
  <1> DEFINE t == Target(p)
             o == Partner(p)
  <1>1. /\ t \in Keys /\ o \in Keys /\ mem \in Ledger /\ mem' \in Ledger
        /\ known \in Ledger /\ known' \in Ledger
    BY StepParts DEF TypeOK, Advanced
  <1>2. \A k \in Keys \ {t, o} : known'[k].lamports = known[k].lamports
    BY DEF Advanced, Pair
  <1>3. /\ t = o => mem'[t].lamports = mem[t].lamports
        /\ t # o => mem'[t].lamports + mem'[o].lamports
                      = mem[t].lamports + mem[o].lamports
    BY StepConserves DEF Made, Topped
  <1>4. /\ known'[t].lamports = mem'[t].lamports
        /\ known'[o].lamports = mem'[o].lamports
    BY DEF Made, Topped, Called, Pair
  <1>5. \A k \in {t, o} : /\ mem[k].lamports \in Nat /\ mem'[k].lamports \in Nat
                          /\ known[k].lamports \in Nat
    BY <1>1 DEF Ledger, Account
  <1>6. /\ t = o => mem[t].lamports - known[t].lamports = 0
        /\ t # o => (mem[t].lamports - known[t].lamports)
                       + (mem[o].lamports - known[o].lamports) = 0
    BY DEF UnreadOf, Unread
  <1> HIDE DEF t, o
  <1>7. CASE t = o
    <2>1. known'[t].lamports = known[t].lamports
      BY <1>3, <1>4, <1>5, <1>6, <1>7
    <2>2. \A k \in Keys : known'[k].lamports = known[k].lamports
      BY <1>2, <1>7, <2>1
    <2>3. QED
      BY <2>2, SameSupply
  <1>8. CASE t # o
    <2>1. known'[t].lamports + known'[o].lamports
            = known[t].lamports + known[o].lamports
      BY <1>3, <1>4, <1>5, <1>6, <1>8
    <2>2. Balanced(known, known')
      BY <1>1, <1>2, <1>8, <2>1, MovedSupply
    <2>3. QED
      BY <2>2 DEF Balanced
  <1>9. QED
    BY <1>7, <1>8

\* Unread and the other terms of Accounted in the next state, on the accounts
\* of this one.
StillUnread(k) == mem'[k].lamports - known'[k].lamports

LEMMA UnreadPrimed ==
    ASSUME UNCHANGED <<struct, keys, priv, before>>
    PROVE  /\ \A k : Unread(k)' = StillUnread(k)
           /\ \A p : /\ Pair(p)' = Pair(p)
                     /\ UnreadOf(p)'
                          = IF Target(p) = Partner(p) THEN StillUnread(Target(p))
                            ELSE StillUnread(Target(p)) + StillUnread(Partner(p))
           /\ Tidy' = Tidy
  BY DEF Unread, StillUnread, UnreadOf, Pair, Target, Partner, Tidy, Straddling, StepsOf,
         Precedes

LEMMA UnreadType ==
    ASSUME TypeOK, NEW k \in Keys
    PROVE  Unread(k) \in Int
  BY DEF TypeOK, Ledger, Account, Unread

\* A call the runtime accepts leaves nothing unread of its accounts, and all
\* that was unread of a later call's.
LEMMA AccountedCall ==
    ASSUME TypeOK, Standing, Tidy, Accounted, NEW p \in todo, Advanced(p),
           Made(p) \/ Topped(p)
    PROVE  Accounted'
  <1>1. /\ p \in StepsOf(struct) /\ p[2] # "close"
        /\ UNCHANGED <<struct, keys, priv, before>> /\ todo' = todo \ {p}
        /\ \A q \in todo \ {p} : Precedes(p, q)
        /\ StepsOf(struct)' = StepsOf(struct)
    BY SameInput DEF TypeOK, Advanced, Due, Made, Topped
  <1>2. Supply(mem') = Supply(before) /\ Supply(known') = Supply(before)
    BY <1>1, MemSupply, KnownSupply DEF Accounted
  <1>3. \A k \in Pair(p) : StillUnread(k) = 0
    <2>1. \A k \in Pair(p) : k \in Keys /\ known'[k].lamports = mem'[k].lamports
      BY <1>1, StepParts DEF Made, Topped, Called, Pair
    <2>2. \A k \in Keys : mem'[k].lamports \in Nat
      BY DEF Advanced, Ledger, Account
    <2>3. QED
      BY <2>1, <2>2 DEF StillUnread
  <1>4. \A k \in Keys \ Pair(p) : StillUnread(k) = Unread(k)
    BY <1>1, UnreadPrimed DEF Advanced, Unread, StillUnread
  <1>5. \A k \in Keys : StillUnread(k) # 0 =>
          \E r \in StepsOf(struct) \ todo' : r[2] = "close" /\ k \in Pair(r)
    BY <1>1, <1>3, <1>4 DEF Accounted
  <1>6. ASSUME NEW q \in todo', q[2] # "close",
               NEW x \in Pair(q), NEW y \in Pair(q), x \in Pair(p), y \notin Pair(p)
        PROVE  StillUnread(y) = 0
    <2>1. q \in todo /\ q # p /\ q \in StepsOf(struct) /\ Precedes(p, q)
      BY <1>1 DEF TypeOK
    <2>2. y \in Keys
      BY <2>1, StepParts DEF Pair
    <2>3. SUFFICES ASSUME Unread(y) # 0 PROVE FALSE
      BY <1>4, <1>6, <2>2
    <2>4. PICK r \in StepsOf(struct) \ todo : r[2] = "close" /\ y \in Pair(r)
      BY <2>2, <2>3 DEF Accounted
    <2>5. Precedes(r, p) /\ Precedes(r, q)
      BY <2>1 DEF Standing
    <2>6. Pair(r) = Pair(q)
      BY <1>6, <2>1, <2>4, <2>5, BothOrNone
    <2>7. x \in Pair(r)
      BY <2>6
    <2>8. Pair(r) = Pair(p)
      BY <1>1, <1>6, <2>4, <2>5, <2>7, BothOrNone
    <2>9. QED
      BY <1>6, <2>4, <2>8
  <1>7. ASSUME NEW q \in todo', q[2] # "close"
        PROVE  UnreadOf(q)' = 0
    <2> DEFINE t == Target(q)
               o == Partner(q)
    <2>1. /\ q \in todo /\ q \in StepsOf(struct) /\ UnreadOf(q) = 0
          /\ t \in Keys /\ o \in Keys /\ t \in Pair(q) /\ o \in Pair(q)
      BY <1>1, <1>7, StepParts DEF TypeOK, Accounted, Pair
    <2>2. UnreadOf(q)' = IF t = o THEN StillUnread(t) ELSE StillUnread(t) + StillUnread(o)
      BY <1>1, UnreadPrimed
    <2>3. UnreadOf(q) = IF t = o THEN Unread(t) ELSE Unread(t) + Unread(o)
      BY DEF UnreadOf
    <2> HIDE DEF t, o
    <2>4. CASE t \in Pair(p) /\ o \in Pair(p)
      BY <1>3, <2>2, <2>4
    <2>5. CASE t \notin Pair(p) /\ o \notin Pair(p)
      <3>1. StillUnread(t) = Unread(t) /\ StillUnread(o) = Unread(o)
        BY <1>4, <2>1, <2>5
      <3>2. QED
        BY <2>1, <2>2, <2>3, <3>1
    <2>6. CASE t \in Pair(p) /\ o \notin Pair(p)
      <3>1. StillUnread(t) = 0 /\ StillUnread(o) = 0 /\ t # o
        BY <1>3, <1>6, <1>7, <2>1, <2>6
      <3>2. QED
        BY <2>2, <3>1
    <2>7. CASE t \notin Pair(p) /\ o \in Pair(p)
      <3>1. StillUnread(t) = 0 /\ StillUnread(o) = 0 /\ t # o
        BY <1>3, <1>6, <1>7, <2>1, <2>7
      <3>2. QED
        BY <2>2, <3>1
    <2>8. QED
      BY <2>4, <2>5, <2>6, <2>7
  <1>8. before' = before
    BY <1>1
  <1>9. QED
    BY <1>1, <1>2, <1>5, <1>7, <1>8, UnreadPrimed DEF Accounted

\* A close leaves its two accounts unread; a later call names both or neither.
LEMMA AccountedClose ==
    ASSUME TypeOK, Tidy, Accounted, NEW p \in todo, Advanced(p), Closed(p)
    PROVE  Accounted'
  <1>1. /\ p \in StepsOf(struct) /\ p[2] = "close" /\ known' = known
        /\ UNCHANGED <<struct, keys, priv, before>> /\ todo' = todo \ {p}
        /\ \A q \in todo \ {p} : Precedes(p, q)
        /\ StepsOf(struct)' = StepsOf(struct)
        /\ Target(p) # Partner(p)
    BY SameInput DEF TypeOK, Advanced, Due, Closed, Tidy, Straddling
  <1>2. Supply(mem') = Supply(before) /\ Supply(known') = Supply(before)
    BY <1>1, MemSupply DEF Accounted
  <1>3. \A k \in Keys \ Pair(p) : StillUnread(k) = Unread(k)
    BY <1>1, UnreadPrimed DEF Advanced, Unread, StillUnread
  <1>4. \A k \in Keys : StillUnread(k) # 0 =>
          \E r \in StepsOf(struct) \ todo' : r[2] = "close" /\ k \in Pair(r)
    BY <1>1, <1>3 DEF Accounted
  <1>5. StillUnread(Target(p)) + StillUnread(Partner(p))
          = Unread(Target(p)) + Unread(Partner(p))
    <2> DEFINE t == Target(p)
               o == Partner(p)
    <2>1. t \in Keys /\ o \in Keys
      BY <1>1, StepParts
    <2>2. mem'[t].lamports + mem'[o].lamports = mem[t].lamports + mem[o].lamports
      BY <1>1, StepConserves
    <2>3. /\ StillUnread(t) = mem'[t].lamports - known[t].lamports
          /\ StillUnread(o) = mem'[o].lamports - known[o].lamports
          /\ Unread(t) = mem[t].lamports - known[t].lamports
          /\ Unread(o) = mem[o].lamports - known[o].lamports
      BY <1>1, UnreadPrimed DEF Unread, StillUnread
    <2>4. \A k \in {t, o} : /\ mem[k].lamports \in Nat /\ mem'[k].lamports \in Nat
                            /\ known[k].lamports \in Nat
      BY <2>1 DEF TypeOK, Advanced, Ledger, Account
    <2> HIDE DEF t, o
    <2>5. StillUnread(t) + StillUnread(o) = Unread(t) + Unread(o)
      BY <2>2, <2>3, <2>4
    <2>6. QED
      BY <2>5 DEF t, o
  <1>6. ASSUME NEW q \in todo', q[2] # "close"
        PROVE  UnreadOf(q)' = 0
    <2>1. /\ q \in todo /\ q \in StepsOf(struct) /\ UnreadOf(q) = 0
          /\ Precedes(p, q) /\ Target(q) \in Keys /\ Partner(q) \in Keys
      BY <1>1, <1>6, StepParts DEF TypeOK, Accounted
    <2>2. UnreadOf(q)' = IF Target(q) = Partner(q) THEN StillUnread(Target(q))
                         ELSE StillUnread(Target(q)) + StillUnread(Partner(q))
      BY <1>1, UnreadPrimed
    <2>3. CASE Pair(p) \intersect Pair(q) = {}
      <3>1. Target(q) \notin Pair(p) /\ Partner(q) \notin Pair(p)
        BY <2>3 DEF Pair
      <3>2. StillUnread(Target(q)) = Unread(Target(q))
            /\ StillUnread(Partner(q)) = Unread(Partner(q))
        BY <1>3, <2>1, <3>1
      <3>3. QED
        BY <2>1, <2>2, <3>2 DEF UnreadOf
    <2>4. CASE Pair(p) \intersect Pair(q) # {}
      <3>1. Pair(p) = Pair(q)
        BY <1>1, <1>6, <2>1, <2>4, BothOrNone
      <3>2. \/ Target(q) = Target(p) /\ Partner(q) = Partner(p)
            \/ Target(q) = Partner(p) /\ Partner(q) = Target(p)
        BY <1>1, <3>1 DEF Pair
      <3>3. /\ Unread(Target(p)) \in Int /\ Unread(Partner(p)) \in Int
            /\ StillUnread(Target(p)) \in Int /\ StillUnread(Partner(p)) \in Int
        <4>1. Target(p) \in Keys /\ Partner(p) \in Keys
          BY <1>1, StepParts
        <4>2. QED
          BY <1>1, <4>1, UnreadType
             DEF TypeOK, Advanced, Ledger, Account, StillUnread
      <3>4. StillUnread(Target(q)) + StillUnread(Partner(q))
              = Unread(Target(q)) + Unread(Partner(q))
        BY <1>5, <3>2, <3>3
      <3>5. Target(q) # Partner(q)
        BY <1>1, <3>2
      <3>6. QED
        BY <2>1, <2>2, <3>4, <3>5 DEF UnreadOf
    <2>5. QED
      BY <2>3, <2>4
  <1>7. QED
    BY <1>1, <1>2, <1>4, <1>6, UnreadPrimed DEF Accounted

\* The other steps write no balance.
LEMMA AccountedQuiet ==
    ASSUME TypeOK, Accounted, NEW p \in todo, Advanced(p), Kept(p) \/ Sized(p)
    PROVE  Accounted'
  <1>1. /\ p \in StepsOf(struct) /\ p[2] # "close" /\ known' = known
        /\ UNCHANGED <<struct, keys, priv, before>> /\ todo' = todo \ {p}
        /\ StepsOf(struct)' = StepsOf(struct)
    BY SameInput DEF TypeOK, Advanced, Kept, Sized
  <1>2. \A k \in Keys : mem'[k].lamports = mem[k].lamports
    <2>1. CASE Kept(p)
      BY <2>1 DEF Kept
    <2>2. CASE Sized(p)
      BY <1>1, <2>2, StepParts DEF Sized, TypeOK, Ledger, Account
    <2>3. QED
      BY <2>1, <2>2
  <1>3. Supply(mem') = Supply(before) /\ Supply(known') = Supply(before)
    BY <1>1, <1>2, SameSupply DEF Accounted
  <1>4. \A k \in Keys : StillUnread(k) = Unread(k)
    BY <1>1, <1>2, UnreadPrimed DEF Unread, StillUnread
  <1>5. \A q \in todo' : UnreadOf(q)' = UnreadOf(q)
    <2>1. \A q \in todo' : Target(q) \in Keys /\ Partner(q) \in Keys
      BY <1>1, StepParts DEF TypeOK
    <2>2. QED
      BY <1>1, <1>4, <2>1, UnreadPrimed DEF UnreadOf
  <1>6. QED
    BY <1>1, <1>3, <1>4, <1>5, UnreadPrimed DEF Accounted

\* What the runtime reads of an accounted call changes no sum.
LEMMA ReadSupply ==
    ASSUME TypeOK, NEW p \in StepsOf(struct), UnreadOf(p) = 0
    PROVE  Supply(Read(Pair(p))) = Supply(known)
  <1> DEFINE t == Target(p)
             o == Partner(p)
             b == Read(Pair(p))
  <1>1. t \in Keys /\ o \in Keys /\ mem \in Ledger /\ known \in Ledger
    BY StepParts DEF TypeOK
  <1>2. /\ b \in Ledger
        /\ b[t] = mem[t] /\ b[o] = mem[o]
        /\ \A k \in Keys \ {t, o} : b[k] = known[k]
    BY <1>1 DEF Read, Pair, Ledger
  <1>3. \A k \in {t, o} : mem[k].lamports \in Nat /\ known[k].lamports \in Nat
    BY <1>1 DEF Ledger, Account
  <1>4. /\ t = o => mem[t].lamports - known[t].lamports = 0
        /\ t # o => (mem[t].lamports - known[t].lamports)
                       + (mem[o].lamports - known[o].lamports) = 0
    BY DEF UnreadOf, Unread
  <1> HIDE DEF t, o, b
  <1>5. CASE t = o
    <2>1. \A k \in Keys : b[k].lamports = known[k].lamports
      BY <1>2, <1>3, <1>4, <1>5
    <2>2. QED
      BY <2>1, SameSupply DEF b
  <1>6. CASE t # o
    <2>1. b[t].lamports + b[o].lamports = known[t].lamports + known[o].lamports
      BY <1>2, <1>3, <1>4, <1>6
    <2>2. Balanced(known, b)
      BY <1>1, <1>2, <1>6, <2>1, MovedSupply
    <2>3. QED
      BY <2>2 DEF Balanced, b
  <1>7. QED
    BY <1>5, <1>6

LEMMA AccountedStep ==
    ASSUME TypeOK, Standing, Tidy, Accounted, NEW p \in todo, Advanced(p)
    PROVE  Accounted'
  BY AccountedCall, AccountedClose, AccountedQuiet DEF Advanced

\* No sum the runtime takes of an accounted instruction fails.
LEMMA SumsAgree ==
    ASSUME TypeOK, Accounted, Next
    PROVE  outcome' # "unbalanced"
  <1>1. CASE Reject
    BY <1>1 DEF Reject, Stop
  <1>2. CASE Return
    <2>1. Balanced(before, mem)
      BY DEF Accounted, Balanced
    <2>2. QED
      BY <1>2, <2>1 DEF Return, Stop
  <1>3. ASSUME NEW p \in todo, Invoke(p)
        PROVE  outcome' # "unbalanced"
    <2>1. p[2] # "close" /\ p \in StepsOf(struct)
      BY <1>3 DEF Invoke, Invokes, TypeOK
    <2>2. Supply(Read(Pair(p))) = Supply(before)
      BY <2>1, ReadSupply DEF Accounted
    <2>3. Refusal(p) # "unbalanced"
      BY <2>2 DEF Refusal, Balanced
    <2>4. QED
      BY <1>3, <2>3 DEF Invoke, Stop, Running
  <1>4. ASSUME NEW p \in todo, Write(p)
        PROVE  outcome' # "unbalanced"
    BY <1>4 DEF Write, Stop, Running
  <1>5. QED
    BY <1>1, <1>2, <1>3, <1>4 DEF Next

Summing == Tidy => /\ outcome = "running" => Accounted
                   /\ outcome # "unbalanced"

LEMMA SummingInit == Init => Summing
  <1> SUFFICES ASSUME Init PROVE Accounted /\ outcome # "unbalanced"
    BY DEF Summing
  <1>1. TypeOK /\ known = before /\ mem = before /\ outcome = "running"
    BY TypeInit DEF Init
  <1>2. \A k \in Keys : Unread(k) = 0
    BY <1>1 DEF TypeOK, Ledger, Account, Unread
  <1>3. \A q \in todo : UnreadOf(q) = 0
    <2>1. \A q \in todo : Target(q) \in Keys /\ Partner(q) \in Keys
      BY <1>1, StepParts DEF TypeOK
    <2>2. QED
      BY <1>2, <2>1 DEF UnreadOf
  <1>4. QED
    BY <1>1, <1>2, <1>3 DEF Accounted

LEMMA SummingStep == IInv /\ Summing /\ [Next]_vars => Summing'
  <1> SUFFICES ASSUME IInv, Summing, [Next]_vars PROVE Summing'
    OBVIOUS
  <1>1. TypeOK /\ Standing
    BY DEF IInv, Paying
  <1>2. CASE UNCHANGED vars
    <2>1. Tidy' = Tidy
      BY <1>2, UnreadPrimed DEF vars
    <2>2. Accounted => Accounted'
      BY <1>2 DEF vars, Accounted, Unread, UnreadOf, StepsOf, Pair, Target, Partner
    <2>3. QED
      BY <1>2, <2>1, <2>2 DEF Summing, vars
  <1>3. CASE Next
    <2>1. outcome = "running"
      BY <1>3 DEF Next, Reject, Return, Invoke, Write, Running
    <2>2. Tidy' = Tidy
      <3>1. UNCHANGED <<struct, keys, priv, before>>
        BY <1>1, <1>3, NextEffect DEF Stopped, Advanced
      <3>2. QED
        BY <3>1, UnreadPrimed
    <2>3. SUFFICES ASSUME Tidy
                   PROVE  /\ outcome' = "running" => Accounted'
                          /\ outcome' # "unbalanced"
      BY <2>2 DEF Summing
    <2>4. Accounted
      BY <2>1, <2>3 DEF Summing
    <2>5. outcome' = "running" => \E p \in todo : Advanced(p)
      BY <1>1, <1>3, NextEffect DEF Stopped
    <2>6. QED
      BY <1>1, <1>3, <2>3, <2>4, <2>5, AccountedStep, SumsAgree
  <1>4. QED
    BY <1>2, <1>3

\* The runtime finds lamports missing or in excess, at a call or at the end,
\* only if some close is into its own account or is caught half done by a
\* later call: the other structs are never refused for their sums, whatever
\* accounts they are passed.
THEOREM SumsHold == Spec => []OnlyStraddlingUnbalances
<1>1. Spec => []Summing
  <2>1. Spec => []IInv
    BY IInvInit, IInvStep, PTL DEF Spec
  <2>2. QED
    BY <2>1, SummingInit, SummingStep, PTL DEF Spec
<1>2. Summing => OnlyStraddlingUnbalances
  BY DEF Summing, Tidy, Straddling, OnlyStraddlingUnbalances
<1>3. QED
  BY <1>1, <1>2, PTL
=============================================================================
