--------------------------- MODULE StructLifecycle ---------------------------
(***************************************************************************)
(* execute_lifecycle of a struct with several lifecycle constraints: the   *)
(* steps of all its fields, one after another, inside one instruction.     *)
(*                                                                         *)
(* The steps write to the program's own view of the accounts.  The runtime *)
(* learns of those writes when the instruction returns, and before that    *)
(* only when a step calls the System Program, and then only for the two    *)
(* accounts of the call.  Accounts are passed by position, so two fields   *)
(* may be given the same one.  The System Program itself is passed along.  *)
(***************************************************************************)
EXTENDS LifecycleSteps, Sequences, FiniteSets

CONSTANTS
    Structs,       \* the structs, sequences of Field
    Ledgers,       \* the ledgers an instruction may start from
    Messages,      \* the privileges it may be given
    MaxGrowth,     \* MAX_PERMITTED_DATA_INCREASE (10 KiB), per instruction
    RentLamports   \* rent_lamports, one amount for every account created

Kinds == {"init", "close", "realloc", "iin"}

\* Created accounts are small: the same limit on creations is never reached.
InitLen    == DiscriminatorLen       \* space = 0
CounterLen == DiscriminatorLen + 8   \* space = 8

\* What the generated code keeps of a field: its lifecycle constraints, the
\* positions of its payer, of its close destination and of its realloc::payer,
\* the length its realloc asks for (never an empty account here), and what
\* validate checks of it. All seeds are those of the one derived address.
Field == [steps: SUBSET Kinds, payer: Nat, dest: Nat, repayer: Nat,
          newlen: Lens \ {0}, mut: BOOLEAN, signer: BOOLEAN, seeded: BOOLEAN]

\* The other account of a constraint.
Other(s, p) ==
    CASE p[2] = "close"           -> s[p[1]].dest
      [] p[2] = "realloc"         -> s[p[1]].repayer
      [] p[2] \in {"init", "iin"} -> s[p[1]].payer

StepsOf(s) == {p \in (DOMAIN s) \X Kinds : p[2] \in s[p[1]].steps}

\* StructLifecycleWF: what the proof gate has decided of every struct.
WellFormed(s) == \A p \in StepsOf(s) : Other(s, p) # p[1]

ASSUME StructAssumption ==
    \A s \in Structs :
       /\ s \in Seq(Field)
       /\ \A i \in DOMAIN s : /\ {s[i].payer, s[i].dest, s[i].repayer}
                                   \subseteq DOMAIN s
                              /\ "realloc" \in s[i].steps => s[i].mut
       /\ WellFormed(s)
ASSUME CallAssumption ==
    /\ Ledgers \subseteq Ledger
    /\ Messages \subseteq [signers: SUBSET (Keys \ {Pda}), writable: SUBSET Keys]
    /\ RentLamports \in Nat \ {0}
    /\ MaxGrowth \in Nat /\ CounterLen <= MaxGrowth
    /\ {InitLen, CounterLen} \subseteq Lens
    /\ Pda \in Keys

VARIABLES
    struct,   \* the struct of the instruction
    keys,     \* the accounts passed, by position
    priv,     \* the privileges of the message
    before,   \* the ledger when the instruction starts
    known,    \* the ledger as the runtime has it
    mem,      \* the ledger as the program has it
    todo,     \* the steps not yet executed
    outcome   \* "running", or how the instruction ended

vars == <<struct, keys, priv, before, known, mem, todo, outcome>>
input == <<struct, keys, priv, before>>

Outcomes == {"running", "ok", "rejected", "failed", "not_owner", "unbalanced"}

-----------------------------------------------------------------------------
\* Mutant: without the comparison of keys.
ValidPerField ==
    \A i \in DOMAIN struct : /\ struct[i].mut => keys[i] \in priv.writable
                             /\ struct[i].signer => keys[i] \in priv.signers
                             /\ struct[i].seeded => keys[i] = Pda

\* Two `mut` fields have distinct keys; no other pair is compared.  Seeds fix
\* the key of their field.
Valid ==
    /\ \A i \in DOMAIN struct : /\ struct[i].mut => keys[i] \in priv.writable
                                /\ struct[i].signer => keys[i] \in priv.signers
                                /\ struct[i].seeded => keys[i] = Pda
    /\ \A i, j \in DOMAIN struct :
          i < j /\ struct[i].mut /\ struct[j].mut => keys[i] # keys[j]

\* Fields in their order, and the order of the blocks within a field.
Precedes(p, q) ==
    LET rank == [init |-> 1, close |-> 2, realloc |-> 3, iin |-> 4]
    IN  p[1] < q[1] \/ (p[1] = q[1] /\ rank[p[2]] < rank[q[2]])

Due(p) == p \in todo /\ \A q \in todo \ {p} : Precedes(p, q)

NewLen(p)  == struct[p[1]].newlen
Target(p)  == keys[p[1]]
Partner(p) == keys[Other(struct, p)]
Pair(p)    == {Target(p), Partner(p)}

InitIfNeeded(p) ==
    IF struct[p[1]].seeded
    THEN SeededInitIfNeededStep(mem, Partner(p), Target(p), RentLamports, 8, priv)
    ELSE InitIfNeededStep(mem, Partner(p), Target(p), RentLamports, 8, priv)

\* The runtime counts growth from the length at the start of the instruction.
Realloc(a, p) ==
    IF NewLen(p) <= before[Target(p)].len + MaxGrowth
    THEN ReallocStep(a, Target(p), Partner(p), NewLen(p), priv) ELSE Failed(a)

\* Mutant: realloc with the account as it was when the instruction began.
ResultStale(p) ==
    CASE p[2] = "init"    -> InitStep(mem, Partner(p), Target(p), RentLamports, 0, priv)
      [] p[2] = "close"   -> CloseStep(mem, Target(p), Partner(p))
      [] p[2] = "realloc" -> Realloc([mem EXCEPT ![Target(p)] = before[Target(p)]], p)
      [] p[2] = "iin"     -> InitIfNeeded(p)

\* What the step of p makes of the program's view.
Result(p) ==
    CASE p[2] = "init"    -> InitStep(mem, Partner(p), Target(p), RentLamports, 0, priv)
      [] p[2] = "close"   -> CloseStep(mem, Target(p), Partner(p))
      [] p[2] = "realloc" -> Realloc(mem, p)
      [] p[2] = "iin"     -> InitIfNeeded(p)

\* The step of p calls the System Program.
Invokes(p) ==
    CASE p[2] = "init"    -> TRUE
      [] p[2] = "close"   -> FALSE
      [] p[2] = "realloc" -> mem[Target(p)].lamports < MinimumBalance[NewLen(p)]
      [] p[2] = "iin"     -> NeedsInit(mem[Target(p)])

\* The runtime's ledger once it has read the program's writes to some keys.
Read(ks) == [k \in Keys |-> IF k \in ks THEN mem[k] ELSE known[k]]

\* The error of a call the runtime refuses before the System Program runs.
Refusal(p) ==
    CASE ~WritesOwned(known, Read(Pair(p)), priv) -> "not_owner"
      [] WritesOwned(known, Read(Pair(p)), priv) /\ ~Balanced(before, Read(Pair(p)))
                                                  -> "unbalanced"
      [] OTHER                                    -> "none"

-----------------------------------------------------------------------------
Running == outcome = "running" /\ Valid

Stop(why) == outcome' = why /\ UNCHANGED <<known, mem, todo>> /\ UNCHANGED input

Reject == outcome = "running" /\ ~Valid /\ Stop("rejected")

\* A step that calls the System Program.
Invoke(p) ==
    /\ Running /\ Due(p) /\ Invokes(p)
    /\ \/ /\ Refusal(p) # "none"
          /\ Stop(Refusal(p))
       \/ /\ Refusal(p) = "none" /\ ~Result(p).ok
          /\ Stop("failed")
       \/ /\ Refusal(p) = "none" /\ Result(p).ok
          /\ known' = [k \in Keys |-> IF k \in Pair(p) THEN Result(p).cpi[k] ELSE known[k]]
          /\ mem' = Result(p).out
          /\ todo' = todo \ {p}
          /\ UNCHANGED <<outcome, input>>

\* A step that does not.
Write(p) ==
    /\ Running /\ Due(p) /\ ~Invokes(p)
    /\ \/ /\ ~Result(p).ok
          /\ Stop("failed")
       \/ /\ Result(p).ok
          /\ mem' = Result(p).out
          /\ todo' = todo \ {p}
          /\ UNCHANGED <<known, outcome, input>>

\* Ok(()): the runtime reads every account.
Return ==
    /\ Running /\ todo = {}
    /\ Stop(CASE ~WritesOwned(known, mem, priv) -> "not_owner"
              [] WritesOwned(known, mem, priv) /\ ~Balanced(before, mem) -> "unbalanced"
              [] OTHER -> "ok")

Init ==
    /\ struct \in Structs
    /\ keys \in [DOMAIN struct -> Keys]
    /\ priv \in Messages
    /\ before \in Ledgers
    /\ known = before
    /\ mem = before
    /\ todo = StepsOf(struct)
    /\ outcome = "running"

Next == Reject \/ Return \/ \E p \in todo : (Invoke(p) \/ Write(p))

Spec == Init /\ [][Next]_vars

-----------------------------------------------------------------------------
TypeOK ==
    /\ struct \in Structs
    /\ keys \in [DOMAIN struct -> Keys]
    /\ priv \in Messages
    /\ before \in Ledger /\ known \in Ledger /\ mem \in Ledger
    /\ todo \subseteq StepsOf(struct)
    /\ outcome \in Outcomes

Length(p) == IF p[2] = "init" THEN InitLen ELSE CounterLen

\* lifecyclePost of a constraint, on the account its field was given.
Post(p) ==
    LET acct == mem[Target(p)]
    IN  CASE p[2] \in {"init", "iin"} -> acct.owner = "program" /\ acct.len >= Length(p)
          [] p[2] = "close"   -> /\ acct.lamports = 0
                                 /\ acct.len >= DiscriminatorLen => acct.disc = "closed"
          [] p[2] = "realloc" -> /\ acct.len = NewLen(p)
                                 /\ acct.lamports >= MinimumBalance[NewLen(p)]

\* q takes back what p established: it funds the account p closed, or closes
\* or shortens the one p funded.
Undoes(q, p) ==
    \/ /\ p[2] = "close"
       /\ IF q[2] = "close" THEN Partner(q) = Target(p)
                            ELSE Target(q) = Target(p)
    \/ /\ p[2] = "realloc" /\ q[2] = "close"
       /\ Target(q) = Target(p)
    \/ /\ p[2] \in {"init", "iin"} /\ q[2] = "realloc"
       /\ Target(q) = Target(p)
       /\ NewLen(q) < Length(p)

\* The Lean theorem gives each constraint its post-condition on its own.  All
\* of them hold together when the instruction returns Ok, whichever fields
\* share an account, except those that a later step by its nature undoes.
PostsHoldTogether ==
    outcome = "ok" =>
       \A p \in StepsOf(struct) :
          \/ Post(p)
          \/ \E q \in StepsOf(struct) : Precedes(p, q) /\ Undoes(q, p)

\* Over the whole instruction nobody loses lamports without having signed,
\* except an account of the program that one of the fields closes.
OnlyConsentingPay ==
    outcome = "ok" =>
       \A k \in Keys : mem[k].lamports < before[k].lamports =>
          \/ k \in priv.signers
          \/ /\ before[k].owner = "program"
             /\ \E p \in StepsOf(struct) : p[2] = "close" /\ Target(p) = k

\* The sums of the runtime fail for two reasons only: an account closed into
\* itself, or a close ahead of a call that sees one of its accounts and not
\* the other.  A struct whose closes come last, into other accounts, is never
\* refused for its sums.
OnlyStraddlingUnbalances ==
    outcome = "unbalanced" =>
       \E p \in StepsOf(struct) :
          /\ p[2] = "close"
          /\ \/ Target(p) = Partner(p)
             \/ \E q \in StepsOf(struct) :
                   /\ Precedes(p, q) /\ q[2] # "close"
                   /\ Cardinality(Pair(p) \intersect Pair(q)) = 1

\* Each step is the Lean transformer of its own constraint, if no account is
\* passed twice: the view kept between calls is never a stale one.
Contract == INSTANCE LifecycleContract
              WITH chain <- before, work <- mem, open <- (outcome = "running"),
                   SpaceOf <- {InitLen, CounterLen}

Distinct == \A i, j \in DOMAIN keys : i # j => keys[i] # keys[j]

Applied(p) ==
    /\ p[2] = "init"    => Contract!ApplyInit(Target(p), Partner(p))
    /\ p[2] = "close"   => Contract!ApplyClose(Target(p), Partner(p))
    /\ p[2] = "realloc" => Contract!ApplyRealloc(Target(p), Partner(p))
    /\ p[2] = "iin"     => \/ Contract!ApplyInit(Target(p), Partner(p))
                           \/ mem' = mem

StepsAreLean ==
    [][Distinct => \A p \in todo \ todo' : Due(p) /\ Applied(p)]_vars
=============================================================================
