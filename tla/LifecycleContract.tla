-------------------------- MODULE LifecycleContract --------------------------
(***************************************************************************)
(* What the Lean library promises of the lifecycle constraints, as an      *)
(* abstract specification: the state transformers applyInit, applyClose,   *)
(* applyRealloc and applyInitIfNeeded, and the transactions they run in.   *)
(* There are no messages, privileges, outcomes or fundings here; the       *)
(* System Program is reduced to the effect the transformers describe.      *)
(*                                                                         *)
(* Where the Lean transformer fixes more than its post-condition (close    *)
(* cuts the data to its marker), the effect is the post-condition's.       *)
(***************************************************************************)
EXTENDS SolanaLedger

CONSTANTS
    SpaceOf      \* the data lengths init and init_if_needed may create

VARIABLES chain, work, open

vars == <<chain, work, open>>

Marked(acct) == acct.len >= 8 => acct.disc = "closed"

\* applyInit: an empty target and a different payer; the target becomes the
\* program's with fresh data and what the payer gave.
ApplyInit(k, payer) ==
    LET made == work'[k]
        rent == made.lamports - work[k].lamports
    IN  /\ k # payer
        /\ work[k].len = 0
        /\ made.len \in SpaceOf /\ made.disc \in {"zero", "counter"}
        /\ rent \in 0..work[payer].lamports
        /\ work' = [work EXCEPT ![k] = [made EXCEPT !.owner = "program"],
                                ![payer].lamports = @ - rent]

\* applyClose: everything the target held goes to a different account.
ApplyClose(k, dest) ==
    /\ k # dest
    /\ Marked(work'[k])
    /\ work' = [work EXCEPT
                  ![dest].lamports = @ + work[k].lamports,
                  ![k] = [@ EXCEPT !.lamports = 0, !.len = work'[k].len,
                                   !.disc = work'[k].disc]]

\* applyRealloc: max(lamports, minimum), the difference paid by another
\* account; the target is never debited.
ApplyRealloc(k, payer) ==
    LET newlen == work'[k].len
        min    == MinimumBalance[newlen]
        delta  == IF work[k].lamports < min THEN min - work[k].lamports ELSE 0
    IN  /\ k # payer
        /\ delta <= work[payer].lamports
        /\ work' = [work EXCEPT
                      ![k].lamports = @ + delta,
                      ![k].len = newlen,
                      ![k].disc = IF newlen = 0 THEN "zero" ELSE @,
                      ![payer].lamports = @ - delta]

\* The second branch of applyInitIfNeeded changes nothing.
Lifecycle ==
    /\ open /\ open'
    /\ UNCHANGED chain
    /\ \E k, other \in Keys : \/ ApplyInit(k, other)
                              \/ ApplyClose(k, other)
                              \/ ApplyRealloc(k, other)

\* Other programs: they neither debit nor write to what the program owns,
\* and what they hand to it is empty of any discriminator.
Outside ==
    /\ open /\ open'
    /\ UNCHANGED chain
    /\ work' \in [Keys -> Account]
    /\ Balanced(work, work')
    /\ \A k \in Keys :
         /\ work[k].owner = "program" =>
               /\ work'[k].lamports >= work[k].lamports
               /\ [work'[k] EXCEPT !.lamports = 0]
                    = [work[k] EXCEPT !.lamports = 0]
         /\ work'[k].owner = "program" /\ work[k].owner # "program"
               => work'[k].disc = "zero"

Start    == ~open /\ open' /\ UNCHANGED <<chain, work>>
Commit   == open /\ ~open' /\ chain' = Reap(work) /\ work' = chain'
Rollback == open /\ ~open' /\ UNCHANGED chain /\ work' = chain

Init ==
    /\ chain \in Ledger
    /\ \A k \in Keys : chain[k].owner # "program"
    /\ work = chain
    /\ open = FALSE

Next == Start \/ Commit \/ Rollback \/ Outside \/ Lifecycle

Spec == Init /\ [][Next]_vars
=============================================================================
