-------------------------- MODULE MCOnChainProgram --------------------------
(* Small instances of OnChainProgram: the derived address, a funded wallet *)
(* and a second key.  The amounts are the smallest that order the fixed    *)
(* fundings and the rent-exempt minimums so that every top-up can happen:  *)
(* what init or init_if_needed paid does not cover a grown account.        *)
EXTENDS OnChainProgram

CONSTANTS pda, alice, bob

MCKeys    == {pda, alice, bob}
MCLens    == {0, 8, 16, 32, 80}
MCRent    == [len \in MCLens |-> IF len <= 8 THEN 1
                                ELSE IF len = 80 THEN 3 ELSE 2]
MCWallets == [k \in MCKeys |-> IF k = alice THEN 3 ELSE 0]

Message(signers, writable) == [signers |-> signers, writable |-> writable]

\* Both keys sign and everything is writable; only the wallet signs, the
\* derived address is read-only; nobody signs.
MCMessages == { Message({alice, bob}, MCKeys),
                Message({alice}, {alice, bob}),
                Message({}, MCKeys) }
=============================================================================
