----------------------------- MODULE MCProofGate -----------------------------
(* Instances of ProofGate: two packages, three runs.  `vault` is derived by *)
(* both packages with different bodies, `open_` has a check outside the     *)
(* proof and `broken` an obligation that does not hold.                     *)
EXTENDS ProofGate

CONSTANTS r1, r2, r3, app, lib

Struct(id, name, kind, holds, unproven) ==
    [id |-> id, name |-> name, kind |-> kind, holds |-> holds,
     unproven |-> unproven]

Vault  == Struct(1, "vault", "validation", TRUE, FALSE)
Open   == Struct(2, "open", "lifecycle", TRUE, TRUE)
Broken == Struct(3, "broken", "validation", FALSE, FALSE)
Other  == Struct(4, "vault", "validation", TRUE, FALSE)

MCStructs == {Vault, Open, Broken, Other}

MCRuns    == {r1, r2, r3}
MCCrates  == {app, lib}
MCCrateOf == [r \in MCRuns |-> IF r = r3 THEN lib ELSE app]
MCDeny    == [r \in MCRuns |-> r = r2]

\* app is edited; lib stays.
MCPrograms == [c \in MCCrates |->
                 IF c = app THEN {{Vault, Open}, {Vault}, {Vault, Broken}}
                 ELSE {{Other}}]
MCRoute    == [r \in MCRuns |-> IF r = r2 THEN "local" ELSE "cache"]

\* Two runs of different packages, with libraries of the user's own.
MCBroken   == [c \in MCCrates |->
                 IF c = app THEN {{Vault, Broken}} ELSE {{Other}}]
MCLocal    == [r \in MCRuns |-> "local"]
MCCached   == [r \in MCRuns |-> "cache"]
=============================================================================
