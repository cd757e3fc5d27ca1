------------------------------ MODULE ProofGate ------------------------------
(***************************************************************************)
(* `cargo verified-anchor check`: the command that makes a derive's proof  *)
(* obligation part of the build.  A run empties the specification          *)
(* directory, has `cargo test` write one file per derived struct into it,  *)
(* reads the files back, writes check.lean, finds the Lean library (a      *)
(* directory of the user's, or a pinned clone in the user's cache), builds *)
(* it and has Lean check the obligations.                                  *)
(*                                                                         *)
(* Runs share two things on disk: target/verified-anchor/specs of the      *)
(* workspace, whatever the package, and the cache.  A run may be killed    *)
(* between any two steps; it leaves both as they are.                      *)
(***************************************************************************)
EXTENDS Naturals, FiniteSets

CONSTANTS
    Runs,        \* invocations of the command, each made once
    Crates,      \* the packages of the workspace
    Structs,     \* the derived structs: records, see below
    Programs,    \* [Crates -> SUBSET SUBSET Structs], what a package may derive
    CrateOf,     \* [Runs -> Crates], the `-p` option
    Route,       \* [Runs -> {"local", "cache"}], where the library is found
    Deny,        \* [Runs -> BOOLEAN], the `--deny-unproven` option
    Limit,       \* how many runs may be under way at once
    MaxKills     \* how many runs are killed

\* A struct has a name and a kind, which make the name of its file; its
\* obligation holds or not, and it may have checks outside the proof.
Names == {s.name : s \in Structs}

\* What a run may report: the structs, found with or without unproven checks.
Reports == [id: {s.id : s \in Structs}, name: Names,
            kind: {"validation", "lifecycle"}, holds: BOOLEAN, unproven: BOOLEAN]

ASSUME GateAssumption ==
    /\ IsFiniteSet(Runs)
    /\ Structs \subseteq Reports
    /\ Programs \in [Crates -> SUBSET SUBSET Structs]
    /\ CrateOf \in [Runs -> Crates]
    /\ Route \in [Runs -> {"local", "cache"}]
    /\ Deny \in [Runs -> BOOLEAN]
    /\ Limit \in Nat /\ MaxKills \in Nat

VARIABLES
    source,      \* [Crates -> SUBSET Structs], what each package derives now
    specs,       \* the specification directory
    tag,         \* "pinned" or "moved": what the version tag names
    cache,       \* the clone in the cache
    pc,          \* [Runs -> step the run makes next]
    outcome,     \* [Runs -> how the run ended]
    registered,  \* [Runs -> the structs compiled into the test it ran]
    todo,        \* [Runs -> the structs left to write or the files left to read]
    got,         \* [Runs -> the structs collected]
    kills

disk == <<source, specs, tag, cache>>
vars == <<source, specs, tag, cache, pc, outcome, registered, todo, got, kills>>

\* The directory after remove_dir_all, with no check.lean either.
NoSpecs == [exists |-> FALSE, files |-> {}, unproven |-> {},
            written |-> FALSE, check |-> {}]

\* A checkout has three parts, written in this order: the Lean sources,
\* lakefile.toml and lean-toolchain.
Lakefile == 2
Complete == 3
NoClone  == [head |-> "none", parts |-> 0]

Key(s) == <<s.name, s.kind>>

Steps == {"idle", "clear", "mkdir", "test", "emit", "list", "read", "write",
          "locate", "wipe", "clone", "checkout", "verify", "build", "check",
          "done"}

Underway(r) == pc[r] \notin {"idle", "done"}

Goto(r, step) == pc' = [pc EXCEPT ![r] = step] /\ UNCHANGED outcome

End(r, how) ==
    /\ pc' = [pc EXCEPT ![r] = "done"]
    /\ outcome' = [outcome EXCEPT ![r] = how]

Local == <<registered, todo, got, kills>>

-----------------------------------------------------------------------------
(***************************************************************************)
(* run and collect.                                                        *)
(***************************************************************************)
Start(r) ==
    /\ pc[r] = "idle"
    /\ Cardinality({q \in Runs : Underway(q)}) < Limit
    /\ Goto(r, "clear")
    /\ UNCHANGED <<disk, Local>>

\* A removal that leaves the files where they are.
ClearSpecsKeeping(r) ==
    /\ pc[r] = "clear"
    /\ specs' = [specs EXCEPT !.exists = FALSE]
    /\ Goto(r, "mkdir")
    /\ UNCHANGED <<source, tag, cache, Local>>

\* The result of remove_dir_all is ignored; it succeeds here.
ClearSpecs(r) ==
    /\ pc[r] = "clear"
    /\ specs' = NoSpecs
    /\ Goto(r, "mkdir")
    /\ UNCHANGED <<source, tag, cache, Local>>

MakeSpecs(r) ==
    /\ pc[r] = "mkdir"
    /\ specs' = [specs EXCEPT !.exists = TRUE]
    /\ Goto(r, "test")
    /\ UNCHANGED <<source, tag, cache, Local>>

\* cargo test compiles the package and starts the emitter, which makes the
\* directory again if it has to; or the package does not compile.
CargoTest(r) ==
    /\ pc[r] = "test"
    /\ \/ /\ registered' = [registered EXCEPT ![r] = source[CrateOf[r]]]
          /\ todo' = [todo EXCEPT ![r] = source[CrateOf[r]]]
          /\ specs' = [specs EXCEPT !.exists = TRUE]
          /\ Goto(r, "emit")
       \/ /\ End(r, "failed")
          /\ UNCHANGED <<registered, todo, specs>>
    /\ UNCHANGED <<source, tag, cache, got, kills>>

\* write_spec_files, one struct; it panics if the directory is gone.
Emit(r, s) ==
    /\ pc[r] = "emit" /\ s \in todo[r]
    /\ IF specs.exists
       THEN /\ specs' = [specs EXCEPT
                 !.files = {f \in @ : Key(f) # Key(s)} \union {s},
                 !.unproven = IF s.unproven THEN @ \union {s.name} ELSE @]
            /\ todo' = [todo EXCEPT ![r] = @ \ {s}]
            /\ UNCHANGED <<pc, outcome>>
       ELSE End(r, "failed") /\ UNCHANGED <<specs, todo>>
    /\ UNCHANGED <<source, tag, cache, registered, got, kills>>

EmitEnd(r) ==
    /\ pc[r] = "emit" /\ todo[r] = {}
    /\ Goto(r, "list")
    /\ UNCHANGED <<disk, Local>>

ListSpecs(r) ==
    /\ pc[r] = "list"
    /\ IF specs.exists
       THEN todo' = [todo EXCEPT ![r] = specs.files] /\ Goto(r, "read")
       ELSE End(r, "failed") /\ UNCHANGED todo
    /\ UNCHANGED <<disk, registered, got, kills>>

\* Read a listed file, whatever it holds by now, and look for its
\* .unproven sibling.
Read(r, s) ==
    /\ pc[r] = "read" /\ s \in todo[r]
    /\ LET now == {f \in specs.files : Key(f) = Key(s)}
       IN  IF now = {}
           THEN End(r, "failed") /\ UNCHANGED <<todo, got>>
           ELSE /\ todo' = [todo EXCEPT ![r] = @ \ {s}]
                /\ \E f \in now :
                     got' = [got EXCEPT ![r] = @ \union
                              {[f EXCEPT !.unproven = s.name \in specs.unproven]}]
                /\ UNCHANGED <<pc, outcome>>
    /\ UNCHANGED <<disk, registered, kills>>

\* An empty collection is an error: emit_specs!() is missing.
ReadEnd(r) ==
    /\ pc[r] = "read" /\ todo[r] = {}
    /\ IF got[r] = {} THEN End(r, "failed") ELSE Goto(r, "write")
    /\ UNCHANGED <<disk, Local>>

\* generate_check_lean and the write of check.lean.
WriteCheck(r) ==
    /\ pc[r] = "write"
    /\ IF specs.exists
       THEN /\ specs' = [specs EXCEPT !.written = TRUE, !.check = got[r]]
            /\ Goto(r, "locate")
       ELSE End(r, "failed") /\ UNCHANGED specs
    /\ UNCHANGED <<source, tag, cache, Local>>

-----------------------------------------------------------------------------
(***************************************************************************)
(* locate_lean_dir and fetch_pinned_lean.                                  *)
(***************************************************************************)

\* A cache that is never hit.
LocateAnew(r) ==
    /\ pc[r] = "locate"
    /\ Goto(r, IF Route[r] = "local" THEN "build" ELSE "wipe")
    /\ UNCHANGED <<disk, Local>>

\* A cache hit is a lakefile.toml in the clone.
Locate(r) ==
    /\ pc[r] = "locate"
    /\ Goto(r, IF Route[r] = "local" THEN "build"
               ELSE IF cache.parts >= Lakefile THEN "verify" ELSE "wipe")
    /\ UNCHANGED <<disk, Local>>

Wipe(r) ==
    /\ pc[r] = "wipe"
    /\ cache' = NoClone
    /\ Goto(r, "clone")
    /\ UNCHANGED <<source, specs, tag, Local>>

\* git clone refuses a directory another run has filled meanwhile, and may
\* fail for want of a network.
Clone(r) ==
    /\ pc[r] = "clone"
    /\ \/ /\ cache = NoClone
          /\ cache' = [head |-> tag, parts |-> 0]
          /\ Goto(r, "checkout")
       \/ End(r, "failed") /\ UNCHANGED cache
    /\ UNCHANGED <<source, specs, tag, Local>>

\* The clone writes the next part of the working tree; it fails when another
\* run has removed the directory under it.
Checkout(r) ==
    /\ pc[r] = "checkout"
    /\ CASE cache.head = "none" -> End(r, "failed") /\ UNCHANGED cache
         [] cache.head # "none" /\ cache.parts < Complete ->
              /\ cache' = [cache EXCEPT !.parts = @ + 1]
              /\ UNCHANGED <<pc, outcome>>
         [] OTHER -> Goto(r, "verify") /\ UNCHANGED cache
    /\ UNCHANGED <<source, specs, tag, Local>>

\* A verification that starts over instead of failing.
VerifyOrRefetch(r) ==
    /\ pc[r] = "verify"
    /\ Goto(r, IF cache.head = "pinned" THEN "build" ELSE "wipe")
    /\ UNCHANGED <<disk, Local>>

\* A verification that takes the lakefile for the library.
VerifyByName(r) ==
    /\ pc[r] = "verify"
    /\ IF cache.parts >= Lakefile THEN Goto(r, "build") ELSE End(r, "failed")
    /\ UNCHANGED <<disk, Local>>

\* verify_lean_tree: the tree of the checked-out commit is the pinned one.
\* After a clone the lakefile is looked for once more.
Verify(r) ==
    /\ pc[r] = "verify"
    /\ IF cache.head = "pinned" /\ cache.parts >= Lakefile
       THEN Goto(r, "build") ELSE End(r, "failed")
    /\ UNCHANGED <<disk, Local>>

-----------------------------------------------------------------------------
(***************************************************************************)
(* discharge and the exit code.                                            *)
(***************************************************************************)

\* Any build may fail; one without the sources or the lakefile must.
Build(r) ==
    /\ pc[r] = "build"
    /\ \/ /\ Route[r] = "local" \/ cache.parts >= Lakefile
          /\ Goto(r, "check")
       \/ End(r, "failed")
    /\ UNCHANGED <<disk, Local>>

ShouldFail(r) == Deny[r] /\ \E s \in got[r] : s.unproven

\* Another library than the pinned one may accept or refuse anything.
Accepts(r) ==
    IF Route[r] = "cache" /\ cache.head # "pinned" THEN BOOLEAN
    ELSE {\A s \in specs.check : s.holds}

\* A run whose exit code does not depend on --deny-unproven.
CheckLenient(r) ==
    /\ pc[r] = "check"
    /\ \E accepted \in Accepts(r) :
         End(r, IF specs.written /\ accepted THEN "ok" ELSE "failed")
    /\ UNCHANGED <<disk, Local>>

\* `lake env lean check.lean`, the report and the exit code.
Check(r) ==
    /\ pc[r] = "check"
    /\ \E accepted \in Accepts(r) :
         End(r, IF ~(specs.written /\ accepted) THEN "failed"
                ELSE IF ShouldFail(r) THEN "denied" ELSE "ok")
    /\ UNCHANGED <<disk, Local>>

-----------------------------------------------------------------------------
(***************************************************************************)
(* The rest of the world.                                                  *)
(***************************************************************************)
Kill(r) ==
    /\ Underway(r) /\ kills < MaxKills
    /\ End(r, "killed")
    /\ kills' = kills + 1
    /\ UNCHANGED <<disk, registered, todo, got>>

Edit(c) ==
    /\ \E structs \in Programs[c] : source' = [source EXCEPT ![c] = structs]
    /\ UNCHANGED <<specs, tag, cache, pc, outcome, Local>>

\* Tags are mutable: somebody moves the version tag, or moves it back.
MoveTag ==
    /\ tag' \in {"pinned", "moved"}
    /\ UNCHANGED <<source, specs, cache, pc, outcome, Local>>

-----------------------------------------------------------------------------
Init ==
    /\ source \in {f \in [Crates -> SUBSET Structs] :
                     \A c \in Crates : f[c] \in Programs[c]}
    /\ specs = NoSpecs
    /\ tag = "pinned"
    /\ cache = NoClone
    /\ pc = [r \in Runs |-> "idle"]
    /\ outcome = [r \in Runs |-> "none"]
    /\ registered = [r \in Runs |-> {}]
    /\ todo = [r \in Runs |-> {}]
    /\ got = [r \in Runs |-> {}]
    /\ kills = 0

Step(r) ==
    \/ ClearSpecs(r) \/ MakeSpecs(r) \/ CargoTest(r)
    \/ \E s \in Structs : Emit(r, s) \/ Read(r, s)
    \/ EmitEnd(r) \/ ListSpecs(r) \/ ReadEnd(r) \/ WriteCheck(r)
    \/ Locate(r) \/ Wipe(r) \/ Clone(r) \/ Checkout(r) \/ Verify(r)
    \/ Build(r) \/ Check(r)

Next ==
    \/ \E r \in Runs : Start(r) \/ Step(r) \/ Kill(r)
    \/ \E c \in Crates : Edit(c)
    \/ MoveTag

Spec == Init /\ [][Next]_vars

\* The operating system schedules a run that was started, and its children
\* terminate.
FairSpec == Spec /\ \A r \in Runs : WF_vars(Step(r))

-----------------------------------------------------------------------------
(***************************************************************************)
(* Properties.                                                             *)
(***************************************************************************)

\* Types; a directory that is gone holds nothing, nor does an absent clone.
TypeOK ==
    /\ source \in [Crates -> SUBSET Structs]
    /\ specs \in [exists: BOOLEAN, files: SUBSET Structs, unproven: SUBSET Names,
                  written: BOOLEAN, check: SUBSET Reports]
    /\ ~specs.exists => specs = NoSpecs
    /\ tag \in {"pinned", "moved"}
    /\ cache \in [head: {"none", "pinned", "moved"}, parts: 0..Complete]
    /\ cache.head = "none" => cache = NoClone
    /\ pc \in [Runs -> Steps]
    /\ outcome \in [Runs -> {"none", "ok", "denied", "failed", "killed"}]
    /\ registered \in [Runs -> SUBSET Structs]
    /\ todo \in [Runs -> SUBSET Structs]
    /\ got \in [Runs -> SUBSET Reports]
    /\ kills \in 0..MaxKills

\* Exit code 0 means that every struct the package derived when it was
\* compiled has its obligation proved, and with --deny-unproven that none
\* has a check outside the proof: whatever earlier runs left on disk.
GreenMeansProven ==
    \A r \in Runs : outcome[r] = "ok" =>
        \A s \in registered[r] : s.holds /\ (Deny[r] => ~s.unproven)

\* A report lists the structs of the package that was compiled, with their
\* unproven checks, and no other: nothing of a killed run, of another
\* package or of an earlier version of the code.
ReportExact ==
    \A r \in Runs : outcome[r] \in {"ok", "denied"} => got[r] = registered[r]

\* Obligations found through the cache are only checked against the library
\* the command was built for, also after the tag moved.
OnlyPinnedLibrary ==
    \A r \in Runs : pc[r] \in {"build", "check"} /\ Route[r] = "cache"
                       => cache.head = "pinned"

\* fetch_pinned_lean: "a populated cache is reused, so the network/git cost
\* is paid only once per version": a complete clone of the pinned tree is
\* never removed or cloned again.
PopulatedCacheIsReused ==
    [][cache = [head |-> "pinned", parts |-> Complete] => cache' = cache]_cache

\* Every run that was started ends: no error path loops or waits.
RunsEnd == \A r \in Runs : pc[r] = "clear" ~> pc[r] = "done"

-----------------------------------------------------------------------------
(***************************************************************************)
(* Statements of the source's comments that the code does not keep.        *)
(***************************************************************************)

\* render_report: "Every obligation in `specs` discharged".
ReportedIsProven ==
    \A r \in Runs : outcome[r] = "ok" => \A s \in got[r] : s.holds

\* fetch_pinned_lean: "clear any partial/failed clone": no run builds a
\* partial one.
PartialIsCleared ==
    \A r \in Runs : pc[r] = "build" /\ Route[r] = "cache"
                       => cache.parts = Complete
=============================================================================
