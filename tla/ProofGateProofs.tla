--------------------------- MODULE ProofGateProofs ---------------------------
(***************************************************************************)
(* Theorems of ProofGate, for any runs, packages, structs and kills.  With *)
(* one run at a time, a green run means that everything was proved, by the *)
(* pinned library, whatever killed runs and edits have left on disk.       *)
(***************************************************************************)
EXTENDS ProofGate, FiniteSetTheorems, TLAPS

\* What the theorems assume of the use of the command: runs are not made at
\* the same time, and the structs of one package do not write one file.
OneAtATime == Limit = 1

FilesDistinct ==
    \A c \in Crates : \A P \in Programs[c] : \A s, t \in P :
        s.name = t.name => /\ s.unproven = t.unproven
                           /\ s.kind = t.kind => s = t

-----------------------------------------------------------------------------
(***************************************************************************)
(* The inductive invariant: what is on disk and in a run's hands at each   *)
(* of its steps.                                                           *)
(***************************************************************************)
Listing    == {"list", "read"}
Collected  == {"write", "locate", "wipe", "clone", "checkout", "verify",
               "build", "check"}
Uncollected == {"idle", "clear", "mkdir", "test", "emit", "list"}

\* The directory holds the files of P and no others.
Holds(P) ==
    /\ specs.files = P
    /\ specs.unproven = {s.name : s \in {t \in P : t.unproven}}

\* The specification directory, from its removal to check.lean.
Directory(r) ==
    /\ pc[r] \in Uncollected => got[r] = {}
    /\ pc[r] \in {"emit", "list", "read"} => registered[r] \in Programs[CrateOf[r]]
    /\ pc[r] \in {"emit", "read"} => todo[r] \subseteq registered[r]
    /\ pc[r] \in {"mkdir", "test"} => Holds({})
    /\ pc[r] = "emit" => Holds(registered[r] \ todo[r])
    /\ pc[r] \in Listing => Holds(registered[r])
    /\ pc[r] = "read" => got[r] = registered[r] \ todo[r]
    /\ pc[r] \in Collected => got[r] = registered[r]
    /\ pc[r] \in Collected \ {"write"} => specs.check = got[r]

\* The clone: only one that is no cache hit is removed, and only one of the
\* pinned commit is built.
Library(r) ==
    /\ pc[r] = "wipe" => cache.parts < Lakefile
    /\ pc[r] \in {"build", "check"} /\ Route[r] = "cache" => cache.head = "pinned"

\* A run that has not ended has no outcome; one that has reports what it
\* compiled, and is green if all of that is proved.
Result(r) ==
    /\ pc[r] # "done" => outcome[r] = "none"
    /\ outcome[r] \in {"ok", "denied"} => got[r] = registered[r]
    /\ outcome[r] = "ok" => \A s \in registered[r] : s.holds /\ (Deny[r] => ~s.unproven)

IInv ==
    /\ TypeOK
    /\ \A c \in Crates : source[c] \in Programs[c]
    /\ \A q, r \in Runs : Underway(q) /\ Underway(r) => q = r
    /\ \A r \in Runs : Directory(r) /\ Library(r) /\ Result(r)

-----------------------------------------------------------------------------
(* Types. *)

LEMMA InitTypeOK == Init => TypeOK
  BY GateAssumption DEF Init, TypeOK, NoSpecs, NoClone, Steps, Complete

\* A struct found with or without unproven checks can be reported.
LEMMA FoundIsReport ==
    ASSUME NEW f \in Structs, NEW b \in BOOLEAN
    PROVE  [f EXCEPT !.unproven = b] \in Reports
<1>1. f \in Reports
  BY GateAssumption
<1> QED BY <1>1 DEF Reports

\* Each step of a run keeps the types.
LEMMA StepTypeOK ==
    ASSUME TypeOK, NEW r \in Runs, Step(r)
    PROVE  TypeOK'
<1> USE GateAssumption DEF TypeOK, disk, Local, Goto, End, Steps
<1>1. CASE ClearSpecs(r)
  BY <1>1 DEF ClearSpecs, NoSpecs
<1>2. CASE MakeSpecs(r)
  BY <1>2 DEF MakeSpecs
<1>3. CASE CargoTest(r)
  <2>1. CrateOf[r] \in Crates /\ source[CrateOf[r]] \in SUBSET Structs
    OBVIOUS
  <2>2. registered' \in [Runs -> SUBSET Structs] /\ todo' \in [Runs -> SUBSET Structs]
    BY <1>3, <2>1 DEF CargoTest
  <2>3. specs' = [specs EXCEPT !.exists = TRUE] \/ specs' = specs
    BY <1>3 DEF CargoTest
  <2>4. specs' \in [exists: BOOLEAN, files: SUBSET Structs, unproven: SUBSET Names,
                    written: BOOLEAN, check: SUBSET Reports]
        /\ (~specs'.exists => specs' = NoSpecs)
    BY <2>3
  <2> QED BY <1>3, <2>2, <2>4 DEF CargoTest
<1>4. ASSUME NEW s \in Structs, Emit(r, s) PROVE TypeOK'
  <2>1. s.name \in Names /\ {f \in specs.files : Key(f) # Key(s)} \union {s} \subseteq Structs
    BY DEF Names
  <2>2. CASE specs.exists
    <3>1. specs' = [specs EXCEPT
                 !.files = {f \in @ : Key(f) # Key(s)} \union {s},
                 !.unproven = IF s.unproven THEN @ \union {s.name} ELSE @]
      BY <1>4, <2>2 DEF Emit
    <3>2. specs' \in [exists: BOOLEAN, files: SUBSET Structs, unproven: SUBSET Names,
                      written: BOOLEAN, check: SUBSET Reports] /\ specs'.exists
      BY <2>1, <2>2, <3>1
    <3>3. todo' \in [Runs -> SUBSET Structs]
      BY <1>4, <2>2 DEF Emit
    <3> QED BY <1>4, <2>2, <3>2, <3>3 DEF Emit
  <2>3. CASE ~specs.exists
    BY <1>4, <2>3 DEF Emit
  <2> QED BY <2>2, <2>3
<1>5. ASSUME NEW s \in Structs, Read(r, s) PROVE TypeOK'
  <2> DEFINE now == {f \in specs.files : Key(f) = Key(s)}
  <2>1. CASE now = {}
    BY <1>5, <2>1 DEF Read
  <2>2. CASE now # {}
    <3>1. PICK f \in now : got' = [got EXCEPT ![r] = @ \union
                              {[f EXCEPT !.unproven = s.name \in specs.unproven]}]
      BY <1>5, <2>2 DEF Read
    <3>2. [f EXCEPT !.unproven = s.name \in specs.unproven] \in Reports
      <4>1. f \in Structs /\ (s.name \in specs.unproven) \in BOOLEAN
        OBVIOUS
      <4> HIDE DEF TypeOK
      <4> DEFINE marked == s.name \in specs.unproven
      <4>2. marked \in BOOLEAN
        BY <4>1
      <4> HIDE DEF marked
      <4>3. [f EXCEPT !.unproven = marked] \in Reports
        BY <4>1, <4>2, FoundIsReport
      <4> QED BY <4>3 DEF marked
    <3>3. got' \in [Runs -> SUBSET Reports]
      BY <3>1, <3>2
    <3> QED BY <1>5, <2>2, <3>3 DEF Read
  <2> QED BY <2>1, <2>2
<1>6. CASE EmitEnd(r) \/ ReadEnd(r)
  BY <1>6 DEF EmitEnd, ReadEnd
<1>7. CASE ListSpecs(r)
  BY <1>7 DEF ListSpecs
<1>8. CASE WriteCheck(r)
  <2>1. CASE specs.exists
    <3>1. specs' = [specs EXCEPT !.written = TRUE, !.check = got[r]]
      BY <1>8, <2>1 DEF WriteCheck
    <3>2. specs' \in [exists: BOOLEAN, files: SUBSET Structs, unproven: SUBSET Names,
                      written: BOOLEAN, check: SUBSET Reports] /\ specs'.exists
      BY <2>1, <3>1
    <3> QED BY <1>8, <2>1, <3>2 DEF WriteCheck
  <2> QED BY <1>8, <2>1 DEF WriteCheck
<1>9. CASE Locate(r)
  BY <1>9 DEF Locate
<1>10. CASE Wipe(r)
  BY <1>10 DEF Wipe, NoClone, Complete
<1>11. CASE Clone(r)
  BY <1>11 DEF Clone, NoClone, Complete
<1>12. CASE Checkout(r)
  BY <1>12 DEF Checkout, NoClone, Complete
<1>13. CASE Verify(r)
  BY <1>13 DEF Verify
<1>14. CASE Build(r)
  BY <1>14 DEF Build
<1>15. CASE Check(r)
  BY <1>15 DEF Check
<1> QED BY <1>1, <1>2, <1>3, <1>4, <1>5, <1>6, <1>7, <1>8, <1>9, <1>10, <1>11,
           <1>12, <1>13, <1>14, <1>15 DEF Step

LEMMA NextTypeOK == TypeOK /\ [Next]_vars => TypeOK'
<1> SUFFICES ASSUME TypeOK, [Next]_vars PROVE TypeOK'
  OBVIOUS
<1> USE GateAssumption
<1>1. ASSUME NEW r \in Runs, Start(r) PROVE TypeOK'
  BY <1>1 DEF Start, TypeOK, disk, Local, Goto, Steps
<1>2. ASSUME NEW r \in Runs, Step(r) PROVE TypeOK'
  BY <1>2, StepTypeOK
<1>3. ASSUME NEW r \in Runs, Kill(r) PROVE TypeOK'
  BY <1>3 DEF Kill, TypeOK, disk, End, Steps
<1>4. ASSUME NEW c \in Crates, Edit(c) PROVE TypeOK'
  BY <1>4 DEF Edit, TypeOK, Local
<1>5. CASE MoveTag
  BY <1>5 DEF MoveTag, TypeOK, Local
<1>6. CASE UNCHANGED vars
  BY <1>6 DEF vars, disk, TypeOK
<1> QED BY <1>1, <1>2, <1>3, <1>4, <1>5, <1>6 DEF Next

\* The state of any number of runs is well typed; a directory that is gone
\* holds nothing, nor does an absent clone.
THEOREM TypeOKHolds == Spec => []TypeOK
  BY InitTypeOK, NextTypeOK, PTL DEF Spec

-----------------------------------------------------------------------------
(* One run at a time. *)

\* A step is made by a run that is under way, and touches no other's state.
LEMMA StepFrame ==
    ASSUME TypeOK, NEW r \in Runs, Step(r)
    PROVE  /\ Underway(r) /\ source' = source
           /\ \A q \in Runs \ {r} :
                /\ pc'[q] = pc[q] /\ outcome'[q] = outcome[q]
                /\ registered'[q] = registered[q]
                /\ todo'[q] = todo[q] /\ got'[q] = got[q]
<1> USE DEF TypeOK, disk, Local, Goto, End, Underway
<1>1. CASE ClearSpecs(r) \/ MakeSpecs(r)
  BY <1>1 DEF ClearSpecs, MakeSpecs
<1>2. CASE CargoTest(r)
  BY <1>2 DEF CargoTest
<1>3. ASSUME NEW s \in Structs, Emit(r, s)
      PROVE  /\ Underway(r) /\ source' = source
             /\ \A q \in Runs \ {r} :
                  /\ pc'[q] = pc[q] /\ outcome'[q] = outcome[q]
                  /\ registered'[q] = registered[q]
                  /\ todo'[q] = todo[q] /\ got'[q] = got[q]
  BY <1>3 DEF Emit
<1>4. ASSUME NEW s \in Structs, Read(r, s)
      PROVE  /\ Underway(r) /\ source' = source
             /\ \A q \in Runs \ {r} :
                  /\ pc'[q] = pc[q] /\ outcome'[q] = outcome[q]
                  /\ registered'[q] = registered[q]
                  /\ todo'[q] = todo[q] /\ got'[q] = got[q]
  BY <1>4 DEF Read
<1>5. CASE EmitEnd(r) \/ ListSpecs(r)
  BY <1>5 DEF EmitEnd, ListSpecs
<1>6. CASE ReadEnd(r) \/ WriteCheck(r)
  BY <1>6 DEF ReadEnd, WriteCheck
<1>7. CASE Locate(r) \/ Wipe(r) \/ Clone(r)
  BY <1>7 DEF Locate, Wipe, Clone
<1>8. CASE Checkout(r)
  BY <1>8 DEF Checkout
<1>9. CASE Verify(r) \/ Build(r) \/ Check(r)
  BY <1>9 DEF Verify, Build, Check
<1> QED BY <1>1, <1>2, <1>3, <1>4, <1>5, <1>6, <1>7, <1>8, <1>9 DEF Step

\* What the invariant says of a run that is not under way is about its own
\* state only.
LEMMA RestingKeeps ==
    ASSUME NEW q \in Runs, ~Underway(q), Directory(q), Library(q), Result(q),
           pc'[q] = pc[q], outcome'[q] = outcome[q],
           registered'[q] = registered[q], got'[q] = got[q]
    PROVE  Directory(q)' /\ Library(q)' /\ Result(q)' /\ ~Underway(q)'
  BY DEF Underway, Directory, Library, Result, Uncollected, Listing, Collected

\* Nobody is under way when a run starts.
LEMMA StartsAlone ==
    ASSUME OneAtATime, NEW r \in Runs, Start(r)
    PROVE  \A q \in Runs : ~Underway(q)
<1> DEFINE U == {q \in Runs : Underway(q)}
<1>1. IsFiniteSet(U)
  BY GateAssumption, FS_Subset
<1>2. Cardinality(U) < 1
  BY DEF Start, OneAtATime
<1>3. Cardinality(U) \in Nat
  BY <1>1, FS_CardinalityType
<1>4. Cardinality(U) = 0
  BY <1>2, <1>3
<1>5. U = {}
  BY <1>1, <1>4, FS_EmptySet
<1> QED BY <1>5

\* Writing a struct's file adds it to the directory and leaves the others:
\* no other struct of the package has its file.
LEMMA EmitKeeps ==
    ASSUME IInv, FilesDistinct, NEW r \in Runs, NEW s \in Structs, Emit(r, s)
    PROVE  Directory(r)' /\ Library(r)' /\ Result(r)'
<1> USE DEF IInv, TypeOK
<1>1. CASE ~specs.exists
  BY <1>1 DEF Emit, End, Directory, Library, Result, Uncollected, Listing, Collected
<1>2. CASE specs.exists
  <2> DEFINE done == registered[r] \ todo[r]
  <2>1. /\ pc[r] = "emit" /\ s \in todo[r] /\ s \in registered[r]
        /\ todo[r] \subseteq registered[r] /\ got[r] = {} /\ outcome[r] = "none"
        /\ registered[r] \in Programs[CrateOf[r]] /\ Holds(done)
    BY DEF Emit, Directory, Result, Uncollected
  <2>2. /\ todo' = [todo EXCEPT ![r] = @ \ {s}]
        /\ specs' = [specs EXCEPT
                 !.files = {f \in @ : Key(f) # Key(s)} \union {s},
                 !.unproven = IF s.unproven THEN @ \union {s.name} ELSE @]
        /\ UNCHANGED <<pc, outcome, registered, got>>
    BY <1>2 DEF Emit
  <2>3. registered'[r] \ todo'[r] = done \union {s}
    BY <2>1, <2>2
  <2>4. \A f \in done : Key(f) # Key(s)
    BY <2>1, GateAssumption DEF FilesDistinct, Key
  <2>5. specs'.files = done \union {s}
    <3>1. specs.files = done
      BY <2>1 DEF Holds
    <3>2. specs'.files = {f \in specs.files : Key(f) # Key(s)} \union {s}
      BY <2>2
    <3> HIDE DEF done
    <3> QED BY <2>4, <3>1, <3>2
  <2>6. specs'.unproven = {t.name : t \in {u \in done \union {s} : u.unproven}}
    <3>1. specs.unproven = {t.name : t \in {u \in done : u.unproven}}
      BY <2>1 DEF Holds
    <3>2. specs'.unproven = IF s.unproven THEN specs.unproven \union {s.name}
                            ELSE specs.unproven
      BY <2>2
    <3> HIDE DEF done
    <3> QED BY <3>1, <3>2
  <2>7. Holds(registered[r] \ todo[r])'
    BY <2>3, <2>5, <2>6 DEF Holds
  <2> HIDE DEF IInv, TypeOK
  <2>8. todo'[r] \subseteq registered'[r]
    BY <2>1, <2>2 DEF IInv, TypeOK
  <2> QED BY <2>1, <2>2, <2>7, <2>8
       DEF Directory, Library, Result, Uncollected, Listing, Collected
<1> QED BY <1>1, <1>2

\* Reading a file returns the struct it was written for.
LEMMA ReadKeeps ==
    ASSUME IInv, FilesDistinct, NEW r \in Runs, NEW s \in Structs, Read(r, s)
    PROVE  Directory(r)' /\ Library(r)' /\ Result(r)'
<1> DEFINE now == {f \in specs.files : Key(f) = Key(s)}
           P   == registered[r]
<1>1. /\ pc[r] = "read" /\ s \in todo[r] /\ s \in P /\ todo[r] \subseteq P
      /\ P \in Programs[CrateOf[r]] /\ Holds(P) /\ got[r] = P \ todo[r]
      /\ outcome[r] = "none"
  BY DEF IInv, Read, Directory, Result, Listing
<1>2. now = {s}
  <2>1. specs.files = P
    BY <1>1 DEF Holds
  <2>2. \A f \in P : Key(f) = Key(s) <=> f = s
    BY <1>1, GateAssumption DEF FilesDistinct, Key
  <2> QED BY <1>1, <2>1, <2>2
<1>3. (s.name \in specs.unproven) = s.unproven
  <2>1. s.unproven \in BOOLEAN
    BY GateAssumption DEF Reports
  <2>2. s.name \in specs.unproven <=> \E u \in P : u.unproven /\ u.name = s.name
    BY <1>1 DEF Holds
  <2>3. \A u \in P : u.name = s.name => u.unproven = s.unproven
    BY <1>1, GateAssumption DEF FilesDistinct
  <2> QED BY <1>1, <2>1, <2>2, <2>3
<1>4. [s EXCEPT !.unproven = s.name \in specs.unproven] = s
  <2>1. s \in Reports
    BY GateAssumption
  <2>2. [s EXCEPT !.unproven = s.unproven] = s
    BY <2>1 DEF Reports
  <2> QED BY <1>3, <2>2
<1>5. /\ todo' = [todo EXCEPT ![r] = @ \ {s}]
      /\ got' = [got EXCEPT ![r] = @ \union {s}]
      /\ UNCHANGED <<pc, outcome, registered, specs, cache>>
  <2>1. now # {}
    BY <1>2
  <2>2. /\ todo' = [todo EXCEPT ![r] = @ \ {s}]
        /\ \E f \in now : got' = [got EXCEPT ![r] = @ \union
                              {[f EXCEPT !.unproven = s.name \in specs.unproven]}]
        /\ UNCHANGED <<pc, outcome, registered, specs, cache>>
    BY <2>1 DEF Read, disk
  <2>3. got' = [got EXCEPT ![r] = @ \union
                   {[s EXCEPT !.unproven = s.name \in specs.unproven]}]
    BY <1>2, <2>2
  <2> QED BY <1>4, <2>2, <2>3
<1>6. /\ todo'[r] = todo[r] \ {s} /\ todo'[r] \subseteq P
      /\ got'[r] = P \ todo'[r]
  BY <1>1, <1>5 DEF IInv, TypeOK
<1>7. Holds(registered[r])'
  BY <1>1, <1>5 DEF Holds
<1> QED BY <1>1, <1>5, <1>6, <1>7
     DEF Directory, Library, Result, Uncollected, Listing, Collected

\* A run that fails has nothing to show.
LEMMA FailureKeeps ==
    ASSUME TypeOK, NEW r \in Runs, End(r, "failed")
    PROVE  Directory(r)' /\ Library(r)' /\ Result(r)'
<1>1. pc'[r] = "done" /\ outcome'[r] = "failed"
  BY DEF TypeOK, End
<1> QED BY <1>1 DEF Directory, Library, Result, Uncollected, Listing, Collected

\* The other steps up to check.lean.
LEMMA CollectKeeps ==
    ASSUME IInv, NEW r \in Runs,
           \/ ClearSpecs(r) \/ MakeSpecs(r) \/ CargoTest(r) \/ EmitEnd(r)
           \/ ListSpecs(r) \/ ReadEnd(r) \/ WriteCheck(r)
    PROVE  Directory(r)' /\ Library(r)' /\ Result(r)'
<1>1. TypeOK /\ Directory(r) /\ Library(r) /\ Result(r)
  BY DEF IInv
<1> DEFINE Moves(step) == /\ pc'[r] = step /\ outcome'[r] = outcome[r]
                          /\ got'[r] = got[r]
<1> USE DEF Directory, Library, Result, Uncollected, Listing, Collected
<1>2. CASE ClearSpecs(r)
  <2>1. Moves("mkdir") /\ Holds({})' /\ pc[r] = "clear"
    BY <1>1, <1>2 DEF ClearSpecs, Holds, NoSpecs, TypeOK, Goto, Local
  <2> QED BY <1>1, <2>1
<1>3. CASE MakeSpecs(r)
  <2>1. Moves("test") /\ pc[r] = "mkdir"
    BY <1>1, <1>3 DEF MakeSpecs, TypeOK, Goto, Local
  <2>2. Holds({})'
    BY <1>1, <1>3 DEF MakeSpecs, Holds, TypeOK
  <2> QED BY <1>1, <2>1, <2>2
<1>4. CASE CargoTest(r)
  <2>1. CASE End(r, "failed")
    BY <1>1, <2>1, FailureKeeps
  <2>2. CASE /\ registered' = [registered EXCEPT ![r] = source[CrateOf[r]]]
             /\ todo' = [todo EXCEPT ![r] = source[CrateOf[r]]]
             /\ specs' = [specs EXCEPT !.exists = TRUE]
             /\ Goto(r, "emit")
    <3>1. source[CrateOf[r]] \in Programs[CrateOf[r]]
      BY GateAssumption DEF IInv
    <3>2. /\ registered'[r] = source[CrateOf[r]] /\ todo'[r] = source[CrateOf[r]]
          /\ Moves("emit") /\ pc[r] = "test"
      BY <1>1, <1>4, <2>2 DEF CargoTest, TypeOK, Goto
    <3>3. Holds({})'
      BY <1>1, <1>4, <2>2 DEF CargoTest, Holds, TypeOK
    <3>4. Holds(registered[r] \ todo[r])'
      BY <3>2, <3>3 DEF Holds
    <3> QED BY <1>1, <3>1, <3>2, <3>4
  <2> QED BY <1>4, <2>1, <2>2 DEF CargoTest
<1>5. CASE EmitEnd(r)
  <2>1. Moves("list") /\ pc[r] = "emit" /\ registered'[r] = registered[r]
    BY <1>1, <1>5 DEF EmitEnd, TypeOK, Goto, Local
  <2>2. Holds(registered[r])'
    <3>1. registered[r] \ todo[r] = registered[r] /\ specs' = specs
      BY <1>5 DEF EmitEnd, disk
    <3> QED BY <1>1, <2>1, <3>1 DEF Holds
  <2> QED BY <1>1, <2>1, <2>2
<1>6. CASE ListSpecs(r)
  <2>1. CASE ~specs.exists
    BY <1>1, <1>6, <2>1, FailureKeeps DEF ListSpecs
  <2>2. CASE specs.exists
    <3>1. Moves("read") /\ pc[r] = "list" /\ registered'[r] = registered[r]
          /\ todo'[r] = specs.files /\ specs' = specs
      BY <1>1, <1>6, <2>2 DEF ListSpecs, TypeOK, Goto, disk
    <3>2. specs.files = registered[r] /\ got[r] = {}
      BY <1>1, <3>1 DEF Holds
    <3>3. Holds(registered[r])'
      BY <1>1, <3>1 DEF Holds
    <3> QED BY <1>1, <3>1, <3>2, <3>3
  <2> QED BY <2>1, <2>2
<1>7. CASE ReadEnd(r)
  <2>1. CASE got[r] = {}
    BY <1>1, <1>7, <2>1, FailureKeeps DEF ReadEnd
  <2>2. CASE got[r] # {}
    <3>1. Moves("write") /\ pc[r] = "read" /\ registered'[r] = registered[r]
          /\ todo[r] = {}
      BY <1>1, <1>7, <2>2 DEF ReadEnd, TypeOK, Goto, Local
    <3> QED BY <1>1, <3>1
  <2> QED BY <2>1, <2>2
<1>8. CASE WriteCheck(r)
  <2>1. CASE ~specs.exists
    BY <1>1, <1>8, <2>1, FailureKeeps DEF WriteCheck
  <2>2. CASE specs.exists
    <3>1. Moves("locate") /\ pc[r] = "write" /\ registered'[r] = registered[r]
          /\ specs'.check = got[r]
      BY <1>1, <1>8, <2>2 DEF WriteCheck, TypeOK, Goto, Local
    <3> QED BY <1>1, <3>1
  <2> QED BY <2>1, <2>2
<1> QED BY <1>2, <1>3, <1>4, <1>5, <1>6, <1>7, <1>8

\* The steps on the clone.
LEMMA FetchKeeps ==
    ASSUME IInv, NEW r \in Runs,
           Locate(r) \/ Wipe(r) \/ Clone(r) \/ Checkout(r) \/ Verify(r)
    PROVE  Directory(r)' /\ Library(r)' /\ Result(r)'
<1>1. TypeOK /\ Directory(r) /\ Library(r) /\ Result(r)
  BY DEF IInv
<1> DEFINE Moves(step) == /\ pc'[r] = step /\ outcome'[r] = outcome[r]
                          /\ got'[r] = got[r] /\ registered'[r] = registered[r]
                          /\ specs' = specs
<1> USE DEF Directory, Library, Result, Uncollected, Listing, Collected
<1>2. CASE Locate(r)
  <2> DEFINE next == IF Route[r] = "local" THEN "build"
                     ELSE IF cache.parts >= Lakefile THEN "verify" ELSE "wipe"
  <2>1. Moves(next) /\ pc[r] = "locate" /\ cache' = cache
    BY <1>1, <1>2 DEF Locate, TypeOK, Goto, Local, disk
  <2>2. CASE Route[r] = "local"
    BY <1>1, <2>1, <2>2
  <2>3. CASE Route[r] # "local" /\ cache.parts >= Lakefile
    BY <1>1, <2>1, <2>3
  <2>4. CASE Route[r] # "local" /\ ~(cache.parts >= Lakefile)
    <3>1. cache.parts < Lakefile
      BY <1>1, <2>4 DEF TypeOK, Lakefile, Complete
    <3> QED BY <1>1, <2>1, <2>4, <3>1
  <2> QED BY <2>2, <2>3, <2>4
<1>3. CASE Wipe(r)
  <2>1. Moves("clone") /\ pc[r] = "wipe"
    BY <1>1, <1>3 DEF Wipe, TypeOK, Goto, Local
  <2> QED BY <1>1, <2>1
<1>4. CASE Clone(r)
  <2>1. CASE End(r, "failed")
    BY <1>1, <2>1, FailureKeeps
  <2>2. CASE Goto(r, "checkout")
    <3>1. Moves("checkout") /\ pc[r] = "clone"
      BY <1>1, <1>4, <2>2 DEF Clone, TypeOK, Goto, Local
    <3> QED BY <1>1, <3>1
  <2> QED BY <1>4, <2>1, <2>2 DEF Clone
<1>5. CASE Checkout(r)
  <2>1. CASE cache.head = "none"
    BY <1>1, <1>5, <2>1, FailureKeeps DEF Checkout
  <2>2. CASE cache.head # "none" /\ cache.parts < Complete
    <3>1. Moves("checkout") /\ pc[r] = "checkout"
      BY <1>1, <1>5, <2>2 DEF Checkout, Local
    <3> QED BY <1>1, <3>1
  <2>3. CASE cache.head # "none" /\ ~(cache.parts < Complete)
    <3>1. Moves("verify") /\ pc[r] = "checkout"
      BY <1>1, <1>5, <2>3 DEF Checkout, TypeOK, Goto, Local
    <3> QED BY <1>1, <3>1
  <2> QED BY <2>1, <2>2, <2>3
<1>6. CASE Verify(r)
  <2>1. CASE cache.head = "pinned" /\ cache.parts >= Lakefile
    <3>1. Moves("build") /\ pc[r] = "verify" /\ cache' = cache
      BY <1>1, <1>6, <2>1 DEF Verify, TypeOK, Goto, Local, disk
    <3> QED BY <1>1, <2>1, <3>1
  <2>2. CASE ~(cache.head = "pinned" /\ cache.parts >= Lakefile)
    BY <1>1, <1>6, <2>2, FailureKeeps DEF Verify
  <2> QED BY <2>1, <2>2
<1> QED BY <1>2, <1>3, <1>4, <1>5, <1>6

\* The pinned library accepts check.lean only if all of it holds.
LEMMA DischargeKeeps ==
    ASSUME IInv, NEW r \in Runs, Build(r) \/ Check(r)
    PROVE  Directory(r)' /\ Library(r)' /\ Result(r)'
<1>1. TypeOK /\ Directory(r) /\ Library(r) /\ Result(r)
  BY DEF IInv
<1> USE DEF Directory, Library, Result, Uncollected, Listing, Collected
<1>2. CASE Build(r)
  <2>1. CASE End(r, "failed")
    BY <1>1, <2>1, FailureKeeps
  <2>2. CASE Goto(r, "check")
    <3>1. /\ pc'[r] = "check" /\ pc[r] = "build" /\ outcome'[r] = outcome[r]
          /\ got'[r] = got[r] /\ registered'[r] = registered[r]
          /\ specs' = specs /\ cache' = cache
      BY <1>1, <1>2, <2>2 DEF Build, TypeOK, Goto, Local, disk
    <3> QED BY <1>1, <3>1
  <2> QED BY <1>2, <2>1, <2>2 DEF Build
<1>3. CASE Check(r)
  <2>1. specs.check = got[r] /\ got[r] = registered[r]
    BY <1>1, <1>3 DEF Check
  <2>2. Accepts(r) = {\A s \in specs.check : s.holds}
    BY <1>1, <1>3 DEF Check, Accepts
  <2>3. PICK accepted \in Accepts(r) :
           End(r, IF ~(specs.written /\ accepted) THEN "failed"
                  ELSE IF ShouldFail(r) THEN "denied" ELSE "ok")
    BY <1>3 DEF Check
  <2>4. /\ pc'[r] = "done" /\ got'[r] = got[r] /\ registered'[r] = registered[r]
        /\ outcome'[r] = IF ~(specs.written /\ accepted) THEN "failed"
                         ELSE IF ShouldFail(r) THEN "denied" ELSE "ok"
    BY <1>1, <1>3, <2>3 DEF Check, End, TypeOK, Local
  <2>5. accepted => \A s \in registered[r] : s.holds
    BY <2>1, <2>2
  <2>6. outcome'[r] = "ok" => /\ \A s \in registered[r] : s.holds
                             /\ ~ShouldFail(r)
    BY <2>4, <2>5
  <2>7. outcome'[r] = "ok" =>
           \A s \in registered'[r] : s.holds /\ (Deny[r] => ~s.unproven)
    BY <2>1, <2>4, <2>6 DEF ShouldFail
  <2> QED BY <2>1, <2>4, <2>7
<1> QED BY <1>2, <1>3

LEMMA StepIInv ==
    ASSUME IInv, OneAtATime, FilesDistinct, NEW r \in Runs, Step(r)
    PROVE  IInv'
<1>1. TypeOK'
  BY StepTypeOK DEF IInv
<1>2. Directory(r)' /\ Library(r)' /\ Result(r)'
  BY EmitKeeps, ReadKeeps, CollectKeeps, FetchKeeps, DischargeKeeps DEF Step
<1>3. ASSUME NEW q \in Runs \ {r}
      PROVE  Directory(q)' /\ Library(q)' /\ Result(q)' /\ ~Underway(q)'
  BY StepFrame, RestingKeeps DEF IInv
<1>4. source' = source
  BY StepFrame DEF IInv
<1>5. \A q, p \in Runs : (Underway(q) /\ Underway(p))' => q = p
  BY <1>3
<1> QED BY <1>1, <1>2, <1>3, <1>4, <1>5 DEF IInv

LEMMA InitIInv == Init => IInv
  BY InitTypeOK DEF Init, IInv, Underway, Directory, Library, Result,
     Uncollected, Listing, Collected

LEMMA NextIInv ==
    ASSUME IInv, OneAtATime, FilesDistinct, [Next]_vars PROVE IInv'
<1>1. TypeOK'
  BY NextTypeOK DEF IInv
<1>2. ASSUME NEW r \in Runs, Start(r) PROVE IInv'
  <2>1. \A q \in Runs : ~Underway(q)
    BY <1>2, StartsAlone
  <2>2. ASSUME NEW q \in Runs \ {r}
        PROVE  Directory(q)' /\ Library(q)' /\ Result(q)' /\ ~Underway(q)'
    BY <1>2, <2>1, RestingKeeps DEF Start, Goto, Local, IInv, TypeOK
  <2>3. Directory(r)' /\ Library(r)' /\ Result(r)'
    <3>1. TypeOK /\ Directory(r) /\ Result(r)
      BY DEF IInv
    <3>2. /\ pc'[r] = "clear" /\ pc[r] = "idle" /\ outcome'[r] = outcome[r]
          /\ got'[r] = got[r]
      BY <1>2, <3>1 DEF Start, Goto, Local, TypeOK
    <3> QED BY <3>1, <3>2 DEF Directory, Library, Result, Uncollected, Listing, Collected
  <2> QED BY <1>1, <1>2, <2>2, <2>3 DEF Start, disk, IInv
<1>3. ASSUME NEW r \in Runs, Step(r) PROVE IInv'
  BY <1>3, StepIInv
<1>4. ASSUME NEW r \in Runs, Kill(r) PROVE IInv'
  <2>1. ASSUME NEW q \in Runs \ {r}
        PROVE  Directory(q)' /\ Library(q)' /\ Result(q)' /\ ~Underway(q)'
    BY <1>4, RestingKeeps DEF Kill, End, IInv, TypeOK
  <2>2. Directory(r)' /\ Library(r)' /\ Result(r)'
    <3>1. pc'[r] = "done" /\ outcome'[r] = "killed"
      BY <1>4 DEF Kill, End, IInv, TypeOK
    <3> QED BY <3>1 DEF Directory, Library, Result, Uncollected, Listing, Collected
  <2> QED BY <1>1, <1>4, <2>1, <2>2 DEF Kill, disk, IInv
<1>5. ASSUME NEW c \in Crates, Edit(c) PROVE IInv'
  <2>1. \A d \in Crates : source'[d] \in Programs[d]
    BY <1>5 DEF Edit, IInv, TypeOK
  <2> QED BY <1>1, <1>5, <2>1 DEF Edit, Local, IInv, Underway, Directory, Library,
          Result, Holds
<1>6. CASE MoveTag
  BY <1>1, <1>6 DEF MoveTag, Local, IInv, Underway, Directory, Library, Result, Holds
<1>7. CASE UNCHANGED vars
  BY <1>1, <1>7 DEF vars, disk, IInv, Underway, Directory, Library, Result, Holds
<1> QED BY <1>2, <1>3, <1>4, <1>5, <1>6, <1>7 DEF Next

LEMMA IInvHolds == ASSUME OneAtATime, FilesDistinct PROVE Spec => []IInv
  BY InitIInv, NextIInv, PTL DEF Spec

-----------------------------------------------------------------------------
(* Theorems. *)

\* With one run at a time, exit code 0 means that everything the package
\* derived when it was compiled is proved: whatever kills, edits and earlier
\* runs have left in the directory and in the cache.
THEOREM GreenIsProven ==
    ASSUME OneAtATime, FilesDistinct PROVE Spec => []GreenMeansProven
<1>1. IInv => GreenMeansProven
  BY DEF IInv, Result, GreenMeansProven
<1> QED BY <1>1, IInvHolds, PTL

\* With one run at a time, a report names the structs of the package that was
\* compiled, all of them, with their unproven checks.
THEOREM ReportIsExact ==
    ASSUME OneAtATime, FilesDistinct PROVE Spec => []ReportExact
<1>1. IInv => ReportExact
  BY DEF IInv, Result, ReportExact
<1> QED BY <1>1, IInvHolds, PTL

\* With one run at a time, what is built from the cache is the pinned commit,
\* wherever the tag points.
THEOREM PinnedLibraryOnly ==
    ASSUME OneAtATime, FilesDistinct PROVE Spec => []OnlyPinnedLibrary
<1>1. IInv => OnlyPinnedLibrary
  BY DEF IInv, Library, OnlyPinnedLibrary
<1> QED BY <1>1, IInvHolds, PTL

\* With one run at a time, a complete clone of the pinned tree stays.
THEOREM CacheIsReused ==
    ASSUME OneAtATime, FilesDistinct PROVE Spec => PopulatedCacheIsReused
<1> DEFINE Kept == cache = [head |-> "pinned", parts |-> Complete] => cache' = cache
<1>1. IInv /\ [Next]_vars => [Kept]_cache
  <2> SUFFICES ASSUME IInv, [Next]_vars, cache = [head |-> "pinned", parts |-> Complete]
               PROVE  cache' = cache
    OBVIOUS
  <2>1. ASSUME NEW r \in Runs, Step(r) PROVE cache' = cache
    <3>1. ~Wipe(r) /\ (Clone(r) => cache' = cache) /\ (Checkout(r) => cache' = cache)
      BY DEF IInv, Library, Wipe, Clone, Checkout, NoClone, Lakefile, Complete
    <3> QED BY <2>1, <3>1 DEF Step, ClearSpecs, MakeSpecs, CargoTest, Emit, Read,
            EmitEnd, ListSpecs, ReadEnd, WriteCheck, Locate, Verify, Build, Check, disk
  <2> QED BY <2>1 DEF Next, Start, Kill, Edit, MoveTag, vars, disk
<1> QED BY <1>1, IInvHolds, PTL DEF Spec, PopulatedCacheIsReused
=============================================================================
