-------------------------- MODULE SnapshotFiles_proof --------------------------
(***************************************************************************)
(* However many saves and wipes are cut off, wherever they are cut off, an *)
(* interrupted save leaves one of the disks SnapshotPair lists, a start    *)
(* never loads an index older than the last save that returned Ok, and     *)
(* never one from before a completed wipe.                                 *)
(***************************************************************************)
EXTENDS SnapshotFiles, TLAPS

USE FilesAssumption, PairAssumption

\* Whatever a save leaves behind, a start loads what it would have loaded before, the new
\* content, or nothing.
LEMMA SaveLoads ==
    ASSUME NEW l, NEW b, NEW new, Usable(new)
    PROVE  \A s \in BrokenSaves(l, b, new) :
               Loadable(s.live, s.bak) \in {Missing, new, Loadable(l, b)}
BY DEF BrokenSaves, SavedPairs, BakAfterCopy, PairExists, Loadable, Usable

\* A pair is a number, Missing or Torn.
LEMMA PairIs ==
    ASSUME TypeOK, NEW n \in Name
    PROVE  /\ PairOf(n) \in Nat \cup {Missing, Torn}
           /\ PairOf(n) \in Nat => PairOf(n) = file[n].data /\ PairOf(n) = file[n].graph
           /\ \A p \in Part : file[n][p] = Absent => PairOf(n) = Missing
           /\ \A c \in Nat : file[n].data = c /\ file[n].graph = c => PairOf(n) = c
<1>1. file[n].data \in Stored /\ file[n].graph \in Stored
  BY DEF TypeOK, Part
<1> QED BY <1>1 DEF PairOf, Stored, Part

LEMMA FilesTypeInit == Init => FilesInv
<1> SUFFICES ASSUME Init PROVE FilesInv
  OBVIOUS
<1>1. TypeOK
  <2>1. file \in [Name -> [Part -> Stored]]
    BY DEF Init, Stored
  <2>2. step \in Phase \X Part
    BY DEF Init, Idle, Phase, Part
  <2>3. before \in [live : Nat \cup {Missing, Torn}, bak : Nat \cup {Missing, Torn}]
    BY DEF Init
  <2> QED BY <2>1, <2>2, <2>3 DEF Init, TypeOK
<1>2. PairOf("live") = Missing /\ PairOf("bak") = Missing
  BY DEF Init, PairOf, Name, Part
<1>3. FilesAreRecent
  BY DEF Init, FilesAreRecent, Saving, Idle
<1>4. SaveProgress /\ WipeProgress
  BY DEF Init, SaveProgress, WipeProgress, Idle
<1>5. BeforeWasCurrent /\ NoRollback
  BY <1>2 DEF Init, BeforeWasCurrent, NoRollback, Loaded, Saving, Idle, Loadable, Usable
<1> QED BY <1>1, <1>3, <1>4, <1>5 DEF FilesInv

\* Every call of a save or a wipe, and every interruption, keeps the types.
LEMMA FilesTypeStep == FilesInv /\ [Next]_vars => TypeOK'
<1> SUFFICES ASSUME FilesInv, [Next]_vars PROVE TypeOK'
  OBVIOUS
<1> USE DEF FilesInv, TypeOK
<1>1. ASSUME NEW n \in Name, NEW p \in Part, NEW content \in Stored, Put(n, p, content)
      PROVE  file' \in [Name -> [Part -> Stored]]
  BY <1>1 DEF Put
<1>2. ASSUME NEW phase \in Phase, NEW next \in Phase, NEW p \in Part, Advance(phase, p, next)
      PROVE  step' \in Phase \X Part
  BY <1>2 DEF Advance, Part
<1>3. ASSUME NEW phase \in Phase, NEW next \in Phase, NEW n \in Name, NEW p \in Part,
             NEW content \in Stored, Fill(phase, n, p, content, next)
      PROVE  file' \in [Name -> [Part -> Stored]] /\ step' \in Phase \X Part
  <2>1. Cut \in Stored
    BY DEF Stored
  <2> QED BY <1>1, <1>2, <1>3, <2>1 DEF Fill
<1>4. version \in Stored /\ Absent \in Stored /\ \A p \in Part : file["live"][p] \in Stored
  BY DEF Stored, Name
<1>5. CASE Begin
  <2>1. PairOf("live") \in Nat \cup {Missing, Torn} /\ PairOf("bak") \in Nat \cup {Missing, Torn}
    BY PairIs DEF Name
  <2>2. before' \in [live : Nat \cup {Missing, Torn}, bak : Nat \cup {Missing, Torn}]
    BY <1>5, <2>1 DEF Begin, Disk
  <2>3. step' \in Phase \X Part
    <3>1. step' = <<"clean", "data">>
      BY <1>5 DEF Begin
    <3> QED BY <3>1 DEF Phase, Part
  <2>4. version' \in 0..MaxSaves
    BY <1>5 DEF Begin
  <2> QED BY <1>5, <2>2, <2>3, <2>4 DEF Begin
<1>6. ASSUME NEW p \in Part, CleanTmp(p) PROVE TypeOK'
  BY <1>6, <1>1, <1>2, <1>4 DEF CleanTmp, Phase, Name
<1>7. ASSUME NEW p \in Part, Dump(p) PROVE TypeOK'
  BY <1>7, <1>3, <1>4 DEF Dump, Phase, Name
<1>8. ASSUME NEW p \in Part, DropBak(p) PROVE TypeOK'
  BY <1>8, <1>1, <1>2, <1>4 DEF DropBak, Phase, Name
<1>9. ASSUME NEW p \in Part, CopyLive(p) PROVE TypeOK'
  BY <1>9, <1>3, <1>4 DEF CopyLive, Phase, Name
<1>10. ASSUME NEW p \in Part, Rename(p) PROVE TypeOK'
  <2>1. step' \in Phase \X Part
    BY <1>10, <1>2 DEF Rename, Phase
  <2>2. file' \in [Name -> [Part -> Stored]]
    BY <1>10, <1>4 DEF Rename, Name
  <2> QED BY <1>10, <2>1, <2>2 DEF Rename
<1>11. ASSUME NEW p \in Part, Wipe(p) PROVE TypeOK'
  <2>1. \E n \in Name : Put(n, p, Absent)
    BY <1>11 DEF Wipe, Name
  <2>2. \E phase \in Phase, next \in Phase : Advance(phase, p, next)
    BY <1>11 DEF Wipe, Phase
  <2>3. file' \in [Name -> [Part -> Stored]] /\ step' \in Phase \X Part
    BY <2>1, <2>2, <1>1, <1>2, <1>4
  <2> QED BY <1>11, <2>3 DEF Wipe
<1>12. CASE ReturnOk \/ BeginWipe \/ Interrupt
  <2>1. <<"idle", "data">> \in Phase \X Part /\ <<"wipe_live", "data">> \in Phase \X Part
    BY DEF Phase, Part
  <2>2. CASE ReturnOk
    BY <2>1, <2>2 DEF ReturnOk, Idle
  <2>3. CASE BeginWipe
    BY <2>1, <2>3 DEF BeginWipe, Idle
  <2>4. CASE Interrupt
    BY <2>1, <2>4 DEF Interrupt, Idle
  <2> QED BY <1>12, <2>2, <2>3, <2>4
<1>13. CASE UNCHANGED vars
  BY <1>13 DEF vars
<1> QED BY <1>5, <1>6, <1>7, <1>8, <1>9, <1>10, <1>11, <1>12, <1>13 DEF Next
-----------------------------------------------------------------------------
\* What a save has done so far is one of the outcomes SnapshotPair lists.
LEMMA ContractHolds == TypeOK /\ SaveProgress => SaveContract
<1> SUFFICES ASSUME TypeOK, SaveProgress PROVE SaveContract
  OBVIOUS
<1>0. "live" \in Name /\ "bak" \in Name
  BY DEF Name
<1> USE DEF SaveProgress, LiveUntouched, BakUntouched, TmpComplete, BrokenSaves, SavedPairs, Disk
<1>1. CASE step[1] \in {"clean", "dump"}
  BY <1>1 DEF SaveContract
<1>2. CASE step[1] = "drop"
  <2>1. PairOf("bak") \in {before.bak, Missing}
    BY <1>0, <1>2, PairIs DEF TypeOK, Part
  <2> QED BY <1>2, <2>1 DEF SaveContract
<1>3. CASE step[1] = "copy"
  <2>1. PairOf("bak") \in {Missing, Torn, before.live}
    <3>1. step = <<"copy", "data">> \/ step = <<"copy", "graph">>
      BY <1>3 DEF TypeOK, Part
    <3>2. CASE step = <<"copy", "data">>
      BY <3>2 DEF PairOf
    <3>3. CASE step = <<"copy", "graph">>
      BY <3>3 DEF PairOf
    <3> QED BY <3>1, <3>2, <3>3
  <2> QED BY <1>3, <2>1 DEF SaveContract
<1>4. CASE step = <<"rename", "data">>
  BY <1>4 DEF SaveContract, BakAfterCopy
<1>5. CASE step = <<"rename", "graph">>
  <2>1. PairOf("live") \in {Missing, Torn} /\ (PairExists(before.live) => PairOf("live") = Torn)
    BY <1>5 DEF PairOf, TypeOK
  <2>2. ~PairExists(before.live) => before.live = Missing
    BY DEF PairExists
  <2> QED BY <1>5, <2>1, <2>2 DEF SaveContract, BakAfterCopy
<1>6. CASE step[1] = "return"
  BY <1>6 DEF SaveContract
<1>7. CASE ~Saving
  BY <1>7 DEF SaveContract, Saving
<1> QED BY <1>1, <1>2, <1>3, <1>4, <1>5, <1>6, <1>7 DEF TypeOK, Phase, Part, Saving

\* Each call of a save does what the phase it ends claims, and a wipe leaves nothing behind.
LEMMA ProgressStep == FilesInv /\ [Next]_vars => FilesAreRecent' /\ SaveProgress' /\ WipeProgress'
<1> SUFFICES ASSUME FilesInv, [Next]_vars PROVE FilesAreRecent' /\ SaveProgress' /\ WipeProgress'
  OBVIOUS
<1> USE DEF FilesInv, TypeOK, Name, Part, FilesAreRecent, SaveProgress, WipeProgress, Saving,
            LiveUntouched, BakUntouched, TmpComplete
<1>5. CASE Begin
  <2>1. UNCHANGED file /\ step' = <<"clean", "data">> /\ version' = version + 1
        /\ before' = Disk /\ UNCHANGED <<acked, wiped>>
    BY <1>5 DEF Begin
  <2>2. PairOf("live")' = before'.live /\ PairOf("bak")' = before'.bak
    BY <2>1 DEF Disk, PairOf
  <2> QED BY <2>1, <2>2
<1>6. ASSUME NEW p \in Part, CleanTmp(p) PROVE FilesAreRecent' /\ SaveProgress' /\ WipeProgress'
  <2>1. PairOf("live")' = PairOf("live") /\ PairOf("bak")' = PairOf("bak")
    BY <1>6 DEF CleanTmp, Put, PairOf
  <2>2. UNCHANGED <<version, acked, before, wiped>> /\ Put("tmp", p, Absent)
    BY <1>6 DEF CleanTmp
  <2>3. /\ step = <<"clean", p>>
        /\ step' = <<"clean", "graph">> \/ step' = <<"dump", "data">>
    BY <1>6 DEF CleanTmp, Advance
  <2>4. /\ file'["live"] = file["live"] /\ file'["bak"] = file["bak"]
        /\ \A q \in Part : file'["tmp"][q] \in {file["tmp"][q], Absent}
    BY <2>2 DEF Put
  <2>5. CASE p = "data"
    BY <2>1, <2>2, <2>3, <2>4, <2>5
  <2>6. CASE p = "graph"
    <3>1. step' = <<"dump", "data">>
      BY <1>6, <2>6 DEF CleanTmp, Advance
    <3> QED BY <2>1, <2>2, <2>3, <2>4, <3>1
  <2> QED BY <2>5, <2>6
<1>7. ASSUME NEW p \in Part, Dump(p) PROVE FilesAreRecent' /\ SaveProgress' /\ WipeProgress'
  <2>1. PairOf("live")' = PairOf("live") /\ PairOf("bak")' = PairOf("bak")
    BY <1>7 DEF Dump, Fill, Put, PairOf
  <2>2. UNCHANGED <<version, acked, before, wiped>> /\ step[1] = "dump"
    BY <1>7 DEF Dump, Fill, Advance
  <2>3. CASE Put("tmp", p, Cut) /\ UNCHANGED step
    BY <1>7, <2>1, <2>2, <2>3 DEF Dump, Fill, Advance, Put
  <2>4. CASE p = "data" /\ Put("tmp", p, version) /\ step' = <<"dump", "graph">>
    BY <2>1, <2>2, <2>4 DEF Put
  <2>5. CASE /\ p = "graph" /\ Put("tmp", p, version) /\ step = <<"dump", "graph">>
             /\ step' = <<IF PairExists(PairOf("live")) THEN "drop" ELSE "rename", "data">>
    <3>1. file'["tmp"].data = version /\ file'["tmp"].graph = version
          /\ file'["live"] = file["live"]
      BY <2>5 DEF Put
    <3>2. CASE PairExists(before.live)
      BY <2>1, <2>2, <2>5, <3>1, <3>2 DEF Put
    <3>3. CASE ~PairExists(before.live)
      BY <2>1, <2>2, <2>5, <3>1, <3>3 DEF Put, BakAfterCopy
    <3> QED BY <3>2, <3>3
  <2> QED BY <1>7, <2>3, <2>4, <2>5 DEF Dump, Fill, Advance
<1>8. ASSUME NEW p \in Part, DropBak(p) PROVE FilesAreRecent' /\ SaveProgress' /\ WipeProgress'
  <2>1. PairOf("live")' = PairOf("live") /\ UNCHANGED <<version, acked, before, wiped>>
    BY <1>8 DEF DropBak, Put, PairOf
  <2>2. file'["live"] = file["live"] /\ file'["tmp"] = file["tmp"]
    BY <1>8 DEF DropBak, Put
  <2>3. CASE p = "data"
    <3>1. /\ step = <<"drop", "data">> /\ step' = <<"drop", "graph">>
          /\ file'["bak"].data = Absent /\ file'["bak"].graph = file["bak"].graph
      BY <1>8, <2>3 DEF DropBak, Advance, Put
    <3> QED BY <2>1, <2>2, <3>1
  <2>4. CASE p = "graph"
    <3>1. /\ step = <<"drop", "graph">> /\ step' = <<"copy", "data">>
          /\ file'["bak"].data = Absent /\ file'["bak"].graph = Absent
      BY <1>8, <2>4 DEF DropBak, Advance, Put
    <3> QED BY <2>1, <2>2, <3>1
  <2> QED BY <2>3, <2>4
<1>9. ASSUME NEW p \in Part, CopyLive(p) PROVE FilesAreRecent' /\ SaveProgress' /\ WipeProgress'
  <2>1. PairOf("live")' = PairOf("live") /\ file'["live"] = file["live"] /\ file'["tmp"] = file["tmp"]
    BY <1>9 DEF CopyLive, Fill, Put, PairOf
  <2>2. UNCHANGED <<version, acked, before, wiped>> /\ step[1] = "copy"
    BY <1>9 DEF CopyLive, Fill, Advance
  <2>3. CASE Put("bak", p, Cut) /\ step = <<"copy", p>> /\ UNCHANGED step
    BY <2>1, <2>2, <2>3 DEF Put
  <2>4. CASE /\ p = "data" /\ Put("bak", p, file["live"][p])
             /\ step = <<"copy", "data">> /\ step' = <<"copy", "graph">>
    BY <2>1, <2>2, <2>4 DEF Put
  <2>5. CASE /\ p = "graph" /\ Put("bak", p, file["live"][p])
             /\ step = <<"copy", "graph">> /\ step' = <<"rename", "data">>
    <3>1. file'["bak"].data = file["live"].data /\ file'["bak"].graph = file["live"].graph
      BY <2>5 DEF Put
    <3>2. PairOf("bak")' = PairOf("live")
      BY <3>1 DEF PairOf
    <3> QED BY <2>1, <2>2, <2>5, <3>1, <3>2 DEF Put, BakAfterCopy
  <2> QED BY <1>9, <2>3, <2>4, <2>5 DEF CopyLive, Fill, Advance
<1>10. ASSUME NEW p \in Part, Rename(p) PROVE FilesAreRecent' /\ SaveProgress' /\ WipeProgress'
  <2>1. PairOf("bak")' = PairOf("bak") /\ UNCHANGED <<version, acked, before, wiped>>
    BY <1>10 DEF Rename, PairOf
  <2>2. CASE p = "data"
    <3>1. /\ step = <<"rename", "data">> /\ step' = <<"rename", "graph">>
          /\ file'["live"].data = version /\ file'["live"].graph = file["live"].graph
          /\ file'["tmp"].data = Absent /\ file'["tmp"].graph = version
          /\ file'["bak"] = file["bak"]
      BY <1>10, <2>2 DEF Rename, Advance
    <3>2. PairExists(before.live) => file["live"].graph # Absent
      BY <3>1 DEF PairExists, PairOf
    <3> QED BY <2>1, <3>1, <3>2
  <2>3. CASE p = "graph"
    <3>1. /\ step = <<"rename", "graph">> /\ step' = <<"return", "data">>
          /\ file'["live"].data = version /\ file'["live"].graph = version
          /\ file'["tmp"].data = file["tmp"].data /\ file'["tmp"].graph = Absent
          /\ file'["bak"] = file["bak"]
      BY <1>10, <2>3 DEF Rename, Advance
    <3>2. PairOf("live")' = version
      BY <3>1 DEF PairOf
    <3> QED BY <2>1, <3>1, <3>2
  <2> QED BY <2>2, <2>3
<1>11. ASSUME NEW p \in Part, Wipe(p) PROVE FilesAreRecent' /\ SaveProgress' /\ WipeProgress'
  BY <1>11 DEF Wipe, Advance, Put
<1>12. CASE ReturnOk
  BY <1>12 DEF ReturnOk, Idle
<1>13. CASE BeginWipe
  BY <1>13 DEF BeginWipe, Idle
<1>14. CASE Interrupt
  BY <1>14 DEF Interrupt, Idle
<1>15. CASE UNCHANGED vars
  BY <1>15 DEF vars, PairOf
<1> QED BY <1>5, <1>6, <1>7, <1>8, <1>9, <1>10, <1>11, <1>12, <1>13, <1>14, <1>15 DEF Next

\* Neither a step of a save nor one of a wipe brings an older index back.
LEMMA RollbackStep == FilesInv /\ [Next]_vars => BeforeWasCurrent' /\ NoRollback'
<1> SUFFICES ASSUME FilesInv, [Next]_vars PROVE BeforeWasCurrent' /\ NoRollback'
  OBVIOUS
<1>1. TypeOK' /\ SaveProgress'
  BY FilesTypeStep, ProgressStep
<1>2. SaveContract'
  BY <1>1, ContractHolds, PTL
<1>3. BeforeWasCurrent'
  <2>1. CASE Begin
    BY <2>1 DEF Begin, FilesInv, NoRollback, Loaded, BeforeWasCurrent, Disk
  <2>2. CASE Saving /\ UNCHANGED <<before, acked>>
    BY <2>2 DEF FilesInv, BeforeWasCurrent
  <2>3. CASE ~Saving'
    BY <2>3 DEF BeforeWasCurrent
  <2>4. Begin \/ (Saving /\ UNCHANGED <<before, acked>>) \/ ~Saving'
    BY DEF Next, vars, Saving, Idle, CleanTmp, Dump, DropBak, CopyLive, Rename, Wipe, ReturnOk,
           BeginWipe, Interrupt, Advance, Fill, Part
  <2> QED BY <2>1, <2>2, <2>3, <2>4
<1>4. CASE Saving'
  <2>1. Usable(version') /\ version' >= acked' /\ version' \in Nat /\ acked' \in Nat
    BY <1>1, ProgressStep DEF TypeOK, Usable, FilesAreRecent
  <2>2. Loaded' \in {Missing, version', Loadable(before'.live, before'.bak)}
    BY <1>2, <1>4, <2>1, SaveLoads DEF SaveContract, Disk, Loaded
  <2> QED BY <1>3, <1>4, <2>1, <2>2 DEF NoRollback, BeforeWasCurrent
<1>5. CASE ~Saving'
  <2>1. CASE ReturnOk
    <3>1. PairOf("live") = version /\ version \in Nat
      BY <2>1 DEF ReturnOk, FilesInv, SaveProgress, TypeOK
    <3>2. PairOf("live")' = version /\ acked' = version
      BY <2>1, <3>1 DEF ReturnOk, PairOf
    <3> QED BY <1>3, <3>1, <3>2 DEF NoRollback, Loaded, Loadable, Usable
  <2>2. CASE UNCHANGED <<file, acked>>
    BY <1>3, <2>2 DEF FilesInv, NoRollback, Loaded, PairOf
  <2>3. CASE acked' = 0
    <3>1. Loaded' \in Nat \cup {Missing}
      <4>1. PairOf("live")' \in Nat \cup {Missing, Torn} /\ PairOf("bak")' \in Nat \cup {Missing, Torn}
        BY <1>1 DEF TypeOK, PairOf, Stored, Name, Part
      <4> QED BY <4>1 DEF Loaded, Loadable, Usable
    <3> QED BY <1>3, <2>3, <3>1 DEF NoRollback
  <2>4. ReturnOk \/ UNCHANGED <<file, acked>> \/ acked' = 0
    BY <1>5 DEF Next, vars, Saving, Idle, CleanTmp, Dump, DropBak, CopyLive, Rename, Wipe,
           Begin, BeginWipe, Interrupt, Advance, Fill, Part, FilesInv, WipeProgress
  <2> QED BY <2>1, <2>2, <2>3, <2>4
<1> QED BY <1>3, <1>4, <1>5
-----------------------------------------------------------------------------
\* The files keep their invariant through every save, wipe and interruption.
THEOREM FilesInvariant == Spec => []FilesInv
<1>1. Init => FilesInv
  BY FilesTypeInit
<1>2. FilesInv /\ [Next]_vars => FilesInv'
  BY FilesTypeStep, ProgressStep, RollbackStep DEF FilesInv
<1> QED BY <1>1, <1>2, PTL DEF Spec

\* An interrupted snapshot::save leaves one of the disks SnapshotPair lists, and a save that
\* returns Ok exactly the saved one: MemoryWriter may take a save as one step.
THEOREM SavesKeepContract == Spec => []SaveContract
<1>1. FilesInv => SaveContract
  BY ContractHolds DEF FilesInv
<1> QED BY <1>1, FilesInvariant, PTL

\* After any history of interrupted saves and wipes, a start loads nothing older than the last
\* save that returned Ok.
THEOREM NeverRollsBack == Spec => []NoRollback
<1>1. FilesInv => NoRollback
  BY DEF FilesInv
<1> QED BY <1>1, FilesInvariant, PTL

\* No start after a completed delete_all_pairs loads an index from before it.
THEOREM WipesAreFinal == Spec => []WipeIsFinal
<1>1. FilesInv => WipeIsFinal
  <2> SUFFICES ASSUME FilesInv, Loaded # Missing PROVE Loaded > wiped
    BY DEF WipeIsFinal
  <2>1. \E n \in {"live", "bak"} : Loaded = PairOf(n) /\ PairOf(n) \notin {Missing, Torn}
    BY DEF Loaded, Loadable, Usable
  <2>2. PICK n \in Name : Loaded = PairOf(n) /\ PairOf(n) \in Nat
    BY <2>1, PairIs DEF FilesInv, Name
  <2>3. Loaded = file[n].data
    BY <2>2, PairIs DEF FilesInv
  <2> QED BY <2>2, <2>3 DEF FilesInv, FilesAreRecent, Part, TypeOK
<1> QED BY <1>1, FilesInvariant, PTL
=============================================================================
