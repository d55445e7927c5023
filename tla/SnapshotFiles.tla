----------------------------- MODULE SnapshotFiles -----------------------------
(***************************************************************************)
(* The file by file steps of snapshot::save and snapshot::delete_all_pairs *)
(* (snapshot.rs), any of which may fail or be the last thing the process   *)
(* does.  A save replaces two files, so no single rename makes it atomic:  *)
(* the _bak pair is what makes an interrupted save harmless.               *)
(*                                                                         *)
(* MemoryWriter takes a whole save as one step whose outcomes SnapshotPair *)
(* lists; SaveContract below is what entitles it to.                       *)
(***************************************************************************)
EXTENDS Naturals, SnapshotPair

CONSTANTS
    Absent,   \* there is no such file
    Cut,      \* the file was not written to its end
    MaxSaves  \* bound on the saves of a run

ASSUME FilesAssumption ==
    /\ MaxSaves \in Nat
    /\ Absent \notin Nat /\ Cut \notin Nat /\ Missing \notin Nat /\ Torn \notin Nat
    /\ Absent # Cut

Name == {"live", "bak", "tmp"}
Part == {"data", "graph"}
Phase == {"idle", "clean", "dump", "drop", "copy", "rename", "return",
          "wipe_live", "wipe_bak", "wipe_tmp"}

VARIABLES
    file,    \* file[n][p]: the number of the save whose content it holds, Absent or Cut
    step,    \* the call that comes next: its phase and the file of the pair it works on
    version, \* saves begun
    acked,   \* the last save that returned Ok, 0 once a wipe begins
    before,  \* the two pairs when this save began
    wiped    \* saves begun before the last complete wipe

vars == <<file, step, version, acked, before, wiped>>

\* What a loader, or pair_exists, sees of a pair.
PairOf(n) ==
    IF file[n].data = Absent \/ file[n].graph = Absent THEN Missing
    ELSE IF file[n].data = file[n].graph /\ file[n].data # Cut THEN file[n].data
    ELSE Torn

Disk == [live |-> PairOf("live"), bak |-> PairOf("bak")]

\* What a start would load now.
Loaded == Loadable(PairOf("live"), PairOf("bak"))

Idle == <<"idle", "data">>

Init == /\ file = [n \in Name |-> [p \in Part |-> Absent]]
        /\ step = Idle
        /\ version = 0 /\ acked = 0 /\ wiped = 0
        /\ before = [live |-> Missing, bak |-> Missing]

\* A phase works on the data file, then on the graph file.
Advance(phase, p, next) ==
    /\ step = <<phase, p>>
    /\ step' = IF p = "data" THEN <<phase, "graph">> ELSE <<next, "data">>

Put(n, p, content) == file' = [file EXCEPT ![n][p] = content]

\* Writing a file is seen half done until it is complete.
Fill(phase, n, p, content, next) ==
    \/ Put(n, p, Cut) /\ step = <<phase, p>> /\ UNCHANGED step
    \/ Put(n, p, content) /\ Advance(phase, p, next)
-----------------------------------------------------------------------------
Begin == /\ step = Idle
         /\ version < MaxSaves
         /\ version' = version + 1
         /\ before' = Disk
         /\ step' = <<"clean", "data">>
         /\ UNCHANGED <<file, acked, wiped>>

CleanTmp(p) == /\ Advance("clean", p, "dump")
               /\ Put("tmp", p, Absent)
               /\ UNCHANGED <<version, acked, before, wiped>>

\* Mutant: a backup is only made when there is none.
DumpKeepsOldBackup(p) ==
    /\ Fill("dump", "tmp", p, version,
            IF PairExists(PairOf("live")) /\ ~PairExists(PairOf("bak")) THEN "drop" ELSE "rename")
    /\ UNCHANGED <<version, acked, before, wiped>>

\* file_dump; then the backup is replaced only if there is a live pair to copy.
Dump(p) == /\ Fill("dump", "tmp", p, version,
                   IF PairExists(PairOf("live")) THEN "drop" ELSE "rename")
           /\ UNCHANGED <<version, acked, before, wiped>>

DropBak(p) == /\ Advance("drop", p, "copy")
              /\ Put("bak", p, Absent)
              /\ UNCHANGED <<version, acked, before, wiped>>

\* Mutant: only the data file is copied.
CopyLiveSkipsGraph(p) ==
    /\ IF p = "data" THEN Fill("copy", "bak", p, file["live"][p], "rename")
       ELSE Advance("copy", p, "rename") /\ UNCHANGED file
    /\ UNCHANGED <<version, acked, before, wiped>>

CopyLive(p) == /\ Fill("copy", "bak", p, file["live"][p], "rename")
               /\ UNCHANGED <<version, acked, before, wiped>>

Rename(p) == /\ Advance("rename", p, "return")
             /\ file' = [file EXCEPT !["live"][p] = file["tmp"][p], !["tmp"][p] = Absent]
             /\ UNCHANGED <<version, acked, before, wiped>>

ReturnOk == /\ step = <<"return", "data">>
            /\ step' = Idle
            /\ acked' = version
            /\ UNCHANGED <<file, version, before, wiped>>

\* delete_all_pairs: live, then bak, then tmp.  What was saved is disowned from here on.
BeginWipe == /\ step = Idle
             /\ step' = <<"wipe_live", "data">>
             /\ acked' = 0
             /\ UNCHANGED <<file, version, before, wiped>>

\* Mutant: the backup is not part of the wipe.
WipeKeepsBak(p) ==
    /\ \/ Advance("wipe_live", p, "wipe_tmp") /\ Put("live", p, Absent) /\ UNCHANGED wiped
       \/ /\ Advance("wipe_tmp", p, "idle") /\ Put("tmp", p, Absent)
          /\ wiped' = IF p = "graph" THEN version ELSE wiped
    /\ UNCHANGED <<version, acked, before>>

Wipe(p) == /\ \/ Advance("wipe_live", p, "wipe_bak") /\ Put("live", p, Absent)
                                                     /\ UNCHANGED wiped
              \/ Advance("wipe_bak", p, "wipe_tmp") /\ Put("bak", p, Absent)
                                                    /\ UNCHANGED wiped
              \/ /\ Advance("wipe_tmp", p, "idle") /\ Put("tmp", p, Absent)
                 /\ wiped' = IF p = "graph" THEN version ELSE wiped
           /\ UNCHANGED <<version, acked, before>>

\* A call returns Err and ends the save or the wipe, or the process dies: the files stay as
\* they are.
Interrupt == /\ step # Idle
             /\ step' = Idle
             /\ UNCHANGED <<file, version, acked, before, wiped>>

Next == \/ Begin \/ ReturnOk \/ BeginWipe \/ Interrupt
        \/ \E p \in Part : CleanTmp(p) \/ Dump(p) \/ DropBak(p) \/ CopyLive(p) \/ Rename(p)
                           \/ Wipe(p)

Spec == Init /\ [][Next]_vars
-----------------------------------------------------------------------------
Stored == Nat \cup {Absent, Cut}

TypeOK ==
    /\ file \in [Name -> [Part -> Stored]]
    /\ step \in Phase \X Part
    /\ version \in 0..MaxSaves /\ acked \in 0..MaxSaves /\ wiped \in 0..MaxSaves
    /\ before \in [live : Nat \cup {Missing, Torn}, bak : Nat \cup {Missing, Torn}]

Saving == step[1] \in {"clean", "dump", "drop", "copy", "rename", "return"}

\* Wherever a save is cut off, the disk is in one of the states SnapshotPair promises; when
\* it returns Ok, both pairs are exactly the saved ones.
SaveContract ==
    /\ Saving => Disk \in BrokenSaves(before.live, before.bak, version)
    /\ step[1] = "return" => Disk = SavedPairs(before.live, before.bak, version)

\* No start ever loads an index older than the last save that returned Ok, however many
\* saves were cut off since: the backup it falls back to is not the one before.
NoRollback == Loaded # Missing => Loaded >= acked

\* After a completed wipe no start loads an index from before it, so the next start rebuilds
\* from the embeddings.
WipeIsFinal == Loaded # Missing => Loaded > wiped

\* The inductive invariant behind SaveContract, NoRollback and WipeIsFinal.

\* No file is from before the last complete wipe or from a save to come; until its renames a
\* save has put nothing into the live pair.
FilesAreRecent ==
    /\ acked <= version /\ wiped <= version /\ (Saving => wiped < version)
    /\ \A n \in Name, p \in Part : file[n][p] \in Nat => wiped < file[n][p] /\ file[n][p] <= version
    /\ step[1] \in {"clean", "dump", "drop", "copy"} \/ step = <<"rename", "data">> =>
          \A p \in Part : file["live"][p] # version

LiveUntouched == PairOf("live") = before.live
BakUntouched == PairOf("bak") = before.bak
TmpComplete == file["tmp"].data = version /\ file["tmp"].graph = version
BakIsLive == file["bak"].data = file["live"].data /\ file["bak"].graph = file["live"].graph

\* What a save has done when it is about to make the call at `step`.
SaveProgress ==
    /\ step[1] \in {"clean", "dump"} => LiveUntouched /\ BakUntouched
    /\ step = <<"dump", "graph">> => file["tmp"].data = version
    /\ step[1] \in {"drop", "copy"} => LiveUntouched /\ PairExists(before.live) /\ TmpComplete
    /\ step = <<"drop", "data">> => BakUntouched
    /\ step = <<"drop", "graph">> => file["bak"].data = Absent
    /\ step = <<"copy", "data">> => file["bak"].data \in {Absent, Cut} /\ file["bak"].graph = Absent
    /\ step = <<"copy", "graph">> => /\ file["bak"].data = file["live"].data
                                     /\ file["bak"].graph \in {Absent, Cut}
    /\ step[1] \in {"rename", "return"} => PairOf("bak") = BakAfterCopy(before.live, before.bak)
    /\ step = <<"rename", "data">> => LiveUntouched /\ TmpComplete
    /\ step = <<"rename", "graph">> => /\ file["live"].data = version
                                       /\ file["live"].graph # version
                                       /\ file["tmp"].graph = version
                                       /\ PairExists(before.live) => file["live"].graph # Absent
    /\ step[1] = "return" => PairOf("live") = version

\* What a wipe has removed so far.
WipeProgress ==
    /\ step[1] \in {"wipe_live", "wipe_bak", "wipe_tmp"} => acked = 0
    /\ step = <<"wipe_live", "graph">> => file["live"].data = Absent
    /\ step[1] \in {"wipe_bak", "wipe_tmp"} => \A p \in Part : file["live"][p] = Absent
    /\ step = <<"wipe_bak", "graph">> => file["bak"].data = Absent
    /\ step[1] = "wipe_tmp" => \A p \in Part : file["bak"][p] = Absent
    /\ step = <<"wipe_tmp", "graph">> => file["tmp"].data = Absent

\* While a save is under way, what it found on disk was no older than the last Ok.
BeforeWasCurrent ==
    Saving /\ Loadable(before.live, before.bak) # Missing
        => Loadable(before.live, before.bak) >= acked

FilesInv == TypeOK /\ FilesAreRecent /\ SaveProgress /\ WipeProgress /\ BeforeWasCurrent /\ NoRollback
=============================================================================
