------------------------------ MODULE SnapshotPair ------------------------------
(***************************************************************************)
(* What one call of solo-storage's snapshot::save may leave on disk, and   *)
(* what the loader chain picks at the next start.                          *)
(*                                                                         *)
(* A snapshot is a PAIR of files (.hnsw.data and .hnsw.graph).  A pair is  *)
(* the content it was written from (both files complete and from the same  *)
(* save), Missing (at least one file is absent, which is what pair_exists  *)
(* tests) or Torn (both files are there but they do not belong together,   *)
(* or one is cut short: the loader rejects it).  The file by file steps    *)
(* are in SnapshotFiles, which checks that these outcomes are all of them. *)
(***************************************************************************)
CONSTANTS Missing, Torn

ASSUME PairAssumption == Missing # Torn

Usable(pair) == pair \notin {Missing, Torn}

\* pair_exists: both files are there, whatever is in them.
PairExists(pair) == pair # Missing

\* load, then load_bak; Missing when the caller must start from an empty index.
Loadable(live, bak) ==
    IF Usable(live) THEN live ELSE IF Usable(bak) THEN bak ELSE Missing

\* The backup after step 4 of save: a copy of whatever the live pair is.
BakAfterCopy(live, bak) == IF PairExists(live) THEN live ELSE bak

\* save returned Ok.
SavedPairs(live, bak, new) == [live |-> new, bak |-> BakAfterCopy(live, bak)]

\* save returned Err, or the process died inside it.  A live pair of which only the graph
\* file exists (an interrupted delete_all_pairs leaves one) is Missing to pair_exists, is
\* not copied, and is Torn between the two renames.
BrokenSaves(live, bak, new) ==
    {[live |-> live, bak |-> bak], SavedPairs(live, bak, new)}
      \cup IF PairExists(live)
           THEN {[live |-> live, bak |-> b] : b \in {Missing, Torn, live}}
                  \cup {[live |-> Torn, bak |-> live]}
           ELSE {[live |-> Torn, bak |-> bak]}
=============================================================================
