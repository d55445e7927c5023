---------------------------- MODULE Originals_proof ----------------------------
(***************************************************************************)
(* The two places an original file goes through: staged by an upload       *)
(* (DocumentUpload), then kept by the asset store (AssetStore).            *)
(*                                                                         *)
(* For every size, deadline, number of failed calls, crashes and dropped   *)
(* calls: an ingest works on the whole file, its receipt is true, and what *)
(* was uploaded is neither rolled back nor removed before its time, but    *)
(* for a manifest that was still in tmp.  For any number of encryptions,   *)
(* failed transactions and crashes: an original whose store was            *)
(* acknowledged stays readable, a removed one leaves no bytes and an       *)
(* erased one no files, with the exceptions the history variable cut       *)
(* names.                                                                  *)
(***************************************************************************)
EXTENDS DocumentUpload, AssetStore, TLAPS

USE UploadAssumption, AssetAssumption

\* The manifest that load_manifest_for_upload takes is one of the three files, and there is one
\* unless all three are missing or torn.
LEMMA LoadedFacts ==
    ASSUME TypeOK, ManifestFiles
    PROVE  /\ Found <=> \E n \in ManifestName : Valid(n)
           /\ Found => Loaded \in Manifest /\ \E n \in ManifestName : Valid(n) /\ Loaded = man[n]
           /\ Known => Valid("primary") \/ Valid("bak")
           /\ Valid("tmp") => Found /\ Loaded = man["tmp"]
           /\ ~Valid("tmp") /\ Valid("primary") => Found /\ Loaded = man["primary"]
           /\ ~Valid("tmp") /\ ~Valid("primary") => Loaded = man["bak"]
<1>1. /\ Valid("tmp") => Loaded = man["tmp"]
      /\ ~Valid("tmp") /\ Valid("primary") => Loaded = man["primary"]
      /\ ~Valid("tmp") /\ ~Valid("primary") => Loaded = man["bak"]
  BY DEF Loaded, Valid
<1> QED BY <1>1 DEF Found, Valid, Known, ManifestName, ManifestFiles

LEMMA ManifestFacts ==
    /\ \A m \in Manifest : /\ m.status \in Status /\ m.received \in 0..Size
                           /\ m.expires \in 0..MaxTime + 1 /\ m.receipt \in Receipt
    /\ \A r \in Receipt : /\ r.outcome \in Outcome
                          /\ {r.stored, r.retain, r.deleted} \subseteq BOOLEAN
    /\ NoManifest \in Manifest /\ NoReceipt \in Receipt
BY DEF Manifest, Receipt, NoManifest, NoReceipt, Status, Outcome

\* Each operation takes the manifest it has in memory from the one it has loaded.
LEMMA DraftType ==
    ASSUME TypeOK, ManifestFiles, Next
    PROVE  draft' \in Manifest
<1> USE ManifestFacts, LoadedFacts DEF TypeOK
<1>0. now + 1 \in 0..MaxTime + 1
  OBVIOUS
<1>1. CASE Call
  <2>1. CASE Prepare
    BY <2>1 DEF Prepare, Manifest, NoManifest
  <2>2. CASE \E n \in 1..Size : Append(n)
    BY <2>2 DEF Append, Open, Known, Found, Manifest
  <2>3. CASE Commit
    BY <2>3 DEF Commit, Open, Known, Found, Manifest, Status
  <2>4. CASE Abort
    BY <2>4 DEF Abort, Known, Found, Manifest, Status
  <2>5. CASE Replay
    BY <2>5 DEF Replay, Known, Found
  <2>6. ASSUME NEW store \in BOOLEAN, NEW retain \in BOOLEAN, Ingest(store, retain)
        PROVE  draft' \in Manifest
    <3>1. [NoReceipt EXCEPT !.stored = store, !.retain = retain] \in Receipt
      BY DEF NoReceipt, Receipt, Outcome
    <3> QED BY <2>6, <3>1 DEF Ingest, Known, Found, Manifest
  <2> QED BY <1>1, <2>1, <2>2, <2>3, <2>4, <2>5, <2>6 DEF Call
<1>2. CASE Proceed
  <2>1. ASSUME NEW command, NEW next, NEW outcome \in Outcome, Do(command, next, outcome)
        PROVE  draft' \in Manifest
    <3>1. [draft.receipt EXCEPT !.outcome = outcome] \in Receipt
      BY DEF Receipt
    <3>2. draft' = [draft EXCEPT !.receipt = [draft.receipt EXCEPT !.outcome = outcome]]
      BY <2>1 DEF Do
    <3> QED BY <3>1, <3>2 DEF Manifest
  <2>2. CASE StoreAsset \/ IngestDocument \/ LinkDocument \/ RecordExtraction
    BY <2>1, <2>2 DEF StoreAsset, IngestDocument, LinkDocument, RecordExtraction, Outcome
  <2>3. CASE IngestUnparsed
    <3>1. [draft.receipt EXCEPT !.outcome = "unparsed"] \in Receipt
      BY DEF Receipt, Outcome
    <3>2. draft' = [draft EXCEPT !.receipt = [draft.receipt EXCEPT !.outcome = "unparsed"]]
      BY <2>3 DEF IngestUnparsed
    <3> QED BY <3>1, <3>2 DEF Manifest
  <2>4. CASE Finalize
    BY <1>0, <2>4 DEF Finalize, Manifest, Status
  <2>5. CASE DropFinal
    BY <1>0, <2>5 DEF DropFinal, Manifest
  <2>6. CASE Cleanup
    <3>1. [draft.receipt EXCEPT !.deleted = TRUE] \in Receipt
      BY DEF Receipt
    <3>2. \/ draft' = draft
          \/ draft' = [draft EXCEPT !.receipt = [draft.receipt EXCEPT !.deleted = TRUE]]
      BY <2>6 DEF Cleanup
    <3> QED BY <3>1, <3>2 DEF Manifest
  <2>7. CASE \/ AppendBytes \/ CommitRename \/ DropPart \/ Clean \/ Fill \/ Drop \/ Back \/ Swap
             \/ Tidy \/ Undo \/ DropManifests
    BY <2>7 DEF AppendBytes, CommitRename, DropPart, Clean, Fill, Drop, Back, Swap, Tidy, Undo,
                DropManifests, DropManifest, UnchangedByWrite
  <2> QED BY <1>2, <2>2, <2>3, <2>4, <2>5, <2>6, <2>7 DEF Proceed
<1>3. CASE WriteFails \/ SweepLook \/ SweepLock \/ Interrupt \/ Tick
  BY <1>3 DEF WriteFails, SweepLook, SweepLock, Interrupt, Tick
<1> QED BY <1>1, <1>2, <1>3 DEF Next

\* One step per group of actions that touch the same files.
LEMMA UploadTypeStep == TypeOK /\ UploadInv /\ [Next]_vars => TypeOK'
<1> SUFFICES ASSUME TypeOK, UploadInv, Next PROVE TypeOK'
  BY DEF TypeOK, vars, files, Valid
<1> USE ManifestFacts, LoadedFacts DEF TypeOK, UploadInv
<1>1. draft' \in Manifest
  BY DraftType
<1>2. CASE Call
  <2>1. UNCHANGED <<files, db, looked, now, faults>>
    BY <1>2 DEF Call, Prepare, Append, Commit, Abort, Replay, Ingest
  <2>2. offset' \in 0..Size
    BY <1>2 DEF Call, Prepare, Append, Commit, Abort, Replay, Ingest, Open, Known
  <2>3. holder' \in Operation /\ step' \in Step
    BY <1>2 DEF Call, Prepare, Append, Commit, Abort, Replay, Ingest, Lock, Operation, Step,
                WriteStep, Command
  <2> QED BY <1>1, <2>1, <2>2, <2>3 DEF files
<1>3. CASE Proceed
  <2>1. UNCHANGED <<offset, looked, now>> /\ faults' \in 0..MaxFaults
    BY <1>3 DEF Proceed, AppendBytes, CommitRename, DropPart, DropFinal, StoreAsset,
                IngestDocument, LinkDocument, RecordExtraction, Do, IngestUnparsed, Finalize,
                Cleanup, Clean, Fill, Drop, Back, Swap, Tidy, Undo, DropManifests, DropManifest,
                UnchangedByWrite, Fault
  <2>2. holder' \in Operation \cup {"none"} /\ step' \in Step
    BY <1>3 DEF Proceed, AppendBytes, CommitRename, DropPart, DropFinal, StoreAsset,
                IngestDocument, LinkDocument, RecordExtraction, Do, IngestUnparsed, Finalize,
                Cleanup, Clean, Fill, Drop, Back, Swap, Tidy, Undo, DropManifests, DropManifest,
                Continue, Release, AfterWrite, Operation, Step, WriteStep, Command
  <2>3. part' \in 0..Size /\ final' \in 0..Size
    BY <1>3 DEF Proceed, AppendBytes, CommitRename, DropPart, DropFinal, StoreAsset,
                IngestDocument, LinkDocument, RecordExtraction, Do, IngestUnparsed, Finalize,
                Cleanup, Clean, Fill, Drop, Back, Swap, Tidy, Undo, DropManifests, DropManifest,
                UnchangedByWrite, files
  <2>4. db' \subseteq Command
    BY <1>3 DEF Proceed, AppendBytes, CommitRename, DropPart, DropFinal, StoreAsset,
                IngestDocument, LinkDocument, RecordExtraction, Do, IngestUnparsed, Finalize,
                Cleanup, Clean, Fill, Drop, Back, Swap, Tidy, Undo, DropManifests, DropManifest,
                UnchangedByWrite, files, Command
  <2>5. man' \in [ManifestName -> Manifest \cup {Absent, Cut}]
    BY <1>3 DEF Proceed, AppendBytes, CommitRename, DropPart, DropFinal, StoreAsset,
                IngestDocument, LinkDocument, RecordExtraction, Do, IngestUnparsed, Finalize,
                Cleanup, Clean, Fill, Drop, Back, Swap, Tidy, Undo, DropManifests, DropManifest,
                UnchangedByWrite, files, ManifestName
  <2> QED BY <1>1, <2>1, <2>2, <2>3, <2>4, <2>5
<1>4. CASE WriteFails
  <2>1. man' \in [ManifestName -> Manifest \cup {Absent, Cut}]
    BY <1>4 DEF WriteFails, ManifestName, WriteStep
  <2>2. holder' \in Operation \cup {"none"} /\ step' \in Step
    BY <1>4 DEF WriteFails, Continue, Release, Operation, Step
  <2> QED BY <1>1, <1>4, <2>1, <2>2 DEF WriteFails, Fault
<1>5. CASE SweepLook \/ SweepLock \/ Tick
  <2>1. UNCHANGED <<files, db, offset, faults>>
    BY <1>5 DEF SweepLook, SweepLock, Tick
  <2>3. looked' \in BOOLEAN
    BY <1>5 DEF SweepLook, SweepLock, Tick
  <2>4. now' \in 0..MaxTime
    BY <1>5 DEF SweepLook, SweepLock, Tick
  <2>2. holder' \in Operation \cup {"none"} /\ step' \in Step
    BY <1>5 DEF SweepLook, SweepLock, Tick, Lock, Operation, Step
  <2> QED BY <1>1, <2>1, <2>2, <2>3, <2>4 DEF files
<1>6. CASE Interrupt
  <2>1. man' \in [ManifestName -> Manifest \cup {Absent, Cut}]
    BY <1>6 DEF Interrupt
  <2>2. part' \in 0..Size /\ final' \in 0..Size /\ db' \subseteq Command
    BY <1>6 DEF Interrupt
  <2> QED BY <1>1, <1>6, <2>1, <2>2 DEF Interrupt, Fault, Release, Step
<1> QED BY <1>2, <1>3, <1>4, <1>5, <1>6 DEF Next

\* Calls begin at the first step of their operation, the others go to the next one or give the
\* lock back.
LEMMA OperationStep == TypeOK /\ UploadInv /\ [Next]_vars => OperationSteps'
<1> SUFFICES ASSUME TypeOK, OperationSteps, ManifestFiles, Next PROVE OperationSteps'
  BY DEF UploadInv, vars, OperationSteps, Writing
<1> USE DEF TypeOK, OperationSteps, Writing, WriteStep, Command, Operation
<1>1. CASE Call
  BY <1>1 DEF Call, Prepare, Append, Commit, Abort, Replay, Ingest, Lock
<1>2. CASE Proceed
  <2>1. CASE \/ AppendBytes \/ CommitRename \/ DropPart \/ DropFinal \/ Finalize \/ Cleanup
             \/ IngestUnparsed
    BY <2>1 DEF AppendBytes, CommitRename, DropPart, DropFinal, Finalize, Cleanup,
                IngestUnparsed, At, Continue
  <2>2. CASE StoreAsset \/ IngestDocument \/ LinkDocument \/ RecordExtraction
    BY <2>2 DEF StoreAsset, IngestDocument, LinkDocument, RecordExtraction, Do, At, Continue
  <2>3. CASE Clean \/ Fill \/ Drop \/ Back
    <3>1. CASE holder = "prepare"
      BY <2>3, <3>1 DEF Clean, Fill, Drop, Back, Continue, ManifestFiles
    <3> QED BY <2>3, <3>1 DEF Clean, Fill, Drop, Back, Continue
  <2>4. CASE Swap \/ Tidy
    BY <2>4 DEF Swap, Tidy, AfterWrite, Continue, Release
  <2>5. CASE Undo \/ DropManifests
    BY <2>5 DEF Undo, DropManifests, DropManifest, Continue, Release
  <2> QED BY <1>2, <2>1, <2>2, <2>3, <2>4, <2>5 DEF Proceed
<1>3. CASE WriteFails \/ Interrupt
  BY <1>3 DEF WriteFails, Interrupt, Continue, Release
<1>4. CASE SweepLook \/ SweepLock \/ Tick
  BY <1>4 DEF SweepLook, SweepLock, Tick, Lock
<1> QED BY <1>1, <1>2, <1>3, <1>4 DEF Next

\* What is loaded is newer than every file; an operation only makes it newer.
LEMMA LoadedNewest ==
    ASSUME TypeOK, ManifestFiles, NewestFirst, Found
    PROVE  \A n \in ManifestName : Valid(n) => Replaces(Loaded, man[n])
<1>1. \A m \in Manifest : Replaces(m, m)
  BY ManifestFacts DEF Replaces, NoOlder
<1> QED BY <1>1, LoadedFacts DEF NewestFirst, Valid, ManifestName

\* A step that leaves the files alone and is about to write something newer.
LEMMA FilesAlone ==
    ASSUME TypeOK, ManifestFiles, NewestFirst, man' = man, now' \in {now, now + 1}, now' \in Nat,
           draft'.expires <= now' + 1,
           \/ holder' \in {"none", "sweep"}
           \/ \A n \in ManifestName : Valid(n) => Replaces(draft', man[n])
    PROVE  NewestFirst'
<1>1. \A n \in ManifestName : Valid(n)' = Valid(n)
  BY DEF Valid
<1>2. \A n \in ManifestName : Valid(n) => man[n].expires <= now' + 1
  BY ManifestFacts DEF NewestFirst, TypeOK, Valid
<1>3. \A m, n : Replaces(m, n)' = Replaces(m, n)
  BY DEF Replaces, NoOlder
<1> QED BY <1>1, <1>2, <1>3 DEF NewestFirst, Replaces, NoOlder, ManifestName

\* Outside write_manifest and the removal of the manifests no step touches the three files.
NotAtFiles ==
    \/ Call \/ AppendBytes \/ CommitRename \/ DropPart \/ DropFinal \/ StoreAsset
    \/ IngestDocument \/ LinkDocument \/ RecordExtraction \/ IngestUnparsed \/ Finalize
    \/ Cleanup \/ Undo \/ SweepLook \/ SweepLock \/ Tick

LEMMA LeavesFiles == NotAtFiles => man' = man
<1> SUFFICES ASSUME NotAtFiles PROVE man' = man
  OBVIOUS
<1>1. CASE Call
  BY <1>1 DEF Call, Prepare, Append, Commit, Abort, Replay, Ingest, files
<1>2. CASE AppendBytes \/ CommitRename \/ DropPart \/ DropFinal \/ IngestUnparsed \/ Finalize
           \/ Cleanup \/ Undo
  BY <1>2 DEF AppendBytes, CommitRename, DropPart, DropFinal, IngestUnparsed, Finalize, Cleanup,
              Undo, files
<1>3. CASE StoreAsset \/ IngestDocument \/ LinkDocument \/ RecordExtraction
  BY <1>3 DEF StoreAsset, IngestDocument, LinkDocument, RecordExtraction, Do, files
<1>4. CASE SweepLook \/ SweepLock \/ Tick
  BY <1>4 DEF SweepLook, SweepLock, Tick, files
<1> QED BY <1>1, <1>2, <1>3, <1>4 DEF NotAtFiles

\* None of them goes to the middle of a write.
LEMMA BeforeFiles ==
    ASSUME TypeOK, OperationSteps, ManifestFiles, NotAtFiles
    PROVE  /\ step' \in {"drop", "back", "swap", "place", "tidy"} =>
                  step' = step /\ draft' = draft
           /\ holder' = "prepare" => man["primary"] = Absent /\ man["bak"] = Absent
<1> SUFFICES
      /\ \/ UNCHANGED <<step, holder, draft>>
         \/ step' \notin {"drop", "back", "swap", "place", "tidy"}
      /\ holder' = "prepare" => holder = "prepare" \/ Prepare
  BY DEF ManifestFiles, Prepare, ManifestName
<1>1. CASE Call
  BY <1>1 DEF Call, Prepare, Append, Commit, Abort, Replay, Ingest, Lock
<1>2. CASE AppendBytes \/ CommitRename \/ DropPart \/ DropFinal \/ IngestUnparsed \/ Finalize
           \/ Cleanup \/ Undo
  BY <1>2 DEF AppendBytes, CommitRename, DropPart, DropFinal, IngestUnparsed, Finalize, Cleanup,
              Undo, Continue, Release, At
<1>3. CASE StoreAsset \/ IngestDocument \/ LinkDocument \/ RecordExtraction
  BY <1>3 DEF StoreAsset, IngestDocument, LinkDocument, RecordExtraction, Do, Continue, At
<1>4. CASE SweepLook \/ SweepLock \/ Tick
  BY <1>4 DEF SweepLook, SweepLock, Tick, Lock
<1> QED BY <1>1, <1>2, <1>3, <1>4 DEF NotAtFiles

LEMMA ManifestStep == TypeOK /\ UploadInv /\ [Next]_vars => ManifestFiles'
<1> SUFFICES ASSUME TypeOK, OperationSteps, ManifestFiles, Next PROVE ManifestFiles'
  BY DEF UploadInv, vars, files, ManifestFiles, Valid
<1>1. CASE NotAtFiles
  <2>1. man' = man
    BY <1>1, LeavesFiles
  <2> QED BY <1>1, <2>1, BeforeFiles DEF ManifestFiles, Valid
<1> USE DEF TypeOK, ManifestFiles, Valid, ManifestName, OperationSteps, Writing, WriteStep,
            UnchangedByWrite, Continue, Release
<1>2. CASE Clean \/ Fill
  BY <1>2 DEF Clean, Fill
<1>3. CASE Drop \/ Back
  BY <1>3 DEF Drop, Back
<1>4. CASE Swap \/ Tidy
  BY <1>4 DEF Swap, Tidy, AfterWrite
<1>5. CASE WriteFails
  BY <1>5 DEF WriteFails
<1>6. CASE DropManifests
  BY <1>6 DEF DropManifests, DropManifest
<1>7. CASE Interrupt
  BY <1>7 DEF Interrupt
<1> QED BY <1>1, <1>2, <1>3, <1>4, <1>5, <1>6, <1>7 DEF Next, Proceed, NotAtFiles

\* The manifest in memory stays newer than the files while its operation works on it.
LEMMA DraftNewest ==
    ASSUME TypeOK, OperationSteps, ManifestFiles, NewestFirst, ReceiptSoFar, NotAtFiles
    PROVE  \/ holder' \in {"none", "sweep"}
           \/ \A n \in ManifestName : Valid(n) => Replaces(draft', man[n])
<1> USE DEF TypeOK
<1>1. CASE Call
  <2>1. CASE Prepare
    BY <2>1 DEF Prepare, Valid
  <2>2. SUFFICES ASSUME Found, Loaded \in Manifest,
                        \A n \in ManifestName : Valid(n) => Replaces(Loaded, man[n]),
                        NEW n \in ManifestName, Valid(n), ~Prepare
                 PROVE  Replaces(draft', man[n])
    BY <1>1, <2>1, LoadedFacts, LoadedNewest DEF Call, Commit, Abort, Replay, Append, Ingest, Open,
       Known
  <2>3. Replaces(Loaded, man[n]) /\ man[n] \in Manifest
    BY <2>2 DEF Valid
  <2>4. CASE \E k \in 1..Size : Append(k)
    BY <2>2, <2>3, <2>4, ManifestFacts DEF Append, Replaces, NoOlder, Manifest
  <2>5. CASE Commit
    BY <2>2, <2>3, <2>5, ManifestFacts DEF Commit, Open, Replaces, NoOlder, Manifest
  <2>6. CASE Abort
    BY <2>2, <2>3, <2>6, ManifestFacts DEF Abort, Replaces, NoOlder, Manifest
  <2>7. CASE Replay
    BY <2>2, <2>3, <2>7 DEF Replay
  <2>8. CASE \E store, retain \in BOOLEAN : Ingest(store, retain)
    BY <2>2, <2>3, <2>8, ManifestFacts DEF Ingest, Replaces, NoOlder, Manifest
  <2> QED BY <1>1, <2>2, <2>4, <2>5, <2>6, <2>7, <2>8 DEF Call
<1>2. CASE AppendBytes \/ CommitRename \/ DropPart \/ Undo
  BY <1>2 DEF AppendBytes, CommitRename, DropPart, Undo, Continue, Release, NewestFirst,
              OperationSteps, Writing, WriteStep
<1>3. CASE DropFinal
  BY <1>3, ManifestFacts DEF DropFinal, Continue, NewestFirst, Replaces, NoOlder, Manifest, Valid
<1>4. ASSUME NEW command, NEW next, NEW outcome, Do(command, next, outcome)
      PROVE  \A n \in ManifestName : Valid(n) => Replaces(draft', man[n])
  <2>1. /\ holder = "ingest" /\ draft'.received = draft.received /\ draft'.status = draft.status
        /\ draft'.expires = draft.expires
    BY <1>4 DEF Do, At, Manifest
  <2> QED BY <2>1 DEF NewestFirst, Replaces, NoOlder
<1>5. CASE StoreAsset \/ IngestDocument \/ LinkDocument \/ RecordExtraction
  BY <1>4, <1>5 DEF StoreAsset, IngestDocument, LinkDocument, RecordExtraction
<1>6. CASE IngestUnparsed
  <2>1. /\ holder = "ingest" /\ draft'.received = draft.received /\ draft'.status = draft.status
        /\ draft'.expires = draft.expires
    BY <1>6 DEF IngestUnparsed, At, Manifest
  <2> QED BY <2>1 DEF NewestFirst, Replaces, NoOlder
<1>7. CASE Finalize
  <2>1. holder = "ingest" /\ draft.status = "committed"
    BY <1>7 DEF Finalize, At, ReceiptSoFar
  <2> QED BY <1>7, <2>1, ManifestFacts DEF Finalize, NewestFirst, Replaces, NoOlder, Manifest,
             Valid
<1>8. CASE Cleanup
  <2>1. /\ holder \notin {"none", "sweep"} /\ draft'.received = draft.received
        /\ draft'.status = draft.status /\ draft'.expires = draft.expires
    BY <1>8 DEF Cleanup, Manifest, OperationSteps
  <2> QED BY <2>1 DEF NewestFirst, Replaces, NoOlder
<1>9. CASE SweepLook \/ SweepLock \/ Tick
  BY <1>9 DEF SweepLook, SweepLock, Tick, Lock, NewestFirst
<1> QED BY <1>1, <1>2, <1>3, <1>5, <1>6, <1>7, <1>8, <1>9 DEF NotAtFiles

\* Every deadline is at most one tick away.
LEMMA DraftDeadline ==
    ASSUME TypeOK, OperationSteps, ManifestFiles, NewestFirst, NotAtFiles
    PROVE  now' \in {now, now + 1} /\ now' \in Nat /\ draft'.expires <= now' + 1
<1> USE DEF TypeOK
<1>1. CASE Call
  <2>1. now' = now
    BY <1>1 DEF Call, Prepare, Append, Commit, Abort, Replay, Ingest
  <2>2. CASE Prepare
    BY <2>1, <2>2, ManifestFacts DEF Prepare, NoManifest
  <2>3. CASE ~Prepare
    <3>1. Loaded \in Manifest /\ draft'.expires = Loaded.expires
      BY <1>1, <2>3, LoadedFacts DEF Call, Commit, Abort, Replay, Append, Ingest, Open, Known,
         Manifest
    <3>2. Loaded.expires <= now + 1
      BY <1>1, <2>3, LoadedFacts DEF Call, Commit, Abort, Replay, Append, Ingest, Open, Known,
         NewestFirst
    <3> QED BY <2>1, <3>1, <3>2
  <2> QED BY <2>2, <2>3
<1>2. CASE AppendBytes \/ CommitRename \/ DropPart \/ Undo
  BY <1>2 DEF AppendBytes, CommitRename, DropPart, Undo, NewestFirst
<1>3. CASE DropFinal \/ Finalize
  <2>1. now' = now /\ (draft' = draft \/ draft'.expires = now + 1)
    BY <1>3 DEF DropFinal, Finalize, Manifest
  <2> QED BY <2>1 DEF NewestFirst
<1>4. ASSUME NEW command, NEW next, NEW outcome, Do(command, next, outcome)
      PROVE  now' = now /\ draft'.expires = draft.expires
  BY <1>4 DEF Do, Manifest
<1>5. CASE StoreAsset \/ IngestDocument \/ LinkDocument \/ RecordExtraction
  BY <1>4, <1>5 DEF StoreAsset, IngestDocument, LinkDocument, RecordExtraction, NewestFirst
<1>6. CASE IngestUnparsed \/ Cleanup
  BY <1>6 DEF IngestUnparsed, Cleanup, NewestFirst, Manifest
<1>7. CASE SweepLook \/ SweepLock
  BY <1>7 DEF SweepLook, SweepLock, NewestFirst
<1>8. CASE Tick
  BY <1>8, ManifestFacts DEF Tick, NewestFirst
<1> QED BY <1>1, <1>2, <1>3, <1>5, <1>6, <1>7, <1>8 DEF NotAtFiles

\* write_manifest moves the newest manifest down, and the older ones away.
LEMMA NewestStep == TypeOK /\ UploadInv /\ [Next]_vars => NewestFirst'
<1> SUFFICES ASSUME TypeOK, OperationSteps, ManifestFiles, NewestFirst, ReceiptSoFar, Next
             PROVE  NewestFirst'
  BY DEF UploadInv, vars, files, NewestFirst, Valid
<1>1. CASE NotAtFiles
  BY <1>1, LeavesFiles, DraftNewest, DraftDeadline, FilesAlone
<1>2. SUFFICES ASSUME now' = now, draft' = draft, holder' \in {holder, "none"}, ~NotAtFiles
               PROVE  NewestFirst'
  BY <1>1 DEF Next, Proceed, NotAtFiles, Clean, Fill, Drop, Back, Swap, Tidy, WriteFails,
     DropManifests, DropManifest, Interrupt, UnchangedByWrite, AfterWrite, Continue, Release
<1>3. Replaces(draft, draft)
  BY ManifestFacts DEF Replaces, NoOlder, TypeOK
<1> USE DEF TypeOK, NewestFirst, Valid, ManifestName
<1>4. CASE Clean \/ Drop \/ Tidy \/ DropManifests
  BY <1>2, <1>4 DEF Clean, Drop, Tidy, DropManifests, DropManifest
<1>5. CASE Fill
  <2>1. holder \notin {"none", "sweep"}
    BY <1>5 DEF Fill, OperationSteps
  <2> QED BY <1>2, <1>3, <1>5, <2>1 DEF Fill
<1>6. CASE Back
  BY <1>2, <1>6 DEF Back
<1>7. CASE Swap
  BY <1>2, <1>7 DEF Swap
<1>8. CASE WriteFails \/ Interrupt
  BY <1>2, <1>8 DEF WriteFails, Interrupt, WriteStep
<1> QED BY <1>2, <1>4, <1>5, <1>6, <1>7, <1>8 DEF Next, Proceed, NotAtFiles

LEMMA SameFiles ==
    man' = man => /\ Loaded' = Loaded /\ Found' = Found
                  /\ \A n \in ManifestName : Valid(n)' = Valid(n)
BY DEF Loaded, Found, Valid

\* A sweep that gets the lock has looked again, and the clock only helps it.
LEMMA SweepStep == TypeOK /\ UploadInv /\ [Next]_vars => SweepsExpired'
<1> SUFFICES ASSUME TypeOK, OperationSteps, ManifestFiles, NewestFirst, SweepsExpired, Next,
                    holder' = "sweep"
             PROVE  SweepsExpired'
  BY SameFiles DEF UploadInv, vars, files, SweepsExpired
<1> USE DEF TypeOK
<1>1. CASE SweepLock /\ holder # "sweep"
  <2>1. man' = man /\ now' = now /\ Found /\ Expired
    BY <1>1 DEF SweepLock, files
  <2>2. \A n \in ManifestName : Valid(n) => man[n].expires < now
    BY <2>1, LoadedNewest, LoadedFacts, ManifestFacts DEF Expired, Replaces, Valid
  <2> QED BY <2>1, <2>2, SameFiles DEF SweepsExpired
<1>2. CASE DropManifests
  BY <1>2 DEF DropManifests, DropManifest, SweepsExpired, Valid, ManifestName, Continue, Release
<1>3. CASE Tick
  BY <1>3, SameFiles, ManifestFacts DEF Tick, SweepsExpired, files, Valid
<1>4. CASE SweepLook \/ (SweepLock /\ holder = "sweep") \/ DropPart \/ DropFinal
  <2>1. man' = man /\ now' = now /\ holder = "sweep"
    BY <1>4 DEF SweepLook, SweepLock, DropPart, DropFinal, files, Continue
  <2>2. step' \in {"drop_part", "drop_final"} => step \in {"drop_part", "drop_final"}
    BY <1>4 DEF SweepLook, SweepLock, DropPart, DropFinal, Continue, Free
  <2> QED BY <2>1, <2>2, SameFiles DEF SweepsExpired
<1>5. CASE Call
  BY <1>5 DEF Call, Prepare, Append, Commit, Abort, Replay, Ingest, Lock
<1>6. CASE \/ AppendBytes \/ CommitRename \/ StoreAsset \/ IngestDocument \/ LinkDocument
           \/ RecordExtraction \/ IngestUnparsed \/ Finalize \/ Cleanup \/ Undo
  BY <1>6 DEF AppendBytes, CommitRename, StoreAsset, IngestDocument, LinkDocument,
              RecordExtraction, Do, IngestUnparsed, Finalize, Cleanup, Undo, At, Continue, Release
<1>7. CASE Clean \/ Fill \/ Drop \/ Back \/ Swap \/ Tidy \/ WriteFails \/ Interrupt
  BY <1>7 DEF Clean, Fill, Drop, Back, Swap, Tidy, WriteFails, Interrupt, AfterWrite, Continue,
              Release, OperationSteps, WriteStep
<1> QED BY <1>1, <1>2, <1>3, <1>4, <1>5, <1>6, <1>7 DEF Next, Proceed

\* Where the bytes are, from the lock to the last step of each operation.
LEMMA BytesStep == TypeOK /\ UploadInv /\ [Next]_vars => StagedBytes'
<1> SUFFICES ASSUME TypeOK, OperationSteps, ManifestFiles, StagedBytes, ReceiptSoFar, Next
             PROVE  StagedBytes'
  BY SameFiles DEF UploadInv, vars, files, StagedBytes, At
<1> USE SameFiles DEF TypeOK, StagedBytes, At, files
<1>1. CASE Call
  <2>1. UNCHANGED <<man, part, final>>
    BY <1>1 DEF Call, Prepare, Append, Commit, Abort, Replay, Ingest
  <2>2. CASE \E n \in 1..Size : Append(n)
    <3>1. Loaded \in Manifest
      BY <2>2, LoadedFacts DEF Append, Open, Known
    <3> QED BY <2>1, <2>2, <3>1, ManifestFacts DEF Append, Lock, Manifest, Command
  <2>3. CASE Commit
    BY <2>1, <2>3 DEF Commit, Lock, Open, Known, Command
  <2>4. CASE Prepare \/ Abort
    BY <2>1, <2>4 DEF Prepare, Abort, Lock, Command
  <2>5. CASE Replay
    BY <2>1, <2>5 DEF Replay, Lock, Known, Command
  <2>6. CASE \E store, retain \in BOOLEAN : Ingest(store, retain)
    BY <2>1, <2>6 DEF Ingest, Lock, Command
  <2> QED BY <1>1, <2>2, <2>3, <2>4, <2>5, <2>6 DEF Call
<1>2. CASE AppendBytes \/ CommitRename \/ Undo
  BY <1>2 DEF AppendBytes, CommitRename, Undo, Continue, Release
<1>3. CASE DropPart \/ DropFinal
  BY <1>3 DEF DropPart, DropFinal, Continue, OperationSteps, Writing, WriteStep, Command
<1>4. CASE StoreAsset \/ IngestDocument \/ LinkDocument \/ RecordExtraction \/ IngestUnparsed
           \/ Finalize
  BY <1>4 DEF StoreAsset, IngestDocument, LinkDocument, RecordExtraction, Do, IngestUnparsed,
              Finalize, Continue, Command
<1>5. CASE Cleanup
  BY <1>5 DEF Cleanup, Command
<1>6. CASE Clean \/ Fill \/ Drop \/ Back
  BY <1>6 DEF Clean, Fill, Drop, Back, UnchangedByWrite, Continue, Command
<1>7. CASE Swap \/ Tidy
  <2>1. UNCHANGED <<part, final, draft>> /\ step \in {"swap", "place", "tidy"}
    BY <1>7 DEF Swap, Tidy, UnchangedByWrite
  <2>2. step' = "cleanup" => /\ holder = "ingest" /\ step \in {"place", "tidy"}
                             /\ man'["primary"] = draft /\ man'["tmp"] = Absent
    BY <1>7 DEF Swap, Tidy, AfterWrite, Continue, Release, ManifestFiles, ManifestName
  <2>3. step' = "cleanup" => Found' /\ Loaded' = draft
    BY <2>2 DEF Found, Loaded
  <2>4. \/ holder' = "none"
        \/ holder' = holder /\ step' \in {"tidy", "cleanup"}
    BY <1>7 DEF Swap, Tidy, AfterWrite, Continue, Release
  <2>5. step' = "cleanup" => draft.status = "ingested"
    BY <2>1, <2>2 DEF ReceiptSoFar, Writing, WriteStep
  <2> QED BY <2>1, <2>2, <2>3, <2>4, <2>5 DEF Command
<1>8. CASE DropManifests
  BY <1>8 DEF DropManifests, DropManifest, Continue, Release, OperationSteps, Writing, WriteStep,
              Command
<1>9. CASE WriteFails
  BY <1>9 DEF WriteFails, Continue, Release, WriteStep
<1>10. CASE Interrupt
  BY <1>10 DEF Interrupt, Release
<1>11. CASE SweepLook \/ SweepLock \/ Tick
  BY <1>11 DEF SweepLook, SweepLock, Tick, Lock, Free
<1> QED BY <1>1, <1>2, <1>3, <1>4, <1>5, <1>6, <1>7, <1>8, <1>9, <1>10, <1>11 DEF Next, Proceed

\* Nothing takes back what an ingest made the writer commit.
LEMMA CommitsStay == Next => db \subseteq db'
<1> SUFFICES ASSUME Next PROVE db \subseteq db'
  OBVIOUS
<1>1. CASE Call
  BY <1>1 DEF Call, Prepare, Append, Commit, Abort, Replay, Ingest
<1>2. CASE Proceed
  BY <1>2 DEF Proceed, AppendBytes, CommitRename, DropPart, DropFinal, StoreAsset,
              IngestDocument, LinkDocument, RecordExtraction, Do, IngestUnparsed, Finalize,
              Cleanup, Clean, Fill, Drop, Back, Swap, Tidy, Undo, DropManifests, DropManifest,
              UnchangedByWrite, files
<1>3. CASE WriteFails \/ SweepLook \/ SweepLock \/ Interrupt \/ Tick
  BY <1>3 DEF WriteFails, SweepLook, SweepLock, Interrupt, Tick
<1> QED BY <1>1, <1>2, <1>3 DEF Next

\* What an ingest has in memory of its receipt, when one of its commands commits.
LEMMA CommandDraft ==
    ASSUME TypeOK, ReceiptSoFar,
           \/ StoreAsset \/ IngestDocument \/ LinkDocument \/ RecordExtraction \/ IngestUnparsed
    PROVE  /\ holder = "ingest" /\ holder' = "ingest" /\ draft'.status = "committed"
           /\ draft'.receipt.stored = draft.receipt.stored
           /\ draft.receipt \in Receipt /\ draft'.receipt \in Receipt
           /\ StoreAsset => /\ step' = "document" /\ db' = db \cup {"asset"}
                            /\ draft'.receipt.outcome = "none"
           /\ IngestDocument =>
                /\ step = "document" /\ db' = db \cup {"document"}
                /\ step' = IF draft.receipt.stored THEN "link" ELSE "finalize"
                /\ draft'.receipt.outcome = "extracted"
           /\ LinkDocument => /\ step = "link" /\ step' = "extraction" /\ db' = db \cup {"link"}
                              /\ draft'.receipt.outcome = "extracted"
           /\ RecordExtraction =>
                /\ step = "extraction" /\ step' = "finalize" /\ db' = db \cup {"extraction"}
                /\ draft'.receipt.outcome = draft.receipt.outcome
           /\ IngestUnparsed =>
                /\ step = "document" /\ step' = "extraction" /\ db' = db /\ draft.receipt.stored
                /\ draft'.receipt.outcome = "unparsed"
<1>1. draft \in Manifest /\ draft.receipt \in Receipt
  BY ManifestFacts DEF TypeOK
<1>2. ASSUME NEW command, NEW next, NEW outcome \in Outcome, Do(command, next, outcome)
      PROVE  /\ holder = "ingest" /\ holder' = "ingest" /\ step = command /\ step' = next
             /\ db' = db \cup {command} /\ draft'.status = draft.status
             /\ draft'.receipt = [draft.receipt EXCEPT !.outcome = outcome]
             /\ draft'.receipt.outcome = outcome /\ draft'.receipt \in Receipt
             /\ draft'.receipt.stored = draft.receipt.stored
  BY <1>1, <1>2 DEF Do, At, Continue, Manifest, Receipt
<1>3. StoreAsset => Do("asset", "document", "none") /\ "none" \in Outcome
  BY DEF StoreAsset, Outcome
<1>4. IngestDocument => /\ \E next : /\ next = IF draft.receipt.stored THEN "link" ELSE "finalize"
                                     /\ Do("document", next, "extracted")
                        /\ "extracted" \in Outcome
  BY DEF IngestDocument, Outcome
<1>5. LinkDocument => Do("link", "extraction", "extracted") /\ "extracted" \in Outcome
  BY DEF LinkDocument, Outcome
<1>6. RecordExtraction => /\ Do("extraction", "finalize", draft.receipt.outcome)
                          /\ draft.receipt.outcome \in Outcome
  BY <1>1, ManifestFacts DEF RecordExtraction
<1>7. IngestUnparsed => /\ holder = "ingest" /\ holder' = "ingest" /\ draft'.status = draft.status
                        /\ step = "document" /\ step' = "extraction" /\ db' = db
                        /\ draft.receipt.stored
                        /\ draft'.receipt = [draft.receipt EXCEPT !.outcome = "unparsed"]
                        /\ draft'.receipt.outcome = "unparsed" /\ draft'.receipt \in Receipt
                        /\ draft'.receipt.stored = draft.receipt.stored
  <2>1. [draft.receipt EXCEPT !.outcome = "unparsed"] \in Receipt
    BY <1>1 DEF Receipt, Outcome
  <2>2. IngestUnparsed =>
          /\ holder = "ingest" /\ holder' = "ingest" /\ step = "document" /\ step' = "extraction"
          /\ db' = db /\ draft.receipt.stored
          /\ draft' = [draft EXCEPT !.receipt = [draft.receipt EXCEPT !.outcome = "unparsed"]]
    BY DEF IngestUnparsed, At, Continue
  <2> QED BY <1>1, <2>1, <2>2 DEF Manifest, Receipt
<1>8. holder = "ingest" /\ step \in Command => draft.status = "committed"
  BY DEF ReceiptSoFar
<1>9. /\ holder = "ingest" /\ holder' = "ingest" /\ draft'.status = draft.status
      /\ draft'.receipt.stored = draft.receipt.stored /\ draft'.receipt \in Receipt
      /\ step \in Command
  <2>1. CASE StoreAsset
    BY <1>2, <1>3, <2>1 DEF Command
  <2>2. CASE IngestDocument
    BY <1>2, <1>4, <2>2 DEF Command
  <2>3. CASE LinkDocument
    BY <1>2, <1>5, <2>3 DEF Command
  <2>4. CASE RecordExtraction
    BY <1>2, <1>6, <2>4 DEF Command
  <2>5. CASE IngestUnparsed
    BY <1>7, <2>5 DEF Command
  <2> QED BY <2>1, <2>2, <2>3, <2>4, <2>5
<1>10. StoreAsset => /\ step' = "document" /\ db' = db \cup {"asset"}
                     /\ draft'.receipt.outcome = "none"
  BY <1>2, <1>3
<1>11. IngestDocument => /\ step = "document" /\ db' = db \cup {"document"}
                         /\ step' = IF draft.receipt.stored THEN "link" ELSE "finalize"
                         /\ draft'.receipt.outcome = "extracted"
  BY <1>2, <1>4
<1>12. LinkDocument => /\ step = "link" /\ step' = "extraction" /\ db' = db \cup {"link"}
                       /\ draft'.receipt.outcome = "extracted"
  BY <1>2, <1>5
<1>13. RecordExtraction => /\ step = "extraction" /\ step' = "finalize"
                           /\ db' = db \cup {"extraction"}
                           /\ draft'.receipt.outcome = draft.receipt.outcome
  BY <1>2, <1>6
<1> QED BY <1>1, <1>7, <1>8, <1>9, <1>10, <1>11, <1>12, <1>13

\* An ingest's commands leave a committed draft, and make the receipt true step by step.
LEMMA SoFarStep == TypeOK /\ UploadInv /\ [Next]_vars => ReceiptSoFar'
<1> SUFFICES ASSUME TypeOK, OperationSteps, ManifestFiles, ReceiptSoFar, Next, holder' = "ingest"
             PROVE  ReceiptSoFar'
  BY DEF UploadInv, vars, ReceiptSoFar, Truthful, Writing
<1>1. CASE StoreAsset \/ IngestDocument \/ LinkDocument \/ RecordExtraction \/ IngestUnparsed
  BY <1>1, CommandDraft DEF ReceiptSoFar, Truthful, Writing, WriteStep
<1>2. ASSUME NEW store \in BOOLEAN, NEW retain \in BOOLEAN, Ingest(store, retain)
      PROVE  ReceiptSoFar'
  <2>1. Loaded \in Manifest
    BY <1>2, LoadedFacts DEF Ingest, Known
  <2>2. /\ draft'.status = "committed" /\ draft'.receipt.stored = store
        /\ draft'.receipt.outcome = "none"
    BY <1>2, <2>1 DEF Ingest, Manifest, NoReceipt, Receipt
  <2>3. step' = IF store THEN "asset" ELSE "document"
    BY <1>2 DEF Ingest, Lock
  <2> QED BY <2>2, <2>3 DEF ReceiptSoFar, Writing, WriteStep
<1>3. CASE Finalize
  <2>1. step' = "clean" /\ draft'.status = "ingested"
    BY <1>3 DEF Finalize, Continue, TypeOK, Manifest
  <2> QED BY <2>1 DEF ReceiptSoFar, Command
<1>4. CASE Clean \/ Fill \/ Drop \/ Back \/ Swap \/ Tidy
  <2>1. holder = "ingest" /\ step \in WriteStep /\ draft' = draft /\ db' = db
    BY <1>4 DEF Clean, Fill, Drop, Back, Swap, Tidy, UnchangedByWrite, AfterWrite, Continue,
                Release, WriteStep
  <2>2. step' \in WriteStep \cup {"cleanup"}
    BY <1>4 DEF Clean, Fill, Drop, Back, Swap, Tidy, AfterWrite, Continue, Release, WriteStep
  <2> QED BY <2>1, <2>2 DEF ReceiptSoFar, Writing, WriteStep, Command
<1>5. CASE SweepLook \/ SweepLock \/ Tick
  BY <1>5 DEF SweepLook, SweepLock, Tick, Lock, files, ReceiptSoFar, Truthful, Writing
<1>6. CASE Prepare \/ (\E n \in 1..Size : Append(n)) \/ Commit \/ Abort \/ Replay
  BY <1>6 DEF Prepare, Append, Commit, Abort, Replay, Lock
<1>7. CASE AppendBytes \/ CommitRename \/ DropPart \/ DropFinal \/ Cleanup \/ Undo
  BY <1>7 DEF AppendBytes, CommitRename, DropPart, DropFinal, Cleanup, Undo, At, Continue, Release,
              OperationSteps, Writing, WriteStep, Command
<1>8. CASE DropManifests \/ WriteFails \/ Interrupt
  BY <1>8 DEF DropManifests, DropManifest, WriteFails, Interrupt, Continue, Release,
              OperationSteps, Writing, WriteStep, Command
<1> QED BY <1>1, <1>2, <1>3, <1>4, <1>5, <1>6, <1>7, <1>8 DEF Next, Call, Proceed

\* A receipt in a file came from memory, and what was committed stays committed.
LEMMA ReceiptsStep == TypeOK /\ UploadInv /\ [Next]_vars => Receipts'
<1> SUFFICES ASSUME TypeOK, OperationSteps, ManifestFiles, StagedBytes, Receipts, ReceiptSoFar, Next
             PROVE  Receipts'
  BY DEF UploadInv, vars, files, Receipts, Truthful, Valid
<1>1. \A m \in Manifest : Truthful(m.receipt, db) => Truthful(m.receipt, db')
  BY CommitsStay DEF Truthful
<1>2. draft'.status = "ingested" => Truthful(draft'.receipt, db')
  <2>1. CASE draft' = draft
    BY <1>1, <2>1 DEF Receipts, TypeOK
  <2>2. CASE Prepare \/ (\E n \in 1..Size : Append(n)) \/ Commit \/ Abort
    BY <2>2, LoadedFacts, ManifestFacts DEF Prepare, Append, Commit, Abort, Open, Known, Manifest,
       NoManifest
  <2>3. CASE Replay
    BY <1>1, <2>3, LoadedFacts DEF Replay, Known, Receipts
  <2>4. CASE \E store, retain \in BOOLEAN : Ingest(store, retain)
    BY <2>4, LoadedFacts DEF Ingest, Known, Manifest
  <2>5. CASE StoreAsset \/ IngestDocument \/ LinkDocument \/ RecordExtraction \/ IngestUnparsed
    BY <2>5, CommandDraft
  <2>6. CASE Finalize
    <3>1. Truthful(draft.receipt, db) /\ draft'.receipt = draft.receipt
      BY <2>6 DEF Finalize, At, ReceiptSoFar, TypeOK, Manifest
    <3> QED BY <1>1, <3>1 DEF TypeOK
  <2>7. CASE Cleanup
    <3>1. /\ Truthful(draft.receipt, db) /\ draft'.receipt.outcome = draft.receipt.outcome
          /\ draft'.receipt.stored = draft.receipt.stored
      BY <2>7, ManifestFacts DEF Cleanup, Receipts, StagedBytes, TypeOK, Manifest, Receipt
    <3> QED BY <3>1, CommitsStay DEF Truthful
  <2>8. CASE DropFinal
    <3>1. draft' = draft \/ draft'.receipt = NoReceipt
      BY <2>8 DEF DropFinal, TypeOK, Manifest
    <3> QED BY <2>1, <3>1 DEF Truthful, NoReceipt
  <2>9. CASE \/ AppendBytes \/ CommitRename \/ DropPart \/ Undo \/ Clean \/ Fill \/ Drop \/ Back
             \/ Swap \/ Tidy \/ DropManifests \/ WriteFails \/ SweepLook \/ SweepLock \/ Interrupt
             \/ Tick
    BY <2>1, <2>9 DEF AppendBytes, CommitRename, DropPart, Undo, Clean, Fill, Drop, Back, Swap,
       Tidy, DropManifests, DropManifest, WriteFails, SweepLook, SweepLock, Interrupt, Tick,
       UnchangedByWrite
  <2> QED BY <2>2, <2>3, <2>4, <2>5, <2>6, <2>7, <2>8, <2>9 DEF Next, Call, Proceed
<1>3. \A n \in ManifestName :
        Valid(n)' => man'[n] = draft \/ \E k \in ManifestName : Valid(k) /\ man'[n] = man[k]
  <2>1. CASE NotAtFiles
    BY <2>1, LeavesFiles DEF Valid
  <2>2. CASE Clean \/ Fill \/ Drop \/ Back \/ Swap \/ Tidy
    BY <2>2 DEF Clean, Fill, Drop, Back, Swap, Tidy, Valid, ManifestName, TypeOK
  <2>3. CASE DropManifests \/ WriteFails \/ Interrupt
    BY <2>3 DEF DropManifests, DropManifest, WriteFails, Interrupt, Valid, ManifestName, TypeOK,
       WriteStep
  <2> QED BY <2>1, <2>2, <2>3 DEF Next, Proceed, NotAtFiles
<1>4. \A n \in ManifestName :
        Valid(n)' /\ man'[n].status = "ingested" => Truthful(man'[n].receipt, db')
  BY <1>1, <1>3 DEF Receipts, TypeOK, Valid
<1> QED BY <1>2, <1>4 DEF Receipts

LEMMA UploadInit == Init => TypeOK /\ UploadInv
<1> SUFFICES ASSUME Init PROVE TypeOK /\ UploadInv
  OBVIOUS
<1> USE ManifestFacts DEF Init
<1>1. \A n \in ManifestName : man[n] = Absent /\ ~Valid(n)
  BY DEF Valid
<1>2. TypeOK
  <2>1. man \in [ManifestName -> Manifest \cup {Absent, Cut}]
    OBVIOUS
  <2>2. now \in 0..MaxTime /\ faults \in 0..MaxFaults /\ 0 \in 0..Size /\ db \subseteq Command
    OBVIOUS
  <2> QED BY <2>1, <2>2 DEF TypeOK, Step
<1>3. OperationSteps /\ SweepsExpired
  BY DEF OperationSteps, SweepsExpired
<1>4. ManifestFiles
  BY <1>1 DEF ManifestFiles, ManifestName
<1>5. NewestFirst
  BY <1>1 DEF NewestFirst, ManifestName, NoManifest
<1>6. StagedBytes
  BY DEF StagedBytes, At
<1>7. Receipts /\ ReceiptSoFar
  BY <1>1 DEF Receipts, ReceiptSoFar, NoManifest
<1> QED BY <1>2, <1>3, <1>4, <1>5, <1>6, <1>7 DEF UploadInv

LEMMA UploadInvariant == Spec => [](TypeOK /\ UploadInv)
<1>1. TypeOK /\ UploadInv /\ [Next]_vars => (TypeOK /\ UploadInv)'
  BY UploadTypeStep, OperationStep, ManifestStep, NewestStep, SweepStep, BytesStep, SoFarStep,
     ReceiptsStep DEF UploadInv
<1> QED BY <1>1, UploadInit, PTL DEF Spec

\* The document that an ingest hands to the writer is the whole announced file, whatever was cut
\* off while it was uploaded or committed (commit_upload, ingest_upload).
THEOREM WholeFilesIngested == Spec => []IngestsWholeFile
<1>1. TypeOK /\ UploadInv => IngestsWholeFile
  BY DEF UploadInv, StagedBytes, OperationSteps, Writing, IngestsWholeFile
<1> QED BY <1>1, UploadInvariant, PTL

\* A receipt that any crash leaves behind tells the truth about the database
\* (ingest_upload, finalize_ingested_upload).
THEOREM ReceiptsAreTrue == Spec => []ReceiptIsTrue
<1>1. TypeOK /\ UploadInv => ReceiptIsTrue
  BY LoadedFacts DEF UploadInv, Receipts, Truthful, ReceiptIsTrue
<1> QED BY <1>1, UploadInvariant, PTL

\* A known upload that has not expired keeps a manifest, and outside tmp it is no older one.
LEMMA RollBackStep ==
    TypeOK /\ UploadInv /\ [Next]_vars =>
        [Known /\ ~Expired /\ man["tmp"] \notin Manifest => Found' /\ NoOlder(Loaded', Loaded)]_vars
<1> SUFFICES ASSUME TypeOK, UploadInv, Next, Known, ~Expired, ~Valid("tmp")
             PROVE  Found' /\ NoOlder(Loaded', Loaded)
  BY DEF Valid
<1>1. Found /\ Loaded \in Manifest /\ (Valid("primary") \/ Valid("bak"))
  BY LoadedFacts DEF UploadInv, Known
<1>2. NoOlder(Loaded, Loaded)
  BY <1>1 DEF NoOlder, Manifest
<1>3. CASE NotAtFiles
  BY <1>1, <1>2, <1>3, LeavesFiles, SameFiles
<1>4. ASSUME man'["tmp"] \notin Manifest, man'["primary"] = man["primary"], man'["bak"] = man["bak"]
      PROVE  Found' /\ NoOlder(Loaded', Loaded)
  <2>1. Loaded' = Loaded
    BY <1>1, <1>4, LoadedFacts DEF Loaded, Valid, UploadInv
  <2> QED BY <1>1, <1>2, <2>1 DEF Found
<1> USE DEF TypeOK, UploadInv, ManifestName, UnchangedByWrite
<1>5. CASE Clean \/ Interrupt
  BY <1>4, <1>5 DEF Clean, Interrupt, Valid
<1>6. CASE Fill
  <2>1. holder \notin {"none", "sweep"} /\ man'["tmp"] = draft
    BY <1>6 DEF Fill, OperationSteps
  <2>2. Replaces(draft, Loaded)
    BY <1>1, <2>1, LoadedFacts DEF NewestFirst
  <2>3. Loaded' = draft
    BY <2>1 DEF Loaded
  <2> QED BY <2>2, <2>3 DEF Replaces, Found
<1>7. CASE Drop \/ Back \/ Swap
  BY <1>7 DEF Drop, Back, Swap, ManifestFiles, Valid
<1>8. CASE Tidy
  <2>1. man["primary"] = draft /\ man'["primary"] = draft /\ man'["tmp"] = man["tmp"]
    BY <1>8 DEF Tidy, ManifestFiles
  <2>2. Loaded' = draft /\ Loaded = draft
    BY <2>1 DEF Loaded, Valid
  <2> QED BY <1>1, <1>2, <2>2 DEF Found
<1>9. CASE WriteFails
  <2>1. CASE step \in {"clean", "drop", "fill"}
    BY <1>4, <1>9, <2>1 DEF WriteFails, Valid
  <2>2. CASE step \in {"back", "swap", "place"}
    BY <2>2 DEF ManifestFiles, Valid
  <2> QED BY <1>9, <2>1, <2>2 DEF WriteFails, WriteStep
<1>10. CASE DropManifests
  <2>1. holder = "sweep"
    BY <1>10 DEF DropManifests, DropManifest, OperationSteps, Writing, WriteStep, Command, Operation
  <2>2. Expired
    BY <1>1, <2>1, LoadedFacts, ManifestFacts DEF SweepsExpired, Expired
  <2> QED BY <2>2
<1> QED BY <1>3, <1>5, <1>6, <1>7, <1>8, <1>9, <1>10 DEF Next, Proceed, NotAtFiles

\* What a client was told of an upload is taken back only if it was still in tmp
\* (write_manifest, load_manifest_for_upload).
THEOREM OnlyTmpIsLost == Spec => OnlyTmpRollsBack
BY UploadInvariant, RollBackStep, PTL DEF Spec, OnlyTmpRollsBack

\* An upload goes for good only after its deadline: between the steps of a write there is always
\* a file with a manifest beside tmp.
LEMMA VanishStep ==
    TypeOK /\ UploadInv /\ [Next]_vars => [Known /\ ~Found' => Expired]_vars
<1> SUFFICES ASSUME TypeOK, UploadInv, Next, Known, ~Expired PROVE Found'
  OBVIOUS
<1>1. Valid("primary") \/ Valid("bak")
  BY LoadedFacts DEF UploadInv
<1>2. Found
  BY DEF Known
<1>3. (\E n \in ManifestName : Valid(n)') => Found'
  BY DEF Valid, Found, Loaded, ManifestName
<1>4. CASE NotAtFiles
  BY <1>2, <1>4, LeavesFiles, SameFiles
<1> USE DEF TypeOK, UploadInv, ManifestName, UnchangedByWrite, Valid
<1>5. CASE Clean \/ Fill \/ Interrupt
  BY <1>1, <1>3, <1>5 DEF Clean, Fill, Interrupt
<1>6. CASE Drop \/ Back \/ Swap \/ Tidy
  BY <1>1, <1>3, <1>6 DEF Drop, Back, Swap, Tidy, ManifestFiles
<1>7. CASE WriteFails
  BY <1>1, <1>3, <1>7 DEF WriteFails, WriteStep, ManifestFiles
<1>8. CASE DropManifests
  <2>1. holder = "sweep"
    BY <1>8 DEF DropManifests, DropManifest, OperationSteps, Writing, WriteStep, Command, Operation
  <2>2. Expired
    BY <1>2, <2>1, LoadedFacts, ManifestFacts DEF SweepsExpired, Expired
  <2> QED BY <2>2
<1> QED BY <1>4, <1>5, <1>6, <1>7, <1>8 DEF Next, Proceed, NotAtFiles

\* sweep_expired_uploads never removes an upload whose deadline was renewed while it waited.
THEOREM OnlyExpiredVanish == Spec => VanishesOnlyExpired
BY UploadInvariant, VanishStep, PTL DEF Spec, VanishesOnlyExpired

LEMMA WriteAddsBytes ==
    \A p, q, f \in Nat : \A written \in p..q : ~(written + f < p + f)
OBVIOUS

\* Bytes are given up only by an abort, a sweep, a cleanup after a receipt, or by undoing what
\* was never acknowledged.
LEMMA OutliveStep == TypeOK /\ UploadInv /\ [Next]_vars =>
    [part' + final' < part + final =>
          \/ holder = "abort" \/ Loaded.status = "ingested" \/ Expired
          \/ holder = "append" /\ part' >= offset
          \/ holder = "commit" /\ Loaded.received \in {part', final'}]_vars
<1> SUFFICES ASSUME TypeOK, UploadInv, Next, part' + final' < part + final
             PROVE  \/ holder = "abort" \/ Loaded.status = "ingested" \/ Expired
                    \/ holder = "append" /\ part' >= offset
                    \/ holder = "commit" /\ Loaded.received \in {part', final'}
  OBVIOUS
<1>0. ~(part' = part /\ final' = final)
  BY DEF TypeOK
<1> USE DEF TypeOK, UploadInv, StagedBytes, At
<1>1. CASE Call
  BY <1>0, <1>1 DEF Call, Prepare, Append, Commit, Abort, Replay, Ingest, files
<1>2. CASE AppendBytes \/ CommitRename
  BY <1>2, ManifestFacts DEF AppendBytes, CommitRename
<1>3. CASE DropPart \/ DropFinal
  <2>1. holder \in {"abort", "sweep"} /\ step \in {"drop_part", "drop_final"}
    BY <1>3 DEF DropPart, DropFinal, OperationSteps, Writing, WriteStep, Command, Operation
  <2>2. CASE holder = "sweep"
    <3>1. Found /\ \E n \in ManifestName : Valid(n) /\ Loaded = man[n]
      BY <2>1, <2>2, LoadedFacts DEF SweepsExpired
    <3> QED BY <2>2, <3>1, ManifestFacts DEF SweepsExpired, Expired
  <2> QED BY <2>1, <2>2
<1>4. CASE Cleanup
  BY <1>4 DEF Cleanup
<1>5. CASE Undo
  <2>1. \/ holder = "append" /\ part' = offset
        \/ holder = "commit" /\ step = "undo" /\ part' = final /\ final' = 0
    BY <1>5 DEF Undo
  <2> QED BY <2>1
<1>6. CASE Interrupt
  <2>1. CASE step = "write"
    <3>1. part' \in part..draft.received /\ final' = final
      BY <1>6, <2>1 DEF Interrupt
    <3>2. part \in Nat /\ final \in Nat /\ draft.received \in Nat
      BY ManifestFacts
    <3> QED BY <3>1, <3>2, WriteAddsBytes
  <2>2. CASE step = "rename"
    <3>1. holder = "commit" /\ part' = part
      BY <1>6, <2>2 DEF Interrupt, OperationSteps, Writing, WriteStep, Command, Operation, Free
    <3> QED BY <2>2, <3>1
  <2>3. CASE step \notin {"write", "rename"}
    BY <1>6, <2>3 DEF Interrupt
  <2> QED BY <2>1, <2>2, <2>3
<1>7. CASE \/ StoreAsset \/ IngestDocument \/ LinkDocument \/ RecordExtraction \/ IngestUnparsed
           \/ Finalize \/ Clean \/ Fill \/ Drop \/ Back \/ Swap \/ Tidy \/ DropManifests
           \/ WriteFails \/ SweepLook \/ SweepLock \/ Tick
  BY <1>0, <1>7 DEF StoreAsset, IngestDocument, LinkDocument, RecordExtraction, Do, IngestUnparsed,
     Finalize, Clean, Fill, Drop, Back, Swap, Tidy, DropManifests, DropManifest, WriteFails,
     SweepLook, SweepLock, Tick, UnchangedByWrite, files
<1> QED BY <1>1, <1>2, <1>3, <1>4, <1>5, <1>6, <1>7 DEF Next, Proceed

\* Staged bytes outlive every step but the ones that may give them up (DropPart and DropFinal of
\* an abort or a sweep, Cleanup, rollback_upload_part, commit_upload's rename).
THEOREM BytesOutliveUse == Spec => BytesOutlive
BY UploadInvariant, OutliveStep, PTL DEF Spec, BytesOutlive

-----------------------------------------------------------------------------
\* The asset store, for every original; it shares nothing with the upload but the bytes that
\* the ingest's command "asset" hands over.

\* A command finds the row and the nonce it needs at each of its steps.
LEMMA AssetTypeStep == AssetTypeOK /\ CommandSteps /\ [AssetNext]_assetVars => AssetTypeOK'
<1> SUFFICES ASSUME AssetTypeOK, CommandSteps, [AssetNext]_assetVars PROVE AssetTypeOK'
  OBVIOUS
<1> USE DEF AssetTypeOK, Row, Work, Idle, Begin, Doing, Done, Failure, history
<1>1. CASE StoreNew \/ StoreHeal
  <2>1. UNCHANGED <<row, blob, staged, failures, kept, cut>> /\ erased' = FALSE
    BY <1>1 DEF StoreNew, StoreHeal
  <2>2. nonce' \in 0..MaxNonce
    BY <1>1 DEF StoreNew, StoreHeal
  <2>3. work' \in Work /\ phase' = "stage"
    BY <1>1 DEF StoreNew, StoreHeal
  <2> QED BY <2>1, <2>2, <2>3
<1>2. CASE StoreKnown
  <2>1. row' \in Row
    BY <1>2 DEF StoreKnown
  <2> QED BY <1>2, <2>1 DEF StoreKnown
<1>3. CASE Stage \/ Promote
  <2>1. nonce \in 1..MaxNonce
    BY <1>3 DEF Stage, Promote, CommandSteps
  <2> QED BY <1>3, <2>1 DEF Stage, Promote
<1>4. CASE CommitStore
  <2>1. row' \in Row
    BY <1>4 DEF CommitStore, CommandSteps
  <2> QED BY <1>4, <2>1 DEF CommitStore
<1>5. CASE StoreFails
  BY <1>5 DEF StoreFails
<1>6. CASE Forget \/ Erase \/ Unlink \/ CommitErase
  BY <1>6 DEF Forget, Erase, Unlink, CommitErase
<1>7. CASE CommitForget
  <2>1. row' \in Row
    BY <1>7 DEF CommitForget, CommandSteps
  <2> QED BY <1>7, <2>1 DEF CommitForget
<1>8. CASE CutOff
  <2>1. phase \in {"stage", "promote"} => nonce \in 1..MaxNonce
    BY DEF CommandSteps
  <2> QED BY <1>8, <2>1 DEF CutOff
<1>9. CASE UNCHANGED assetVars
  BY <1>9 DEF assetVars
<1> QED BY <1>1, <1>2, <1>3, <1>4, <1>5, <1>6, <1>7, <1>8, <1>9 DEF AssetNext

\* One step per operation; each conjunct of the invariant follows from all of them.
LEMMA AssetStep == AssetTypeOK /\ AssetInv /\ [AssetNext]_assetVars => AssetInv'
<1> SUFFICES ASSUME AssetTypeOK, AssetInv, [AssetNext]_assetVars PROVE AssetInv'
  OBVIOUS
<1> USE DEF AssetInv, CommandSteps, BlobOfCommand, BlobOfRow, KeptIsIdle, UncutIsTidy,
            AssetTypeOK, Row, Work, Idle, Begin, Doing, Done, Failure, history
<1>1. CASE StoreNew
  BY <1>1 DEF StoreNew
<1>2. CASE StoreHeal
  BY <1>2 DEF StoreHeal
<1>3. CASE StoreKnown
  <2>1. row' # NoRow /\ row'.status = "active" /\ row'.nonce = row.nonce
    BY <1>3 DEF StoreKnown
  <2> QED BY <1>3, <2>1 DEF StoreKnown
<1>4. CASE Stage
  BY <1>4 DEF Stage
<1>5. CASE Promote
  <2>1. nonce # NoBlob /\ work \in {"store", "heal"}
    BY <1>5 DEF Promote
  <2>2. CommandSteps'
    BY <1>5, <2>1 DEF Promote
  <2>3. (BlobOfCommand /\ BlobOfRow)'
    BY <1>5, <2>1 DEF Promote
  <2>4. KeptIsIdle'
    BY <1>5, <2>1 DEF Promote
  <2>5. UncutIsTidy'
    <3>1. cut = {} => staged' = {}
      BY <1>5 DEF Promote
    <3>2. row' = NoRow => work = "store" /\ phase' = "commit"
      BY <1>5, <2>1 DEF Promote
    <3> QED BY <1>5, <2>1, <3>1, <3>2 DEF Promote
  <2> QED BY <1>5, <2>1, <2>2, <2>3, <2>4, <2>5 DEF Promote
<1>6. CASE CommitStore
  BY <1>6 DEF CommitStore
<1>7. CASE StoreFails
  BY <1>7 DEF StoreFails
<1>8. CASE Forget
  BY <1>8 DEF Forget
<1>9. CASE Erase
  BY <1>9 DEF Erase
<1>10. CASE Unlink
  BY <1>10 DEF Unlink
<1>11. CASE CommitForget
  BY <1>11 DEF CommitForget
<1>12. CASE CommitErase
  BY <1>12 DEF CommitErase
<1>13. CASE CutOff
  BY <1>13 DEF CutOff
<1>14. CASE UNCHANGED assetVars
  BY <1>14 DEF assetVars
<1> QED BY <1>1, <1>2, <1>3, <1>4, <1>5, <1>6, <1>7, <1>8, <1>9, <1>10, <1>11, <1>12, <1>13,
       <1>14 DEF AssetNext

LEMMA AssetInvariant == AssetSpec => [](AssetTypeOK /\ AssetInv)
<1>1. AssetInit => AssetTypeOK
  <2>1. 0 \in 0..MaxNonce /\ 0 \in 0..MaxFailures
    OBVIOUS
  <2>2. {} \subseteq 1..MaxNonce /\ {} \subseteq {"heal", "copy"}
    OBVIOUS
  <2> QED BY <2>1, <2>2, Zenon DEF AssetInit, AssetTypeOK
<1>2. AssetInit => AssetInv
  BY DEF AssetInit, AssetInv, CommandSteps, BlobOfCommand, BlobOfRow, KeptIsIdle,
         UncutIsTidy, Idle, Doing
<1>3. AssetTypeOK /\ AssetInv /\ [AssetNext]_assetVars => (AssetTypeOK /\ AssetInv)'
  BY AssetTypeStep, AssetStep DEF AssetInv
<1> QED BY <1>1, <1>2, <1>3, PTL DEF AssetSpec

\* What a store acknowledged stays decryptable until somebody asks to remove it: the row keeps
\* the nonce its blob was encrypted with (handle_store_asset_from_path).
THEOREM KeptStaysReadable == AssetSpec => []KeptIsReadable
<1>1. AssetTypeOK /\ AssetInv => KeptIsReadable
  BY DEF AssetInv, KeptIsIdle, BlobOfRow, KeptIsReadable, Readable, Idle, Doing
<1> QED BY <1>1, AssetInvariant, PTL

\* A removed original leaves no bytes behind a deleted row (handle_forget_asset).
THEOREM RemovedBytesGone == AssetSpec => []ForgottenBytesGone
<1>1. AssetTypeOK /\ AssetInv => ForgottenBytesGone
  BY DEF AssetInv, BlobOfRow, ForgottenBytesGone, Idle, Doing
<1> QED BY <1>1, AssetInvariant, PTL

\* A principal erasure leaves neither blob nor copy unless a store was cut off
\* (AssetErasure::delete).
THEOREM ErasureIsComplete == AssetSpec => []ErasedWhenUncut
<1>1. AssetTypeOK /\ AssetInv => ErasedWhenUncut
  BY DEF AssetInv, CommandSteps, UncutIsTidy, ErasedWhenUncut, Idle, Doing
<1> QED BY <1>1, AssetInvariant, PTL

=============================================================================
