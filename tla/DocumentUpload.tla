----------------------------- MODULE DocumentUpload -----------------------------
(***************************************************************************)
(* One resumable document upload (solo-api, document_upload.rs): the       *)
(* staged bytes, the manifest and its three files, the per-upload lock,    *)
(* the commands an ingest sends to the writer, the sweep of expired        *)
(* uploads.  Uploads share nothing but the directory, so one is enough.    *)
(*                                                                         *)
(* The lock is tried, never waited for, and held for a whole operation:    *)
(* one operation at a time works on the files, and a caller that finds the *)
(* lock taken, or that is refused, changes nothing and is not modelled.    *)
(* An operation ends early when a file call fails, when the process dies,  *)
(* or when its future is dropped because the client hung up: the lock goes *)
(* with it and the files stay as they are.                                 *)
(***************************************************************************)
EXTENDS Naturals

CONSTANTS
    Size,      \* size_bytes, in the unit the model appends in
    MaxTime,   \* bound on the clock; a deadline is one tick away
    MaxFaults, \* bound on failed file calls, crashes and dropped calls
    Absent,    \* there is no such file
    Cut        \* the file holds no valid manifest

ManifestName == {"tmp", "primary", "bak"}
Status == {"open", "committed", "ingested", "aborted"}
Outcome == {"none", "extracted", "unparsed"}
Receipt == [outcome : Outcome, stored : BOOLEAN, retain : BOOLEAN, deleted : BOOLEAN]
Manifest == [status : Status, received : 0..Size, expires : 0..MaxTime + 1, receipt : Receipt]

ASSUME UploadAssumption ==
    /\ Size \in Nat \ {0} /\ MaxTime \in Nat /\ MaxFaults \in Nat
    /\ Absent # Cut /\ Absent \notin Manifest /\ Cut \notin Manifest

Command == {"asset", "document", "link", "extraction"}
Operation == {"prepare", "append", "commit", "abort", "ingest", "settle", "sweep"}
WriteStep == {"clean", "fill", "drop", "back", "swap", "place", "tidy"}
Step == WriteStep \cup Command \cup
        {"idle", "write", "rename", "undo", "drop_part", "drop_final", "finalize",
         "cleanup", "drop_tmp", "drop_primary", "drop_bak"}

VARIABLES
    man,    \* the files <id>.json.tmp, <id>.json and <id>.json.bak
    part,   \* bytes in upload.part, 0 if there is none
    final,  \* bytes in the committed file, 0 if there is none
    db,     \* what ingests of this upload have made the writer commit
    holder, \* the operation that holds the lock, "none" when it is free
    step,   \* the call that operation makes next
    draft,  \* the manifest it has in memory
    offset, \* previous_offset of an append
    looked, \* a sweep has read an expired manifest and not tried the lock yet
    now, faults

files == <<man, part, final>>
vars == <<man, part, final, db, holder, step, draft, offset, looked, now, faults>>

NoReceipt == [outcome |-> "none", stored |-> FALSE, retain |-> FALSE, deleted |-> FALSE]
NoManifest == [status |-> "open", received |-> 0, expires |-> 0, receipt |-> NoReceipt]

\* load_manifest_for_upload: the first valid file; a valid tmp is the newest.
Loaded == CASE man["tmp"] \in Manifest     -> man["tmp"]
            [] man["tmp"] \notin Manifest /\ man["primary"] \in Manifest -> man["primary"]
            [] man["tmp"] \notin Manifest /\ man["primary"] \notin Manifest -> man["bak"]

Found == Loaded \in Manifest
Expired == now > Loaded.expires
Free == holder = "none"

\* The client has the upload id once prepare_upload has put the first manifest in place.
Known == Found /\ (man["primary"] # Absent \/ man["bak"] # Absent)

Init == /\ man = [n \in ManifestName |-> Absent]
        /\ part = 0 /\ final = 0 /\ db = {} /\ now = 0 /\ faults = 0
        /\ holder = "none" /\ step = "idle" /\ draft = NoManifest /\ offset = 0
        /\ looked = FALSE

Lock(op, first) == Free /\ holder' = op /\ step' = first
At(op, s) == holder = op /\ step = s
Release == holder' = "none" /\ step' = "idle"
Continue(s) == UNCHANGED holder /\ step' = s
Fault == faults < MaxFaults /\ faults' = faults + 1
-----------------------------------------------------------------------------
\* The operations.

Prepare == /\ Lock("prepare", "clean")
           /\ now = 0 /\ \A n \in ManifestName : man[n] = Absent
           /\ draft' = [NoManifest EXCEPT !.expires = now]
           /\ UNCHANGED <<files, db, offset, looked, now, faults>>

Open == Known /\ ~Expired /\ Loaded.status = "open"

\* A chunk is appended at next_offset, to a part of exactly the acknowledged length.
Append(n) == /\ Lock("append", "write")
             /\ Open /\ part = Loaded.received /\ Loaded.received + n <= Size
             /\ draft' = [Loaded EXCEPT !.received = @ + n]
             /\ offset' = Loaded.received
             /\ UNCHANGED <<files, db, looked, now, faults>>

AppendBytes == /\ At("append", "write")
               /\ part' = draft.received
               /\ Continue("clean")
               /\ UNCHANGED <<man, final, db, draft, offset, looked, now, faults>>

\* Mutant: the length of the part is not compared.
CommitAnyLength ==
    /\ Lock("commit", "rename")
    /\ Open /\ Loaded.received = Size /\ part # 0
    /\ draft' = [Loaded EXCEPT !.status = "committed"]
    /\ UNCHANGED <<files, db, offset, looked, now, faults>>

\* The part must be exactly what the manifest says; its hash matches the one asked for.
Commit == /\ Lock("commit", "rename")
          /\ Open /\ Loaded.received = Size /\ part = Size
          /\ draft' = [Loaded EXCEPT !.status = "committed"]
          /\ UNCHANGED <<files, db, offset, looked, now, faults>>

CommitRename == /\ At("commit", "rename")
                /\ final' = part /\ part' = 0
                /\ Continue("clean")
                /\ UNCHANGED <<man, db, draft, offset, looked, now, faults>>

\* Mutant: any upload can be aborted, also one that has a receipt.
AbortAny == /\ Lock("abort", "drop_part")
            /\ Known
            /\ draft' = [Loaded EXCEPT !.status = "aborted"]
            /\ UNCHANGED <<files, db, offset, looked, now, faults>>

Abort == /\ Lock("abort", "drop_part")
         /\ Known /\ Loaded.status \notin {"ingested", "aborted"}
         /\ draft' = [Loaded EXCEPT !.status = "aborted"]
         /\ UNCHANGED <<files, db, offset, looked, now, faults>>

DropPart == /\ step = "drop_part"
            /\ part' = 0
            /\ Continue("drop_final")
            /\ UNCHANGED <<man, final, db, draft, offset, looked, now, faults>>

\* An abort writes its receipt next; a sweep goes on to the manifest.
DropFinal == /\ step = "drop_final"
             /\ final' = 0
             /\ \/ /\ holder = "abort" /\ Continue("clean")
                   /\ draft' = [draft EXCEPT !.expires = now + 1, !.receipt = NoReceipt]
                \/ holder = "sweep" /\ Continue("drop_tmp") /\ UNCHANGED draft
             /\ UNCHANGED <<man, part, db, offset, looked, now, faults>>

Ingest(store, retain) ==
    /\ Lock("ingest", IF store THEN "asset" ELSE "document")
    /\ Known /\ ~Expired /\ Loaded.status = "committed" /\ final # 0
    /\ draft' = [Loaded EXCEPT !.receipt = [NoReceipt EXCEPT !.stored = store, !.retain = retain]]
    /\ UNCHANGED <<files, db, offset, looked, now, faults>>

\* One writer command of an ingest commits; each finds what an earlier attempt left.
Do(command, next, outcome) ==
    /\ At("ingest", command)
    /\ db' = db \cup {command}
    /\ draft' = [draft EXCEPT !.receipt.outcome = outcome]
    /\ Continue(next)
    /\ UNCHANGED <<files, offset, looked, now, faults>>

\* Mutant: the receipt is written before the asset is linked to the document.
IngestDocumentUnlinked == Do("document", "finalize", "extracted")

StoreAsset == Do("asset", "document", "none")
IngestDocument == Do("document", IF draft.receipt.stored THEN "link" ELSE "finalize", "extracted")
LinkDocument == Do("link", "extraction", "extracted")
RecordExtraction == Do("extraction", "finalize", draft.receipt.outcome)

\* With the original stored, a file that cannot be parsed or ingested is recorded and done.
IngestUnparsed == /\ At("ingest", "document") /\ draft.receipt.stored
                  /\ draft' = [draft EXCEPT !.receipt.outcome = "unparsed"]
                  /\ Continue("extraction")
                  /\ UNCHANGED <<files, db, offset, looked, now, faults>>

\* Mutant: the staged file is deleted before there is a receipt.
FinalizeCleansFirst ==
    /\ At("ingest", "finalize")
    /\ draft' = [draft EXCEPT !.status = "ingested", !.expires = now + 1]
    /\ final' = IF draft.receipt.retain THEN final ELSE 0
    /\ Continue("clean")
    /\ UNCHANGED <<man, part, db, offset, looked, now, faults>>

Finalize == /\ At("ingest", "finalize")
            /\ draft' = [draft EXCEPT !.status = "ingested", !.expires = now + 1]
            /\ Continue("clean")
            /\ UNCHANGED <<files, db, offset, looked, now, faults>>

\* The receipt is durable: delete the staged file, unless it is to be kept or cannot be
\* deleted, and write the receipt again with what came of it.
Cleanup == /\ step = "cleanup"
           /\ holder' = "settle" /\ step' = "clean"
           /\ \/ /\ draft.receipt.retain
                 /\ UNCHANGED <<final, draft, faults>>
              \/ /\ ~draft.receipt.retain
                 /\ final' = 0
                 /\ draft' = [draft EXCEPT !.receipt.deleted = TRUE]
                 /\ UNCHANGED faults
              \/ Fault /\ UNCHANGED <<final, draft>>
           /\ UNCHANGED <<man, part, db, offset, looked, now>>

\* A second ingest is answered with the receipt, and finishes the first one's cleanup.
Replay == /\ Lock("settle", "cleanup")
          /\ Known /\ Loaded.status = "ingested"
          /\ ~Loaded.receipt.retain /\ ~Loaded.receipt.deleted
          /\ draft' = Loaded
          /\ UNCHANGED <<files, db, offset, looked, now, faults>>
-----------------------------------------------------------------------------
\* write_manifest of `draft`: remove tmp, write tmp, drop the old backup, keep the primary as
\* backup, put tmp in its place, drop the backup.

AfterWrite == IF holder = "ingest" THEN Continue("cleanup") ELSE Release
UnchangedByWrite == UNCHANGED <<part, final, db, draft, offset, looked, now, faults>>

Clean == /\ step = "clean"
         /\ man' = [man EXCEPT !["tmp"] = Absent]
         /\ Continue("fill") /\ UnchangedByWrite

Fill == /\ step = "fill"
        /\ man' = [man EXCEPT !["tmp"] = draft]
        /\ Continue(IF man["primary"] = Absent THEN "place" ELSE "drop") /\ UnchangedByWrite

Drop == /\ step = "drop"
        /\ man' = [man EXCEPT !["bak"] = Absent]
        /\ Continue("back") /\ UnchangedByWrite

Back == /\ step = "back"
        /\ man' = [man EXCEPT !["bak"] = man["primary"], !["primary"] = Absent]
        /\ Continue("swap") /\ UnchangedByWrite

Swap == /\ step \in {"swap", "place"}
        /\ man' = [man EXCEPT !["primary"] = man["tmp"], !["tmp"] = Absent]
        /\ IF step = "swap" THEN Continue("tidy") ELSE AfterWrite
        /\ UnchangedByWrite

\* A backup that cannot be removed is only worth a warning.
Tidy == /\ step = "tidy"
        /\ \/ man' = [man EXCEPT !["bak"] = Absent] /\ UNCHANGED faults
           \/ UNCHANGED man /\ Fault
        /\ AfterWrite
        /\ UNCHANGED <<part, final, db, draft, offset, looked, now>>

\* A file call of write_manifest fails.  A failed rename gives the new manifest up, a backup
\* that cannot be dropped leaves it in tmp.
WriteFails ==
    /\ step \in WriteStep \ {"tidy"}
    /\ Fault
    /\ CASE step \in {"clean", "drop"} -> UNCHANGED man
         [] step = "fill" -> \E torn \in {Absent, Cut} : man' = [man EXCEPT !["tmp"] = torn]
         [] step \in {"back", "place"} -> man' = [man EXCEPT !["tmp"] = Absent]
         [] step = "swap" -> man' = [man EXCEPT !["tmp"] = Absent, !["primary"] = man["bak"],
                                                !["bak"] = Absent]
    /\ IF holder \in {"append", "commit"} THEN Continue("undo") ELSE Release
    /\ UNCHANGED <<part, final, db, draft, offset, looked, now>>

\* rollback_upload_part, or the committed file renamed back.
Undo == /\ step = "undo"
        /\ \/ holder = "append" /\ part' = offset /\ UNCHANGED final
           \/ holder = "commit" /\ part' = final /\ final' = 0
        /\ Release
        /\ UNCHANGED <<man, db, draft, offset, looked, now, faults>>
-----------------------------------------------------------------------------
\* sweep_expired_uploads: the first look is taken without the lock, so it is repeated.

SweepLook == /\ ~looked /\ Found /\ Expired
             /\ looked' = TRUE
             /\ UNCHANGED <<files, db, holder, step, draft, offset, now, faults>>

\* Mutant: the first look is trusted.
SweepLockTrusting ==
    /\ looked /\ looked' = FALSE
    /\ IF Free /\ Found THEN Lock("sweep", "drop_part") ELSE UNCHANGED <<holder, step>>
    /\ UNCHANGED <<files, db, draft, offset, now, faults>>

\* Mutant: the manifest goes before the bytes.
SweepLockManifestFirst ==
    /\ looked /\ looked' = FALSE
    /\ IF Free /\ Found /\ Expired
       THEN Lock("sweep", "drop_part") /\ man' = [n \in ManifestName |-> Absent]
       ELSE UNCHANGED <<holder, step, man>>
    /\ UNCHANGED <<part, final, db, draft, offset, now, faults>>

\* An upload that is busy or no longer expired is left for the next sweep.
SweepLock == /\ looked /\ looked' = FALSE
             /\ IF Free /\ Found /\ Expired THEN Lock("sweep", "drop_part")
                ELSE UNCHANGED <<holder, step>>
             /\ UNCHANGED <<files, db, draft, offset, now, faults>>

DropManifest(s, n, next) ==
    /\ step = s
    /\ man' = [man EXCEPT ![n] = Absent]
    /\ IF next = "idle" THEN Release ELSE Continue(next)
    /\ UNCHANGED <<part, final, db, draft, offset, looked, now, faults>>

DropManifests == \/ DropManifest("drop_tmp", "tmp", "drop_primary")
                 \/ DropManifest("drop_primary", "primary", "drop_bak")
                 \/ DropManifest("drop_bak", "bak", "idle")

-----------------------------------------------------------------------------
\* The operation ends here: the process dies, the client hangs up, or a call fails with
\* nothing to undo.  A write may have been done in part, a command may still commit.
Interrupt ==
    /\ ~Free /\ Release /\ Fault
    /\ IF step = "write" THEN part' \in part..draft.received ELSE UNCHANGED part
    /\ IF step = "fill" THEN man' \in {man, [man EXCEPT !["tmp"] = Cut]} ELSE UNCHANGED man
    /\ IF step = "rename" THEN final' \in {final, 0} ELSE UNCHANGED final
    /\ IF step \in Command THEN db' \in {db, db \cup {step}} ELSE UNCHANGED db
    /\ UNCHANGED <<draft, offset, looked, now>>

Tick == /\ now < MaxTime
        /\ now' = now + 1
        /\ UNCHANGED <<files, db, holder, step, draft, offset, looked, faults>>

Call == \/ Prepare \/ Commit \/ Abort \/ Replay
        \/ \E n \in 1..Size : Append(n)
        \/ \E store, retain \in BOOLEAN : Ingest(store, retain)

Proceed == \/ AppendBytes \/ CommitRename \/ DropPart \/ DropFinal
           \/ StoreAsset \/ IngestDocument \/ LinkDocument \/ RecordExtraction \/ IngestUnparsed
           \/ Finalize \/ Cleanup \/ Clean \/ Fill \/ Drop \/ Back \/ Swap \/ Tidy \/ Undo
           \/ DropManifests

Next == Call \/ Proceed \/ WriteFails \/ SweepLook \/ SweepLock \/ Interrupt \/ Tick

Spec == Init /\ [][Next]_vars

\* An operation runs to its end, time passes and the sweep's timer keeps firing.  Nothing is
\* assumed of the clients.
FairSpec == /\ Spec
            /\ WF_vars(Proceed) /\ WF_vars(Tick) /\ WF_vars(SweepLook) /\ WF_vars(SweepLock)
-----------------------------------------------------------------------------
TypeOK ==
    /\ man \in [ManifestName -> Manifest \cup {Absent, Cut}]
    /\ part \in 0..Size /\ final \in 0..Size /\ offset \in 0..Size
    /\ db \subseteq Command
    /\ holder \in Operation \cup {"none"} /\ step \in Step
    /\ draft \in Manifest
    /\ looked \in BOOLEAN /\ now \in 0..MaxTime /\ faults \in 0..MaxFaults

\* Only whole files are ingested: whatever was cut off before, the staged file an ingest works
\* on has exactly the announced size.
IngestsWholeFile == holder = "ingest" => final = Size \/ step \in WriteStep \cup {"cleanup"}

\* A receipt tells the truth about the database: a document that was extracted is there, and
\* so are the asset, the link and the extraction record if the original was kept.
ReceiptIsTrue ==
    Found /\ Loaded.status = "ingested" =>
        /\ Loaded.receipt.outcome = "extracted" => "document" \in db
        /\ Loaded.receipt.stored => {"asset", "extraction"} \subseteq db
        /\ Loaded.receipt.stored /\ "document" \in db /\ Loaded.receipt.outcome = "extracted"
               => "link" \in db

\* A manifest is no older than another.
NoOlder(m, n) == /\ m.received >= n.received
                 /\ n.status = "committed" => m.status # "open"
                 /\ n.status \in {"ingested", "aborted"} => m.status = n.status

\* What a client was told of a live upload is not taken back, with one exception: a manifest
\* that an interrupted write left in tmp is lost when the next write begins by removing it.
OnlyTmpRollsBack ==
    [][Known /\ ~Expired /\ man["tmp"] \notin Manifest => Found' /\ NoOlder(Loaded', Loaded)]_vars

\* Staged bytes go only when they are not needed: the upload is aborted, ingested or expired,
\* an append gives up bytes it never acknowledged, or a commit replaces a file that never was
\* committed and has all the bytes.
BytesOutlive ==
    [][part' + final' < part + final =>
          \/ holder = "abort" \/ Loaded.status = "ingested" \/ Expired
          \/ holder = "append" /\ part' >= offset
          \/ holder = "commit" /\ Loaded.received \in {part', final'}]_vars

\* An upload only vanishes after its deadline: an operation that renewed the deadline between
\* the sweep's look and its lock is not undone.
VanishesOnlyExpired == [][Known /\ ~Found' => Expired]_vars

\* When the clients have stopped calling, an upload whose deadline the clock reaches is swept
\* with its manifest and all its bytes, whatever was interrupted before. A torn tmp manifest
\* that an interrupted prepare left, beside which nothing was ever staged, may stay.
CallersStop == <>[](holder \in {"none", "sweep"})
Swept == ~Found /\ part = 0 /\ final = 0
SweptEventually == CallersStop => <>[](Swept \/ (Found /\ Loaded.expires >= MaxTime))
-----------------------------------------------------------------------------
\* The inductive invariant behind the safety properties.

Valid(n) == man[n] \in Manifest
Writing == step \in WriteStep

\* Every operation is at one of its own steps.
OperationSteps ==
    /\ holder = "none" => step = "idle"
    /\ holder = "prepare" => step \in {"clean", "fill", "place"}
    /\ holder = "append" => Writing \/ step \in {"write", "undo"}
    /\ holder = "commit" => Writing \/ step \in {"rename", "undo"}
    /\ holder = "abort" => Writing \/ step \in {"drop_part", "drop_final"}
    /\ holder = "ingest" => Writing \/ step \in Command \cup {"finalize", "cleanup"}
    /\ holder = "settle" => Writing \/ step = "cleanup"
    /\ holder = "sweep" => step \in {"drop_part", "drop_final", "drop_tmp", "drop_primary",
                                    "drop_bak"}

\* Where write_manifest has got to: only tmp is ever torn, and the new manifest is in it, or in
\* the primary, before the file it replaces is given up.
ManifestFiles ==
    /\ \A n \in {"primary", "bak"} : man[n] = Absent \/ Valid(n)
    /\ step \in {"drop", "back", "swap", "place"} => man["tmp"] = draft
    /\ step \in {"drop", "back"} => Valid("primary")
    /\ step = "swap" => Valid("bak")
    /\ step = "tidy" => man["tmp"] = Absent /\ man["primary"] = draft
    /\ holder = "prepare" => man["primary"] = Absent /\ man["bak"] = Absent

\* A manifest that replaces another: no older, and its deadline no earlier.
Replaces(m, n) == NoOlder(m, n) /\ m.expires >= n.expires

\* The three files are in the order in which they are looked for, and what an operation is
\* about to write is newer than all of them.
NewestFirst ==
    /\ Valid("tmp") /\ Valid("primary") => Replaces(man["tmp"], man["primary"])
    /\ Valid("tmp") /\ Valid("bak") => Replaces(man["tmp"], man["bak"])
    /\ Valid("primary") /\ Valid("bak") => Replaces(man["primary"], man["bak"])
    /\ holder \notin {"none", "sweep"} =>
          \A n \in ManifestName : Valid(n) => Replaces(draft, man[n])
    /\ \A n \in ManifestName : Valid(n) => man[n].expires <= now + 1
    /\ draft.expires <= now + 1

\* A sweep that has the lock has a manifest until it removes it, and none has a future.
SweepsExpired ==
    holder = "sweep" =>
        /\ \A n \in ManifestName : Valid(n) => man[n].expires < now
        /\ step \in {"drop_part", "drop_final"} => Found

\* What the bytes on disk are in the middle of an operation.
StagedBytes ==
    /\ final \in {0, Size}
    /\ At("append", "write") => part = offset /\ offset <= draft.received
    /\ At("commit", "rename") => part = Size /\ Found /\ Loaded.received = Size
    /\ holder = "commit" /\ step # "rename" => part = 0
    /\ holder = "ingest" /\ step \in Command \cup {"finalize"} => final = Size
    /\ step = "cleanup" => Found /\ Loaded.status = "ingested" /\ draft.status = "ingested"

\* What the receipt says was done is among the committed commands.
Truthful(receipt, committed) ==
    /\ receipt.outcome = "extracted" => "document" \in committed
    /\ receipt.stored => {"asset", "extraction"} \subseteq committed
    /\ receipt.stored /\ receipt.outcome = "extracted" => "link" \in committed

\* Every receipt, in a file or about to be written, is a true one.
Receipts ==
    /\ \A n \in ManifestName : Valid(n) /\ man[n].status = "ingested" => Truthful(man[n].receipt, db)
    /\ draft.status = "ingested" => Truthful(draft.receipt, db)

\* An ingest builds its receipt command by command, and only makes it one when it is true.
ReceiptSoFar ==
    holder = "ingest" =>
        /\ step \in Command \cup {"finalize"} => draft.status = "committed"
        /\ Writing => draft.status = "ingested"
        /\ step = "link" => draft.receipt.outcome = "extracted"
        /\ step \in {"link", "extraction"} => draft.receipt.stored
        /\ step \in {"document", "link", "extraction"} /\ draft.receipt.stored => "asset" \in db
        /\ step \in {"link", "extraction"} /\ draft.receipt.outcome = "extracted" =>
              "document" \in db
        /\ step = "extraction" /\ draft.receipt.outcome = "extracted" => "link" \in db
        /\ step = "finalize" => Truthful(draft.receipt, db)

UploadInv == /\ OperationSteps /\ ManifestFiles /\ NewestFirst /\ SweepsExpired
             /\ StagedBytes /\ Receipts /\ ReceiptSoFar
=============================================================================
