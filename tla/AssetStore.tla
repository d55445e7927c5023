------------------------------- MODULE AssetStore -------------------------------
(***************************************************************************)
(* One retained original file (writer.rs handle_store_asset_from_path and  *)
(* handle_forget_asset, asset_files.rs, asset_blob.rs, gdpr_assets.rs): a  *)
(* row of the assets table and a blob file named after the hash of the     *)
(* plaintext.  Originals share nothing, so one content is enough.          *)
(*                                                                         *)
(* Every encryption draws a new nonce.  The blob can be decrypted only     *)
(* with the nonce of the row, and the file system takes no part in the     *)
(* transaction that writes the row.                                        *)
(***************************************************************************)
EXTENDS Naturals

CONSTANTS
    NoRow, NoBlob,
    MaxNonce,   \* bound on the encryptions
    MaxFailures \* bound on failed calls and crashes

ASSUME AssetAssumption ==
    /\ MaxNonce \in Nat /\ MaxFailures \in Nat
    /\ NoBlob \notin Nat /\ NoRow \notin [status : {"active", "deleted"}, nonce : Nat]

Row == [status : {"active", "deleted"}, nonce : 1..MaxNonce]
Work == {"store", "heal", "forget", "erase"}

VARIABLES
    row,    \* the committed row of this content
    blob,   \* the nonce the blob file was encrypted with
    staged, \* the nonces of the .tmp- files beside it
    work,   \* the command the writer is at, "none" between commands
    phase,  \* what it does next
    nonce,  \* the last nonce drawn
    failures,
    kept,   \* history: a store was answered Ok and nothing asked to remove it since
    erased, \* history: an erasure that removed the row was answered Ok, no store began since
    cut     \* history: what interrupted stores have left behind, "heal" and "copy"

assetVars == <<row, blob, staged, work, phase, nonce, failures, kept, erased, cut>>
history == <<kept, erased, cut>>

AssetInit ==
    /\ row = NoRow /\ blob = NoBlob /\ staged = {}
    /\ work = "none" /\ phase = "idle" /\ nonce = 0 /\ failures = 0
    /\ kept = FALSE /\ erased = FALSE /\ cut = {}

Idle == work = "none"
Begin(w, s) == Idle /\ work' = w /\ phase' = s
Doing(w, s) == work = w /\ phase = s
Done == work' = "none" /\ phase' = "idle"
Failure == failures < MaxFailures /\ failures' = failures + 1
-----------------------------------------------------------------------------
\* handle_store_asset_from_path: four cases by what is there already.

\* Nothing known under this hash: encrypt and stage a blob.
StoreNew == /\ Begin("store", "stage")
            /\ row = NoRow /\ nonce < MaxNonce
            /\ nonce' = nonce + 1
            /\ erased' = FALSE
            /\ UNCHANGED <<row, blob, staged, failures, kept, cut>>

\* The row is there and its blob is not: encrypt again and put the new nonce in the row.
StoreHeal == /\ Begin("heal", "stage")
             /\ row # NoRow /\ blob = NoBlob /\ nonce < MaxNonce
             /\ nonce' = nonce + 1
             /\ erased' = FALSE
             /\ UNCHANGED <<row, blob, staged, failures, kept, cut>>

\* Row and blob are there, whatever the blob holds: a deleted row becomes active again.
StoreKnown == /\ Idle /\ row # NoRow /\ blob # NoBlob
              /\ row' = [row EXCEPT !.status = "active"]
              /\ kept' = TRUE /\ erased' = FALSE
              /\ UNCHANGED <<blob, staged, work, phase, nonce, failures, cut>>

Stage == /\ phase = "stage"
         /\ staged' = staged \cup {nonce}
         /\ phase' = "promote"
         /\ UNCHANGED <<row, blob, work, nonce, failures, history>>

\* Inside the transaction; only a new store may replace a blob it finds.
Promote == /\ phase = "promote"
           /\ work = "heal" => blob = NoBlob
           /\ blob' = nonce /\ staged' = staged \ {nonce}
           /\ phase' = "commit"
           /\ UNCHANGED <<row, work, nonce, failures, history>>

\* Mutant: the heal keeps the nonce of the row it found.
CommitStoreOldNonce ==
    /\ work \in {"store", "heal"} /\ phase = "commit"
    /\ row' = [status |-> "active", nonce |-> IF row = NoRow THEN nonce ELSE row.nonce]
    /\ kept' = TRUE /\ Done
    /\ UNCHANGED <<blob, staged, nonce, failures, erased, cut>>

CommitStore == /\ work \in {"store", "heal"} /\ phase = "commit"
               /\ row' = [status |-> "active", nonce |-> nonce]
               /\ kept' = TRUE /\ Done
               /\ UNCHANGED <<blob, staged, nonce, failures, erased, cut>>

\* Mutant: a failed store cleans up only what it had promoted.
StoreFailsKeepingCopy ==
    /\ work \in {"store", "heal"} /\ phase \in {"promote", "commit"} /\ Failure
    /\ blob' = IF phase = "commit" THEN NoBlob ELSE blob
    /\ Done
    /\ UNCHANGED <<row, staged, nonce, history>>

\* The transaction fails: it is rolled back and the files it brought are removed.
StoreFails == /\ work \in {"store", "heal"} /\ phase \in {"promote", "commit"} /\ Failure
              /\ staged' = staged \ {nonce}
              /\ blob' = IF phase = "commit" THEN NoBlob ELSE blob
              /\ Done
              /\ UNCHANGED <<row, nonce, history>>
-----------------------------------------------------------------------------
\* handle_forget_asset removes the blob, then marks the row; the principal erasure deletes the
\* row and removes the blob before it commits.

Forget == /\ Begin("forget", "unlink")
          /\ row # NoRow
          /\ kept' = FALSE
          /\ UNCHANGED <<row, blob, staged, nonce, failures, erased, cut>>

Erase == /\ Begin("erase", IF row = NoRow THEN "commit" ELSE "unlink")
         /\ kept' = FALSE
         /\ UNCHANGED <<row, blob, staged, nonce, failures, erased, cut>>

\* Mutant: a blob is only removed when its row is active.
UnlinkActive == /\ phase = "unlink"
                /\ blob' = IF row.status = "active" THEN NoBlob ELSE blob
                /\ cut' = cut \ {"heal"}
                /\ phase' = "commit"
                /\ UNCHANGED <<row, staged, work, nonce, failures, kept, erased>>

Unlink == /\ phase = "unlink"
          /\ blob' = NoBlob
          /\ cut' = cut \ {"heal"}
          /\ phase' = "commit"
          /\ UNCHANGED <<row, staged, work, nonce, failures, kept, erased>>

CommitForget == /\ Doing("forget", "commit")
                /\ row' = [row EXCEPT !.status = "deleted"]
                /\ Done
                /\ UNCHANGED <<blob, staged, nonce, failures, history>>

CommitErase == /\ Doing("erase", "commit")
               /\ row' = NoRow
               /\ erased' = (erased \/ row # NoRow)
               /\ Done
               /\ UNCHANGED <<blob, staged, nonce, failures, kept, cut>>
-----------------------------------------------------------------------------
\* The process dies, or a removal or its transaction fails: the row is as it was and the files
\* stay as they are.  A promotion removes the old blob first; staging may be cut off.
CutOff ==
    /\ ~Idle /\ Failure /\ Done
    /\ staged' \in IF phase = "stage" THEN {staged, staged \cup {nonce}} ELSE {staged}
    /\ blob' \in IF phase = "promote" THEN {blob, NoBlob} ELSE {blob}
    /\ cut' = cut \cup (IF work = "heal" /\ phase = "commit" THEN {"heal"} ELSE {})
                  \cup (IF work \in {"store", "heal"} THEN {"copy"} ELSE {})
    /\ UNCHANGED <<row, nonce, kept, erased>>

AssetNext ==
    \/ StoreNew \/ StoreHeal \/ StoreKnown \/ Stage \/ Promote \/ CommitStore \/ StoreFails
    \/ Forget \/ Erase \/ Unlink \/ CommitForget \/ CommitErase \/ CutOff

AssetSpec == AssetInit /\ [][AssetNext]_assetVars
-----------------------------------------------------------------------------
AssetTypeOK ==
    /\ row \in Row \cup {NoRow}
    /\ blob \in 1..MaxNonce \cup {NoBlob}
    /\ staged \subseteq 1..MaxNonce
    /\ work \in Work \cup {"none"} /\ phase \in {"idle", "stage", "promote", "commit", "unlink"}
    /\ nonce \in 0..MaxNonce /\ failures \in 0..MaxFailures
    /\ kept \in BOOLEAN /\ erased \in BOOLEAN /\ cut \subseteq {"heal", "copy"}

Readable == row # NoRow /\ row.status = "active" /\ blob = row.nonce

\* An original that a store acknowledged can be decrypted until somebody asks to remove it,
\* through failed heals and removals, unless a heal was cut off between its blob and its row.
KeptIsReadable == Idle /\ kept /\ "heal" \notin cut => Readable

\* Between commands a deleted row has no bytes on disk, with the same exception.
ForgottenBytesGone ==
    Idle /\ row # NoRow /\ "heal" \notin cut => blob \in {NoBlob, row.nonce}
         /\ (row.status = "deleted" => blob = NoBlob)

\* After an erasure nothing of the original is left, unless a store had been cut off.
ErasedWhenUncut == Idle /\ erased /\ cut = {} => blob = NoBlob /\ staged = {}

-----------------------------------------------------------------------------
\* The inductive invariant behind the three properties.

\* Every command is at one of its own steps, and finds what it looked up at its start.
CommandSteps ==
    /\ Idle <=> phase = "idle"
    /\ work \in {"store", "heal"} => phase \in {"stage", "promote", "commit"}
    /\ work \in {"forget", "erase"} => phase \in {"unlink", "commit"}
    /\ work \in {"store", "heal"} => ~erased /\ nonce >= 1
    /\ work = "store" => row = NoRow
    /\ work \in {"heal", "forget"} => row # NoRow
    /\ phase = "unlink" => row # NoRow

\* A heal has the blob's place to itself; the blob a command has promoted or removed.
BlobOfCommand ==
    /\ work = "heal" /\ phase # "commit" => blob = NoBlob
    /\ work \in {"store", "heal"} /\ phase = "commit" => blob = nonce
    /\ work \in {"forget", "erase"} /\ phase = "commit" /\ row # NoRow => blob = NoBlob

\* Outside the two steps of a heal the blob belongs to the row.
BlobOfRow ==
    row # NoRow /\ "heal" \notin cut /\ ~Doing("heal", "commit")
        => /\ blob \in {NoBlob, row.nonce}
           /\ row.status = "deleted" => blob = NoBlob

\* A kept original keeps every heal out, so that nothing touches its blob.
KeptIsIdle == kept => Idle /\ row # NoRow /\ row.status = "active" /\ blob # NoBlob

\* Files without a row exist only in a store's own steps, unless one was cut off.
UncutIsTidy ==
    /\ "heal" \in cut => "copy" \in cut
    /\ cut = {} => /\ staged = IF phase = "promote" THEN {nonce} ELSE {}
                   /\ row = NoRow /\ ~Doing("store", "commit") => blob = NoBlob

AssetInv == /\ CommandSteps /\ BlobOfCommand /\ BlobOfRow /\ KeptIsIdle /\ UncutIsTidy
            /\ erased => row = NoRow
-----------------------------------------------------------------------------
=============================================================================
