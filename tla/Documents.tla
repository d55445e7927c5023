------------------------------- MODULE Documents -------------------------------
(***************************************************************************)
(* The document store of solo-storage: ingest with its content-hash dedup, *)
(* the chunk rows and their pending_index outbox, the chunk points of the  *)
(* HNSW index, soft deletion, the originals and memories that refer to a   *)
(* document, the hard erasure of one principal (gdpr.rs, gdpr_assets.rs)   *)
(* and the start that loads, replays or rebuilds (recovery.rs). A search   *)
(* reads the index first and SQLite later (solo-query/doc_search.rs).      *)
(*                                                                         *)
(* The snapshot is one value here: SnapshotFiles has the files it is made  *)
(* of. MemoryWriter has the channel and the memories; the writer handles   *)
(* one command at a time there and here.                                   *)
(***************************************************************************)
EXTENDS Naturals, FiniteSets

CONSTANTS
    Doc,        \* document ids, each used at most once (UUIDs)
    Content,    \* parsed texts, as their content_hash tells them apart
    Principal,  \* audit principals
    ChunkNo,    \* chunk indexes of a document
    BadChunkNo, \* the chunks whose embedding VectorIndex::add refuses
    NoContent,  \* the hash of a document that does not exist
    NoOne,      \* no principal
    NoDoc,      \* no command in hand
    Missing     \* no loadable snapshot

ASSUME DocumentsAssumption ==
    /\ BadChunkNo \subseteq ChunkNo
    /\ ChunkNo # {}
    /\ NoOne \notin Principal
    /\ NoContent \notin Content
    /\ NoDoc \notin Doc
    /\ \A chunks \in SUBSET (Doc \X ChunkNo) : chunks # Missing

Chunk == Doc \X ChunkNo
ChunksOf(d) == {d} \X ChunkNo
Good(chunks) == {c \in chunks : c[2] \notin BadChunkNo}

VARIABLES
    \* SQLite
    status,    \* documents.status; "absent": never inserted, "erased": row deleted
    content,   \* documents.content_hash
    by,        \* document_chunks.ingested_by_principal (one ingest, one principal)
    rows,      \* document_chunks with their chunk_embeddings
    pending,   \* chunk rows of pending_index
    attached,  \* principals with a memory attached to the document
    originals, \* principals whose retained original is linked to it
    \* disk
    snap,      \* the snapshot pair a start would load: the chunks it holds points of
    \* the process
    pc,        \* "down", "replay", "idle", or the step the writer is at
    mode,      \* "serve": the daemon; "erase": `solo gdpr forget`, which runs alone
    cur,       \* document of the command in hand
    graph,     \* chunks with one or more points in the HNSW graph
    tombs,     \* chunks in HnswIndex::tombstones
    drain,     \* outbox rows to delete after the reply
    todo,      \* outbox rows that this start still has to replay
    \* history
    lost,      \* chunks of active documents no start can index again
    untold     \* forgotten documents whose tombstones this process failed to set

db == <<status, content, by, rows, pending, attached, originals>>
index == <<graph, tombs>>
work == <<drain, todo>>
history == <<lost, untold>>
vars == <<db, snap, pc, mode, cur, index, work, history>>

Present == {d \in Doc : status[d] \in {"active", "forgotten"}}
RowsOf(d) == rows \cap ChunksOf(d)
ActiveRows == {c \in rows : status[c[1]] = "active"}
ForgottenRows == {c \in rows : status[c[1]] = "forgotten"}
Visible == graph \ tombs
Serving == pc = "idle" /\ mode = "serve"

\* HnswIndex::add for each chunk: one more point, also for one that has a point, and its
\* tombstone is lifted.
Add(chunks) ==
    /\ graph' = graph \cup chunks
    /\ tombs' = tombs \ chunks
-----------------------------------------------------------------------------
Init ==
    /\ status = [d \in Doc |-> "absent"]
    /\ content = [d \in Doc |-> NoContent]
    /\ by = [d \in Doc |-> NoOne]
    /\ rows = {} /\ pending = {}
    /\ attached = [d \in Doc |-> {}]
    /\ originals = [d \in Doc |-> {}]
    /\ snap = Missing
    /\ pc = "down" /\ mode = "serve" /\ cur = NoDoc
    /\ graph = {} /\ tombs = {}
    /\ drain = {} /\ todo = {}
    /\ lost = {} /\ untold = {}
-----------------------------------------------------------------------------
(* Ingest (writer.rs, handle_ingest_document_durable).                      *)

\* Mutant: the lookup skips forgotten documents.
KnownActive(x) == {d \in Doc : status[d] = "active" /\ content[d] = x}

\* The dedup lookup does not ask for the status.
Known(x) == {d \in Present : content[d] = x}

\* One transaction: the document, its chunks with their embeddings, the outbox rows.
\* Content that is known is answered without touching anything.
IngestCommit(p, x, d) ==
    /\ Serving
    /\ Known(x) = {}
    /\ status[d] = "absent"
    /\ status' = [status EXCEPT ![d] = "active"]
    /\ content' = [content EXCEPT ![d] = x]
    /\ by' = [by EXCEPT ![d] = p]
    /\ rows' = rows \cup ChunksOf(d)
    /\ pending' = pending \cup ChunksOf(d)
    /\ pc' = "index" /\ cur' = d
    /\ UNCHANGED <<attached, originals, snap, mode, index, work, history>>

\* Mutant: every outbox row is drained, also those of refused chunks.
IndexChunksDrainAll ==
    /\ pc = "index"
    /\ Add(Good(ChunksOf(cur)))
    /\ drain' = ChunksOf(cur)
    /\ pc' = "drain" /\ cur' = NoDoc
    /\ UNCHANGED <<db, snap, mode, todo, history>>

\* hnsw.add for each chunk, then the reply. A refused chunk keeps its outbox row.
IndexChunks ==
    /\ pc = "index"
    /\ Add(Good(ChunksOf(cur)))
    /\ drain' = Good(ChunksOf(cur))
    /\ pc' = "drain" /\ cur' = NoDoc
    /\ UNCHANGED <<db, snap, mode, todo, history>>

\* One DELETE per row; a failure is only logged.
Drain ==
    /\ pc = "drain"
    /\ \E failed \in SUBSET drain : pending' = pending \ (drain \ failed)
    /\ drain' = {}
    /\ pc' = "idle"
    /\ UNCHANGED <<status, content, by, rows, attached, originals, snap, mode, cur, index, todo,
                   history>>
-----------------------------------------------------------------------------
(* Forget, attach, link.                                                    *)

\* handle_forget_document commits the status, then looks for the chunks to tombstone.
ForgetCommit(d) ==
    /\ Serving
    /\ d \in Present
    /\ status' = [status EXCEPT ![d] = "forgotten"]
    /\ pc' = "tombstone" /\ cur' = d
    /\ UNCHANGED <<content, by, rows, pending, attached, originals, snap, mode, index, work,
                   history>>

Tombstone ==
    /\ pc = "tombstone"
    /\ tombs' = tombs \cup RowsOf(cur)
    /\ pc' = "idle" /\ cur' = NoDoc
    /\ UNCHANGED <<db, snap, mode, graph, work, history>>

\* The rowids could not be read: the caller gets an error for a durable forget.
TombstoneFails ==
    /\ pc = "tombstone"
    /\ untold' = untold \cup {cur}
    /\ pc' = "idle" /\ cur' = NoDoc
    /\ UNCHANGED <<db, snap, mode, index, work, lost>>

\* A memory of p refers to an active document (attach_memory).
Attach(p, d) ==
    /\ Serving
    /\ status[d] = "active"
    /\ attached' = [attached EXCEPT ![d] = @ \cup {p}]
    /\ UNCHANGED <<status, content, by, rows, pending, originals, snap, pc, mode, cur, index,
                   work, history>>

\* A retained original of p is linked to it (link_document_asset).
LinkOriginal(p, d) ==
    /\ Serving
    /\ status[d] = "active"
    /\ originals' = [originals EXCEPT ![d] = @ \cup {p}]
    /\ UNCHANGED <<status, content, by, rows, pending, attached, snap, pc, mode, cur, index,
                   work, history>>
-----------------------------------------------------------------------------
(* Erasure of a principal (`solo gdpr forget`).                             *)

\* Mutant: attachments of others are not looked at.
ErasedDocsUnattached(p) ==
    {d \in Present :
        /\ (by[d] = p /\ RowsOf(d) # {}) \/ p \in originals[d]
        /\ RowsOf(d) # {} => by[d] = p}

\* Documents deleted whole: p's chunks or original, nobody else's chunks or attachments.
ErasedDocs(p) ==
    {d \in Present :
        /\ (by[d] = p /\ RowsOf(d) # {}) \/ p \in originals[d]
        /\ RowsOf(d) # {} => by[d] = p
        /\ attached[d] \subseteq {p}}

\* An original in scope that belongs to another, or to a document that stays.
SharedOriginal(p) ==
    \E d \in Present :
        \/ d \in ErasedDocs(p) /\ ~ originals[d] \subseteq {p}
        \/ d \notin ErasedDocs(p) /\ p \in originals[d]

\* Inside the writer: one transaction, then the tombstones of the deleted chunks.
\* Foreign keys take the outbox rows, attachments and links along.
EraseRows(p) ==
    LET gone == {c \in rows : by[c[1]] = p}
    IN  /\ pc = "idle" /\ mode = "erase"
        /\ ~ SharedOriginal(p)
        /\ status' = [d \in Doc |-> IF d \in ErasedDocs(p) THEN "erased" ELSE status[d]]
        /\ rows' = rows \ gone
        /\ pending' = pending \ gone
        /\ attached' = [d \in Doc |-> attached[d] \ {p}]
        /\ originals' = [d \in Doc |-> originals[d] \ {p}]
        /\ tombs' = tombs \cup gone
        /\ pc' = IF gone = {} /\ ErasedDocs(p) = {} THEN "close" ELSE "rebuild"
        /\ UNCHANGED <<content, by, snap, mode, cur, graph, work, history>>

\* rebuild_hnsw_after_forget adds every surviving chunk to the index as it is.
EraseRebuild ==
    /\ pc = "rebuild"
    /\ Add(Good(ActiveRows))
    /\ pc' = "close"
    /\ UNCHANGED <<db, snap, mode, cur, work, history>>
-----------------------------------------------------------------------------
(* Stop, crash, start.                                                      *)

\* Chunks neither the outbox nor what the next start loads would bring back.
Unrecoverable(loaded) ==
    IF loaded = Missing THEN {} ELSE Good(ActiveRows) \ (pending \cup loaded)

\* The process is gone: what was only in memory goes with it.
Down ==
    /\ pc' = "down" /\ mode' = "serve" /\ cur' = NoDoc
    /\ graph' = {} /\ tombs' = {}
    /\ drain' = {} /\ todo' = {}
    /\ untold' = {}

\* snapshot::save, which skips an empty graph.
Save ==
    snap' = IF graph = {} THEN snap ELSE graph

\* shutdown_with_snapshot, after the erasing command or when the daemon stops.
Stop ==
    /\ Serving \/ pc = "close"
    /\ Save
    /\ lost' = lost \cup Unrecoverable(snap')
    /\ Down
    /\ UNCHANGED db

\* The erasure is refused whole: the command fails and exits without a save.
EraseRefused(p) ==
    /\ pc = "idle" /\ mode = "erase"
    /\ SharedOriginal(p)
    /\ lost' = lost \cup Unrecoverable(snap)
    /\ Down
    /\ UNCHANGED <<db, snap>>

\* Killed, or a save that fails: the old snapshot stays, or none is readable.
Crash ==
    /\ pc # "down"
    /\ snap' \in {snap, Missing}
    /\ lost' = lost \cup Unrecoverable(snap')
    /\ Down
    /\ UNCHANGED db

\* Mutant: a loaded snapshot keeps the points of forgotten documents visible.
StartWithoutTombstones(m) ==
    /\ pc = "down"
    /\ pc' = "replay" /\ mode' = m
    /\ graph' = IF snap = Missing THEN Good(ActiveRows) ELSE snap
    /\ tombs' = {}
    /\ todo' = pending \cap Good(ActiveRows)
    /\ UNCHANGED <<db, snap, cur, drain, history>>

\* LibraryHandle::open: rebuild from SQL when nothing loads, else tombstone the
\* chunks of forgotten documents. Points of erased chunks have no row to find. The
\* replay takes the rows of active documents; those refused again are left out of todo.
Start(m) ==
    /\ pc = "down"
    /\ pc' = "replay" /\ mode' = m
    /\ graph' = IF snap = Missing THEN Good(ActiveRows) ELSE snap
    /\ tombs' = IF snap = Missing THEN {} ELSE ForgottenRows
    /\ todo' = pending \cap Good(ActiveRows)
    /\ UNCHANGED <<db, snap, cur, drain, history>>

\* Mutant: rows of forgotten documents are replayed like any other.
ReplayRowAnyStatus(c) ==
    /\ pc = "replay"
    /\ c \in pending \cap Good(rows)
    /\ Add({c})
    /\ pending' \in {pending, pending \ {c}}
    /\ todo' = todo \ {c}
    /\ UNCHANGED <<status, content, by, rows, attached, originals, snap, pc, mode, cur, drain,
                   history>>

\* Mutant: a DELETE that fails ends the replay.
ReplayRowBreaks(c) ==
    /\ pc = "replay"
    /\ c \in todo
    /\ Add({c})
    /\ \/ (pending' = pending \ {c} /\ todo' = todo \ {c})
       \/ (pending' = pending /\ todo' = {})
    /\ UNCHANGED <<status, content, by, rows, attached, originals, snap, pc, mode, cur, drain,
                   history>>

\* replay_pending_index: add, then delete the row; a DELETE that fails is logged and leaves
\* the row to the next start, beside its point. The process can die in between rows.
ReplayRow(c) ==
    /\ pc = "replay"
    /\ c \in todo
    /\ Add({c})
    /\ pending' \in {pending, pending \ {c}}
    /\ todo' = todo \ {c}
    /\ UNCHANGED <<status, content, by, rows, attached, originals, snap, pc, mode, cur, drain,
                   history>>

\* Rows of forgotten documents are collected, or stay when that DELETE fails; the start goes
\* on with whatever rows are left.
ReplayEnd ==
    /\ pc = "replay"
    /\ todo = {}
    /\ pending' \in {pending, pending \cap ActiveRows}
    /\ pc' = "idle"
    /\ UNCHANGED <<status, content, by, rows, attached, originals, snap, mode, cur, index, work,
                   history>>
-----------------------------------------------------------------------------
Next ==
    \/ \E p \in Principal, x \in Content, d \in Doc : IngestCommit(p, x, d)
    \/ IndexChunks \/ Drain
    \/ \E d \in Doc : ForgetCommit(d)
    \/ Tombstone \/ TombstoneFails
    \/ \E p \in Principal, d \in Doc : Attach(p, d) \/ LinkOriginal(p, d)
    \/ \E p \in Principal : EraseRows(p) \/ EraseRefused(p)
    \/ EraseRebuild
    \/ Stop \/ Crash
    \/ \E m \in {"serve", "erase"} : Start(m)
    \/ \E c \in Chunk : ReplayRow(c)
    \/ ReplayEnd

Spec == Init /\ [][Next]_vars
-----------------------------------------------------------------------------
\* Every variable has its type; an outbox row has its chunk, a chunk its document.
TypeOK ==
    /\ status \in [Doc -> {"absent", "active", "forgotten", "erased"}]
    /\ content \in [Doc -> Content \cup {NoContent}]
    /\ by \in [Doc -> Principal \cup {NoOne}]
    /\ rows \subseteq {c \in Chunk : c[1] \in Present}
    /\ pending \subseteq rows
    /\ attached \in [Doc -> SUBSET Principal]
    /\ originals \in [Doc -> SUBSET Principal]
    /\ snap = Missing \/ snap \subseteq Chunk
    /\ pc \in {"down", "replay", "idle", "index", "drain", "tombstone", "rebuild", "close"}
    /\ mode \in {"serve", "erase"}
    /\ cur \in Doc \cup {NoDoc}
    /\ graph \subseteq Chunk /\ tombs \subseteq Chunk
    /\ drain \subseteq Chunk /\ todo \subseteq Chunk
    /\ lost \subseteq Chunk /\ untold \subseteq Doc

\* No operation of a running library loses a chunk: each chunk of an active document is
\* searchable or in the outbox, but for those a crash took between drain and snapshot.
\* (handle_ingest_document_durable, replay_pending_index, rebuild_hnsw_after_forget)
ChunkCoverage == pc # "down" => ActiveRows \subseteq Visible \cup pending \cup lost

\* A forgotten document stays out of the index across saves, crashes and starts, unless
\* its forget was answered with an error after its commit and this process still runs.
\* (handle_forget_document, rebuild_chunk_tombstones_from_sql)
ForgottenChunksHidden ==
    pc # "down" =>
        \A c \in ForgottenRows \cap Visible : c[1] \in untold \/ (pc = "tombstone" /\ c[1] = cur)

\* Retries after a crash, after a forget, by another principal or after an erasure never
\* make a second document of one text. (the dedup lookup by content_hash)
OneDocumentPerContent ==
    \A d, e \in Present : content[d] = content[e] => d = e

\* Once a start has replayed, every chunk of an active document that the index takes is found
\* by the next search, whether its outbox row could be deleted or not, but for the ingest in
\* hand and what a crash took: a row that is left to a later start has its point already.
\* (replay_pending_index, dispatch_ingest_document, rebuild_hnsw_after_forget)
SearchableOnceServed ==
    pc \notin {"down", "replay"} =>
        \A c \in Good(ActiveRows) : c \in Visible \cup lost \/ (pc = "index" /\ c[1] = cur)

\* A document only goes as a whole with nobody else's memory or original on it, and a
\* document that loses its chunks but stays had a memory of somebody else attached, and
\* no original of the one who ingested it.
\* (gdpr_assets::prepare, delete_principal_rows_with_assets)
ErasureScope ==
    [][\A d \in Present :
          /\ status'[d] = "erased" =>
                \E p \in Principal : /\ attached[d] \cup originals[d] \subseteq {p}
                                     /\ RowsOf(d) # {} => by[d] = p
          /\ status'[d] # "erased" /\ RowsOf(d) # {} /\ rows' \cap ChunksOf(d) = {} =>
                /\ attached[d] \ {by[d]} # {}
                /\ by[d] \notin originals[d]]_vars

\* While a process lives, a tombstone is only lifted for a chunk of an active document:
\* replay and rebuild bring nothing forgotten or erased back.
\* (replay_pending_index, rebuild_hnsw_from_sql)
NothingReturns ==
    [][pc # "down" /\ pc' # "down" => tombs \ tombs' \subseteq ActiveRows']_vars
-----------------------------------------------------------------------------
(* The inductive invariant behind the properties above.                     *)

\* An ingest in hand has its rows and no points yet, a forget in hand has its status, and
\* only chunks that are in the index are drained.
CommandInHand ==
    /\ IF pc \in {"index", "tombstone"} THEN cur \in Doc ELSE cur = NoDoc
    /\ pc = "index" => /\ status[cur] = "active"
                       /\ ChunksOf(cur) \subseteq rows
                       /\ graph \cap ChunksOf(cur) = {}
    /\ pc = "tombstone" => status[cur] = "forgotten"
    /\ IF pc = "drain" THEN drain \subseteq Visible ELSE drain = {}

\* Refused chunks are in no index, and a document id has no points before its ingest.
PointsInOrder ==
    /\ graph \subseteq Good(Chunk) /\ \A c \in graph : status[c[1]] # "absent"
    /\ snap # Missing =>
          snap \subseteq Good(Chunk) /\ \A c \in snap : status[c[1]] # "absent"

\* The outbox row of a refused chunk stays as long as its document is active.
RefusedStayInOutbox == ActiveRows \subseteq pending \cup Good(Chunk)

\* What the next start cannot bring back was counted when the last process ended.
LostWhileDown == pc = "down" => Unrecoverable(snap) \subseteq lost

\* What a start has not yet in the index, it still has to replay.
ReplayInHand ==
    IF pc = "replay"
    THEN /\ todo \subseteq Good(ActiveRows)
         /\ Good(ActiveRows) \subseteq Visible \cup todo \cup lost
    ELSE todo = {}

DocumentInv ==
    /\ CommandInHand /\ PointsInOrder /\ RefusedStayInOutbox /\ LostWhileDown
    /\ ReplayInHand /\ ChunkCoverage /\ ForgottenChunksHidden
    /\ OneDocumentPerContent /\ SearchableOnceServed
=============================================================================
