# Solo Community: formal models

TLA+ models of the stateful core of Solo Community, the configurations that
check them with TLC, and theorems about them checked by TLAPS. Paths are
relative to the repository; `storage/` stands for
`crates/solo-storage/src/` and `api/` for `crates/solo-api/src/`.

## 1. The system

Solo keeps a person's memories and documents in one encrypted SQLite database
("the library") with a vector index beside it. A daemon serves it over HTTP and
MCP; the command line opens the same directory when no daemon runs.

| part | state | operations | interacts with |
|---|---|---|---|
| writer actor (`storage/writer.rs`) | the only write connection; a bounded command channel | remember, batch, update, forget, documents, originals, consolidation, re-embedding, backup, save | callers (channel and one-shot replies), index, snapshots, daemon timers |
| vector index (`storage/vector_index.rs`) | HNSW points, tombstones, in memory | add, remove, search | writer adds after COMMIT; readers search without a lock on the writer |
| outbox (`pending_index`) | one row per vector that may not be indexed yet | written in the transaction, deleted after the reply, replayed by a start | writer, recovery |
| snapshot files (`storage/snapshot.rs`) | live, bak and tmp pairs of two files | save, load, wipe | writer's save command, start, reembed |
| start and recovery (`storage/startup.rs`, `recovery.rs`, `library/handle.rs`) | none of its own | load with fallback, rebuild, tombstones, replay, orphan sweep | all of the above |
| library lifecycle (`storage/memory_library.rs`, `solo-cli/src/commands/daemon.rs`) | the shared handle | open lazily, shut down with or without a save | writer |
| data directory lock (`storage/lockfile.rs`) | a file with a pid | acquire, recover a stale one, release | every process that opens the directory |
| document uploads (`api/document_upload.rs`) | staged bytes, a manifest of three files, a lock per upload | prepare, append, commit, abort, ingest, sweep | HTTP and MCP clients, writer |
| retained originals (`storage/asset_*.rs`, `gdpr_assets.rs`) | rows of `assets`, encrypted blob files | store, heal, reactivate, forget, erase | writer, uploads, principal erasure |
| documents (`storage/document/`, `writer.rs`) | rows of documents, chunks and what refers to them, chunk points | ingest with dedup, forget, attach to a memory, link an original | writer, index, outbox, originals, erasure |
| principal erasure (`storage/gdpr*.rs`) | none of its own | delete one principal's rows and files, rebuild the index | library opened alone, all rows |
| re-embedding and embedder change (`solo-cli/src/commands/reembed.rs`, `embedder_migrate.rs`, `api/http.rs`) | `solo.config.toml`, a config backup | reembed, migrate with rollback, switch over HTTP | rows, snapshots, start |
| derived memory (`storage/triples_batch.rs`, `solo-steward`, timers of `daemon.rs`, jobs of `api/http.rs`) | clusters, abstractions, a counter with a wake-up, the derived-memory lease | consolidate, extract, backfill, repair, catch-up at start | writer (commands), reader pool, LLM |
| MCP sessions (`api/mcp_session.rs`, `mcp_notify.rs`, `mcp_progress.rs`) | session table, event ids, replay buffer, broadcast channel | publish, open and resume a stream, expire | invalidations of the writer, tool calls, clients |
| audit, fact review, backup, layout migration | rows, files | see `components` of PROJECT.json | writer |
| query side (`solo-query`) | none | recall, context packing, document search | reader pool, index |
| MCP tasks, sampling, HTTP routing, tray, web app | tables in memory, UI | | daemon |

What is hard here: one write touches four stores (rows, outbox, index,
snapshot) of which only two are transactional together; replies, drains and
saves come after the COMMIT and any of them can be cut off; files are replaced
by several renames; callers vanish at any await; locks are files. Index and
rows disagreeing is invisible to a caller: a search just misses a memory.

What makes each part correct:

* writer, index, recovery: an active memory is findable or in the outbox; an
  Ok write is durable and findable; a forgotten memory is never returned; a
  superseded vector never comes back; every call returns; a stop ends.
* snapshots: a start never falls behind the last acknowledged save; a complete wipe is final.
* lock: one owner; whoever is refused has met another Solo process.
* uploads: an ingest sees exactly the announced bytes; acknowledged progress
  is kept; a receipt is true; no staged byte is removed while needed and all of
  them go in the end.
* originals: what was stored can be decrypted; what was removed or erased is gone.
* documents: one document per content; a chunk of an active document is findable or in
  the outbox, a chunk of a forgotten one is not findable; an erasure takes what is one
  principal's and nothing else.
* embedder change: vectors of two models are never searched together; the library opens
  wherever a migration was cut off; a rollback finds what it goes back to.
* derived memory: an abstraction that misses a member is redone; no memory falls between two
  batches; no job keeps the others out.
* MCP stream: a client gets every event, in order, or is told that some are gone.

The hazards these properties are aimed at are listed, each at its line, in
PROJECT.json, the ones no property covers yet with the reason.

## 2. Modules

| module | models |
|---|---|
| `MemoryPromise` | abstract: what the writer promises its callers (whole batches, a write at most once, Ok only when durable, nothing undone) |
| `MemoryWriter` | the writer actor with outbox, index, channel, callers, crashes, stops and starts; implements `MemoryPromise` (`INSTANCE ... WITH`) |
| `MCMemoryWriter` | the bound of the batch run |
| `SnapshotPair` | what a snapshot pair can be and what an interrupted save may leave; shared by the two modules around it |
| `SnapshotFiles` | save and wipe one file operation at a time; shows that `SnapshotPair` lists every outcome |
| `Documents` | documents, chunks, their outbox and index points, attachments, originals' links, erasure, crashes and starts |
| `MCDocuments` | the symmetry of its run |
| `EmbedderChange` | the library while its embedding model changes: daemons, reembed, migration, HTTP switch |
| `DerivedMemory` | clusters and abstractions, the jobs of the derived-memory lease, the triples timer, the writer's part of them |
| `McpStream` | one MCP session: publishers, replay buffer, the client's resumable stream |
| `LockFile` | several processes acquiring and releasing the lock file |
| `DocumentUpload` | one upload: its operations file call by file call, its commands to the writer, the sweep, the clock |
| `AssetStore` | one retained original: row, blob, staged copies, nonces |
| `*_proof` | the theorems |

### MemoryWriter

The state follows the code: `status`, `vec`, `pending` are the committed rows
(`episodes.status`, `embeddings.vector`, `pending_index`), `graph` and `tombs`
the `HnswIndex`, `live` and `bak` the snapshot pairs, `queue` the mpsc channel,
`cur`, `todo`, `ok`, `drain` the local state of the command in hand. `asked`,
`answer`, `served`, `lost` are history.

A command takes the steps of its dispatcher: `Tx*` (dequeue and transaction, to
COMMIT or rollback), `IndexVector` or `IndexForget` per memory, `Reply`,
`DrainRow` per memory. `Crash` is enabled between any two. `Load`, `ReplayRow`,
`ReplayDone` are `LibraryHandle::open`; `StopService` and `ActorExit` the
shutdown. Choices worth knowing:

* A save is one step here, with the outcomes `SnapshotPair` allows when it
  fails or the process dies in it. `SaveContract` of `SnapshotFiles`, which is
  proved, is what justifies this: the writer thread does nothing else meanwhile.
* A caller's wait for a place in the channel and its send are one step: a sender that waits
  for a place is no state of the model, and `EveryCallReturns` says nothing about it.
* `BadVec` are embeddings `add` refuses (wrong dimension, not F32); the public
  `WriteHandle` takes them. A batch skips them, a single write answers Err.
* A shutdown that finds the handle still shared, or is given up after its time
  limit, ends the process without save and join: it is covered by `Crash`.
* A search is taken to find every point in the graph; the approximation of HNSW
  and the final SQL filter on `status` are not modelled. `ForgottenHidden` is
  about the index itself, the filter is a second barrier.
* Memory ids are fresh UUIDs.

### SnapshotPair, SnapshotFiles

Each file holds a version of the index, or is absent or cut. A pair loads if both
files are of one version; a torn pair is taken to be rejected by the loader of
`hnsw_rs` (an external crate). Interruptions leave the files as the last
completed call did, or one cut file; loss of power with writes reordered below
the file system is not modelled, the code's fsync calls are therefore no steps.

### LockFile

`path` names who created the file, `written` whose pid is in it, `foreign` the pids that
programs other than Solo have. A start ends with the lock ("held"), is refused at the read, the
pid check, the removal or the one retry, or fails on an I/O error (`Fail`, or the write in
`WritePid`); `End` is a process that dies at any point or gives up. Three
history variables say what a property needs to know of the past: `raced`, two acquisitions have
overlapped; `reused`, the pids that have come back; `met`, the processes that were not the only
living Solo process while they acquired.

* `OneOwnerUnlessRaced` stops at `raced`: an empty body counts as stale, and two overlapping
  starts can both own the directory (section 5).
* `RefusedOnlyByOther` does not stop there: it is about every refusal, in races too. It excepts
  only a refusal by a pid that has come back (section 5).
* Any error of `read_to_string` is answered as held; other than for a missing file it is `Fail` here.

### DocumentUpload

An upload shares nothing with another but the directory, so one is modelled. Only the
holder of its lock changes files, and a caller that finds the lock taken is
told "busy" and changes nothing: such calls and refused ones are no actions.
`holder` and `step` are the operation and its next file call, `draft` the
manifest it holds in memory. `write_manifest` is six steps over the three
files. `Interrupt` ends the operation at any step: a failing file call, a crash,
or the client hanging up (the handler's future is dropped, `api/http.rs:4793`).

* Bytes are counted, not named: `Size` units.
* A deadline is one tick ahead (a receipt's two), enough to expire before,
  between and after the steps of another operation.
* prepare takes no lock in the code; its id is not known to anybody yet, so it
  is modelled as holder.
* Removing a leftover tmp and renaming a backup back, both best effort in the
  code, succeed unless interrupted.
* Not modelled: a write handed to tokio's blocking pool that lands after the
  lock was released, and a status call reading the three manifest files one
  after the other. Both are listed as hazards.

### AssetStore

Originals are stored under the hash of their content and share nothing, so one
content is modelled. A blob is represented by the nonce it was encrypted with: it can be
decrypted only by a row with the same nonce. Stores, removals and erasures run
one at a time in the writer; an erasure is taken to be in scope for this
original. `cut` remembers what interrupted stores left: `"heal"` a blob whose
nonce no row holds, `"copy"` a stray copy or blob.

### Documents

Texts and documents are model values, a content hash the text itself. `by`, `attached`
and `originals` are the three ways in which a document belongs to a principal; `rows`,
`pending`, `graph` and `tombs` are chunk rows, outbox and index, `todo` the rows that the replay of a start has read and not tried yet, and
`snap` what a start would load. An ingest is `IngestCommit` (dedup and transaction), `IndexChunks`,
`Drain`; a forget `ForgetCommit` and `Tombstone` or `TombstoneFails`; an erasure runs in a
process of its own (`mode = "erase"`): `EraseRows`, `EraseRebuild`, `Stop`. `Crash` is
enabled between any two.

* One ingest, one principal: `ingested_by_principal` is the same on all chunks.
* Whether a chunk of an erased document keeps its point is visible only through the
  snapshot (the SQL join of a search hides it).
* A chunk with several points in the index counts as one with a point (section 5).
* Files of originals are in `AssetStore`.
* Any DELETE of the replay may fail, of a row or of the orphans: the row stays, the start goes on.
  A row the replay skips without `add` (size, or alignment of the blob) counts as refused by
  the index.
* SQLite may give the rowid of an erased chunk to a new one; ids are not used again here.

### EmbedderChange

A vector is named by its item and its model. `config` is `solo.config.toml`, `running` the
model the process opened the library with, `pc` the daemon or the step of the command.
`reembed` takes its candidates one at a time (`ReembedRow`, `ReembedRowFails`), then wipes
the snapshots or fails to; `migrate-embedder` clears the snapshots, replaces the config, opens,
prepares, collects the old rows or rolls back, and finishes. `Crash` is enabled
anywhere. `home` is the model the last complete change left; `tainted` marks libraries
into which vectors of an earlier model can come back (section 5 says how), and the
properties on mixing and opening are about the others.

### DerivedMemory

An abstraction is the set of members it describes; which memories are alike and what the LLM
answers is any choice. `job` is the holder of `StewardRuntimeStatus::derived_job`, `step` its
place in its code, `queue` its commands in the writer's channel. The lease's holders
are the start-up catch-up, the two timers, and the HTTP jobs, of which all but the backfill end
with their caller (`HangUp`), though a command they have sent does not.

* A consolidation is its two transactions, `ClusterMemories` and `MergeClusters`; the fields
  of a cluster other than its members are left out, and so are contradictions,
  entities and the review queue.
* `permits` are the wakes stored in tokio's `Notify`: one, and one more while the timer is
  waiting and has not run yet.
* `merged` and `loose` are the clusters `StaleIsRetried` does not speak of: those that took over
  another one, and those changed by a consolidation whose caller had hung up (section 5).
* The commands of other callers are not in `queue`: they touch no cluster.

### McpStream

`publish_event` is three steps, `TakeId`, `Push`, `Send`, of the bridge and of each
progress reporter. The stream subscribes (`Connect`), copies and filters the buffer
(`Snapshot`) and sends what it has (`SendInit`, `SendQueued`, `SendLive`, `SendLagged`).
`filters` tells a client that ignores the id 0 of synthetic events from a plain SSE
client, which takes it for its `Last-Event-ID`.

* `Newer` is written as a function over the buffer's prefixes, so that it can be proved about.
* Expiry, sweep and DELETE are one action. A client told `session_expired` starts
  another session.
* The bridge gets every invalidation and ends only with its session: one it loses because it
  lags (`mcp_notify.rs:266`, logged and skipped before it has an id), and its end when the library closes
  (`:274`), are not modelled.
* Task store, request cancellation and the tools themselves are not modelled.

## 3. Runs

| run | instance | shows |
|---|---|---|
| `writer_calls` | one memory, two callers, a good and a refused vector, channel of one | types, `OkMeansSearchable`, `PendingIsCurrent`, and the liveness properties `EveryCallReturns`, `StopCompletes` |
| `writer_batch` | two memories, one caller, no updates | batches partly refused, `IndexCoverage`, `ForgottenHidden` from every pair a save can leave, `SavedStopLosesNothing`, and `KeepsPromise`: the writer implements `MemoryPromise` |
| `snapshot_files` | up to five saves and wipes | `SaveContract`, `NoRollback`, `WipeIsFinal` |
| `lock_file` | three processes | `OneOwnerUnlessRaced`, `RefusedOnlyByOther` |
| `upload` | two units, clock to 2, two interruptions | the six properties of the module, `SweptEventually` under fairness |
| `assets` | four encryptions, three faults | `KeptIsReadable`, `ForgottenBytesGone`, `ErasedWhenUncut` |
| `documents` | two ids, two texts, two principals, two chunks of which one is refused | `ChunkCoverage`, `ForgottenChunksHidden`, `OneDocumentPerContent`, `SearchableOnceServed`, `ErasureScope`, `NothingReturns` |
| `embedder_change` | two memories, one chunk, three models of two dimensions | `OneVectorSpace`, `ConfigHasRows`, `MigratedIsSearchable`, `Opens` |
| `mcp_stream` | the bridge and one reporter, buffer of two, four events | `NoSilentGap`, `CaughtUp`, `BridgeServesStream`, `InOrder` |
| `derived` | two memories, two clusters, batches of one cluster, backfills of two batches | `StaleIsRetried`, `NotedCountsTowardsNext`, and `LeaseReturns` under fairness |
| `writer_crash_loss`, `embedder_chunks` | | the counterexamples of section 5 |

Why the bounds are enough. The rows, outbox entry and index entry of a memory
do not influence another memory's except through a batch, a save and the order of
the queue: one memory with updates and two callers, and two memories in one
batch, reach every combination of these. Two vectors are needed to tell a
current from a superseded or a refused one. A channel of one place is full as soon
as one call is queued. A save looks at the live and the bak pair, which come from at
most two earlier saves: five cover save, interrupted save, and recovery after
both. Three processes are the fewest in which a third profits from a race of two. Two
interruptions of an upload reach a retry of a retry. Four nonces and three faults in
`AssetStore` reach a failed heal of a failed heal. Two texts, two ids and two principals give a
document of each and one that both have a share in; a second chunk is needed for a partly
refused ingest. Three models, the third of another dimension, are a migration, its way
back, and one beside them. A buffer of two overflows with three of four events,
which leaves one for the stream that has just been told. Two clusters are the fewest
that can be merged, a batch limit of one leaves one of them for the next batch, and a channel
of one place still lets a command whose caller is gone run beside the next
job, which takes a place only after its LLM calls. All safety properties that hold
are in addition proved without any bound (section 4).

Deadlock is checked except in `lock_file`, `upload` and `mcp_stream`, where processes, uploads
and the bounded events of a session end. `documents` uses the symmetry of ids, texts and
principals; it has no liveness property.

Fairness. `MemoryWriter`: weak fairness of the actor's steps (its thread loops
on the channel and blocks on nothing but SQLite and the file system) and of the replay
(a start runs to its end); none for callers, stops, starts and crashes, so a call
may also end by `Abandon` or a crash. `DocumentUpload`: weak fairness of an
operation's next step (the future is polled or dropped), of the clock and of
the sweep (`document_upload_sweep_timer` in `daemon.rs:627`, which
also runs at start and in every prepare); `SweptEventually` is stated for clients
that have stopped calling (`CallersStop`), for a client that keeps renewing the
deadline keeps the upload. `DerivedMemory`: weak fairness of the writer and of a job's next step:
each LLM call ends by its `cluster_timeout_secs` (when that is not 0, the setting
that switches the timeout off); none for timers, callers, crashes and the loss of callers.
The other modules need none.

## 4. Proofs

Proved with TLAPS for all values of the constants that satisfy the modules'
assumptions (any sets of memories, callers, vectors, documents, principals, models,
clusters and processes, any channel and buffer capacity, any size and deadline of an upload,
any number of saves, encryptions, events and faults). Each theorem rests on an inductive invariant that TLC
checked first; one lemma per action, or per group of actions that change the same state,
shows that it is preserved.

* `MemoryWriter_proof`: `TypeCorrect`, `NothingUncovered`, `ForgottenStaysHidden`,
  `OutboxIsCurrent`, `SavedStopIsSafe` from `IndexInv`. `IndexCoverage` is not inductive: a drain
  is safe only since the vector it stands for is visible (`CommandInHand`), which
  the index step established; a start covers a memory only if what it loads or
  rebuilds holds it or its row is still there, and a refused vector is nowhere in
  the index, so its row must never go (`OnlyGoodIndexed`, `RefusedStayInOutbox`);
  and what a start cannot cover was decided when the last process ended
  (`LostWhileDown`). `OkIsSearchable` needs `ServedInv` besides: what the handler in hand
  has indexed can be found as long as its answer is to be Ok, and a single write has one
  memory, so that a refused vector leaves nothing to answer Ok for.
* `MemoryWriter_proof`, `WriterKeepsPromise`: the writer implements `MemoryPromise`. A
  call maps to `Ask`, a committed transaction to `Store`, `Rewrite` or `Forget`, `Reply`
  to `Answer`, everything else, a crash and a restart included, to a stutter.
  That an answer is given once and for what was asked
  takes `PromiseInv`: a queued command was asked for and is unanswered, no two
  commands in the channel or in hand hold the same new memory.
* `SnapshotFiles_proof`: `SavesKeepContract`, `NeverRollsBack`, `WipesAreFinal` from
  `FilesInv`, which relates every file to the versions before the save in
  progress and to the step it is at.
* `LockFile_proof`: `OneOwner` from `LockInv` (while nobody raced, a holder's file is in place
  and at most one process is between creation and release), and `StaleLockRecovered` from
  `RefusalInv`, in races as well: a process that has met nobody finds the path at each step as
  its own last step left it (`AloneAtPath`), so that neither the removal nor the retry refuses it, and
  a pid that has not come back is neither another program's nor read by its own process
  (`PidsAreFresh`), so that the check does not either.
* `Originals_proof`, about an original while it is staged (`DocumentUpload`):
  `WholeFilesIngested`, `ReceiptsAreTrue`, `OnlyTmpIsLost`, `BytesOutliveUse`, `OnlyExpiredVanish`
  from `UploadInv`. A write can be cut off between any two file calls, and the next operation starts
  from whatever is valid then: so the three files are always in the order in which they are looked
  for, the manifest in memory is newer than all of them (`NewestFirst`), and it is in tmp, or in the
  primary, before the file it replaces goes (`ManifestFiles`). A sweep that has the lock leaves
  no manifest with a future, in any file (`SweepsExpired`), or removing the newest would bring
  a live one back. A receipt is true because the ingest knows at each step what its earlier commands
  committed (`ReceiptSoFar`), and what is in any file was in memory once (`Receipts`).
* `Originals_proof`, about an original once it is kept (`AssetStore`, whose specification has names
  of its own so that one module can extend both): `KeptStaysReadable`, `RemovedBytesGone`,
  `ErasureIsComplete` from `AssetInv`: what each command has found and done so far, that a
  blob belongs to its row outside the last step of a heal, and that files without a row exist only
  in a store's own steps unless one was cut.
* `Documents_proof`: `ChunksCovered`, `ForgottenStaysHidden`, `NoSecondDocument`,
  `ServedIsSearchable`, `ErasureKeepsToItsScope`, `OnlyActiveReturns` from `DocumentInv`: an ingest in
  hand has its rows, only what is in the index is drained, a refused chunk keeps its outbox row, and
  whatever an unfinished replay has not made visible is in its hand (`ReplayInHand`), so that
  the start serves with every chunk the index takes, though any of its DELETEs failed.
* `EmbedderChange_proof`: `NeverMixesSpaces`, `ConfiguredHasRows`, `MigratedIsFound`,
  `UntaintedOpens` from `EmbedderInv`: untainted snapshots and indexes are of the configured model, a
  full pass that failed nowhere has only its candidates left (`TodoOrRow`), and old rows are
  deleted only for a model that has all of them, which is never the one a rollback goes back to.
* `DerivedMemory_proof`: `StaleComesBack`, `NotedMemoriesCount` from `DerivedInv`. What keeps
  `StaleIsRetried` is that the descriptions in a batch and in the attach commands of the channel
  still have all active members of their clusters (`DescriptionsCover`); it holds since a
  command somebody waits for is the last of the channel (`CallerIsLast`) and only the holder of
  the lease sends commands, until a caller hangs up (`loose`).
* `McpStream_proof`: `NoGapUnannounced`, `DrainedIsCaughtUp`, `StreamsInOrder`,
  `BridgeOutlivesStream` from `StreamInv`, about the ids whose publication overlapped with no other
  (`Plain`). A plain id that is being published is the newest there is (`PublishersInOrder`), so
  the channel, the buffer and a replay have every plain id before the later and behind
  the earlier ones, also where it was evicted (`Ordered`, `BufferInOrder`). Two
  parts do the work: what the client lacks and was not told of is later than all it has and
  still comes, in the replay, behind the lagged event or in the channel (`OwedInOrder`, for gaps);
  what it has does not come again (`PassedInOrder`, for order and duplicates). That the filter of
  the replay returns the later ids in order (`NewerFacts`) is shown for buffers of every length:
  it takes induction over the buffer's prefixes, for which `Upwards` has the least number outside a
  set in place of an operator parameter.

Only model-checked:

* Liveness (`EveryCallReturns`, `StopCompletes`, `SweptEventually`, `LeaseReturns`): it rests on
  fairness and ENABLED, which TLAPS does not prove here.

## 5. Where code and documents disagree

* `writer_crash_loss`: the outbox row goes when the vector is in the in-memory
  graph, not when a snapshot holds it. After a crash an older snapshot loads, nothing
  replays and nothing rebuilds: memories since the last save are not found by vector search.
  ADR 0003 (line 534) says `pending_index` covers this. The same happens without a
  crash when the daemon restarts its runtime after an embedder change, which
  skips the save (`daemon.rs:567`, against "always save on graceful
  shutdown", ADR 0003 line 541).
* `embedder_chunks`: a migration that reports completion has re-embedded memories only. The
  candidates of `handle_reembed` are rows of `embeddings` (`writer.rs:8286`), the vectors of
  chunks are in `chunk_embeddings` and keep the old model, and the rebuilt index has none of
  them. `troubleshooting.md:85` says the migration re-embeds all content. Ingesting the
  documents again does not help: the dedup finds them.

Seen while modelling, without a run of their own.

Writer, index, lock, uploads, originals:

* `add` inserts a further point (`vector_index.rs:147`): the old embedding of an updated memory
  keeps matching until the next rebuild, though the trait promises replacement.
* A lock file is empty until its pid is written and an empty file counts as stale, so two
  starters can both own the directory (`lockfile.rs:83`); `OneOwnerUnlessRaced` excepts it.
* A start is refused whenever some process has the pid in the file (`lockfile.rs:80`): any program
  that got the pid of a dead owner, or the starter itself, as in a container whose pids begin
  anew. `lockfile.rs:12` says that a refusal means another Solo process.
* An append cut off between bytes and manifest leaves an open upload that refuses every
  further append and commit. The newest manifest may be the tmp file, which the next
  write deletes first; interrupted there, a receipt is lost whose staged bytes are gone.
* The stray copy of an interrupted store is not found by a later erasure, which answers Ok.
* A heal cut off between blob and row leaves an original that cannot be decrypted and
  that no later store repairs, since only the file's existence is tested (`writer.rs:5972`;
  `KeptIsReadable` and `ForgottenBytesGone` except it by name).
* The save after an interrupted one copies a torn live pair over the good backup
  (`snapshot.rs:206`); a second interruption then leaves no loadable pair and the next
  start rebuilds.
* A wipe that is cut off, or fails, behind the live pair leaves the older backup pair, which
  the next start loads (`snapshot.rs:105`); `WipeIsFinal` is about a wipe that completed.
* A remember that the index refuses answers Err although its row is committed
  (`writer.rs:4699`).

Documents and erasure:

* A document to which another principal has attached a memory stays active without any
  chunk when the one who ingested it is erased, and later ingests of the text are answered with it.
* A second principal's ingest that the dedup answers leaves no trace of that principal.
* Points of erased chunks come back with the snapshot of an earlier time; the SQL join
  hides them.
* Points of one id pile up: the rebuild after an erasure adds every chunk that is left to an index that
  has it (`gdpr.rs:456`, whose comment calls that a no-op, though `vector_index.rs:410` tests that it
  is not), and a row whose DELETE failed, or that a rebuild has covered, is replayed all the same, which ADR
  0003 (line 821) accepts.

Embedder change (what `tainted` stands for):

* `solo reembed --gc` cut off before its wipe leaves the old index, and a second run has no
  candidates and so wipes nothing (`reembed.rs:110`).
* The HTTP switch checks that no snapshot exists, but the daemon that runs on with the
  old model saves one afterwards: the next start refuses it, or mixes the models.
* Outbox rows of the old model are replayed into the new index when the dimension is the
  same, and stay for ever when it is not (`recovery.rs:188`).
* A start that refuses the snapshot's dimension tells to run `solo reembed`
  (`handle.rs:288`), which is refused the same way.

Derived memory:

* A cluster that took over another keeps its old abstraction (`merged`): the comment at
  `writer.rs:7639` leaves it to a regeneration pass that is gone, and a batch takes only clusters
  without, or with a low-signal, abstraction.
* `consolidate_handler`, `triples_extract_handler` and `derived_repair_handler` hold the lease in a
  future that dies with the connection, while the command they sent runs on (`loose`).
* `daemon.rs:957` says there is no double run; a stored wake runs the timer again at once, with
  a counter of 0. `triples_batch.rs:101` says the batch is read and cleared atomically and
  `:146` that the reset comes after it; it comes before.
* A wake that finds the lease taken is used up: the batch waits for the next one.
* The list of a batch is cut at its limit before clusters without active members are
  skipped, so as many dead or always failing clusters keep all others out
  (`daemon.rs:932` says later ticks process the rest).
* A backfill calls the library fully covered while clusters with a low-signal abstraction are
  left, which `count_clusters_without_abstractions` counts.

MCP stream:

* Overlapping publications can be sent out of order, and a stream that has passed on the
  higher id drops the lower one (`overlapped`); one that subscribes between push and send
  gets an event twice (`halfSent`).
* Synthetic events carry id 0, though `mcp_session.rs:238` says heartbeats carry ids of their
  own: a plain SSE client that reconnects after one sends `Last-Event-ID: 0` and gets no replay.

## 6. Not modelled, and the plan

Left out for good: text processing (parsing, chunking, redaction), scoring and
context packing, model clients and what they return (the steward), HTTP routing,
authentication, the tray, the web app, installers, SDKs, vendored code: pure functions,
external services or presentation.

Not modelled although it has state: the audit log (rows of the same transactions; read audits
through a queue that drops when full), fact review and normalisation (one transaction
each in the single writer), backup and restore, the migration of old directory
layouts (a sequence of file moves that runs before anything else, listed as a hazard), MCP tasks
and cancellation, the tray's supervision of the daemon.

Next: the migration of old layouts, where a hazard has no property yet, then the audit queue.
