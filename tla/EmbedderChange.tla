---------------------------- MODULE EmbedderChange ----------------------------
(***************************************************************************)
(* The library when its embedding model changes: `solo reembed`            *)
(* (reembed.rs, handle_reembed), `solo migrate-embedder`                   *)
(* (embedder_migrate.rs) and the switch over HTTP, between daemons that    *)
(* open the library with the configured model, load or rebuild the index,  *)
(* and save it. Every command may be cut off between any two of its steps, *)
(* and any row may fail to be embedded.                                    *)
(*                                                                         *)
(* A vector is named by the item it is of and the model that made it. An   *)
(* index holds vectors of one dimension, the one of the configured model   *)
(* when it was opened. The snapshot is one value: SnapshotFiles has the    *)
(* files. Memories stay active; MemoryWriter has updates and forgets.      *)
(***************************************************************************)
EXTENDS Naturals, FiniteSets

CONSTANTS
    Memory,    \* active episodes
    Chunk,     \* chunks of active documents
    Model,     \* embedders, as (name, version) tells them apart
    OtherDim,  \* the models of a second dimension
    NoModel    \* no model

ASSUME EmbedderChangeAssumption ==
    /\ Memory \cap Chunk = {}
    /\ OtherDim \subseteq Model
    /\ NoModel \notin Model

Item == Memory \cup Chunk
Vector == Item \X Model
SameDim(m, n) == m \in OtherDim <=> n \in OtherDim

VARIABLES
    \* SQLite
    rows,     \* embeddings and chunk_embeddings
    pending,  \* pending_index, with the vectors its rows carry
    \* files
    config,   \* solo.config.toml: the configured embedder
    snap,     \* the snapshot a start would load; {} when there is none
    \* the process
    pc,       \* "down", "serve", or the step of the command that runs
    running,  \* the embedder it opened the library with
    graph,    \* the vectors of its index
    todo,     \* candidates of handle_reembed not done yet
    gc,       \* ReembedScope::gc
    full,     \* no --from-name: every stale memory is a candidate
    failed,   \* rows_failed > 0
    done,     \* rows_reembedded > 0
    backup,   \* migrate-embedder: the embedder in its config backup
    target,   \* migrate-embedder: the embedder it migrates to
    \* history
    home,     \* the model that has a row of every memory; NoModel when none is known to
    lost,     \* items that a crash or a restart left out of a snapshot and of the outbox
    tainted   \* an index of an earlier model may come back: HTTP switched the model, a
              \* reembed committed a row and has not wiped the snapshots, or a start
              \* replayed an outbox row that an earlier model made

db == <<rows, pending>>
files == <<config, snap>>
job == <<todo, gc, full, failed, done, backup, target>>
history == <<home, lost, tainted>>
vars == <<db, files, pc, running, graph, job, history>>

Stored == {v[1] : v \in rows}
\* Mutant: the rebuild takes the rows of every embedder.
OfEveryModel(m) == {v \in rows : SameDim(v[2], m)}
Of(m) == {v \in rows : v[2] = m}
Stale(m) == {i \in Memory : \E n \in Model \ {m} : <<i, n>> \in rows}

Init ==
    /\ rows = {} /\ pending = {}
    /\ config \in Model /\ snap = {}
    /\ pc = "down" /\ running = NoModel /\ graph = {}
    /\ todo = {} /\ gc = FALSE /\ full = FALSE /\ failed = FALSE /\ done = FALSE
    /\ backup = NoModel /\ target = NoModel
    /\ home = config /\ lost = {} /\ tainted = FALSE
--------------------------------------------------------------------------------
(* Opening the library *)

\* LibraryHandle::open refuses a snapshot of another dimension.
CanOpen == \A v \in snap : SameDim(v[2], config)

\* Load the snapshot or rebuild from SQL, then replay what the index accepts.
Open ==
    /\ CanOpen
    /\ running' = config
    /\ LET base == IF snap = {} THEN Of(config) ELSE snap
           replayed == {v \in pending : SameDim(v[2], config)}
       IN /\ graph' = base \cup replayed
          /\ pending' = pending \ replayed
          /\ tainted' = (tainted \/ \E v \in replayed : v[2] # config)
          /\ lost' = IF snap = {} THEN {} ELSE lost

IdleJob ==
    /\ todo' = {} /\ gc' = FALSE /\ full' = FALSE /\ failed' = FALSE /\ done' = FALSE
    /\ backup' = NoModel /\ target' = NoModel

\* The process ends; with save it writes its index first, unless that is empty.
End(save) ==
    /\ pc' = "down" /\ running' = NoModel /\ graph' = {}
    /\ snap' = IF save /\ graph # {} THEN graph ELSE snap
    /\ lost' = IF snap' = {} THEN {}
               ELSE lost \cup {v[1] : v \in graph \ (snap' \cup pending)}
    /\ IdleJob
--------------------------------------------------------------------------------
(* The daemon, or another command that opens the library: reembed --dry-run too *)

StartDaemon ==
    /\ pc = "down"
    /\ Open
    /\ pc' = "serve"
    /\ UNCHANGED <<rows, files, job, home>>

\* A memory or a chunk with its vector; the outbox row stays when the index refuses
\* the vector or the drain fails.
Remember(i) ==
    /\ pc = "serve" /\ i \notin Stored
    /\ rows' = rows \cup {<<i, running>>}
    /\ \/ graph' = graph \cup {<<i, running>>} /\ UNCHANGED pending
       \/ graph' = graph \cup {<<i, running>>} /\ pending' = pending \cup {<<i, running>>}
       \/ pending' = pending \cup {<<i, running>>} /\ UNCHANGED graph
    /\ home' = IF i \in Memory /\ home # running THEN NoModel ELSE home
    /\ UNCHANGED <<files, pc, running, job, lost, tainted>>

SaveSnapshot ==
    /\ pc = "serve" /\ graph # {}
    /\ snap' = graph
    /\ lost' = lost \ {v[1] : v \in graph}
    /\ UNCHANGED <<db, config, pc, running, graph, job, home, tainted>>

\* A signal saves the index, a runtime restart does not.
Stop(save) ==
    /\ pc = "serve"
    /\ End(save)
    /\ UNCHANGED <<db, config, home, tainted>>

\* POST of another embedder to the running daemon: refused while there are snapshots.
SwitchEmbedder(m) ==
    /\ pc = "serve" /\ m # config /\ snap = {}
    /\ config' = m
    /\ tainted' = TRUE
    /\ UNCHANGED <<db, snap, pc, running, graph, job, home, lost>>
--------------------------------------------------------------------------------
(* solo reembed *)

StartReembed(from, collect) ==
    /\ pc = "down"
    /\ Open
    /\ pc' = "reembed"
    /\ todo' = IF from = NoModel THEN Stale(config)
               ELSE {i \in Memory : <<i, from>> \in rows}
    /\ gc' = collect /\ full' = (from = NoModel)
    /\ home' = IF collect /\ home # config THEN NoModel ELSE home
    /\ UNCHANGED <<rows, files, failed, done, backup, target>>

\* One memory in a transaction of its own: the row of the current model, and with gc
\* the other rows gone.
ReembedRow(i) ==
    /\ i \in todo
    /\ todo' = todo \ {i}
    /\ rows' = {v \in rows : ~gc \/ v[1] # i} \cup {<<i, running>>}
    /\ done' = TRUE
    /\ tainted' = (tainted \/ snap # {})
    /\ UNCHANGED <<pending, files, pc, running, graph, gc, full, failed, backup, target,
                   home, lost>>

\* The embedder, or a statement of the transaction, fails: on to the next memory.
ReembedRowFails(i) ==
    /\ i \in todo
    /\ todo' = todo \ {i}
    /\ failed' = TRUE
    /\ UNCHANGED <<db, files, pc, running, graph, gc, full, done, backup, target, history>>

\* Mutant: the snapshots stay.
FinishReembedKeepsSnapshots ==
    /\ pc = "reembed" /\ todo = {}
    /\ pc' = "down" /\ running' = NoModel /\ graph' = {}
    /\ IdleJob
    /\ home' = IF full /\ ~failed THEN config ELSE home
    /\ lost' = {}
    /\ tainted' = FALSE
    /\ UNCHANGED <<db, files>>

\* The snapshots are wiped when a row was re-embedded; the index is not saved.
FinishReembed ==
    /\ pc = "reembed" /\ todo = {}
    /\ pc' = "down" /\ running' = NoModel /\ graph' = {}
    /\ IdleJob
    /\ home' = IF full /\ ~failed THEN config ELSE home
    /\ IF done
       THEN /\ snap' = {}
            /\ lost' = {}
            /\ tainted' = FALSE
       ELSE /\ lost' = IF snap = {} THEN {}
                       ELSE lost \cup {v[1] : v \in graph \ (snap \cup pending)}
            /\ UNCHANGED <<snap, tainted>>
    /\ UNCHANGED <<db, config>>

\* delete_all_pairs fails: the command says so and leaves the snapshots.
FinishReembedUnwiped ==
    /\ pc = "reembed" /\ todo = {} /\ done
    /\ End(FALSE)
    /\ UNCHANGED <<db, config, home, tainted>>
--------------------------------------------------------------------------------
(* solo migrate-embedder *)

\* Mutant: the snapshots are deleted only after the re-embedding.
ClearSnapshotsLater(m) ==
    /\ pc = "down"
    /\ pc' = "config"
    /\ target' = m
    /\ UNCHANGED <<db, files, running, graph, todo, gc, full, failed, done, backup, history>>

\* The snapshots are copied aside and deleted, under the lock.
ClearSnapshots(m) ==
    /\ pc = "down"
    /\ pc' = "config"
    /\ target' = m
    /\ snap' = {}
    /\ lost' = {}
    /\ UNCHANGED <<db, config, running, graph, todo, gc, full, failed, done, backup, home,
                   tainted>>

ReplaceConfig ==
    /\ pc = "config"
    /\ pc' = "open"
    /\ backup' = IF config = target THEN NoModel ELSE config
    /\ config' = target
    /\ UNCHANGED <<db, snap, running, graph, todo, gc, full, failed, done, target, history>>

\* Mutant: the first pass deletes stale rows already.
OpenForMigrationWithGc ==
    /\ pc = "open"
    /\ Open
    /\ pc' = "prepare"
    /\ todo' = Stale(config) /\ full' = TRUE /\ gc' = TRUE
    /\ UNCHANGED <<rows, files, failed, done, backup, target, home>>

OpenForMigration ==
    /\ pc = "open"
    /\ Open
    /\ pc' = "prepare"
    /\ todo' = Stale(config) /\ full' = TRUE
    /\ UNCHANGED <<rows, files, gc, failed, done, backup, target, home>>

\* Every memory has a row of the new model: the second pass may delete the others.
StartGc ==
    /\ pc = "prepare" /\ todo = {} /\ ~failed
    /\ pc' = "gc"
    /\ todo' = Stale(config) /\ gc' = TRUE
    /\ home' = config
    /\ UNCHANGED <<db, files, running, graph, full, failed, done, backup, target, lost, tainted>>

\* A memory could not be embedded: nothing was deleted, the old config comes back.
AbortMigration ==
    /\ pc = "prepare" /\ todo = {} /\ failed
    /\ pc' = "down" /\ running' = NoModel /\ graph' = {}
    /\ IdleJob
    /\ config' = IF backup = NoModel THEN config ELSE backup
    /\ UNCHANGED <<db, snap, history>>

FinishMigration ==
    /\ pc = "gc" /\ todo = {}
    /\ pc' = "down" /\ running' = NoModel /\ graph' = {}
    /\ IdleJob
    /\ snap' = {}
    /\ lost' = {}
    /\ tainted' = FALSE
    /\ UNCHANGED <<db, config, home>>

\* A crash, or an error that ends the command on the spot.
Crash ==
    /\ pc # "down"
    /\ End(FALSE)
    /\ UNCHANGED <<db, config, home, tainted>>
--------------------------------------------------------------------------------
Next ==
    \/ StartDaemon \/ SaveSnapshot
    \/ \E i \in Item : Remember(i)
    \/ \E save \in BOOLEAN : Stop(save)
    \/ \E m \in Model : SwitchEmbedder(m) \/ ClearSnapshots(m)
    \/ \E from \in {NoModel} \cup (Model \ {config}), collect \in BOOLEAN :
          StartReembed(from, collect)
    \/ \E i \in Memory : ReembedRow(i) \/ ReembedRowFails(i)
    \/ FinishReembed \/ FinishReembedUnwiped
    \/ ReplaceConfig \/ OpenForMigration \/ StartGc \/ AbortMigration \/ FinishMigration
    \/ Crash

Spec == Init /\ [][Next]_vars
--------------------------------------------------------------------------------
TypeOK ==
    /\ rows \subseteq Vector /\ pending \subseteq Stored \X Model
    /\ config \in Model
    /\ snap \subseteq Vector /\ graph \subseteq Vector
    /\ pc \in {"down", "serve", "reembed", "config", "open", "prepare", "gc"}
    /\ running \in (IF pc \in {"down", "config", "open"} THEN {NoModel} ELSE Model)
    /\ todo \subseteq Memory /\ lost \subseteq Item
    /\ {gc, full, failed, done, tainted} \subseteq BOOLEAN
    /\ {backup, target, home} \subseteq Model \cup {NoModel}

\* "Never mix vector spaces": a serving daemon searches vectors of the model it embeds
\* queries with, unless the library is tainted (apply_migration, reembed.rs:run,
\* switch_ollama_embedder_handler, replay_pending_index).
OneVectorSpace == pc = "serve" /\ ~tainted => \A v \in graph : v[2] = running

\* While the configured model is the one last migrated or re-embedded to completely,
\* every memory has a row of it, whatever was cut off or rolled back since
\* (run_reembed_phases: nothing is deleted before everything is prepared).
ConfigHasRows == config = home => Stored \cap Memory \subseteq {v[1] : v \in Of(config)}

\* ... and the index of a daemon finds every memory by it, unless the outbox still has
\* it or a crash lost it (FinishReembed and FinishMigration wipe, Open rebuilds).
MigratedIsSearchable ==
    pc = "serve" /\ running = home /\ ~tainted =>
        \A i \in Stored \cap Memory : <<i, running>> \in graph \cup pending \/ i \in lost

\* A library that is not tainted opens: no step of a migration or of a re-embedding
\* leaves a snapshot of a dimension the configured model does not have
\* (apply_migration clears the snapshots before it replaces the config).
Opens == pc = "down" /\ ~tainted => CanOpen

\* book/src/troubleshooting.md:85: "The migration validates the new model, re-embeds all content,
\* removes stale vectors, and rebuilds snapshots."
AllContentReembedded == [][FinishMigration => \A i \in Stored : <<i, config>> \in rows]_vars
--------------------------------------------------------------------------------
(* The inductive invariant behind the properties above.                     *)

\* What a command has of its own: it works with the configured model on stored memories,
\* deletes rows only for the model that has all of them, and migrates without snapshots.
CommandInHand ==
    /\ pc \in {"reembed", "prepare", "gc"} => running = config
    /\ pc \in {"down", "config", "open"} => graph = {}
    /\ pc \in {"config", "open", "prepare", "gc"} => snap = {}
    /\ pc = "config" => target \in Model
    /\ pc = "prepare" => full
    /\ todo # {} => pc \in {"reembed", "prepare", "gc"}
    /\ todo \subseteq Stored
    /\ gc => pc \in {"reembed", "gc"} /\ home \in {running, NoModel}

\* Untainted, the snapshot and the index of a daemon are of the configured model.
OneSpaceUntainted ==
    ~tainted => /\ \A v \in snap : v[2] = config
                /\ pc = "serve" => running = config /\ \A v \in graph : v[2] = config

\* The model called home has a row of every memory.
RowsOfHome == home # NoModel => \A i \in Stored \cap Memory : <<i, home>> \in rows

\* A full pass that has failed nowhere has only its candidates left to do.
TodoOrRow ==
    pc \in {"reembed", "prepare"} /\ full /\ ~failed =>
        \A i \in Stored \cap Memory : i \in todo \/ <<i, running>> \in rows

\* Untainted, the rows of the configured model are in the index of a daemon, and in what the
\* next start loads, but for the outbox and what was lost.
RowsAreIndexed ==
    ~tainted /\ (pc = "serve" \/ snap # {}) =>
        \A v \in Of(config) :
            v \in graph \cup pending \cup (IF pc = "serve" THEN {} ELSE snap) \/ v[1] \in lost

EmbedderInv ==
    CommandInHand /\ OneSpaceUntainted /\ RowsOfHome /\ TodoOrRow /\ RowsAreIndexed
=============================================================================
