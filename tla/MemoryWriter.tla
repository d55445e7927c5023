------------------------------ MODULE MemoryWriter ------------------------------
(***************************************************************************)
(* The single-writer actor of solo-storage (writer.rs) with everything a   *)
(* memory's vector depends on: the episode rows and the pending_index      *)
(* outbox in SQLite, the in-memory HNSW index with its tombstones, the     *)
(* snapshot pair on disk, the bounded command channel and its callers, and *)
(* the startup chain (library/handle.rs, startup.rs, recovery.rs) that     *)
(* rebuilds the index after a stop or a crash.                             *)
(*                                                                         *)
(* A write is one SQLite transaction, then one index step per memory, then *)
(* the reply, then the removal of the outbox rows; the process can die     *)
(* between any two of them.                                                *)
(***************************************************************************)
EXTENDS Naturals, Sequences, FiniteSets, SnapshotPair

CONSTANTS
    Memory,    \* memory ids
    Client,    \* callers that may have one call outstanding each
    Vec,       \* embeddings
    BadVec,    \* the embeddings VectorIndex::add refuses (dimension or dtype)
    NoVec,     \* no embedding: no row, or a command that carries none
    Nobody,    \* the reply receiver is gone
    NoCommand, \* the actor is between two commands
    Capacity   \* of the command channel (DEFAULT_CHANNEL_CAPACITY in the code)

\* A write carries a vector for each memory, a forget names one memory, a save none.
\* `by` is the caller whose reply channel the command holds.
Writes == {"remember", "batch", "update"}
NoItems == [i \in {} |-> NoVec]

Command ==
    [op : Writes, by : Client \cup {Nobody}, items : UNION {[ids -> Vec] : ids \in SUBSET Memory}]
    \cup [op : {"forget"}, by : Client \cup {Nobody}, items : UNION {[{m} -> {NoVec}] : m \in Memory}]
    \cup [op : {"save"}, by : Client \cup {Nobody}, items : {NoItems}]

Graph == [Memory -> SUBSET Vec]
EmptyGraph == [m \in Memory |-> {}]
Pair == Graph \cup {Missing, Torn}

ASSUME WriterAssumption ==
    /\ BadVec \subseteq Vec
    /\ NoVec \notin Vec
    /\ Nobody \notin Client
    /\ NoCommand \notin Command
    /\ Missing \notin Graph
    /\ Torn \notin Graph
    /\ Capacity \in Nat \ {0}

VARIABLES
    \* SQLite: survives a crash
    status,   \* episodes.status: "absent", "active" or "forgotten"
    vec,      \* embeddings.vector of the current embedder
    pending,  \* the pending_index row of m: its vector, or NoVec
    \* snapshot pairs on disk
    live, bak,
    \* the process
    pc,       \* "down", "replay", or where the actor is in its command
    open,     \* LibraryHandle is handed out to callers
    graph,    \* vectors inserted in the HNSW graph under m's id
    tombs,    \* ids in HnswIndex::tombstones
    queue,    \* the mpsc channel
    cur,      \* the command being handled
    todo,     \* memories left for the index or the replay loop
    ok,       \* the result the handler is about to send
    drain,    \* outbox rows to delete after the reply
    waiting,  \* callers awaiting a reply
    \* history
    asked, answer, \* see MemoryPromise
    served,   \* memories whose last write this process answered Ok
    lost      \* active memories no start can index again

store == <<status, vec, pending>>
snap == <<live, bak>>
index == <<graph, tombs>>
actor == <<cur, todo, ok, drain>>
vars == <<store, snap, pc, open, index, queue, actor, waiting, asked, answer, served, lost>>

Targets(cmd) == DOMAIN cmd.items
ActiveSet == {m \in Memory : status[m] = "active"}
ForgottenSet == {m \in Memory : status[m] = "forgotten"}

\* The vectors a search can return for m.
Visible(m) == IF m \in tombs THEN {} ELSE graph[m]

\* hnsw.add: inserts one more point under the id and lifts its tombstone.
IndexAdd(m, v) == /\ graph' = [graph EXCEPT ![m] = @ \cup {v}]
                  /\ tombs' = tombs \ {m}

\* hnsw.remove: the point stays in the graph.
IndexRemove(m) == /\ tombs' = tombs \cup {m}
                  /\ UNCHANGED graph

\* Active memories that neither the outbox nor the index of the next start would hold.
Unrecoverable(l, b) ==
    LET loaded == Loadable(l, b)
    IN  {m \in ActiveSet : /\ pending[m] # vec[m]
                           /\ loaded # Missing
                           /\ vec[m] \notin loaded[m]}
-----------------------------------------------------------------------------
Init == /\ status = [m \in Memory |-> "absent"]
        /\ vec = [m \in Memory |-> NoVec]
        /\ pending = [m \in Memory |-> NoVec]
        /\ live = Missing /\ bak = Missing
        /\ pc = "down" /\ open = FALSE
        /\ graph = EmptyGraph /\ tombs = {}
        /\ queue = <<>>
        /\ cur = NoCommand /\ todo = {} /\ ok = FALSE /\ drain = {}
        /\ waiting = {}
        /\ asked = {}
        /\ answer = [m \in Memory |-> "none"]
        /\ served = {} /\ lost = {}
-----------------------------------------------------------------------------
(* Callers: WriteHandle::*_as sends a command and awaits its reply.         *)

\* Mutant: an unbounded channel.
SubmitUnbounded(c, op, items) ==
    /\ open
    /\ c \notin waiting
    /\ Len(queue) <= Capacity
    /\ queue' = Append(queue, [op |-> op, by |-> c, items |-> items])
    /\ waiting' = waiting \cup {c}
    /\ UNCHANGED <<store, snap, pc, open, index, actor, answer, served, lost>>

Submit(c, op, items) ==
    /\ open
    /\ c \notin waiting
    /\ Len(queue) < Capacity
    /\ queue' = Append(queue, [op |-> op, by |-> c, items |-> items])
    /\ waiting' = waiting \cup {c}
    /\ UNCHANGED <<store, snap, pc, open, index, actor, answer, served, lost>>

\* Memory ids are UUIDs made for this call: nobody has asked for them before.
SubmitFresh(c, op, items) ==
    /\ DOMAIN items \cap UNION asked = {}
    /\ asked' = asked \cup {DOMAIN items}
    /\ Submit(c, op, items)

CallRemember(c) ==
    \E m \in Memory, v \in Vec : SubmitFresh(c, "remember", [i \in {m} |-> v])

CallRememberBatch(c) ==
    \E ids \in (SUBSET Memory) \ {{}} : \E items \in [ids -> Vec] :
        SubmitFresh(c, "batch", items)

CallUpdate(c) ==
    \E m \in UNION asked, v \in Vec :
        Submit(c, "update", [i \in {m} |-> v]) /\ UNCHANGED asked

CallForget(c) ==
    \E m \in UNION asked :
        Submit(c, "forget", [i \in {m} |-> NoVec]) /\ UNCHANGED asked

\* The snapshot timer, or the operator's explicit save.
CallSave(c) == Submit(c, "save", NoItems) /\ UNCHANGED asked

\* The caller's future is dropped (a disconnected HTTP client): the command stays queued
\* and its reply receiver is gone.
Abandon(c) ==
    /\ c \in waiting
    /\ waiting' = waiting \ {c}
    /\ queue' = [i \in DOMAIN queue |->
                    IF queue[i].by = c THEN [queue[i] EXCEPT !.by = Nobody] ELSE queue[i]]
    /\ cur' = IF cur # NoCommand /\ cur.by = c THEN [cur EXCEPT !.by = Nobody] ELSE cur
    /\ UNCHANGED <<store, snap, pc, open, index, todo, ok, drain, asked, answer, served, lost>>
-----------------------------------------------------------------------------
(* The actor: blocking_recv, the transaction, the index, the reply, the drain. *)

Head1 == Head(queue)

\* The next command leaves the channel; its handler ends the transaction in `next`.
Take(next, targets, result) ==
    /\ pc = "recv"
    /\ queue # <<>>
    /\ queue' = Tail(queue)
    /\ cur' = Head1
    /\ todo' = targets
    /\ ok' = result
    /\ pc' = next
    /\ UNCHANGED <<open, drain, waiting, asked, answer>>

\* Mutant: one transaction per item, the first failure ends the batch.
TxRememberPerItem ==
    /\ queue # <<>> /\ Head1.op \in {"remember", "batch"}
    /\ \E ids \in (SUBSET Targets(Head1)) \ {{}} :
         /\ status' = [m \in Memory |-> IF m \in ids THEN "active" ELSE status[m]]
         /\ vec' = [m \in Memory |-> IF m \in ids THEN Head1.items[m] ELSE vec[m]]
         /\ pending' = [m \in Memory |-> IF m \in ids THEN Head1.items[m] ELSE pending[m]]
         /\ Take("index", ids, TRUE)
    /\ UNCHANGED <<snap, index, served, lost>>

\* Remember, RememberBatch: episode, embedding and outbox rows commit together.
TxRemember ==
    /\ queue # <<>> /\ Head1.op \in {"remember", "batch"}
    /\ LET ids == Targets(Head1) IN
         /\ \A m \in ids : status[m] = "absent"
         /\ status' = [m \in Memory |-> IF m \in ids THEN "active" ELSE status[m]]
         /\ vec' = [m \in Memory |-> IF m \in ids THEN Head1.items[m] ELSE vec[m]]
         /\ pending' = [m \in Memory |-> IF m \in ids THEN Head1.items[m] ELSE pending[m]]
         /\ Take("index", ids, TRUE)
    /\ UNCHANGED <<snap, index, served, lost>>

\* Mutant: the outbox row of an earlier write is kept (INSERT OR IGNORE).
TxUpdateKeepsOutboxRow ==
    /\ queue # <<>> /\ Head1.op = "update"
    /\ \E m \in Targets(Head1) :
         /\ status[m] = "active"
         /\ vec' = [vec EXCEPT ![m] = Head1.items[m]]
         /\ pending' = [pending EXCEPT ![m] = IF @ = NoVec THEN Head1.items[m] ELSE @]
         /\ served' = served \ {m}
         /\ lost' = lost \ {m}
         /\ Take("index", {m}, TRUE)
    /\ UNCHANGED <<status, snap, index>>

\* Mutant: an update answers without touching the index.
TxUpdateNotIndexed ==
    /\ queue # <<>> /\ Head1.op = "update"
    /\ \E m \in Targets(Head1) :
         /\ status[m] = "active"
         /\ vec' = [vec EXCEPT ![m] = Head1.items[m]]
         /\ pending' = [pending EXCEPT ![m] = Head1.items[m]]
         /\ served' = served \ {m}
         /\ lost' = lost \ {m}
         /\ Take("reply", {}, TRUE)
    /\ UNCHANGED <<status, snap, index>>

\* Update: the embedding and the outbox row are overwritten in one transaction.
TxUpdate ==
    /\ queue # <<>> /\ Head1.op = "update"
    /\ \E m \in Targets(Head1) :
         /\ status[m] = "active"
         /\ vec' = [vec EXCEPT ![m] = Head1.items[m]]
         /\ pending' = [pending EXCEPT ![m] = Head1.items[m]]
         /\ served' = served \ {m}
         /\ lost' = lost \ {m}
         /\ Take("index", {m}, TRUE)
    /\ UNCHANGED <<status, snap, index>>

\* Forget: status becomes 'forgotten', the outbox row stays; forgetting twice is fine.
TxForget ==
    /\ queue # <<>> /\ Head1.op = "forget"
    /\ \E m \in Targets(Head1) :
         /\ status[m] # "absent"
         /\ status' = [status EXCEPT ![m] = "forgotten"]
         /\ lost' = lost \ {m}
         /\ Take("index", {m}, TRUE)
    /\ UNCHANGED <<vec, pending, snap, index, served>>

\* NotFound, or Conflict for an update of a memory that is not active.
TxRefused ==
    /\ queue # <<>>
    /\ \/ Head1.op = "update" /\ \E m \in Targets(Head1) : status[m] # "active"
       \/ Head1.op = "forget" /\ \E m \in Targets(Head1) : status[m] = "absent"
    /\ Take("reply", {}, FALSE)
    /\ UNCHANGED <<store, snap, index, served, lost>>

\* Any statement of the transaction fails (disk full, I/O error): it rolls back.
TxFails ==
    /\ queue # <<>> /\ Head1.op # "save"
    /\ Take("reply", {}, FALSE)
    /\ UNCHANGED <<store, snap, index, served, lost>>

\* Mutant: a failed save is retried until it succeeds.
SaveSnapshotRetried ==
    /\ queue # <<>> /\ Head1.op = "save"
    /\ IF graph = EmptyGraph
       THEN Take("reply", {}, TRUE) /\ UNCHANGED snap
       ELSE \/ /\ Take("reply", {}, TRUE)
               /\ live' = SavedPairs(live, bak, graph).live
               /\ bak' = SavedPairs(live, bak, graph).bak
            \/ /\ pc = "recv"
               /\ \E s \in BrokenSaves(live, bak, graph) : live' = s.live /\ bak' = s.bak
               /\ UNCHANGED <<pc, open, queue, actor, waiting, asked, answer>>
    /\ UNCHANGED <<store, index, served, lost>>

\* hnsw.save: an index without a single point is not written; otherwise the pair is
\* replaced, or the save fails part way.
SaveSnapshot ==
    /\ queue # <<>> /\ Head1.op = "save"
    /\ IF graph = EmptyGraph
       THEN Take("reply", {}, TRUE) /\ UNCHANGED snap
       ELSE \/ /\ Take("reply", {}, TRUE)
               /\ live' = SavedPairs(live, bak, graph).live
               /\ bak' = SavedPairs(live, bak, graph).bak
            \/ /\ Take("reply", {}, FALSE)
               /\ \E s \in BrokenSaves(live, bak, graph) : live' = s.live /\ bak' = s.bak
    /\ UNCHANGED <<store, index, served, lost>>

\* After COMMIT: the vector of one more memory goes into the index.  A refused vector
\* ends a single write with Err, and is skipped by a batch.
IndexVector(m) ==
    /\ pc = "index" /\ m \in todo /\ cur.op # "forget"
    /\ IF cur.items[m] \in BadVec
       THEN /\ ok' = (cur.op = "batch")
            /\ UNCHANGED <<index, drain>>
       ELSE /\ IndexAdd(m, cur.items[m])
            /\ drain' = drain \cup {m}
            /\ UNCHANGED ok
    /\ todo' = todo \ {m}
    /\ pc' = IF todo = {m} THEN "reply" ELSE "index"
    /\ UNCHANGED <<store, snap, open, queue, cur, waiting, asked, answer, served, lost>>

\* After the COMMIT of a forget.
IndexForget(m) ==
    /\ pc = "index" /\ m \in todo /\ cur.op = "forget"
    /\ IndexRemove(m)
    /\ todo' = {}
    /\ pc' = "reply"
    /\ UNCHANGED <<store, snap, open, queue, cur, ok, drain, waiting, asked, answer,
                   served, lost>>

\* reply.send: ignored when the receiver is gone.  Only a write answered Ok is drained.
Reply ==
    /\ pc = "reply"
    /\ waiting' = waiting \ {cur.by}
    /\ answer' = IF cur.by # Nobody /\ cur.op \in {"remember", "batch"}
                 THEN [m \in Memory |-> IF m \in Targets(cur)
                                        THEN IF ok THEN "ok" ELSE "err" ELSE answer[m]]
                 ELSE answer
    /\ served' = IF ok /\ cur.op \in Writes
                 THEN served \cup Targets(cur) ELSE served
    /\ drain' = IF ok THEN drain ELSE {}
    /\ pc' = IF drain' = {} THEN "recv" ELSE "drain"
    /\ cur' = NoCommand
    /\ ok' = FALSE
    /\ UNCHANGED <<store, snap, open, index, queue, todo, asked, lost>>

\* DELETE FROM pending_index; a failed delete is only logged.
DrainRow(m) ==
    /\ pc = "drain" /\ m \in drain
    /\ \/ pending' = [pending EXCEPT ![m] = NoVec]
       \/ UNCHANGED pending
    /\ drain' = drain \ {m}
    /\ pc' = IF drain = {m} THEN "recv" ELSE "drain"
    /\ UNCHANGED <<status, vec, snap, open, index, queue, cur, todo, ok, waiting, asked,
                   answer, served, lost>>
-----------------------------------------------------------------------------
(* Stops, crashes and the next start.                                       *)

\* The process ends with this pair of snapshots on disk.
EndProcess(l, b) ==
    /\ live' = l /\ bak' = b
    /\ pc' = "down" /\ open' = FALSE
    /\ graph' = EmptyGraph /\ tombs' = {}
    /\ queue' = <<>>
    /\ cur' = NoCommand /\ todo' = {} /\ ok' = FALSE /\ drain' = {}
    /\ waiting' = {}
    /\ served' = {}
    /\ lost' = Unrecoverable(l, b)
    /\ UNCHANGED <<store, asked, answer>>

Crash == pc # "down" /\ EndProcess(live, bak)

\* The process dies inside hnsw.save.
CrashInSave ==
    /\ pc = "recv" /\ queue # <<>> /\ Head1.op = "save"
    /\ graph # EmptyGraph
    /\ \E s \in BrokenSaves(live, bak, graph) : EndProcess(s.live, s.bak)

\* Shutdown takes the library handle away from callers once none is using it, saves a
\* snapshot unless the daemon restarts its runtime, and closes the channel.
StopService(save) ==
    /\ open /\ waiting = {}
    /\ open' = FALSE
    /\ IF save
       THEN /\ Len(queue) < Capacity
            /\ queue' = Append(queue, [op |-> "save", by |-> Nobody, items |-> NoItems])
       ELSE UNCHANGED queue
    /\ UNCHANGED <<store, snap, pc, index, actor, waiting, asked, answer, served, lost>>

\* Mutant: the actor keeps a sender of its own channel while it has callers to serve.
ActorExitNever == pc = "recv" /\ ~open /\ queue = <<>> /\ waiting # {} /\ EndProcess(live, bak)

\* The channel is closed and empty: the actor returns and the process exits.
ActorExit == pc = "recv" /\ ~open /\ queue = <<>> /\ EndProcess(live, bak)

\* Mutant: a loaded snapshot gets no tombstones.
LoadWithoutTombstones ==
    /\ pc = "down"
    /\ pc' = "replay"
    /\ IF Loadable(live, bak) # Missing
       THEN graph' = Loadable(live, bak)
       ELSE graph' = [m \in Memory |-> IF m \in ActiveSet /\ vec[m] \notin BadVec
                                       THEN {vec[m]} ELSE {}]
    /\ tombs' = {}
    /\ todo' = {m \in ActiveSet : pending[m] # NoVec}
    /\ UNCHANGED <<store, snap, open, queue, cur, ok, drain, waiting, asked, answer, served,
                   lost>>

\* LibraryHandle::open up to the replay: live snapshot, else backup, else an empty index
\* rebuilt from the embeddings of active episodes; tombstones only over a snapshot.
Load ==
    /\ pc = "down"
    /\ pc' = "replay"
    /\ IF Loadable(live, bak) # Missing
       THEN /\ graph' = Loadable(live, bak)
            /\ tombs' = ForgottenSet
       ELSE /\ graph' = [m \in Memory |-> IF m \in ActiveSet /\ vec[m] \notin BadVec
                                          THEN {vec[m]} ELSE {}]
            /\ tombs' = {}
    /\ todo' = {m \in ActiveSet : pending[m] # NoVec}
    /\ UNCHANGED <<store, snap, open, queue, cur, ok, drain, waiting, asked, answer, served,
                   lost>>

\* Mutant: rows whose vector the index refuses are dropped from the outbox.
ReplayRowDropsRefused(m) ==
    /\ pc = "replay" /\ m \in todo
    /\ IF pending[m] \in BadVec THEN UNCHANGED index ELSE IndexAdd(m, pending[m])
    /\ pending' = [pending EXCEPT ![m] = NoVec]
    /\ todo' = todo \ {m}
    /\ UNCHANGED <<status, vec, snap, pc, open, queue, cur, ok, drain, waiting, asked, answer,
                   served, lost>>

\* Mutant: a row is deleted although the add it is for did not happen.
ReplayRowWithoutAdd(m) ==
    /\ pc = "replay" /\ m \in todo
    /\ pending' = [pending EXCEPT ![m] = NoVec]
    /\ todo' = todo \ {m}
    /\ UNCHANGED <<status, vec, snap, pc, open, index, queue, cur, ok, drain, waiting, asked,
                   answer, served, lost>>

\* One outbox row: add, then delete; a refused vector or a failed delete leaves the row.
ReplayRow(m) ==
    /\ pc = "replay" /\ m \in todo
    /\ IF pending[m] \in BadVec
       THEN UNCHANGED <<index, pending>>
       ELSE /\ IndexAdd(m, pending[m])
            /\ \/ pending' = [pending EXCEPT ![m] = NoVec]
               \/ UNCHANGED pending
    /\ todo' = todo \ {m}
    /\ UNCHANGED <<status, vec, snap, pc, open, queue, cur, ok, drain, waiting, asked, answer,
                   served, lost>>

\* The rows of memories that are not active are deleted (a failure is only logged), the
\* actor is spawned and the handle is handed out.
ReplayDone ==
    /\ pc = "replay" /\ todo = {}
    /\ \/ pending' = [m \in Memory |-> IF m \in ActiveSet THEN pending[m] ELSE NoVec]
       \/ UNCHANGED pending
    /\ pc' = "recv" /\ open' = TRUE
    /\ UNCHANGED <<status, vec, snap, index, queue, actor, waiting, asked, answer, served, lost>>
-----------------------------------------------------------------------------
ActorStep == \/ TxRemember \/ TxUpdate \/ TxForget \/ TxRefused \/ TxFails \/ SaveSnapshot
             \/ \E m \in Memory : IndexVector(m) \/ IndexForget(m) \/ DrainRow(m)
             \/ Reply
             \/ ActorExit

ReplayStep == ReplayDone \/ \E m \in Memory : ReplayRow(m)

CallerStep == \E c \in Client :
    \/ CallRemember(c) \/ CallRememberBatch(c) \/ CallUpdate(c) \/ CallForget(c)
    \/ CallSave(c) \/ Abandon(c)

Next == \/ ActorStep \/ Load \/ ReplayStep \/ CallerStep
        \/ Crash \/ CrashInSave
        \/ \E save \in BOOLEAN : StopService(save)

Spec == Init /\ [][Next]_vars

\* The actor's thread and a library that is opening keep running.  Nothing makes callers
\* call, operators stop or start the service, or the process crash.
FairSpec == Spec /\ WF_vars(ActorStep) /\ WF_vars(ReplayStep)
-----------------------------------------------------------------------------
(* Properties.                                                              *)

TypeOK ==
    /\ status \in [Memory -> {"absent", "active", "forgotten"}]
    /\ vec \in [Memory -> Vec \cup {NoVec}]
    /\ \A m \in Memory : (vec[m] = NoVec) <=> (status[m] = "absent")
    /\ pending \in [Memory -> Vec \cup {NoVec}]
    /\ live \in Pair /\ bak \in Pair
    /\ pc \in {"down", "replay", "recv", "index", "reply", "drain"}
    /\ open \in BOOLEAN
    /\ graph \in Graph /\ tombs \in SUBSET Memory
    /\ queue \in Seq(Command) /\ Len(queue) \in 0..Capacity
    /\ cur \in Command \cup {NoCommand}
    /\ todo \in SUBSET Memory /\ drain \in SUBSET Memory /\ ok \in BOOLEAN
    /\ waiting \in SUBSET Client
    /\ asked \in SUBSET SUBSET Memory
    /\ answer \in [Memory -> {"none", "ok", "err"}]
    /\ served \in SUBSET Memory /\ lost \in SUBSET Memory

\* While a process runs, every active memory that this start could recover has its current
\* embedding in the index or in the outbox: the outbox row of a committed write goes only
\* after its vector is in the graph, and replay and rebuild keep both sides together.
IndexCoverage ==
    pc # "down" => \A m \in ActiveSet \ lost : vec[m] \in Visible(m) \/ pending[m] = vec[m]

\* No search can return a forgotten memory, except between the COMMIT of the forget and the
\* tombstone that follows it; this also holds after a reload, a rebuild and a replay.
ForgottenHidden ==
    pc # "down" => \A m \in ForgottenSet :
        \/ Visible(m) = {}
        \/ pc = "index" /\ cur.op = "forget" /\ m \in todo

\* A write answered Ok by this process can be found by its current embedding.  A batch also
\* answers Ok for an item the index refused, whose outbox row then stays.
OkMeansSearchable ==
    \A m \in served \cap ActiveSet :
        vec[m] \in Visible(m) \/ (pending[m] = vec[m] /\ vec[m] \in BadVec)

\* The outbox never holds a superseded embedding, so a replay at any later start cannot
\* bring the vector of an old content back.
PendingIsCurrent == \A m \in Memory : pending[m] \in {NoVec, vec[m]}

\* A process that ends with its index saved in the live pair costs no memory its vector,
\* whatever failed in its life before.
SavedStopLosesNothing ==
    [][(pc # "down" /\ pc' = "down" /\ live' = graph) => lost' \subseteq lost]_vars

\* The writer keeps the promise of the abstract store: batches whole, writes at most once,
\* Ok only for durable writes, nothing durable ever undone.
Promise == INSTANCE MemoryPromise WITH Memory <- Memory, Vec <- Vec, NoVec <- NoVec,
                                       asked <- asked, status <- status, vec <- vec,
                                       answer <- answer
KeepsPromise == Promise!Spec

\* The inductive invariant behind the three index properties above.

\* Between COMMIT and reply the rows of the command in hand are what the command says, a
\* replay walks the outbox rows of active memories, and only indexed memories are drained.
CommandInHand ==
    /\ pc \in {"index", "reply"} => cur # NoCommand
    /\ pc = "index" => /\ cur.op \in Writes \cup {"forget"}
                       /\ todo \subseteq Targets(cur)
    /\ pc = "index" /\ cur.op \in Writes => \A m \in todo : /\ status[m] = "active"
                                                            /\ vec[m] = cur.items[m]
                                                            /\ pending[m] = vec[m]
    /\ pc = "index" /\ cur.op = "forget" =>
          drain = {} /\ \A m \in todo : todo = {m} /\ status[m] = "forgotten"
    /\ pc = "replay" => \A m \in todo : status[m] = "active" /\ pending[m] # NoVec
    /\ pc \in {"down", "replay", "recv"} => drain = {}
    /\ \A m \in drain : vec[m] \in Visible(m)

\* No index content, in memory or on disk, holds a vector that add refuses, ...
NoneRefused(g) == \A m \in Memory : g[m] \cap BadVec = {}
OnlyGoodIndexed ==
    /\ NoneRefused(graph)
    /\ Usable(live) => NoneRefused(live)
    /\ Usable(bak) => NoneRefused(bak)

\* ... so the outbox keeps the rows of refused vectors.
RefusedStayInOutbox == \A m \in ActiveSet : vec[m] \in BadVec => pending[m] = vec[m]

\* While no process runs, the next start decides what is lost.
LostWhileDown == pc = "down" => lost = Unrecoverable(live, bak)

IndexInv == /\ CommandInHand /\ OnlyGoodIndexed /\ RefusedStayInOutbox /\ LostWhileDown
            /\ PendingIsCurrent /\ IndexCoverage /\ ForgottenHidden

\* What OkMeansSearchable needs besides.

\* m can be found, or is the refused item of a batch.
Findable(m) == vec[m] \in Visible(m) \/ (pending[m] = vec[m] /\ vec[m] \in BadVec)

\* A single write names one memory, so a refused vector leaves nothing to answer Ok for.
OneTarget(cmd) == cmd.op \in {"remember", "update"} => \E m \in Memory : Targets(cmd) = {m}
SinglesAreSingle == /\ \A i \in DOMAIN queue : OneTarget(queue[i])
                    /\ cur # NoCommand => OneTarget(cur)

\* While the handler of a write is to answer Ok, what it has indexed can be found.
ResultInHand ==
    /\ pc = "index" => ok
    /\ pc = "reply" => todo = {}
    /\ pc \in {"index", "reply"} /\ ok /\ cur.op \in Writes =>
          \A m \in Targets(cur) \ todo : /\ status[m] # "absent"
                                         /\ status[m] = "active" => Findable(m)

\* Only a running actor has served anybody, and only with durable memories.
ServedAreStored == /\ pc \in {"down", "replay"} => served = {}
                   /\ \A m \in served : status[m] # "absent"

ServedInv == SinglesAreSingle /\ ResultInHand /\ ServedAreStored /\ OkMeansSearchable

\* What the refinement of MemoryPromise needs besides.

\* The memories a command is to store.
New(cmd) == IF cmd.op \in {"remember", "batch"} THEN Targets(cmd) ELSE {}

\* A queued command to store memories was asked for, and nobody has an answer to it yet; ...
Unanswered(cmd) == /\ cmd.op \in {"remember", "batch"} => Targets(cmd) \in asked
                   /\ \A m \in New(cmd) : answer[m] = "none"

\* ... no other command holds any of its memories; ...
QueuedOnce == /\ \A i \in DOMAIN queue : Unanswered(queue[i])
              /\ \A i, j \in DOMAIN queue : i # j => New(queue[i]) \cap New(queue[j]) = {}

\* ... and the same holds of the command in hand.
InHandOnce == pc \in {"index", "reply"} =>
    /\ Unanswered(cur)
    /\ \A i \in DOMAIN queue : New(cur) \cap New(queue[i]) = {}

\* Nobody has an answer for what nobody asked.
AnswersWereAsked == \A m \in Memory \ UNION asked : answer[m] = "none"

PromiseInv == QueuedOnce /\ InHandOnce /\ AnswersWereAsked

\* What the documents say and the code does not keep (see the findings in the README).

\* ADR-0003: pending_index covers data loss on crash, snapshots only bound recovery time.
\* An idle service has every active memory in the index or in the outbox.
NoVectorLoss ==
    pc = "recv" => \A m \in ActiveSet : vec[m] \in Visible(m) \/ pending[m] = vec[m]

\* Every call returns unless its caller gives up or the process dies.
EveryCallReturns == \A c \in Client : (c \in waiting) ~> (c \notin waiting)

\* A service that was asked to stop, or is opening, does not hang: the queue drains and the
\* actor exits; the replay ends.
StopCompletes == (pc # "down" /\ ~open) ~> (pc = "down" \/ open)
=============================================================================
