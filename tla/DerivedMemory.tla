----------------------------- MODULE DerivedMemory -----------------------------
(***************************************************************************)
(* Derived memory: clusters of episodes and the abstractions (themes, with *)
(* their triples) an LLM writes of them. The daemon's jobs hold one lease  *)
(* (StewardRuntimeStatus::derived_job) while they send commands to the     *)
(* writer and wait for its replies, or read clusters, ask the LLM and      *)
(* attach what it answered (run_triples_batch_tick). Remembers and forgets *)
(* go on meanwhile, HTTP callers hang up, and the daemon crashes.          *)
(*                                                                         *)
(* An abstraction is the set of members it describes. Which memories are   *)
(* alike, and what the LLM answers, is any choice. Contradictions, entity  *)
(* rows and the review queue are left out.                                 *)
(***************************************************************************)
EXTENDS Naturals, Sequences, FiniteSets

CONSTANTS
    Memory,      \* episodes
    MaxCluster,  \* bound: clusters ever built
    Limit,       \* TRIPLES_BATCH_LIMIT_PER_TICK
    MaxBatches,  \* max_batches of a backfill
    Threshold,   \* trigger_episode_count
    MaxQueue     \* bound: commands of jobs in the writer's channel

ASSUME DerivedMemoryAssumption ==
    /\ IsFiniteSet(Memory)
    /\ {MaxCluster, Limit, MaxBatches, Threshold, MaxQueue} \subseteq Nat \ {0}

Cluster == 1 .. MaxCluster  \* in rowid order
Tick == {"startup", "timer", "extract", "backfill"}  \* jobs with a triples batch
Job == Tick \cup {"clock", "consolidate", "repair"}
Http == {"consolidate", "extract", "repair"}  \* jobs that end with their caller

VARIABLES
    \* SQLite
    status,   \* [Memory -> {"none", "active", "forgotten"}]
    home,     \* [Memory -> Cluster or 0]: cluster_episodes
    live,     \* rows of clusters
    created,  \* clusters ever built
    abstr,    \* [Cluster -> members its abstraction describes], {} without a row
    weak,     \* clusters whose abstraction is low-signal
    \* the daemon
    up,
    queue,    \* the writer's channel: commands of jobs, in order
    job,      \* the holder of the lease, or "none"
    step,     \* where the job is
    batch,    \* [clusters of the batch -> active members read]
    rounds, before, built,  \* of a backfill: batches left, pending clusters, progress
    count,    \* episodes_since_batch
    permits,  \* wakes of the triples timer not consumed yet
    \* history
    since,    \* memories since the timer's last batch read its clusters
    merged,   \* clusters that took over another and keep their old abstraction
    loose     \* clusters that a consolidation without its caller gave members

db == <<status, home, live, created, abstr, weak>>
lease == <<job, step, batch, rounds, before, built>>
signal == <<count, permits>>
vars == <<db, up, queue, lease, signal, since, merged, loose>>

Active == {m \in Memory : status[m] = "active"}
Members(c) == {m \in Memory : home[m] = c}
NoBatch == [c \in {} |-> {}]

\* read_derived_coverage: clusters without an abstraction.
Uncovered == {c \in live : abstr[c] = {}}

\* The clusters a batch may take: also those with a low-signal abstraction.
Pending == Uncovered \cup (live \cap weak)

\* LIMIT cuts the list before clusters without active members are skipped.
Candidates == {c \in Pending : Cardinality({d \in Pending : d < c}) < Limit}
Fetched == {c \in Candidates : Members(c) \cap Active # {}}

Idle ==
    /\ job' = "none" /\ step' = "idle" /\ batch' = NoBatch
    /\ rounds' = 0 /\ before' = 0 /\ built' = FALSE

Init ==
    /\ status = [m \in Memory |-> "none"]
    /\ home = [m \in Memory |-> 0]
    /\ live = {} /\ created = 0
    /\ abstr = [c \in Cluster |-> {}] /\ weak = {}
    /\ up = FALSE /\ queue = <<>>
    /\ job = "none" /\ step = "idle" /\ batch = NoBatch
    /\ rounds = 0 /\ before = 0 /\ built = FALSE
    /\ count = 0 /\ permits = 0 /\ since = 0
    /\ merged = {} /\ loose = {}
--------------------------------------------------------------------------------
(* Memories *)

\* note_episode_remembered: a waiting timer is woken, and one more permit can be stored.
Note ==
    /\ count' = count + 1
    /\ permits' = IF count + 1 < Threshold \/ permits = (IF job = "timer" THEN 1 ELSE 2)
                  THEN permits ELSE permits + 1
    /\ since' = since + 1

Remember(m) ==
    /\ up /\ status[m] = "none"
    /\ status' = [status EXCEPT ![m] = "active"]
    /\ Note
    /\ UNCHANGED <<home, live, created, abstr, weak, up, queue, lease, merged, loose>>

Forget(m) ==
    /\ up /\ status[m] = "active"
    /\ status' = [status EXCEPT ![m] = "forgotten"]
    /\ UNCHANGED <<home, live, created, abstr, weak, up, queue, lease, signal, since,
                   merged, loose>>
--------------------------------------------------------------------------------
(* Jobs take the lease *)

Send(op) ==
    /\ Len(queue) < MaxQueue
    /\ queue' = Append(queue, [op |-> op, items |-> NoBatch, weak |-> {}, caller |-> TRUE])

\* The timer of consolidations, an HTTP consolidation, or a backfill, whose first step
\* it is.
StartConsolidate(j) ==
    /\ up /\ job = "none"
    /\ job' = j /\ step' = "consolidating"
    /\ rounds' = IF j = "backfill" THEN MaxBatches ELSE 0
    /\ Send("consolidate")
    /\ UNCHANGED <<db, up, batch, before, built, signal, since, merged, loose>>

StartRepair(op) ==
    /\ up /\ job = "none"
    /\ job' = "repair" /\ step' = "repairing"
    /\ Send(op)
    /\ UNCHANGED <<db, up, batch, rounds, before, built, signal, since, merged, loose>>

StartExtract ==
    /\ up /\ job = "none"
    /\ job' = "extract" /\ step' = "fetch"
    /\ UNCHANGED <<db, up, queue, batch, rounds, before, built, signal, since, merged, loose>>

\* The timer's interval or a permit: it resets the counter and runs a batch.
TimerWakes ==
    /\ up /\ job = "none"
    /\ job' = "timer" /\ step' = "fetch"
    /\ count' = 0
    /\ permits' \in {permits, permits - 1} \cap {0, 1}
    /\ UNCHANGED <<db, up, queue, batch, rounds, before, built, since, merged, loose>>

\* Another job has the lease: the wake is used up.
TimerSkips ==
    /\ up /\ job \notin {"none", "timer"} /\ permits > 0
    /\ permits' = permits - 1
    /\ UNCHANGED <<db, up, queue, lease, count, since, merged, loose>>

\* A daemon starts; catch-up takes the lease before there are timers and HTTP. Whether
\* there are enough memories and no triple is any choice.
Start ==
    /\ ~up
    /\ up' = TRUE
    /\ \/ UNCHANGED <<queue, job, step>>
       \/ /\ Active # {} /\ live = {}
          /\ job' = "startup" /\ step' = "consolidating"
          /\ Send("consolidate")
       \/ /\ Active # {} /\ Uncovered # {}
          /\ job' = "startup" /\ step' = "clustered"
          /\ UNCHANGED queue
    /\ UNCHANGED <<db, batch, rounds, before, built, signal, since, merged, loose>>
--------------------------------------------------------------------------------
(* The writer *)

Command == queue[1]
Serving(op) == up /\ queue # <<>> /\ Command.op = op

\* A reply that still has a caller takes its job to the next step.
Reply(to) ==
    /\ queue' = Tail(queue)
    /\ step' = IF Command.caller THEN to ELSE step
    /\ UNCHANGED <<up, job, batch, rounds, before, signal, since>>

\* Mutant: a cluster keeps its abstraction when it takes in new members.
ClusterMemoriesKeeps(S, T, c) ==
    /\ Serving("consolidate")
    /\ S \cap T = {} /\ \A m \in S \cup T : home[m] = 0
    /\ S # {} => created < MaxCluster
    /\ T # {} => c \in live /\ Members(c) # {}
    /\ T = {} => c = 1
    /\ created' = IF S = {} THEN created ELSE created + 1
    /\ live' = IF S = {} THEN live ELSE live \cup {created + 1}
    /\ home' = [m \in Memory |-> IF m \in S THEN created + 1
                                 ELSE IF m \in T THEN c ELSE home[m]]
    /\ queue' = [queue EXCEPT ![1].op = "merge"]
    /\ UNCHANGED <<status, abstr, weak, up, lease, signal, since, merged, loose>>

\* handle_consolidate, first transaction: new memories S become a cluster, others T join
\* cluster c, whose abstraction is deleted.
ClusterMemories(S, T, c) ==
    /\ Serving("consolidate")
    /\ S \cap T = {} /\ \A m \in S \cup T : home[m] = 0
    /\ S # {} => created < MaxCluster
    /\ T # {} => c \in live /\ Members(c) # {}
    /\ T = {} => c = 1
    /\ LET new == IF S = {} THEN {} ELSE {created + 1}
           grown == IF T = {} THEN {} ELSE {c}
       IN /\ created' = created + Cardinality(new)
          /\ live' = live \cup new
          /\ home' = [m \in Memory |-> IF m \in S THEN created + 1
                                       ELSE IF m \in T THEN c ELSE home[m]]
          /\ abstr' = [d \in Cluster |-> IF d \in grown THEN {} ELSE abstr[d]]
          /\ weak' = weak \ grown
          /\ merged' = merged \ grown
          /\ loose' = IF Command.caller THEN loose \ grown ELSE loose \cup grown
    /\ queue' = [queue EXCEPT ![1].op = "merge"]
    /\ UNCHANGED <<status, up, lease, signal, since>>

\* ... second transaction: survivor takes over the members of loser, whose rows go, and
\* keeps its own abstraction.
MergeClusters(survivor, loser) ==
    /\ Serving("merge")
    /\ survivor # loser
    /\ Members(survivor) # {} /\ Members(loser) # {}
    /\ home' = [m \in Memory |-> IF home[m] = loser THEN survivor ELSE home[m]]
    /\ live' = live \ {loser}
    /\ abstr' = [abstr EXCEPT ![loser] = {}]
    /\ weak' = weak \ {loser}
    /\ merged' = (merged \ {loser}) \cup {survivor}
    /\ loose' = (loose \ {loser}) \cup (IF Command.caller THEN {} ELSE {survivor})
    /\ Reply("clustered")
    /\ UNCHANGED <<status, created, built>>

MergeNothing ==
    /\ Serving("merge")
    /\ Reply("clustered")
    /\ UNCHANGED <<db, built, merged, loose>>

\* handle_attach_abstraction_batch: the clusters that still exist, each in a savepoint
\* that may fail.
Attach(S) ==
    /\ Serving("attach")
    /\ S \subseteq DOMAIN Command.items
    /\ abstr' = [c \in Cluster |-> IF c \in S THEN Command.items[c] ELSE abstr[c]]
    /\ weak' = (weak \ S) \cup (S \cap Command.weak)
    /\ merged' = merged \ S
    /\ built' = IF Command.caller THEN S # {} ELSE built
    /\ Reply("extracted")
    /\ UNCHANGED <<status, home, live, created, loose>>

\* repair_stale_abstractions deletes the abstractions it finds poor.
RepairStale(S) ==
    /\ Serving("repair_stale")
    /\ S \cap Uncovered = {}
    /\ abstr' = [c \in Cluster |-> IF c \in S THEN {} ELSE abstr[c]]
    /\ weak' = weak \ S
    /\ merged' = merged \ S
    /\ Reply("over")
    /\ UNCHANGED <<status, home, live, created, built, loose>>

\* rebuild_all_derived deletes every cluster, for later consolidations to build anew.
RebuildAll ==
    /\ Serving("rebuild_all")
    /\ home' = [m \in Memory |-> 0]
    /\ live' = {} /\ abstr' = [c \in Cluster |-> {}] /\ weak' = {}
    /\ merged' = {} /\ loose' = {}
    /\ Reply("over")
    /\ UNCHANGED <<status, created, built>>

\* The transaction fails and is rolled back.
CommandFails ==
    /\ up /\ queue # <<>>
    /\ Reply("over")
    /\ UNCHANGED <<db, built, merged, loose>>
--------------------------------------------------------------------------------
(* Jobs go on *)

\* fetch_clusters_without_abstractions; a batch without clusters, or an LLM, ends the job.
Fetch ==
    /\ step = "fetch"
    /\ \/ /\ Fetched # {}
          /\ batch' = [c \in Fetched |-> Members(c) \cap Active] /\ step' = "llm"
       \/ batch' = NoBatch /\ step' = "over"
    /\ since' = IF job = "timer" THEN 0 ELSE since
    /\ built' = FALSE
    /\ UNCHANGED <<db, up, queue, job, rounds, before, signal, merged, loose>>

\* extract_triples_batch: an answer for the clusters of good, a low-signal one for those of
\* poor, an error or a timeout for the others.
Extract(good, poor) ==
    /\ step = "llm"
    /\ good \cap poor = {}
    /\ IF good \cup poor = {}
       THEN step' = "extracted" /\ UNCHANGED queue
       ELSE /\ Len(queue) < MaxQueue
            /\ step' = "attaching"
            /\ queue' = Append(queue, [op |-> "attach", caller |-> TRUE, weak |-> poor,
                                       items |-> [c \in good \cup poor |-> batch[c]]])
    /\ batch' = NoBatch
    /\ UNCHANGED <<db, up, job, rounds, before, built, signal, since, merged, loose>>

\* After its consolidation: catch-up and backfill take clusters, the others are done.
Clustered ==
    /\ step = "clustered"
    /\ step' = CASE job = "startup" /\ Pending # {} -> "fetch"
                 [] job = "backfill" /\ Uncovered # {} -> "fetch"
                 [] OTHER -> "over"
    /\ before' = IF job = "backfill" THEN Cardinality(Uncovered) ELSE 0
    /\ UNCHANGED <<db, up, queue, job, batch, rounds, built, signal, since, merged, loose>>

\* Mutant: a backfill goes on until every cluster is covered.
ExtractedUntilCovered ==
    /\ step = "extracted"
    /\ step' = IF job = "backfill" /\ Uncovered # {} THEN "clustered" ELSE "over"
    /\ UNCHANGED <<db, up, queue, job, batch, rounds, before, built, signal, since, merged, loose>>

\* After a batch: a backfill takes the next one while clusters are left, this one brought
\* something, and batches are left.
Extracted ==
    /\ step = "extracted"
    /\ IF job = "backfill"
       THEN /\ rounds' = rounds - 1
            /\ step' = IF \/ Uncovered = {} \/ rounds = 1
                          \/ (~built /\ Cardinality(Uncovered) >= before)
                       THEN "over" ELSE "clustered"
       ELSE step' = "over" /\ UNCHANGED rounds
    /\ UNCHANGED <<db, up, queue, job, batch, before, built, signal, since, merged, loose>>

\* Mutant: the timer resets the counter when its batch is over.
EndJobResets ==
    /\ step = "over"
    /\ Idle
    /\ count' = IF job = "timer" THEN 0 ELSE count
    /\ UNCHANGED <<db, up, queue, permits, since, merged, loose>>

EndJob ==
    /\ step = "over"
    /\ Idle
    /\ UNCHANGED <<db, up, queue, signal, since, merged, loose>>

\* The caller of an HTTP job hangs up: its handler is dropped and the lease with it, a
\* command it has sent is not.
HangUp ==
    /\ job \in Http
    /\ Idle
    /\ queue' = [k \in DOMAIN queue |-> [queue[k] EXCEPT !.caller = FALSE]]
    /\ UNCHANGED <<db, up, signal, since, merged, loose>>

\* Everything but SQLite is gone.
Crash ==
    /\ up /\ up' = FALSE
    /\ Idle
    /\ queue' = <<>> /\ count' = 0 /\ permits' = 0 /\ since' = 0
    /\ UNCHANGED <<db, merged, loose>>
--------------------------------------------------------------------------------
Writer ==
    \/ CommandFails \/ MergeNothing \/ RebuildAll
    \/ Serving("consolidate") /\ \E S, T \in SUBSET Active, c \in Cluster : ClusterMemories(S, T, c)
    \/ \E s, l \in live : MergeClusters(s, l)
    \/ \E S \in SUBSET live : Attach(S) \/ RepairStale(S)

Proceed ==
    \/ Fetch \/ Clustered \/ Extracted \/ EndJob
    \/ \E good, poor \in SUBSET DOMAIN batch : Extract(good, poor)

Next ==
    \/ \E m \in Memory : Remember(m) \/ Forget(m)
    \/ \E j \in {"clock", "consolidate", "backfill"} : StartConsolidate(j)
    \/ \E op \in {"repair_stale", "rebuild_all"} : StartRepair(op)
    \/ StartExtract \/ TimerWakes \/ TimerSkips
    \/ Start \/ HangUp \/ Crash
    \/ Writer \/ Proceed

\* The writer thread serves its channel, and every await of a job ends: a call to the LLM
\* by its cluster_timeout_secs, when that is not 0.
Spec == Init /\ [][Next]_vars /\ WF_vars(Writer) /\ WF_vars(Proceed)
--------------------------------------------------------------------------------
\* Descriptions of clusters, and the commands that carry them to the writer.
Batch == UNION {[C -> SUBSET Memory] : C \in SUBSET Cluster}
Waiting == {"consolidating", "repairing", "attaching"}
Op == {"consolidate", "merge", "attach", "repair_stale", "rebuild_all"}
JobCommand == [op : Op, items : Batch, weak : SUBSET Cluster, caller : BOOLEAN]

TypeOK ==
    /\ status \in [Memory -> {"none", "active", "forgotten"}]
    /\ home \in [Memory -> {0} \cup live]
    /\ created \in 0 .. MaxCluster /\ live \subseteq 1 .. created
    /\ abstr \in [Cluster -> SUBSET Memory] /\ weak \subseteq Cluster
    /\ up \in BOOLEAN /\ built \in BOOLEAN
    /\ queue \in Seq(JobCommand)
    /\ job \in Job \cup {"none"}
    /\ step \in Waiting \cup {"idle", "fetch", "clustered", "llm", "extracted", "over"}
    /\ batch \in Batch
    /\ rounds \in 0 .. MaxBatches /\ before \in 0 .. MaxCluster
    /\ count \in Nat /\ permits \in 0 .. 2 /\ since \in Nat
    /\ merged \subseteq Cluster /\ loose \subseteq Cluster

\* Dev-log 0152 M6: a cluster whose abstraction misses one of its active members is in the
\* list of the next batches; but for a cluster that took over another, and one that a
\* consolidation changed whose HTTP caller had hung up, and the lease with it.
\* (handle_consolidate_impl, run_triples_batch_tick, try_begin_derived_job)
StaleIsRetried ==
    \A m \in Active : home[m] # 0 =>
        \/ home[m] \in Pending \cup merged \cup loose
        \/ m \in abstr[home[m]]

\* A memory noted since the timer's last batch read its clusters counts towards the next
\* one, also those noted while that batch ran. (triples_batch_timer: reset before the batch)
NotedCountsTowardsNext == since <= count \/ (job = "timer" /\ step = "fetch")

\* Whoever takes the lease gives it back, so no job keeps the others out for good.
\* (run_steward_backfill, extract_triples_batch)
LeaseReturns == (job # "none") ~> (job = "none")
--------------------------------------------------------------------------------
(* The inductive invariant behind the safety properties above.              *)

\* Nobody holds the lease of a daemon that is down; a batch is in hand only while the LLM is
\* asked, a backfill that goes on has a batch left, and a busy timer one wake at most.
LeaseInOrder ==
    /\ job = "none" => step = "idle"
    /\ ~up => job = "none" /\ queue = <<>>
    /\ DOMAIN batch # {} => step = "llm"
    /\ job = "backfill" /\ step # "over" => rounds > 0
    /\ job = "timer" => permits < 2

\* Only stored memories are in clusters, only clusters that exist have an abstraction.
RowsInOrder ==
    /\ \A m \in Memory : status[m] = "none" => home[m] = 0
    /\ \A c \in Cluster \ live : abstr[c] = {}

\* The one command somebody waits for is the last of the channel.
CallerIsLast ==
    \A k \in 1 .. Len(queue) : queue[k].caller => k = Len(queue) /\ step \in Waiting

\* A description has the active members of its cluster, which no job but one whose caller is
\* gone has changed since they were read.
Covers(items) ==
    \A c \in DOMAIN items :
        /\ c <= created
        /\ \A m \in Active : home[m] = c => m \in items[c] \/ c \in loose

DescriptionsCover ==
    /\ Covers(batch)
    /\ \A k \in 1 .. Len(queue) : queue[k].op = "attach" => Covers(queue[k].items)

DerivedInv ==
    /\ LeaseInOrder /\ RowsInOrder /\ CallerIsLast /\ DescriptionsCover
    /\ StaleIsRetried /\ NotedCountsTowardsNext
=============================================================================
