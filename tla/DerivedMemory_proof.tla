-------------------------- MODULE DerivedMemory_proof --------------------------
(***************************************************************************)
(* For any number of memories and clusters and a writer's channel of any   *)
(* length: no job, hung-up request or crash leaves a cluster whose         *)
(* abstraction misses a member out of the batches to come, and none keeps  *)
(* a memory from counting towards the next batch of the timer.             *)
(***************************************************************************)
EXTENDS DerivedMemory, FiniteSetTheorems, TLAPS

LEMMA Bounds ==
    MaxCluster \in Nat \ {0} /\ MaxBatches \in Nat \ {0} /\ Threshold \in Nat \ {0}
BY DerivedMemoryAssumption, Zenon

LEMMA NoBatchFacts == NoBatch \in Batch /\ DOMAIN NoBatch = {}
<1>1. {} \in SUBSET Cluster /\ NoBatch \in [{} -> SUBSET Memory] /\ DOMAIN NoBatch = {}
  BY DEF NoBatch
<1> QED BY <1>1 DEF Batch

\* What the channel holds after a command is sent, served, or left by its caller.
LEMMA AppendFacts ==
    ASSUME NEW S, NEW q \in Seq(S), NEW e \in S
    PROVE  /\ Append(q, e) \in Seq(S) /\ Len(Append(q, e)) = Len(q) + 1
           /\ \A k \in 1 .. Len(q) : Append(q, e)[k] = q[k]
           /\ Append(q, e)[Len(q) + 1] = e
OBVIOUS

LEMMA TailFacts ==
    ASSUME NEW S, NEW q \in Seq(S), q # <<>>
    PROVE  /\ Tail(q) \in Seq(S) /\ Len(Tail(q)) = Len(q) - 1 /\ Len(q) \in Nat \ {0}
           /\ \A k \in 1 .. Len(Tail(q)) : Tail(q)[k] = q[k + 1] /\ k + 1 \in 1 .. Len(q)
           /\ q[1] \in S
OBVIOUS

LEMMA SentFacts ==
    ASSUME NEW op \in Op, TypeOK, Send(op)
    PROVE  /\ queue' \in Seq(JobCommand) /\ Len(queue') = Len(queue) + 1
           /\ \A k \in 1 .. Len(queue) : queue'[k] = queue[k]
           /\ queue'[Len(queue')].op = op
<1> DEFINE e == [op |-> op, items |-> NoBatch, weak |-> {}, caller |-> TRUE]
<1>1. e \in JobCommand
  BY NoBatchFacts DEF JobCommand
<1>2. queue' = Append(queue, e) /\ queue \in Seq(JobCommand)
  BY DEF Send, TypeOK
<1>3. e.op = op
  OBVIOUS
<1> HIDE DEF e
<1> QED BY <1>1, <1>2, <1>3, AppendFacts

LEMMA RepliedFacts ==
    ASSUME NEW to, TypeOK, queue # <<>>, Reply(to)
    PROVE  /\ queue' \in Seq(JobCommand) /\ Len(queue') = Len(queue) - 1
           /\ Len(queue) \in Nat \ {0} /\ Command \in JobCommand
           /\ \A k \in 1 .. Len(queue') : queue'[k] = queue[k + 1] /\ k + 1 \in 1 .. Len(queue)
BY TailFacts DEF Reply, TypeOK, Command

\* Between its two transactions a consolidation stays first in the channel.
LEMMA MergingFacts ==
    ASSUME TypeOK, queue # <<>>, queue' = [queue EXCEPT ![1].op = "merge"]
    PROVE  /\ queue' \in Seq(JobCommand) /\ Len(queue') = Len(queue)
           /\ \A k \in 1 .. Len(queue) : /\ queue'[k].caller = queue[k].caller
                                         /\ queue'[k].items = queue[k].items
                                         /\ queue'[k].op \in {queue[k].op, "merge"}
           /\ queue'[1].op = "merge"
<1>1. queue \in Seq(JobCommand) /\ queue[1] \in JobCommand /\ 1 \in 1 .. Len(queue)
  BY TailFacts DEF TypeOK
<1>2. [queue[1] EXCEPT !.op = "merge"] \in JobCommand
  BY <1>1 DEF JobCommand, Op
<1>3. queue' \in Seq(JobCommand) /\ Len(queue') = Len(queue)
  BY <1>1, <1>2
<1>4. \A k \in 1 .. Len(queue) :
         queue'[k] = IF k = 1 THEN [queue[1] EXCEPT !.op = "merge"] ELSE queue[k]
  BY <1>1
<1>5. /\ [queue[1] EXCEPT !.op = "merge"].caller = queue[1].caller
      /\ [queue[1] EXCEPT !.op = "merge"].items = queue[1].items
      /\ [queue[1] EXCEPT !.op = "merge"].op = "merge"
  BY <1>1 DEF JobCommand
<1> QED BY <1>1, <1>3, <1>4, <1>5

LEMMA HungUpFacts ==
    ASSUME TypeOK, queue' = [k \in DOMAIN queue |-> [queue[k] EXCEPT !.caller = FALSE]]
    PROVE  /\ queue' \in Seq(JobCommand) /\ Len(queue') = Len(queue)
           /\ \A k \in 1 .. Len(queue) : /\ ~queue'[k].caller
                                         /\ queue'[k].items = queue[k].items
                                         /\ queue'[k].op = queue[k].op
<1>1. queue \in Seq(JobCommand) /\ \A k \in 1 .. Len(queue) : queue[k] \in JobCommand
  BY DEF TypeOK
<1>2. \A k \in 1 .. Len(queue) : [queue[k] EXCEPT !.caller = FALSE] \in JobCommand
  BY <1>1 DEF JobCommand
<1>3. DOMAIN queue = 1 .. Len(queue) /\ Len(queue) \in Nat
  BY <1>1
<1>4. queue' \in [1 .. Len(queue) -> JobCommand]
  BY <1>2, <1>3
<1>5. queue' \in Seq(JobCommand) /\ Len(queue') = Len(queue)
  BY <1>3, <1>4
<1> QED BY <1>1, <1>3, <1>5 DEF JobCommand

LEMMA BatchFacts ==
    /\ \A b \in Batch : DOMAIN b \subseteq Cluster /\ \A c \in DOMAIN b : b[c] \in SUBSET Memory
    /\ \A C \in SUBSET Cluster : \A b : b \in [C -> SUBSET Memory] => b \in Batch
BY DEF Batch

LEMMA IdleFacts ==
    ASSUME Idle
    PROVE  /\ job' \in Job \cup {"none"} /\ batch' \in Batch /\ DOMAIN batch' = {}
           /\ step' \in Waiting \cup {"idle", "fetch", "clustered", "llm", "extracted", "over"}
           /\ rounds' \in 0 .. MaxBatches /\ before' \in 0 .. MaxCluster /\ built' \in BOOLEAN
           /\ job' = "none" /\ step' = "idle"
<1>1. batch' = NoBatch /\ job' = "none" /\ step' = "idle" /\ rounds' = 0 /\ before' = 0
  BY DEF Idle
<1>2. built' \in BOOLEAN
  BY DEF Idle
<1>3. 0 \in 0 .. MaxBatches /\ 0 \in 0 .. MaxCluster
  BY Bounds
<1> QED BY <1>1, <1>2, <1>3, NoBatchFacts

LEMMA DerivedTypeStep == TypeOK /\ LeaseInOrder /\ [Next]_vars => TypeOK'
<1> SUFFICES ASSUME TypeOK, LeaseInOrder, [Next]_vars PROVE TypeOK'
  OBVIOUS
<1> USE Bounds DEF TypeOK, Cluster, Active, db, lease, signal
<1>1. ASSUME NEW m \in Memory, Remember(m) PROVE TypeOK'
  <2>1. count' \in Nat /\ since' \in Nat /\ permits' \in 0 .. 2
    BY <1>1 DEF Remember, Note, LeaseInOrder
  <2> QED BY <1>1, <2>1 DEF Remember
<1>2. ASSUME NEW m \in Memory, Forget(m) PROVE TypeOK'
  BY <1>2 DEF Forget
<1>3. ASSUME NEW j \in {"clock", "consolidate", "backfill"}, StartConsolidate(j) PROVE TypeOK'
  <2>1. queue' \in Seq(JobCommand)
    BY <1>3, SentFacts DEF StartConsolidate, Op
  <2> QED BY <1>3, <2>1 DEF StartConsolidate, Job, Tick, Waiting
<1>4. ASSUME NEW op \in {"repair_stale", "rebuild_all"}, StartRepair(op) PROVE TypeOK'
  <2>1. queue' \in Seq(JobCommand)
    BY <1>4, SentFacts DEF StartRepair, Op
  <2> QED BY <1>4, <2>1 DEF StartRepair, Job, Waiting
<1>5. CASE StartExtract \/ TimerWakes \/ TimerSkips
  <2>1. CASE StartExtract
    BY <2>1 DEF StartExtract, Job, Tick
  <2>2. CASE TimerWakes
    <3>1. permits' \in 0 .. 2 /\ count' \in Nat
      BY <2>2 DEF TimerWakes
    <3> QED BY <2>2, <3>1 DEF TimerWakes, Job, Tick
  <2>3. CASE TimerSkips
    BY <2>3 DEF TimerSkips
  <2> QED BY <1>5, <2>1, <2>2, <2>3
<1>6. CASE Start
  <2>1. queue' \in Seq(JobCommand)
    BY <1>6, SentFacts DEF Start, Op
  <2>2. job' \in Job \cup {"none"}
    BY <1>6 DEF Start, Job, Tick
  <2>3. step' \in Waiting \cup {"idle", "fetch", "clustered", "llm", "extracted", "over"}
    BY <1>6 DEF Start, Waiting
  <2> QED BY <1>6, <2>1, <2>2, <2>3 DEF Start
<1>7. CASE HangUp \/ Crash
  <2>1. queue' \in Seq(JobCommand)
    <3>1. <<>> \in Seq(JobCommand)
      OBVIOUS
    <3> QED BY <1>7, <3>1, HungUpFacts DEF HangUp, Crash
  <2>2. Idle
    BY <1>7 DEF HangUp, Crash
  <2>3. up' \in BOOLEAN /\ count' \in Nat /\ permits' \in 0 .. 2 /\ since' \in Nat
    <3>1. CASE HangUp
      BY <3>1 DEF HangUp
    <3>2. CASE Crash
      <4>1. count' = 0 /\ permits' = 0 /\ since' = 0
        BY <3>2 DEF Crash
      <4>2. up' \in BOOLEAN
        BY <3>2, Zenon DEF Crash
      <4> QED BY <4>1, <4>2
    <3> QED BY <1>7, <3>1, <3>2
  <2>4. UNCHANGED <<db, merged, loose>>
    BY <1>7 DEF HangUp, Crash
  <2> QED BY <2>1, <2>2, <2>3, <2>4, IdleFacts
<1>8. ASSUME NEW S \in SUBSET Active, NEW T \in SUBSET Active, NEW c \in Cluster,
             ClusterMemories(S, T, c)
      PROVE  TypeOK'
  <2>1. queue' \in Seq(JobCommand)
    BY <1>8, MergingFacts DEF ClusterMemories, Serving
  <2> DEFINE new == IF S = {} THEN {} ELSE {created + 1}
             grown == IF T = {} THEN {} ELSE {c}
  <2>2. /\ created' = created + Cardinality(new) /\ live' = live \cup new
        /\ home' = [m \in Memory |-> IF m \in S THEN created + 1
                                     ELSE IF m \in T THEN c ELSE home[m]]
        /\ abstr' = [d \in Cluster |-> IF d \in grown THEN {} ELSE abstr[d]]
        /\ weak' = weak \ grown /\ merged' = merged \ grown
        /\ loose' \subseteq loose \cup grown
        /\ S # {} => created < MaxCluster
        /\ T # {} => c \in live
    BY <1>8 DEF ClusterMemories
  <2>3. Cardinality(new) = IF S = {} THEN 0 ELSE 1
    BY FS_EmptySet, FS_Singleton
  <2>4. created' \in 0 .. MaxCluster /\ live' \subseteq 1 .. created'
    <3>1. CASE S = {}
      BY <2>2, <2>3, <3>1
    <3>2. CASE S # {}
      <4>1. new = {created + 1} /\ Cardinality(new) = 1 /\ created < MaxCluster
        BY <2>2, <2>3, <3>2
      <4>2. created' = created + 1 /\ live' = live \cup {created + 1}
        BY <2>2, <4>1
      <4> QED BY <4>1, <4>2
    <3> QED BY <3>1, <3>2
  <2>5. home' \in [Memory -> {0} \cup live']
    BY <2>2
  <2>6. abstr' \in [Cluster -> SUBSET Memory] /\ weak' \subseteq Cluster
        /\ merged' \subseteq Cluster /\ loose' \subseteq Cluster
    BY <2>2
  <2> QED BY <1>8, <2>1, <2>4, <2>5, <2>6 DEF ClusterMemories
<1>9. ASSUME NEW s \in live, NEW l \in live, MergeClusters(s, l) PROVE TypeOK'
  <2>1. queue' \in Seq(JobCommand)
    BY <1>9, RepliedFacts DEF MergeClusters, Serving
  <2>2. home' \in [Memory -> {0} \cup live'] /\ live' \subseteq 1 .. created
    BY <1>9 DEF MergeClusters
  <2>3. abstr' \in [Cluster -> SUBSET Memory] /\ weak' \subseteq Cluster
        /\ merged' \subseteq Cluster /\ loose' \subseteq Cluster
    BY <1>9 DEF MergeClusters
  <2> QED BY <1>9, <2>1, <2>2, <2>3 DEF MergeClusters, Reply
<1>10. ASSUME NEW S \in SUBSET live, Attach(S) PROVE TypeOK'
  <2>1. queue' \in Seq(JobCommand) /\ Command \in JobCommand
    BY <1>10, RepliedFacts DEF Attach, Serving
  <2>2. Command.items \in Batch /\ Command.weak \subseteq Cluster
    BY <2>1 DEF JobCommand
  <2>3. abstr' \in [Cluster -> SUBSET Memory]
    BY <1>10, <2>2, BatchFacts DEF Attach
  <2>4. weak' \subseteq Cluster /\ merged' \subseteq Cluster /\ built' \in BOOLEAN
    BY <1>10, <2>2 DEF Attach
  <2> QED BY <1>10, <2>1, <2>3, <2>4 DEF Attach, Reply
<1>11. ASSUME NEW S \in SUBSET live, RepairStale(S) PROVE TypeOK'
  <2>1. queue' \in Seq(JobCommand)
    BY <1>11, RepliedFacts DEF RepairStale, Serving
  <2> QED BY <1>11, <2>1 DEF RepairStale, Reply
<1>12. CASE RebuildAll \/ MergeNothing \/ CommandFails
  <2>1. queue' \in Seq(JobCommand)
    BY <1>12, RepliedFacts DEF RebuildAll, MergeNothing, CommandFails, Serving
  <2> QED BY <1>12, <2>1 DEF RebuildAll, MergeNothing, CommandFails, Reply
<1>13. CASE Fetch
  <2>1. Fetched \subseteq live
    BY DEF Fetched, Candidates, Pending, Uncovered
  <2>2. Fetched \in SUBSET Cluster
    BY <2>1
  <2>3. batch' \in Batch
    BY <1>13, <2>2, NoBatchFacts, BatchFacts DEF Fetch, Members
  <2>4. since' \in Nat /\ built' \in BOOLEAN
    BY <1>13 DEF Fetch
  <2> QED BY <1>13, <2>3, <2>4 DEF Fetch
<1>14. ASSUME NEW good \in SUBSET DOMAIN batch, NEW poor \in SUBSET DOMAIN batch,
              Extract(good, poor)
       PROVE  TypeOK'
  <2> DEFINE e == [op |-> "attach", caller |-> TRUE, weak |-> poor,
                   items |-> [c \in good \cup poor |-> batch[c]]]
  <2>1. e.items \in Batch
    <3>1. good \cup poor \in SUBSET Cluster
      BY BatchFacts
    <3>2. e.items \in [good \cup poor -> SUBSET Memory]
      BY BatchFacts
    <3> QED BY <3>1, <3>2, BatchFacts
  <2>2. e \in JobCommand
    BY <2>1, BatchFacts DEF JobCommand, Op
  <2>3. queue' = queue \/ queue' = Append(queue, e)
    BY <1>14 DEF Extract
  <2> HIDE DEF e
  <2>4. queue' \in Seq(JobCommand)
    BY <2>2, <2>3, AppendFacts
  <2> QED BY <1>14, <2>4, NoBatchFacts DEF Extract, Waiting
<1>15. CASE Clustered
  <2>1. Cardinality(Uncovered) \in 0 .. MaxCluster
    <3> DEFINE all == 1 .. MaxCluster
    <3>1. Uncovered \subseteq live /\ live \subseteq all
      BY DEF Uncovered
    <3>2. IsFiniteSet(all) /\ Cardinality(all) = MaxCluster
      BY FS_Interval
    <3> HIDE DEF all
    <3>3. IsFiniteSet(Uncovered) /\ Cardinality(Uncovered) <= Cardinality(all)
      BY <3>1, <3>2, FS_Subset
    <3> QED BY <3>2, <3>3, FS_CardinalityType
  <2>2. before' \in 0 .. MaxCluster
    BY <1>15, <2>1 DEF Clustered
  <2> QED BY <1>15, <2>2 DEF Clustered
<1>16. CASE Extracted
  BY <1>16 DEF Extracted, LeaseInOrder
<1>17. CASE EndJob
  BY <1>17, IdleFacts DEF EndJob
<1>18. CASE UNCHANGED vars
  BY <1>18 DEF vars
<1> QED BY <1>1, <1>2, <1>3, <1>4, <1>5, <1>6, <1>7, <1>8, <1>9, <1>10, <1>11, <1>12, <1>13,
           <1>14, <1>15, <1>16, <1>17, <1>18 DEF Next, Writer, Proceed

--------------------------------------------------------------------------------
(* What an operation does to the rows, and to the descriptions on their way. *)

StillCovers == \A b \in Batch : Covers(b) => Covers(b)'

LEMMA LiveFacts == TypeOK => live \subseteq Cluster /\ 0 \notin live
BY Bounds DEF TypeOK, Cluster

LEMMA SameRows ==
    ASSUME UNCHANGED <<db, merged, loose>>, RowsInOrder, StaleIsRetried
    PROVE  RowsInOrder' /\ StaleIsRetried' /\ StillCovers
BY DEF RowsInOrder, StaleIsRetried, StillCovers, Covers, Active, Pending, Uncovered, db

LEMMA MemoryRows ==
    ASSUME TypeOK, RowsInOrder, StaleIsRetried,
           NEW m \in Memory, Remember(m) \/ Forget(m)
    PROVE  RowsInOrder' /\ StaleIsRetried' /\ StillCovers
<1> USE DEF TypeOK, Active, Cluster
<1>1. /\ UNCHANGED <<home, live, created, abstr, weak, merged, loose>>
      /\ status' \in [Memory -> {"none", "active", "forgotten"}]
      /\ \A k \in Memory : status'[k] = "active" => status[k] = "active" \/ (k = m /\ home[k] = 0)
      /\ \A k \in Memory : status'[k] = "none" => status[k] = "none"
  BY DEF Remember, Forget, RowsInOrder
<1>2. RowsInOrder'
  BY <1>1 DEF RowsInOrder
<1>3. StaleIsRetried'
  BY <1>1 DEF StaleIsRetried, Pending, Uncovered
<1>4. StillCovers
  <2> SUFFICES ASSUME NEW b \in Batch, Covers(b) PROVE Covers(b)'
    BY DEF StillCovers
  <2>1. \A c \in DOMAIN b : c # 0
    BY BatchFacts
  <2> QED BY <1>1, <2>1 DEF Covers
<1> QED BY <1>2, <1>3, <1>4

LEMMA ClusterRows ==
    ASSUME TypeOK, RowsInOrder, StaleIsRetried,
           NEW S \in SUBSET Active, NEW T \in SUBSET Active, NEW c \in Cluster,
           ClusterMemories(S, T, c)
    PROVE  RowsInOrder' /\ StaleIsRetried' /\ (Command.caller \/ StillCovers)
<1> USE DEF TypeOK, Active, Cluster
<1> DEFINE new == IF S = {} THEN {} ELSE {created + 1}
           grown == IF T = {} THEN {} ELSE {c}
<1>1. /\ created' = created + Cardinality(new) /\ live' = live \cup new
      /\ \A m \in Memory : home'[m] = IF m \in S THEN created + 1 ELSE IF m \in T THEN c ELSE home[m]
      /\ abstr' = [d \in Cluster |-> IF d \in grown THEN {} ELSE abstr[d]]
      /\ weak' = weak \ grown /\ merged' = merged \ grown
      /\ loose' = IF Command.caller THEN loose \ grown ELSE loose \cup grown
      /\ S # {} => created < MaxCluster
      /\ T # {} => c \in live
      /\ status' = status
  BY DEF ClusterMemories
<1>2. created' \in Nat /\ created <= created' /\ created + 1 \notin live
  <2>1. Cardinality(new) \in {0, 1}
    BY FS_EmptySet, FS_Singleton
  <2> HIDE DEF new
  <2> QED BY <1>1, <2>1
<1>3. S # {} => created + 1 \in Cluster /\ abstr[created + 1] = {}
  BY <1>1, <1>2, Bounds DEF RowsInOrder
<1>4. \A m \in Memory : status[m] = "none" => m \notin S /\ m \notin T
  OBVIOUS
<1>5. RowsInOrder'
  BY <1>1, <1>4 DEF RowsInOrder
<1>6. StaleIsRetried'
  <2> SUFFICES ASSUME NEW m \in Active, home'[m] # 0
               PROVE  home'[m] \in (Pending \cup merged \cup loose)' \/ m \in abstr'[home'[m]]
    BY <1>1 DEF StaleIsRetried
  <2>1. CASE m \in S
    BY <1>1, <1>2, <1>3, <2>1 DEF Pending, Uncovered
  <2>2. CASE m \notin S /\ m \in T
    BY <1>1, <2>2 DEF Pending, Uncovered
  <2>3. CASE m \notin S /\ m \notin T
    <3>1. home'[m] = home[m] /\ home[m] \in live /\ home[m] \in Cluster
      <4>1. home'[m] = home[m]
        BY <1>1, <2>3
      <4>2. home[m] \in live
        BY <4>1
      <4> QED BY <4>1, <4>2, LiveFacts
    <3>2. CASE home[m] \in grown
      <4>1. home[m] \in live' /\ abstr'[home[m]] = {}
        BY <1>1, <3>1, <3>2
      <4> QED BY <3>1, <4>1 DEF Pending, Uncovered
    <3>3. CASE home[m] \notin grown
      <4>1. home[m] \in Pending \cup merged \cup loose \/ m \in abstr[home[m]]
        BY <3>1 DEF StaleIsRetried
      <4> QED BY <1>1, <3>1, <3>3, <4>1 DEF Pending, Uncovered
    <3> QED BY <3>2, <3>3
  <2> QED BY <2>1, <2>2, <2>3
<1>7. Command.caller \/ StillCovers
  <2> SUFFICES ASSUME ~Command.caller, NEW b \in Batch, Covers(b), NEW d \in DOMAIN b
               PROVE  d <= created' /\ \A m \in Active : home'[m] = d => m \in b[d] \/ d \in loose'
    BY <1>1 DEF StillCovers, Covers
  <2>1. d \in Cluster /\ d <= created
    BY BatchFacts DEF Covers
  <2>2. ASSUME NEW m \in Active, home'[m] = d PROVE m \in b[d] \/ d \in loose'
    <3>1. home[m] = d => m \in b[d] \/ d \in loose
      BY DEF Covers
    <3>2. m \notin S
      BY <1>1, <2>1, <2>2
    <3>3. CASE m \in T
      <4>1. c = d /\ c \in grown
        BY <1>1, <2>2, <3>2, <3>3
      <4> QED BY <1>1, <4>1
    <3>4. CASE m \notin T
      <4>1. home[m] = d
        BY <1>1, <2>2, <3>2, <3>4
      <4> QED BY <1>1, <3>1, <4>1
    <3> QED BY <3>3, <3>4
  <2> QED BY <1>2, <2>1, <2>2
<1> QED BY <1>5, <1>6, <1>7

LEMMA MergeRows ==
    ASSUME TypeOK, RowsInOrder, StaleIsRetried,
           NEW s \in live, NEW l \in live, MergeClusters(s, l)
    PROVE  RowsInOrder' /\ StaleIsRetried' /\ (Command.caller \/ StillCovers)
<1> USE LiveFacts DEF TypeOK, Active
<1>1. /\ s # l
      /\ \A m \in Memory : home'[m] = IF home[m] = l THEN s ELSE home[m]
      /\ live' = live \ {l} /\ abstr' = [abstr EXCEPT ![l] = {}]
      /\ weak' = weak \ {l} /\ merged' = (merged \ {l}) \cup {s}
      /\ loose \ {l} \subseteq loose' /\ (Command.caller \/ s \in loose')
      /\ UNCHANGED <<status, created>>
  BY DEF MergeClusters
<1>2. RowsInOrder'
  BY <1>1 DEF RowsInOrder
<1>3. StaleIsRetried'
  <2> SUFFICES ASSUME NEW m \in Active, home'[m] # 0
               PROVE  home'[m] \in (Pending \cup merged \cup loose)' \/ m \in abstr'[home'[m]]
    BY <1>1 DEF StaleIsRetried
  <2>1. CASE home[m] \in {s, l}
    BY <1>1, <2>1
  <2>2. CASE home[m] \notin {s, l}
    <3>1. home'[m] = home[m] /\ home[m] \in Cluster
      BY <1>1, <2>2
    <3>2. home[m] \in Pending \cup merged \cup loose \/ m \in abstr[home[m]]
      BY <3>1 DEF StaleIsRetried
    <3> QED BY <1>1, <2>2, <3>1, <3>2 DEF Pending, Uncovered
  <2> QED BY <2>1, <2>2
<1>4. Command.caller \/ StillCovers
  <2> SUFFICES ASSUME ~Command.caller, NEW b \in Batch, Covers(b), NEW d \in DOMAIN b,
                      NEW m \in Active, home'[m] = d
               PROVE  m \in b[d] \/ d \in loose'
    BY <1>1 DEF StillCovers, Covers
  <2>1. CASE d = s
    BY <1>1, <2>1
  <2>2. CASE d # s
    <3>1. home[m] = d /\ d # l
      BY <1>1, <2>2
    <3>2. m \in b[d] \/ d \in loose
      BY <3>1 DEF Covers
    <3> QED BY <1>1, <3>1, <3>2
  <2> QED BY <2>1, <2>2
<1> QED BY <1>2, <1>3, <1>4

LEMMA AttachRows ==
    ASSUME TypeOK, RowsInOrder, StaleIsRetried, Covers(Command.items),
           NEW S \in SUBSET live, Attach(S)
    PROVE  RowsInOrder' /\ StaleIsRetried' /\ StillCovers
<1> USE LiveFacts DEF TypeOK, Active
<1>1. /\ S \subseteq DOMAIN Command.items
      /\ \A c \in Cluster : abstr'[c] = IF c \in S THEN Command.items[c] ELSE abstr[c]
      /\ weak \ S \subseteq weak' /\ merged' = merged \ S
      /\ UNCHANGED <<status, home, live, created, loose>>
  BY DEF Attach
<1>2. RowsInOrder'
  BY <1>1 DEF RowsInOrder
<1>3. StaleIsRetried'
  <2> SUFFICES ASSUME NEW m \in Active, home[m] # 0
               PROVE  home[m] \in (Pending \cup merged \cup loose)' \/ m \in abstr'[home[m]]
    BY <1>1 DEF StaleIsRetried
  <2>1. home[m] \in Cluster
    OBVIOUS
  <2>2. CASE home[m] \in S
    BY <1>1, <2>1, <2>2 DEF Covers
  <2>3. CASE home[m] \notin S
    <3>1. home[m] \in Pending \cup merged \cup loose \/ m \in abstr[home[m]]
      BY DEF StaleIsRetried
    <3> QED BY <1>1, <2>1, <2>3, <3>1 DEF Pending, Uncovered
  <2> QED BY <2>2, <2>3
<1>4. StillCovers
  BY <1>1 DEF StillCovers, Covers
<1> QED BY <1>2, <1>3, <1>4

LEMMA RepairRows ==
    ASSUME TypeOK, RowsInOrder, StaleIsRetried,
           RebuildAll \/ \E S \in SUBSET live : RepairStale(S)
    PROVE  RowsInOrder' /\ StaleIsRetried' /\ StillCovers
<1> USE LiveFacts DEF TypeOK, Active
<1>1. CASE RebuildAll
  <2>1. (\A m \in Memory : home'[m] = 0) /\ (\A c \in Cluster : abstr'[c] = {})
        /\ UNCHANGED <<status, created>>
    BY <1>1 DEF RebuildAll
  <2>2. \A b \in Batch : \A c \in DOMAIN b : c # 0
    BY BatchFacts DEF Cluster
  <2> QED BY <2>1, <2>2 DEF RowsInOrder, StaleIsRetried, StillCovers, Covers
<1>2. ASSUME NEW S \in SUBSET live, RepairStale(S)
      PROVE  RowsInOrder' /\ StaleIsRetried' /\ StillCovers
  <2>1. /\ \A c \in Cluster : abstr'[c] = IF c \in S THEN {} ELSE abstr[c]
        /\ weak' = weak \ S /\ merged' = merged \ S
        /\ UNCHANGED <<status, home, live, created, loose>>
    BY <1>2 DEF RepairStale
  <2>2. RowsInOrder'
    BY <2>1 DEF RowsInOrder
  <2>3. StaleIsRetried'
    <3> SUFFICES ASSUME NEW m \in Active, home[m] # 0
                 PROVE  home[m] \in (Pending \cup merged \cup loose)' \/ m \in abstr'[home[m]]
      BY <2>1 DEF StaleIsRetried
    <3>1. home[m] \in Cluster /\ home[m] \in live
      OBVIOUS
    <3>2. home[m] \in Pending \cup merged \cup loose \/ m \in abstr[home[m]]
      BY DEF StaleIsRetried
    <3> QED BY <2>1, <3>1, <3>2 DEF Pending, Uncovered
  <2>4. StillCovers
    BY <2>1 DEF StillCovers, Covers
  <2> QED BY <2>2, <2>3, <2>4
<1> QED BY <1>1, <1>2

--------------------------------------------------------------------------------
(* What an operation does to the lease and to the channel.                  *)

\* Whoever waits for the first command of the channel sent the only one.
LEMMA CallerWaits ==
    ASSUME TypeOK, LeaseInOrder, CallerIsLast, queue # <<>>, Command.caller
    PROVE  /\ Len(queue) = 1 /\ step \in Waiting /\ job # "none"
           /\ DOMAIN batch = {}
<1>1. Len(queue) \in Nat \ {0}
  BY TailFacts DEF TypeOK
<1>2. 1 \in 1 .. Len(queue) /\ queue[1].caller
  BY <1>1 DEF Command
<1>3. 1 = Len(queue) /\ step \in Waiting
  BY <1>2 DEF CallerIsLast
<1> QED BY <1>3 DEF LeaseInOrder, Waiting

\* A description in the channel stays good while it moves up there.
LEMMA CarryOver ==
    ASSUME TypeOK, DescriptionsCover, StillCovers, NEW k, NEW j \in 1 .. Len(queue),
           queue'[k].op = "attach" =>
               queue[j].op = "attach" /\ queue'[k].items = queue[j].items
    PROVE  queue'[k].op = "attach" => Covers(queue[k].items)'
<1> SUFFICES ASSUME queue'[k].op = "attach" PROVE Covers(queue[k].items)'
  OBVIOUS
<1>1. queue[j] \in JobCommand
  BY DEF TypeOK
<1>2. PICK b \in Batch : b = queue[j].items
  BY <1>1 DEF JobCommand
<1>3. Covers(b)
  BY <1>2 DEF DescriptionsCover
<1>4. Covers(b)' /\ queue'[k].items = b
  BY <1>2, <1>3 DEF StillCovers
<1> QED BY <1>4 DEF Covers

LEMMA ReplyChannel ==
    ASSUME TypeOK, LeaseInOrder, CallerIsLast, DescriptionsCover, NotedCountsTowardsNext,
           queue # <<>>, NEW to, Reply(to), Command.caller \/ StillCovers
    PROVE  LeaseInOrder' /\ CallerIsLast' /\ DescriptionsCover' /\ NotedCountsTowardsNext'
<1>1. /\ UNCHANGED <<up, job, batch, rounds, count, permits, since>>
      /\ step' = IF Command.caller THEN to ELSE step
  BY DEF Reply, signal
<1>2. up
  BY DEF LeaseInOrder
<1>3. CASE Command.caller
  <2>1. Len(queue') = 0
    <3>1. Len(queue) = 1
      BY <1>3, CallerWaits
    <3> QED BY <3>1, RepliedFacts
  <2>2. job # "none" /\ step \in Waiting /\ DOMAIN batch = {}
    BY <1>3, CallerWaits
  <2>3. LeaseInOrder' /\ NotedCountsTowardsNext'
    BY <1>1, <1>2, <2>2 DEF LeaseInOrder, NotedCountsTowardsNext, Waiting
  <2>4. CallerIsLast' /\ DescriptionsCover'
    BY <1>1, <2>1, <2>2 DEF CallerIsLast, DescriptionsCover, Covers
  <2> QED BY <2>3, <2>4
<1>4. CASE ~Command.caller
  <2>1. LeaseInOrder' /\ NotedCountsTowardsNext'
    BY <1>1, <1>2, <1>4 DEF LeaseInOrder, NotedCountsTowardsNext
  <2>2. CallerIsLast'
    BY <1>1, <1>4, RepliedFacts DEF CallerIsLast
  <2>3. DescriptionsCover'
    <3>1. Covers(batch)'
      BY <1>1, <1>4 DEF DescriptionsCover, StillCovers, TypeOK
    <3>2. ASSUME NEW k \in 1 .. Len(queue')
          PROVE  queue'[k].op = "attach" => Covers(queue[k].items)'
      <4>1. queue'[k] = queue[k + 1] /\ k + 1 \in 1 .. Len(queue)
        BY RepliedFacts
      <4> QED BY <1>4, <4>1, CarryOver
    <3> QED BY <3>1, <3>2 DEF DescriptionsCover
  <2> QED BY <2>1, <2>2, <2>3
<1> QED BY <1>3, <1>4

\* A job that takes the lease is the only one with a command in the channel.
LEMMA SendChannel ==
    ASSUME TypeOK, LeaseInOrder, CallerIsLast, DescriptionsCover, StillCovers,
           job = "none", NEW op \in Op, op # "attach", Send(op), step' \in Waiting, batch' = batch
    PROVE  CallerIsLast' /\ DescriptionsCover'
<1>1. \A k \in 1 .. Len(queue) : ~queue[k].caller
  BY DEF CallerIsLast, LeaseInOrder, Waiting
<1>2. Len(queue) \in Nat
  BY DEF TypeOK
<1>3. CallerIsLast'
  BY <1>1, <1>2, SentFacts DEF CallerIsLast
<1>4. Covers(batch)'
  BY DEF DescriptionsCover, StillCovers, TypeOK
<1>5. ASSUME NEW k \in 1 .. Len(queue')
      PROVE  queue'[k].op = "attach" => Covers(queue[k].items)'
  <2>1. CASE k \in 1 .. Len(queue)
    BY <2>1, SentFacts, CarryOver
  <2>2. CASE k \notin 1 .. Len(queue)
    <3>1. k = Len(queue')
      BY <1>2, <2>2, SentFacts
    <3> QED BY <3>1, SentFacts
  <2> QED BY <2>1, <2>2
<1> QED BY <1>3, <1>4, <1>5 DEF DescriptionsCover

\* Where nobody waits, the channel is left as it is.
LEMMA QuietChannel ==
    ASSUME TypeOK, CallerIsLast, DescriptionsCover, StillCovers, queue' = queue,
           step \notin Waiting \/ step' = step, batch' = batch \/ Covers(batch)'
    PROVE  CallerIsLast' /\ DescriptionsCover'
<1>1. CallerIsLast'
  BY DEF CallerIsLast
<1>2. Covers(batch)'
  BY DEF DescriptionsCover, StillCovers, TypeOK
<1>3. \A k \in 1 .. Len(queue') : queue'[k].op = "attach" => Covers(queue[k].items)'
  BY CarryOver
<1> QED BY <1>1, <1>2, <1>3 DEF DescriptionsCover

\* One step per operation, and under it one per part of the invariant it can disturb.
LEMMA DerivedStep == TypeOK /\ DerivedInv /\ [Next]_vars => DerivedInv'
<1> SUFFICES ASSUME TypeOK, DerivedInv, [Next]_vars PROVE DerivedInv'
  OBVIOUS
<1> DEFINE Rest == LeaseInOrder' /\ CallerIsLast' /\ DescriptionsCover' /\ NotedCountsTowardsNext'
<1>0. /\ TypeOK /\ LeaseInOrder /\ RowsInOrder /\ CallerIsLast /\ DescriptionsCover
      /\ StaleIsRetried /\ NotedCountsTowardsNext
  BY DEF DerivedInv
<1>1. ASSUME NEW m \in Memory, Remember(m) \/ Forget(m) PROVE DerivedInv'
  <2>1. RowsInOrder' /\ StaleIsRetried' /\ StillCovers
    BY <1>0, <1>1, MemoryRows
  <2>2. UNCHANGED <<up, queue, job, step, batch, rounds>>
    BY <1>1 DEF Remember, Forget, lease
  <2>3. /\ \/ UNCHANGED <<count, permits, since>>
           \/ count' = count + 1 /\ since' = since + 1
        /\ permits' = permits \/ (permits' = permits + 1 /\ (job = "timer" => permits # 1))
    BY <1>1 DEF Remember, Forget, Note, signal
  <2>4. count \in Nat /\ since \in Nat /\ permits \in 0 .. 2
    BY DEF TypeOK
  <2>5. LeaseInOrder' /\ NotedCountsTowardsNext'
    BY <1>0, <2>2, <2>3, <2>4 DEF LeaseInOrder, NotedCountsTowardsNext
  <2>6. CallerIsLast' /\ DescriptionsCover'
    BY <1>0, <2>1, <2>2, QuietChannel
  <2> QED BY <2>1, <2>5, <2>6 DEF DerivedInv
<1>2. ASSUME NEW j \in {"clock", "consolidate", "backfill"}, StartConsolidate(j) PROVE DerivedInv'
  <2>1. RowsInOrder' /\ StaleIsRetried' /\ StillCovers
    BY <1>0, <1>2, SameRows DEF StartConsolidate
  <2>2. /\ up /\ job = "none" /\ job' = j /\ step' = "consolidating" /\ Send("consolidate")
        /\ rounds' = IF j = "backfill" THEN MaxBatches ELSE 0
        /\ UNCHANGED <<up, batch, count, since>>
    BY <1>2 DEF StartConsolidate, signal
  <2>3. LeaseInOrder' /\ NotedCountsTowardsNext'
    BY <1>0, <2>2, Bounds DEF LeaseInOrder, NotedCountsTowardsNext
  <2>4. CallerIsLast' /\ DescriptionsCover'
    BY <1>0, <2>1, <2>2, SendChannel DEF Op, Waiting
  <2> QED BY <2>1, <2>3, <2>4 DEF DerivedInv
<1>3. ASSUME NEW op \in {"repair_stale", "rebuild_all"}, StartRepair(op) PROVE DerivedInv'
  <2>1. RowsInOrder' /\ StaleIsRetried' /\ StillCovers
    BY <1>0, <1>3, SameRows DEF StartRepair
  <2>2. /\ up /\ job = "none" /\ job' = "repair" /\ step' = "repairing" /\ Send(op)
        /\ UNCHANGED <<up, batch, count, since>>
    BY <1>3 DEF StartRepair, signal
  <2>3. LeaseInOrder' /\ NotedCountsTowardsNext'
    BY <1>0, <2>2 DEF LeaseInOrder, NotedCountsTowardsNext
  <2>4. CallerIsLast' /\ DescriptionsCover'
    BY <1>0, <2>1, <2>2, SendChannel DEF Op, Waiting
  <2> QED BY <2>1, <2>3, <2>4 DEF DerivedInv
<1>4. CASE StartExtract \/ TimerWakes \/ TimerSkips
  <2>1. UNCHANGED <<db, merged, loose, up, queue, batch, rounds, since>>
    BY <1>4 DEF StartExtract, TimerWakes, TimerSkips, lease
  <2>2. RowsInOrder' /\ StaleIsRetried' /\ StillCovers
    BY <1>0, <2>1, SameRows
  <2>3. \/ job = "none" /\ job' = "extract" /\ step' = "fetch" /\ count' = count
        \/ job = "none" /\ job' = "timer" /\ step' = "fetch" /\ permits' \in {0, 1}
        \/ job # "timer" /\ job' = job /\ step' = step /\ count' = count
    BY <1>4 DEF StartExtract, TimerWakes, TimerSkips, lease, signal
  <2>4. up
    BY <1>4 DEF StartExtract, TimerWakes, TimerSkips
  <2>5. LeaseInOrder' /\ NotedCountsTowardsNext'
    BY <1>0, <2>1, <2>3, <2>4 DEF LeaseInOrder, NotedCountsTowardsNext
  <2>6. step \notin Waiting \/ step' = step
    BY <1>0, <2>3 DEF LeaseInOrder, Waiting
  <2>7. CallerIsLast' /\ DescriptionsCover'
    BY <1>0, <2>1, <2>2, <2>6, QuietChannel
  <2> QED BY <2>2, <2>5, <2>7 DEF DerivedInv
<1>5. CASE Start
  <2>1. UNCHANGED <<db, merged, loose, batch, rounds, count, permits, since>> /\ up' /\ ~up
    BY <1>5 DEF Start, signal
  <2>2. RowsInOrder' /\ StaleIsRetried' /\ StillCovers
    BY <1>0, <2>1, SameRows
  <2>3. job = "none" /\ step = "idle" /\ queue = <<>>
    BY <1>0, <2>1 DEF LeaseInOrder
  <2>4. \/ UNCHANGED <<queue, job, step>>
        \/ job' = "startup" /\ step' = "consolidating" /\ Send("consolidate")
        \/ job' = "startup" /\ step' = "clustered" /\ queue' = queue
    BY <1>5 DEF Start
  <2>5. LeaseInOrder' /\ NotedCountsTowardsNext'
    BY <1>0, <2>1, <2>3, <2>4 DEF LeaseInOrder, NotedCountsTowardsNext
  <2>6. CallerIsLast' /\ DescriptionsCover'
    <3>1. CASE step' = "consolidating" /\ Send("consolidate")
      BY <1>0, <2>1, <2>2, <2>3, <3>1, SendChannel DEF Op, Waiting
    <3>2. CASE queue' = queue
      BY <1>0, <2>1, <2>2, <2>3, <3>2, QuietChannel DEF Waiting
    <3> QED BY <2>4, <3>1, <3>2
  <2> QED BY <2>2, <2>5, <2>6 DEF DerivedInv
<1>6. CASE HangUp
  <2>1. UNCHANGED <<db, merged, loose, up, count, since>> /\ Idle /\ job # "none" /\ job # "timer"
    BY <1>6 DEF HangUp, Http, signal
  <2>2. RowsInOrder' /\ StaleIsRetried' /\ StillCovers
    BY <1>0, <2>1, SameRows
  <2>3. LeaseInOrder' /\ NotedCountsTowardsNext'
    BY <1>0, <2>1, IdleFacts DEF LeaseInOrder, NotedCountsTowardsNext
  <2>4. /\ Len(queue') = Len(queue)
        /\ \A k \in 1 .. Len(queue) : /\ ~queue'[k].caller
                                      /\ queue'[k].items = queue[k].items
                                      /\ queue'[k].op = queue[k].op
    BY <1>0, <1>6, HungUpFacts DEF HangUp
  <2>5. CallerIsLast'
    BY <2>4 DEF CallerIsLast
  <2>6. \A k \in 1 .. Len(queue') : queue'[k].op = "attach" => Covers(queue[k].items)'
    BY <1>0, <2>2, <2>4, CarryOver
  <2>7. Covers(batch)'
    BY <2>1, IdleFacts DEF Covers
  <2> QED BY <2>2, <2>3, <2>5, <2>6, <2>7 DEF DerivedInv, DescriptionsCover
<1>7. CASE Crash
  <2>1. UNCHANGED <<db, merged, loose>> /\ Idle /\ queue' = <<>> /\ count' = 0 /\ since' = 0
    BY <1>7 DEF Crash
  <2>2. RowsInOrder' /\ StaleIsRetried' /\ StillCovers
    BY <1>0, <2>1, SameRows
  <2>3. LeaseInOrder' /\ NotedCountsTowardsNext'
    BY <2>1, IdleFacts DEF LeaseInOrder, NotedCountsTowardsNext
  <2>4. Len(queue') = 0 /\ DOMAIN batch' = {}
    BY <2>1, IdleFacts
  <2>5. CallerIsLast' /\ DescriptionsCover'
    BY <2>4 DEF CallerIsLast, DescriptionsCover, Covers
  <2> QED BY <2>2, <2>3, <2>5 DEF DerivedInv
<1>8. ASSUME NEW S \in SUBSET Active, NEW T \in SUBSET Active, NEW c \in Cluster,
             ClusterMemories(S, T, c)
      PROVE  DerivedInv'
  <2>1. RowsInOrder' /\ StaleIsRetried' /\ (Command.caller \/ StillCovers)
    BY <1>0, <1>8, ClusterRows
  <2>2. /\ queue # <<>> /\ queue' = [queue EXCEPT ![1].op = "merge"]
        /\ UNCHANGED <<up, job, step, batch, rounds, count, permits, since>>
    BY <1>8 DEF ClusterMemories, Serving, lease, signal
  <2>3. /\ Len(queue') = Len(queue) /\ queue'[1].op = "merge"
        /\ \A k \in 1 .. Len(queue) : /\ queue'[k].caller = queue[k].caller
                                      /\ queue'[k].items = queue[k].items
                                      /\ queue'[k].op \in {queue[k].op, "merge"}
    BY <1>0, <2>2, MergingFacts
  <2>4. up
    BY <1>8 DEF ClusterMemories, Serving
  <2>5. LeaseInOrder' /\ NotedCountsTowardsNext'
    BY <1>0, <2>2, <2>4 DEF LeaseInOrder, NotedCountsTowardsNext
  <2>6. CallerIsLast'
    BY <1>0, <2>2, <2>3 DEF CallerIsLast
  <2>7. DescriptionsCover'
    <3>1. CASE Command.caller
      <4>1. Len(queue) = 1 /\ DOMAIN batch = {}
        BY <1>0, <2>2, <3>1, CallerWaits
      <4>2. \A k \in 1 .. Len(queue') : queue'[k].op # "attach"
        BY <2>3, <4>1
      <4>3. Covers(batch)'
        BY <2>2, <4>1 DEF Covers
      <4> QED BY <4>2, <4>3 DEF DescriptionsCover
    <3>2. CASE StillCovers
      <4>1. \A k \in 1 .. Len(queue') : queue'[k].op = "attach" => Covers(queue[k].items)'
        BY <1>0, <2>3, <3>2, CarryOver
      <4>2. Covers(batch)'
        BY <1>0, <2>2, <3>2 DEF DescriptionsCover, StillCovers, TypeOK
      <4> QED BY <4>1, <4>2 DEF DescriptionsCover
    <3> QED BY <2>1, <3>1, <3>2
  <2> QED BY <2>1, <2>5, <2>6, <2>7 DEF DerivedInv
<1>9. CASE \/ CommandFails \/ MergeNothing \/ RebuildAll
           \/ \E s, l \in live : MergeClusters(s, l)
           \/ \E S \in SUBSET live : Attach(S) \/ RepairStale(S)
  <2>1. queue # <<>> /\ \E to : Reply(to)
    BY <1>9 DEF CommandFails, MergeNothing, RebuildAll, MergeClusters, Attach, RepairStale, Serving
  <2>2. RowsInOrder' /\ StaleIsRetried' /\ (Command.caller \/ StillCovers)
    <3>1. CASE CommandFails \/ MergeNothing
      <4>1. UNCHANGED <<db, merged, loose>>
        BY <3>1 DEF CommandFails, MergeNothing
      <4> QED BY <1>0, <4>1, SameRows
    <3>2. CASE \E s, l \in live : MergeClusters(s, l)
      BY <1>0, <3>2, MergeRows
    <3>3. ASSUME NEW S \in SUBSET live, Attach(S)
          PROVE  RowsInOrder' /\ StaleIsRetried' /\ StillCovers
      <4>1. 1 \in 1 .. Len(queue) /\ queue[1].op = "attach"
        BY <2>1, <3>3, TailFacts DEF Attach, Serving, Command, TypeOK
      <4>2. Covers(Command.items)
        BY <1>0, <4>1 DEF DescriptionsCover, Command
      <4> QED BY <1>0, <3>3, <4>2, AttachRows
    <3>4. CASE RebuildAll \/ \E S \in SUBSET live : RepairStale(S)
      BY <1>0, <3>4, RepairRows
    <3> QED BY <1>9, <3>1, <3>2, <3>3, <3>4
  <2>3. Rest
    BY <1>0, <2>1, <2>2, ReplyChannel
  <2> QED BY <2>2, <2>3 DEF DerivedInv
<1>10. CASE Fetch
  <2>1. /\ step = "fetch" /\ step' \in {"llm", "over"}
        /\ UNCHANGED <<db, merged, loose, up, queue, job, rounds, count, permits>>
        /\ since' = IF job = "timer" THEN 0 ELSE since
        /\ step' = "llm" \/ batch' = NoBatch
        /\ batch' = NoBatch \/ batch' = [c \in Fetched |-> Members(c) \cap Active]
    BY <1>10 DEF Fetch, signal
  <2>2. RowsInOrder' /\ StaleIsRetried' /\ StillCovers
    BY <1>0, <2>1, SameRows
  <2>3. LeaseInOrder'
    BY <1>0, <2>1, NoBatchFacts DEF LeaseInOrder
  <2>4. NotedCountsTowardsNext'
    BY <1>0, <2>1 DEF NotedCountsTowardsNext, TypeOK
  <2>5. Covers(batch)'
    <3>1. CASE batch' = NoBatch
      BY <3>1, NoBatchFacts DEF Covers
    <3>2. CASE batch' = [c \in Fetched |-> Members(c) \cap Active]
      <4>1. \A c \in Fetched : c <= created
        BY DEF Fetched, Candidates, Pending, Uncovered, TypeOK
      <4>2. UNCHANGED <<status, home, created, loose>>
        BY <2>1 DEF db
      <4> QED BY <3>2, <4>1, <4>2 DEF Covers, Members, Active
    <3> QED BY <2>1, <3>1, <3>2
  <2>6. CallerIsLast' /\ DescriptionsCover'
    BY <1>0, <2>1, <2>2, <2>5, QuietChannel DEF Waiting
  <2> QED BY <2>2, <2>3, <2>4, <2>6 DEF DerivedInv
<1>11. ASSUME NEW good \in SUBSET DOMAIN batch, NEW poor \in SUBSET DOMAIN batch,
              Extract(good, poor)
       PROVE  DerivedInv'
  <2> DEFINE e == [op |-> "attach", caller |-> TRUE, weak |-> poor,
                   items |-> [c \in good \cup poor |-> batch[c]]]
  <2>1. /\ step = "llm" /\ batch' = NoBatch
        /\ UNCHANGED <<db, merged, loose, up, job, rounds, count, permits, since>>
        /\ \/ queue' = queue /\ step' = "extracted"
           \/ queue' = Append(queue, e) /\ step' = "attaching"
    BY <1>11 DEF Extract, signal
  <2>2. RowsInOrder' /\ StaleIsRetried' /\ StillCovers
    BY <1>0, <2>1, SameRows
  <2>3. LeaseInOrder' /\ NotedCountsTowardsNext'
    BY <1>0, <2>1, NoBatchFacts DEF LeaseInOrder, NotedCountsTowardsNext
  <2>4. Covers(batch)'
    BY <2>1, NoBatchFacts DEF Covers
  <2>5. CASE queue' = queue
    <3>1. CallerIsLast' /\ DescriptionsCover'
      BY <1>0, <2>1, <2>2, <2>4, <2>5, QuietChannel DEF Waiting
    <3> QED BY <2>2, <2>3, <3>1 DEF DerivedInv
  <2>6. CASE queue' = Append(queue, e) /\ step' = "attaching"
    <3>1. e \in JobCommand
      <4>1. e.items \in [good \cup poor -> SUBSET Memory] /\ good \cup poor \in SUBSET Cluster
        BY BatchFacts DEF TypeOK
      <4>2. e.items \in Batch
        BY <4>1, BatchFacts
      <4> QED BY <4>2, BatchFacts DEF JobCommand, Op, TypeOK
    <3>2. \A c \in DOMAIN e.items : c \in DOMAIN batch /\ e.items[c] = batch[c]
      OBVIOUS
    <3>3. PICK b \in Batch : b = e.items
      BY <3>1 DEF JobCommand
    <3>4. Covers(b)
      BY <1>0, <3>2, <3>3 DEF DescriptionsCover, Covers
    <3>5. Covers(b)'
      BY <2>2, <3>4 DEF StillCovers
    <3>6. /\ Len(queue') = Len(queue) + 1 /\ Len(queue) \in Nat
          /\ \A k \in 1 .. Len(queue) : queue'[k] = queue[k]
          /\ queue'[Len(queue')] = e
      BY <2>6, <3>1, AppendFacts DEF TypeOK
    <3>7. CallerIsLast'
      BY <1>0, <2>1, <2>6, <3>6 DEF CallerIsLast, Waiting
    <3>8. ASSUME NEW k \in 1 .. Len(queue')
          PROVE  queue'[k].op = "attach" => Covers(queue[k].items)'
      <4>1. CASE k \in 1 .. Len(queue)
        BY <1>0, <2>2, <3>6, <4>1, CarryOver
      <4>2. CASE k \notin 1 .. Len(queue)
        <5>1. queue'[k].items = b
          BY <3>3, <3>6, <4>2
        <5> QED BY <3>5, <5>1 DEF Covers
      <4> QED BY <4>1, <4>2
    <3> QED BY <2>2, <2>3, <2>4, <3>7, <3>8 DEF DerivedInv, DescriptionsCover
  <2> QED BY <2>1, <2>5, <2>6
<1>12. CASE Clustered \/ Extracted \/ EndJob
  <2>1. /\ step \notin Waiting
        /\ batch' = batch \/ batch' = NoBatch
        /\ UNCHANGED <<db, merged, loose, up, queue, count, permits, since>>
    BY <1>12 DEF Clustered, Extracted, EndJob, Idle, Waiting, signal
  <2>2. RowsInOrder' /\ StaleIsRetried' /\ StillCovers
    BY <1>0, <2>1, SameRows
  <2>3. LeaseInOrder' /\ NotedCountsTowardsNext'
    <3>1. CASE Clustered
      BY <1>0, <2>1, <3>1 DEF Clustered, LeaseInOrder, NotedCountsTowardsNext
    <3>2. CASE Extracted
      <4>1. /\ UNCHANGED <<job, batch>> /\ step = "extracted" /\ step' \in {"over", "clustered"}
            /\ rounds' = IF job = "backfill" THEN rounds - 1 ELSE rounds
            /\ job = "backfill" /\ rounds = 1 => step' = "over"
        BY <3>2 DEF Extracted
      <4>2. rounds \in Nat
        BY DEF TypeOK
      <4> QED BY <1>0, <2>1, <4>1, <4>2 DEF LeaseInOrder, NotedCountsTowardsNext
    <3>3. CASE EndJob
      <4>1. Idle /\ step = "over"
        BY <3>3 DEF EndJob
      <4> QED BY <1>0, <2>1, <4>1, IdleFacts DEF LeaseInOrder, NotedCountsTowardsNext
    <3> QED BY <1>12, <3>1, <3>2, <3>3
  <2>4. batch' = batch \/ Covers(batch)'
    BY <2>1, NoBatchFacts DEF Covers
  <2>5. CallerIsLast' /\ DescriptionsCover'
    BY <1>0, <2>1, <2>2, <2>4, QuietChannel
  <2> QED BY <2>2, <2>3, <2>5 DEF DerivedInv
<1>13. CASE UNCHANGED vars
  <2>1. UNCHANGED <<db, merged, loose, up, queue, job, step, batch, rounds, count, permits, since>>
    BY <1>13 DEF vars, lease, signal
  <2>2. RowsInOrder' /\ StaleIsRetried' /\ StillCovers
    BY <1>0, <2>1, SameRows
  <2>3. LeaseInOrder' /\ NotedCountsTowardsNext'
    BY <1>0, <2>1 DEF LeaseInOrder, NotedCountsTowardsNext
  <2>4. CallerIsLast' /\ DescriptionsCover'
    BY <1>0, <2>1, <2>2, QuietChannel
  <2> QED BY <2>2, <2>3, <2>4 DEF DerivedInv
<1> QED BY <1>1, <1>2, <1>3, <1>4, <1>5, <1>6, <1>7, <1>8, <1>9, <1>10, <1>11, <1>12, <1>13
        DEF Next, Writer, Proceed

LEMMA DerivedInvariant == Spec => [](TypeOK /\ DerivedInv)
<1>1. Init => TypeOK
  <2> SUFFICES ASSUME Init PROVE TypeOK
    OBVIOUS
  <2>1. /\ status \in [Memory -> {"none", "active", "forgotten"}]
        /\ home \in [Memory -> {0} \cup live] /\ abstr \in [Cluster -> SUBSET Memory]
    BY DEF Init
  <2>2. /\ created \in 0 .. MaxCluster /\ live \subseteq 1 .. created /\ weak \subseteq Cluster
        /\ rounds \in 0 .. MaxBatches /\ before \in 0 .. MaxCluster
        /\ count \in Nat /\ permits \in 0 .. 2 /\ since \in Nat
        /\ merged \subseteq Cluster /\ loose \subseteq Cluster
    BY Bounds DEF Init
  <2>3. up \in BOOLEAN /\ built \in BOOLEAN
    BY Zenon DEF Init
  <2>4. queue \in Seq(JobCommand) /\ batch \in Batch
    BY NoBatchFacts DEF Init
  <2>5. /\ job \in Job \cup {"none"}
        /\ step \in Waiting \cup {"idle", "fetch", "clustered", "llm", "extracted", "over"}
    BY DEF Init
  <2> QED BY <2>1, <2>2, <2>3, <2>4, <2>5 DEF TypeOK
<1>2. Init => DerivedInv
  <2> SUFFICES ASSUME Init PROVE DerivedInv
    OBVIOUS
  <2>1. /\ \A m \in Memory : home[m] = 0 /\ status[m] = "none"
        /\ \A c \in Cluster : abstr[c] = {}
        /\ job = "none" /\ step = "idle" /\ queue = <<>> /\ DOMAIN batch = {}
        /\ since = 0 /\ count = 0
    BY NoBatchFacts DEF Init
  <2>2. Len(queue) = 0
    BY <2>1
  <2> QED BY <2>1, <2>2 DEF DerivedInv, LeaseInOrder, RowsInOrder, CallerIsLast, DescriptionsCover,
              Covers, StaleIsRetried, NotedCountsTowardsNext, Active
<1>3. TypeOK /\ DerivedInv /\ [Next]_vars => (TypeOK /\ DerivedInv)'
  BY DerivedTypeStep, DerivedStep DEF DerivedInv
<1> QED BY <1>1, <1>2, <1>3, PTL DEF Spec

\* Every variable keeps its type; what the channel carries are descriptions of clusters built.
THEOREM DerivedTypes == Spec => []TypeOK
BY DerivedInvariant, PTL

\* A cluster whose abstraction misses one of its active members is offered to the next batches,
\* but for one that took over another and one that a consolidation without its caller changed
\* (handle_consolidate_impl, run_triples_batch_tick, try_begin_derived_job).
THEOREM StaleComesBack == Spec => []StaleIsRetried
<1>1. DerivedInv => StaleIsRetried
  BY DEF DerivedInv
<1> QED BY <1>1, DerivedInvariant, PTL

\* A memory noted since the timer's last batch read its clusters counts towards the next one
\* (triples_batch_timer resets the counter before the batch).
THEOREM NotedMemoriesCount == Spec => []NotedCountsTowardsNext
<1>1. DerivedInv => NotedCountsTowardsNext
  BY DEF DerivedInv
<1> QED BY <1>1, DerivedInvariant, PTL

=============================================================================
