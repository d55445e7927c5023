--------------------------- MODULE MemoryWriter_proof ---------------------------
(***************************************************************************)
(* Theorems of MemoryWriter for every set of memories, callers and         *)
(* embeddings, every channel capacity and every number of crashes.         *)
(***************************************************************************)
EXTENDS MemoryWriter, TLAPS

USE WriterAssumption, PairAssumption

\* A write command carries an embedding for each of its targets.
LEMMA WriteItems ==
    ASSUME NEW cmd \in Command, cmd.op \in Writes
    PROVE  /\ DOMAIN cmd.items \subseteq Memory
           /\ \A m \in DOMAIN cmd.items : cmd.items[m] \in Vec
BY DEF Command, Writes

\* Every command names memories only, has a known operation and a caller or nobody.
LEMMA CommandParts ==
    ASSUME NEW cmd \in Command
    PROVE  /\ DOMAIN cmd.items \subseteq Memory
           /\ cmd.op \in {"remember", "batch", "update", "forget", "save"}
           /\ cmd.by \in Client \cup {Nobody}
<1>1. /\ cmd.op \in {"remember", "batch", "update", "forget", "save"}
      /\ cmd.by \in Client \cup {Nobody}
  BY DEF Command, Writes
<1>2. CASE cmd.op \in Writes
  BY <1>1, <1>2, WriteItems
<1>3. CASE cmd.op = "forget"
  <2>1. cmd.items \in UNION {[{m} -> {NoVec}] : m \in Memory}
    BY <1>3 DEF Command, Writes
  <2>2. PICK m \in Memory : cmd.items \in [{m} -> {NoVec}]
    BY <2>1
  <2>3. DOMAIN cmd.items = {m}
    BY <2>2
  <2> QED BY <1>1, <2>3
<1>4. CASE cmd.op = "save"
  <2>1. cmd.items = NoItems
    BY <1>4 DEF Command, Writes
  <2>2. DOMAIN NoItems = {}
    BY DEF NoItems
  <2> QED BY <1>1, <2>1, <2>2
<1> QED BY <1>1, <1>2, <1>3, <1>4 DEF Writes

\* The commands that callers send.
LEMMA WriteCommand ==
    ASSUME NEW ids \in SUBSET Memory, NEW items \in [ids -> Vec], NEW op \in Writes,
           NEW c \in Client \cup {Nobody}
    PROVE  [op |-> op, by |-> c, items |-> items] \in Command
BY DEF Command

LEMMA OneItemCommand ==
    ASSUME NEW m \in Memory, NEW v \in Vec, NEW op \in Writes, NEW c \in Client
    PROVE  [op |-> op, by |-> c, items |-> [i \in {m} |-> v]] \in Command
<1>1. [i \in {m} |-> v] \in [{m} -> Vec] /\ {m} \in SUBSET Memory
  OBVIOUS
<1> QED BY <1>1, WriteCommand

LEMMA OtherCommands ==
    ASSUME NEW c \in Client \cup {Nobody}
    PROVE  /\ \A m \in Memory : [op |-> "forget", by |-> c, items |-> [i \in {m} |-> NoVec]] \in Command
           /\ [op |-> "save", by |-> c, items |-> NoItems] \in Command
<1>1. ASSUME NEW m \in Memory
      PROVE  [op |-> "forget", by |-> c, items |-> [i \in {m} |-> NoVec]] \in Command
  <2>1. [i \in {m} |-> NoVec] \in UNION {[{n} -> {NoVec}] : n \in Memory}
    OBVIOUS
  <2> QED BY <2>1 DEF Command
<1>2. [op |-> "save", by |-> c, items |-> NoItems] \in Command
  BY DEF Command
<1> QED BY <1>1, <1>2

\* A command whose caller gave up is still a command.
LEMMA AbandonedCommand ==
    ASSUME NEW cmd \in Command
    PROVE  /\ [cmd EXCEPT !.by = Nobody] \in Command
           /\ [cmd EXCEPT !.by = Nobody].op = cmd.op
           /\ [cmd EXCEPT !.by = Nobody].items = cmd.items
BY DEF Command

\* What is left of the channel when the actor takes a command.
LEMMA HeadAndTail ==
    ASSUME queue \in Seq(Command), Len(queue) \in 0..Capacity, queue # <<>>
    PROVE  /\ Head1 \in Command
           /\ Tail(queue) \in Seq(Command)
           /\ Len(Tail(queue)) \in 0..Capacity
           /\ Len(Tail(queue)) = Len(queue) - 1
           /\ \A i \in 1..Len(Tail(queue)) : Tail(queue)[i] = queue[i + 1]
BY DEF Head1

\* Whatever a save does, each pair stays an index content, missing or torn; the loader
\* returns a whole content or nothing.
LEMMA SnapshotPairs ==
    ASSUME NEW l \in Pair, NEW b \in Pair, NEW g \in Graph
    PROVE  /\ SavedPairs(l, b, g).live \in Pair
           /\ SavedPairs(l, b, g).bak \in Pair
           /\ \A s \in BrokenSaves(l, b, g) : s.live \in Pair /\ s.bak \in Pair
           /\ Loadable(l, b) # Missing => Loadable(l, b) \in Graph
BY DEF Pair, SavedPairs, BakAfterCopy, BrokenSaves, PairExists, Loadable, Usable

\* The end of a process leaves a well typed state.
LEMMA EndType ==
    ASSUME TypeOK, NEW l \in Pair, NEW b \in Pair, EndProcess(l, b)
    PROVE  TypeOK'
<1>1. EmptyGraph \in Graph
  BY DEF EmptyGraph, Graph
<1>2. queue' \in Seq(Command) /\ Len(queue') \in 0..Capacity
  BY DEF EndProcess
<1>3. lost' \in SUBSET Memory
  BY DEF EndProcess, Unrecoverable, ActiveSet
<1> QED BY <1>1, <1>2, <1>3 DEF TypeOK, EndProcess, store

LEMMA TypeInit == Init => TypeOK
<1> SUFFICES ASSUME Init PROVE TypeOK
  OBVIOUS
<1>1. graph \in Graph /\ live \in Pair /\ bak \in Pair
  BY DEF Init, Pair, EmptyGraph, Graph
<1>2. queue \in Seq(Command) /\ Len(queue) \in 0..Capacity
  BY DEF Init
<1> QED BY <1>1, <1>2 DEF Init, TypeOK

\* Every step keeps the types; the index steps rely on the command in hand.
LEMMA TypeStep == TypeOK /\ CommandInHand /\ [Next]_vars => TypeOK'
<1> SUFFICES ASSUME TypeOK, CommandInHand, [Next]_vars PROVE TypeOK'
  OBVIOUS
<1> USE DEF TypeOK, store, snap, index, actor
<1>1. CASE TxRemember
  <2>1. /\ Head1 \in Command /\ Tail(queue) \in Seq(Command)
        /\ Len(Tail(queue)) \in 0..Capacity
    BY <1>1, HeadAndTail DEF TxRemember
  <2>2. /\ Targets(Head1) \subseteq Memory
        /\ \A m \in Targets(Head1) : Head1.items[m] \in Vec
    BY <1>1, <2>1, WriteItems DEF TxRemember, Targets, Writes
  <2> QED BY <1>1, <2>1, <2>2 DEF TxRemember, Take
<1>2. CASE TxUpdate
  <2>1. /\ Head1 \in Command /\ Tail(queue) \in Seq(Command)
        /\ Len(Tail(queue)) \in 0..Capacity
    BY <1>2, HeadAndTail DEF TxUpdate
  <2>2. /\ Targets(Head1) \subseteq Memory
        /\ \A m \in Targets(Head1) : Head1.items[m] \in Vec
    BY <1>2, <2>1, WriteItems DEF TxUpdate, Targets, Writes
  <2> QED BY <1>2, <2>1, <2>2 DEF TxUpdate, Take
<1>3. CASE TxForget
  <2>1. /\ Head1 \in Command /\ Tail(queue) \in Seq(Command)
        /\ Len(Tail(queue)) \in 0..Capacity
    BY <1>3, HeadAndTail DEF TxForget
  <2>2. Targets(Head1) \subseteq Memory
    BY <2>1, CommandParts DEF Targets
  <2> QED BY <1>3, <2>1, <2>2 DEF TxForget, Take
<1>4. CASE TxRefused
  BY <1>4, HeadAndTail DEF TxRefused, Take
<1>5. CASE TxFails
  BY <1>5, HeadAndTail DEF TxFails, Take
<1>6. CASE SaveSnapshot
  <2>1. /\ Head1 \in Command /\ Tail(queue) \in Seq(Command)
        /\ Len(Tail(queue)) \in 0..Capacity
    BY <1>6, HeadAndTail DEF SaveSnapshot
  <2>2. live' \in Pair /\ bak' \in Pair
    <3>1. CASE graph = EmptyGraph
      BY <1>6, <3>1 DEF SaveSnapshot
    <3>2. CASE /\ live' = SavedPairs(live, bak, graph).live
               /\ bak' = SavedPairs(live, bak, graph).bak
      BY <3>2, SnapshotPairs
    <3>3. CASE \E s \in BrokenSaves(live, bak, graph) : live' = s.live /\ bak' = s.bak
      BY <3>3, SnapshotPairs
    <3> QED BY <1>6, <3>1, <3>2, <3>3 DEF SaveSnapshot
  <2> QED BY <1>6, <2>1, <2>2 DEF SaveSnapshot, Take
<1>7. ASSUME NEW m \in Memory, IndexVector(m) PROVE TypeOK'
  <2>1. cur.items[m] \in Vec
    BY <1>7, WriteItems DEF IndexVector, CommandInHand, Targets
  <2>2. graph' \in Graph /\ tombs' \in SUBSET Memory
    BY <1>7, <2>1 DEF IndexVector, IndexAdd, Graph
  <2>3. ok' \in BOOLEAN /\ drain' \in SUBSET Memory
    <3>1. CASE cur.items[m] \in BadVec
      BY <1>7, <3>1 DEF IndexVector
    <3>2. CASE cur.items[m] \notin BadVec
      BY <1>7, <3>2 DEF IndexVector
    <3> QED BY <3>1, <3>2
  <2> QED BY <1>7, <2>2, <2>3 DEF IndexVector
<1>8. ASSUME NEW m \in Memory, IndexForget(m) PROVE TypeOK'
  BY <1>8 DEF IndexForget, IndexRemove
<1>9. ASSUME NEW m \in Memory, DrainRow(m) PROVE TypeOK'
  BY <1>9 DEF DrainRow
<1>10. CASE Reply
  <2>1. cur \in Command
    BY <1>10 DEF Reply, CommandInHand
  <2>2. Targets(cur) \subseteq Memory
    BY <2>1, CommandParts DEF Targets
  <2>3. served' \in SUBSET Memory
    BY <1>10, <2>2 DEF Reply
  <2>4. answer' \in [Memory -> {"none", "ok", "err"}]
    BY <1>10 DEF Reply
  <2>5. drain' \in SUBSET Memory /\ pc' \in {"recv", "drain"}
    BY <1>10 DEF Reply
  <2> QED BY <1>10, <2>3, <2>4, <2>5 DEF Reply
<1>11. CASE ActorExit
  BY <1>11, EndType DEF ActorExit
<1>12. CASE Load
  <2>1. graph' \in Graph
    <3>1. CASE Loadable(live, bak) # Missing
      <4>1. graph' = Loadable(live, bak)
        BY <1>12, <3>1 DEF Load
      <4>2. Loadable(live, bak) \in Graph
        BY <3>1, SnapshotPairs
      <4> QED BY <4>1, <4>2
    <3>2. CASE Loadable(live, bak) = Missing
      BY <1>12, <3>2 DEF Load, Graph, ActiveSet
    <3> QED BY <3>1, <3>2
  <2>2. tombs' \in SUBSET Memory /\ todo' \in SUBSET Memory
    BY <1>12 DEF Load, ForgottenSet, ActiveSet
  <2> QED BY <1>12, <2>1, <2>2 DEF Load
<1>13. CASE ReplayDone
  BY <1>13 DEF ReplayDone
<1>14. ASSUME NEW m \in Memory, ReplayRow(m) PROVE TypeOK'
  <2>1. pending[m] \in Vec
    BY <1>14 DEF ReplayRow, CommandInHand
  <2>2. graph' \in Graph /\ tombs' \in SUBSET Memory
    BY <1>14, <2>1 DEF ReplayRow, IndexAdd, Graph
  <2>3. pending' \in [Memory -> Vec \cup {NoVec}]
    BY <1>14 DEF ReplayRow
  <2> QED BY <1>14, <2>2, <2>3 DEF ReplayRow
<1>15. ASSUME NEW c \in Client, CallRemember(c) PROVE TypeOK'
  <2>1. PICK m \in Memory, v \in Vec : SubmitFresh(c, "remember", [i \in {m} |-> v])
    BY <1>15 DEF CallRemember
  <2>2. [op |-> "remember", by |-> c, items |-> [i \in {m} |-> v]] \in Command
    BY OneItemCommand DEF Writes
  <2>3. asked' \in SUBSET SUBSET Memory
    BY <2>1 DEF SubmitFresh
  <2> QED BY <2>1, <2>2, <2>3 DEF SubmitFresh, Submit
<1>16. ASSUME NEW c \in Client, CallRememberBatch(c) PROVE TypeOK'
  <2> PICK ids \in SUBSET Memory : \E items \in [ids -> Vec] : SubmitFresh(c, "batch", items)
    BY <1>16 DEF CallRememberBatch
  <2>1. PICK items \in [ids -> Vec] : SubmitFresh(c, "batch", items)
    OBVIOUS
  <2>2. [op |-> "batch", by |-> c, items |-> items] \in Command
    BY WriteCommand DEF Writes
  <2>3. asked' \in SUBSET SUBSET Memory
    BY <2>1 DEF SubmitFresh
  <2> QED BY <2>1, <2>2, <2>3 DEF SubmitFresh, Submit
<1>17. ASSUME NEW c \in Client, CallUpdate(c) PROVE TypeOK'
  <2>1. PICK m \in UNION asked, v \in Vec : Submit(c, "update", [i \in {m} |-> v]) /\ UNCHANGED asked
    BY <1>17 DEF CallUpdate
  <2>2. m \in Memory
    OBVIOUS
  <2>3. [op |-> "update", by |-> c, items |-> [i \in {m} |-> v]] \in Command
    BY <2>2, OneItemCommand DEF Writes
  <2> QED BY <2>1, <2>3 DEF Submit
<1>18. ASSUME NEW c \in Client, CallForget(c) PROVE TypeOK'
  <2>1. PICK m \in Memory : Submit(c, "forget", [i \in {m} |-> NoVec]) /\ UNCHANGED asked
    BY <1>18 DEF CallForget
  <2>2. [op |-> "forget", by |-> c, items |-> [i \in {m} |-> NoVec]] \in Command
    BY OtherCommands
  <2> QED BY <2>1, <2>2 DEF Submit
<1>19. ASSUME NEW c \in Client, CallSave(c) PROVE TypeOK'
  BY <1>19, OtherCommands DEF CallSave, Submit
<1>20. ASSUME NEW c \in Client, Abandon(c) PROVE TypeOK'
  <2>1. cur' \in Command \cup {NoCommand}
    BY <1>20, AbandonedCommand DEF Abandon
  <2>2. queue' \in Seq(Command) /\ Len(queue') = Len(queue)
    BY <1>20, AbandonedCommand DEF Abandon
  <2> QED BY <1>20, <2>1, <2>2 DEF Abandon
<1>21. CASE Crash
  BY <1>21, EndType DEF Crash
<1>22. CASE CrashInSave
  <2>1. PICK s \in BrokenSaves(live, bak, graph) : EndProcess(s.live, s.bak)
    BY <1>22 DEF CrashInSave
  <2> QED BY <2>1, SnapshotPairs, EndType
<1>23. ASSUME NEW save \in BOOLEAN, StopService(save) PROVE TypeOK'
  <2>1. [op |-> "save", by |-> Nobody, items |-> NoItems] \in Command
    BY OtherCommands
  <2>2. queue' \in Seq(Command) /\ Len(queue') \in 0..Capacity
    <3>1. CASE save
      <4> DEFINE cmd == [op |-> "save", by |-> Nobody, items |-> NoItems]
      <4>1. queue' = Append(queue, cmd) /\ Len(queue) < Capacity
        BY <1>23, <3>1 DEF StopService
      <4>2. cmd \in Command
        BY <2>1
      <4> HIDE DEF cmd
      <4> QED BY <4>1, <4>2
    <3>2. CASE ~save
      BY <1>23, <3>2 DEF StopService
    <3> QED BY <3>1, <3>2
  <2> QED BY <1>23, <2>2 DEF StopService
<1>24. CASE UNCHANGED vars
  BY <1>24 DEF vars
<1> QED
  BY <1>1, <1>2, <1>3, <1>4, <1>5, <1>6, <1>7, <1>8, <1>9, <1>10, <1>11, <1>12, <1>13,
     <1>14, <1>15, <1>16, <1>17, <1>18, <1>19, <1>20, <1>21, <1>22, <1>23, <1>24
     DEF Next, ActorStep, ReplayStep, CallerStep
-----------------------------------------------------------------------------
\* A step that leaves the store, the snapshots, the index and the lists of memories alone
\* keeps the index invariant (a caller may have given up on the command in hand).
LEMMA QuietStep ==
    ASSUME IndexInv, UNCHANGED <<store, snap, pc, index, todo, drain, lost>>,
           \/ cur' = cur
           \/ /\ cur # NoCommand /\ cur' # NoCommand
              /\ cur'.op = cur.op /\ cur'.items = cur.items
    PROVE  IndexInv'
<1> USE DEF store, snap, index
<1>1. CommandInHand'
  BY DEF IndexInv, CommandInHand, Visible, Targets
<1>2. OnlyGoodIndexed' /\ RefusedStayInOutbox' /\ PendingIsCurrent'
  BY DEF IndexInv, OnlyGoodIndexed, NoneRefused, RefusedStayInOutbox, PendingIsCurrent, ActiveSet
<1>3. LostWhileDown'
  BY DEF IndexInv, LostWhileDown, Unrecoverable, ActiveSet
<1>4. IndexCoverage'
  BY DEF IndexInv, IndexCoverage, Visible, ActiveSet
<1>5. ForgottenHidden'
  BY DEF IndexInv, ForgottenHidden, CommandInHand, Visible, ForgottenSet
<1> QED BY <1>1, <1>2, <1>3, <1>4, <1>5 DEF IndexInv

\* A save, whole or broken, only ever leaves contents without refused vectors.
LEMMA SavesAreGood ==
    ASSUME NEW l \in Pair, NEW b \in Pair, NEW g \in Graph, NoneRefused(g),
           Usable(l) => NoneRefused(l), Usable(b) => NoneRefused(b)
    PROVE  /\ \A s \in BrokenSaves(l, b, g) \cup {SavedPairs(l, b, g)} :
                  /\ Usable(s.live) => NoneRefused(s.live)
                  /\ Usable(s.bak) => NoneRefused(s.bak)
           /\ Loadable(l, b) # Missing => NoneRefused(Loadable(l, b))
BY DEF SavedPairs, BakAfterCopy, BrokenSaves, PairExists, Loadable, Usable

\* The end of a process keeps the invariant: what is lost is what the next start cannot find.
LEMMA EndInv ==
    ASSUME TypeOK, IndexInv, NEW l, NEW b, EndProcess(l, b),
           Usable(l) => NoneRefused(l), Usable(b) => NoneRefused(b)
    PROVE  IndexInv'
<1>1. CommandInHand'
  BY DEF EndProcess, CommandInHand
<1>2. OnlyGoodIndexed'
  BY DEF EndProcess, OnlyGoodIndexed, NoneRefused, EmptyGraph
<1>3. RefusedStayInOutbox' /\ PendingIsCurrent'
  BY DEF IndexInv, EndProcess, store, RefusedStayInOutbox, PendingIsCurrent, ActiveSet
<1>4. LostWhileDown'
  BY DEF EndProcess, store, LostWhileDown, Unrecoverable, ActiveSet
<1>5. IndexCoverage' /\ ForgottenHidden'
  BY DEF EndProcess, IndexCoverage, ForgottenHidden
<1> QED BY <1>1, <1>2, <1>3, <1>4, <1>5 DEF IndexInv

LEMMA IndexInit == Init => IndexInv
<1> SUFFICES ASSUME Init PROVE IndexInv
  OBVIOUS
<1>1. ActiveSet = {} /\ ForgottenSet = {}
  BY DEF Init, ActiveSet, ForgottenSet
<1>2. CommandInHand /\ PendingIsCurrent
  BY DEF Init, CommandInHand, PendingIsCurrent
<1>3. OnlyGoodIndexed
  BY DEF Init, OnlyGoodIndexed, NoneRefused, Usable, EmptyGraph
<1>4. RefusedStayInOutbox /\ LostWhileDown /\ IndexCoverage /\ ForgottenHidden
  BY <1>1 DEF Init, RefusedStayInOutbox, LostWhileDown, Unrecoverable, IndexCoverage, ForgottenHidden
<1> QED BY <1>2, <1>3, <1>4 DEF IndexInv

\* Every step keeps the index invariant.
LEMMA IndexStep == TypeOK /\ IndexInv /\ [Next]_vars => IndexInv'
<1> SUFFICES ASSUME TypeOK, IndexInv, [Next]_vars PROVE IndexInv'
  OBVIOUS
<1> USE DEF TypeOK, IndexInv, store, snap, index, actor
<1>1. CASE TxRemember
  <2>11. CommandInHand'
    <3>1. Head1 \in Command /\ Head1 # NoCommand
      BY <1>1, HeadAndTail DEF TxRemember
    <3>2. drain = {}
      BY <1>1 DEF TxRemember, Take, CommandInHand
    <3>3. /\ pc' = "index" /\ cur' = Head1 /\ cur'.op \in Writes /\ drain' = {}
          /\ todo' = DOMAIN Head1.items /\ todo' \subseteq Memory
      BY <1>1, <3>1, <3>2, CommandParts DEF TxRemember, Take, Targets, Writes
    <3>4. \A m \in todo' : /\ status'[m] = "active"
                           /\ vec'[m] = cur'.items[m]
                           /\ pending'[m] = vec'[m]
      BY <1>1, <3>3 DEF TxRemember, Targets
    <3> QED BY <3>1, <3>3, <3>4 DEF CommandInHand, Targets, Writes
  <2>12. OnlyGoodIndexed'
    BY <1>1 DEF TxRemember, Take, OnlyGoodIndexed, NoneRefused, Graph
  <2>13. RefusedStayInOutbox'
    BY <1>1 DEF TxRemember, Take, RefusedStayInOutbox, ActiveSet
  <2>14. LostWhileDown'
    BY <1>1 DEF TxRemember, Take, LostWhileDown
  <2>15. PendingIsCurrent'
    BY <1>1 DEF TxRemember, Take, PendingIsCurrent
  <2>16. IndexCoverage'
    BY <1>1 DEF TxRemember, Take, IndexCoverage, Visible, ActiveSet
  <2>17. ForgottenHidden'
    BY <1>1 DEF TxRemember, Take, ForgottenHidden, Visible, ForgottenSet
  <2> QED BY <2>11, <2>12, <2>13, <2>14, <2>15, <2>16, <2>17
<1>2. CASE TxUpdate
  <2>11. CommandInHand'
    <3>1. Head1 \in Command /\ Head1 # NoCommand
      BY <1>2, HeadAndTail DEF TxUpdate
    <3>2. drain = {}
      BY <1>2 DEF TxUpdate, Take, CommandInHand
    <3>3. PICK m \in DOMAIN Head1.items : /\ status[m] = "active"
                                          /\ vec' = [vec EXCEPT ![m] = Head1.items[m]]
                                          /\ pending' = [pending EXCEPT ![m] = Head1.items[m]]
                                          /\ todo' = {m}
      BY <1>2 DEF TxUpdate, Take, Targets
    <3>4. m \in Memory
      BY <3>1, CommandParts
    <3>5. /\ pc' = "index" /\ cur' = Head1 /\ cur'.op \in Writes /\ drain' = {} /\ status' = status
      BY <1>2, <3>2 DEF TxUpdate, Take, Writes
    <3> QED BY <3>1, <3>3, <3>4, <3>5 DEF CommandInHand, Targets, Writes
  <2>12. OnlyGoodIndexed'
    BY <1>2 DEF TxUpdate, Take, OnlyGoodIndexed, NoneRefused, Graph
  <2>13. RefusedStayInOutbox'
    BY <1>2 DEF TxUpdate, Take, RefusedStayInOutbox, ActiveSet
  <2>14. LostWhileDown'
    BY <1>2 DEF TxUpdate, Take, LostWhileDown
  <2>15. PendingIsCurrent'
    BY <1>2 DEF TxUpdate, Take, PendingIsCurrent
  <2>16. IndexCoverage'
    BY <1>2 DEF TxUpdate, Take, IndexCoverage, Visible, ActiveSet
  <2>17. ForgottenHidden'
    BY <1>2 DEF TxUpdate, Take, ForgottenHidden, Visible, ForgottenSet
  <2> QED BY <2>11, <2>12, <2>13, <2>14, <2>15, <2>16, <2>17
<1>3. CASE TxForget
  <2>11. CommandInHand'
    <3>1. Head1 \in Command /\ Head1 # NoCommand
      BY <1>3, HeadAndTail DEF TxForget
    <3>2. drain = {}
      BY <1>3 DEF TxForget, Take, CommandInHand
    <3>3. PICK m \in DOMAIN Head1.items : /\ status' = [status EXCEPT ![m] = "forgotten"]
                                          /\ todo' = {m}
      BY <1>3 DEF TxForget, Take, Targets
    <3>4. m \in Memory
      BY <3>1, CommandParts
    <3>5. pc' = "index" /\ cur' = Head1 /\ cur'.op = "forget" /\ drain' = {}
      BY <1>3, <3>2 DEF TxForget, Take
    <3> QED BY <3>1, <3>3, <3>4, <3>5 DEF CommandInHand, Targets, Writes
  <2>12. OnlyGoodIndexed'
    BY <1>3 DEF TxForget, Take, OnlyGoodIndexed, NoneRefused, Graph
  <2>13. RefusedStayInOutbox'
    BY <1>3 DEF TxForget, Take, RefusedStayInOutbox, ActiveSet
  <2>14. LostWhileDown'
    BY <1>3 DEF TxForget, Take, LostWhileDown
  <2>15. PendingIsCurrent'
    BY <1>3 DEF TxForget, Take, PendingIsCurrent
  <2>16. IndexCoverage'
    BY <1>3 DEF TxForget, Take, IndexCoverage, Visible, ActiveSet
  <2>17. ForgottenHidden'
    BY <1>3 DEF TxForget, Take, ForgottenHidden, Visible, ForgottenSet
  <2> QED BY <2>11, <2>12, <2>13, <2>14, <2>15, <2>16, <2>17
<1>4. CASE TxRefused
  <2>11. CommandInHand'
    <3>1. Head1 \in Command /\ Head1 # NoCommand
      BY <1>4, HeadAndTail DEF TxRefused
    <3>2. drain = {}
      BY <1>4 DEF TxRefused, Take, CommandInHand
    <3> QED BY <1>4, <3>1, <3>2 DEF TxRefused, Take, CommandInHand, Targets, Writes
  <2>12. OnlyGoodIndexed'
    BY <1>4 DEF TxRefused, Take, OnlyGoodIndexed, NoneRefused, Graph
  <2>13. RefusedStayInOutbox'
    BY <1>4 DEF TxRefused, Take, RefusedStayInOutbox, ActiveSet
  <2>14. LostWhileDown'
    BY <1>4 DEF TxRefused, Take, LostWhileDown
  <2>15. PendingIsCurrent'
    BY <1>4 DEF TxRefused, Take, PendingIsCurrent
  <2>16. IndexCoverage'
    BY <1>4 DEF TxRefused, Take, IndexCoverage, Visible, ActiveSet
  <2>17. ForgottenHidden'
    BY <1>4 DEF TxRefused, Take, ForgottenHidden, Visible, ForgottenSet
  <2> QED BY <2>11, <2>12, <2>13, <2>14, <2>15, <2>16, <2>17
<1>5. CASE TxFails
  <2>11. CommandInHand'
    <3>1. Head1 \in Command /\ Head1 # NoCommand
      BY <1>5, HeadAndTail DEF TxFails
    <3>2. drain = {}
      BY <1>5 DEF TxFails, Take, CommandInHand
    <3> QED BY <1>5, <3>1, <3>2 DEF TxFails, Take, CommandInHand, Targets, Writes
  <2>12. OnlyGoodIndexed'
    BY <1>5 DEF TxFails, Take, OnlyGoodIndexed, NoneRefused, Graph
  <2>13. RefusedStayInOutbox'
    BY <1>5 DEF TxFails, Take, RefusedStayInOutbox, ActiveSet
  <2>14. LostWhileDown'
    BY <1>5 DEF TxFails, Take, LostWhileDown
  <2>15. PendingIsCurrent'
    BY <1>5 DEF TxFails, Take, PendingIsCurrent
  <2>16. IndexCoverage'
    BY <1>5 DEF TxFails, Take, IndexCoverage, Visible, ActiveSet
  <2>17. ForgottenHidden'
    BY <1>5 DEF TxFails, Take, ForgottenHidden, Visible, ForgottenSet
  <2> QED BY <2>11, <2>12, <2>13, <2>14, <2>15, <2>16, <2>17
<1>6. CASE SaveSnapshot
  <2>11. CommandInHand'
    <3>1. Head1 \in Command /\ Head1 # NoCommand
      BY <1>6, HeadAndTail DEF SaveSnapshot
    <3>2. drain = {}
      BY <1>6 DEF SaveSnapshot, Take, CommandInHand
    <3> QED BY <1>6, <3>1, <3>2 DEF SaveSnapshot, Take, CommandInHand, Targets, Writes
  <2>12. OnlyGoodIndexed'
    <3>1. NoneRefused(graph) /\ graph' = graph
      BY <1>6 DEF SaveSnapshot, OnlyGoodIndexed
    <3>2. NoneRefused(graph)'
      BY <3>1 DEF NoneRefused
    <3>3. UNCHANGED snap \/ \E x \in BrokenSaves(live, bak, graph) \cup {SavedPairs(live, bak, graph)} :
                               live' = x.live /\ bak' = x.bak
      BY <1>6 DEF SaveSnapshot
    <3>4. /\ Usable(live') => NoneRefused(live')
          /\ Usable(bak') => NoneRefused(bak')
      BY <3>1, <3>3, SavesAreGood DEF OnlyGoodIndexed
    <3>5. (Usable(live) => NoneRefused(live))' /\ (Usable(bak) => NoneRefused(bak))'
      BY <3>4 DEF NoneRefused, Usable
    <3> QED BY <3>2, <3>5 DEF OnlyGoodIndexed
  <2>13. RefusedStayInOutbox'
    BY <1>6 DEF SaveSnapshot, Take, RefusedStayInOutbox, ActiveSet
  <2>14. LostWhileDown'
    BY <1>6 DEF SaveSnapshot, Take, LostWhileDown
  <2>15. PendingIsCurrent'
    BY <1>6 DEF SaveSnapshot, Take, PendingIsCurrent
  <2>16. IndexCoverage'
    BY <1>6 DEF SaveSnapshot, Take, IndexCoverage, Visible, ActiveSet
  <2>17. ForgottenHidden'
    BY <1>6 DEF SaveSnapshot, Take, ForgottenHidden, Visible, ForgottenSet
  <2> QED BY <2>11, <2>12, <2>13, <2>14, <2>15, <2>16, <2>17
<1>7. ASSUME NEW m \in Memory, IndexVector(m) PROVE IndexInv'
  <2>1. /\ pc = "index" /\ m \in todo /\ cur # NoCommand /\ cur.op \in Writes
        /\ status[m] = "active" /\ vec[m] = cur.items[m] /\ cur.op # "forget"
    BY <1>7 DEF IndexVector, CommandInHand
  <2>2. \A x \in Memory : Visible(x) \subseteq Visible(x)' /\ vec'[x] = vec[x]
    BY <1>7 DEF IndexVector, IndexAdd, Visible, Graph
  <2>3. \A x \in Memory \ {m} : Visible(x)' = Visible(x)
    BY <1>7 DEF IndexVector, IndexAdd, Visible, Graph
  <2>11. CommandInHand'
    <3>1. \A x \in drain : vec'[x] \in Visible(x)'
      BY <2>2 DEF CommandInHand
    <3>2. CASE cur.items[m] \in BadVec
      BY <1>7, <2>1, <3>1, <3>2 DEF IndexVector, CommandInHand, Targets
    <3>3. CASE cur.items[m] \notin BadVec
      <4>1. drain' = drain \cup {m} /\ vec'[m] \in Visible(m)'
        BY <1>7, <2>1, <3>3 DEF IndexVector, IndexAdd, Visible, Graph
      <4> QED BY <1>7, <2>1, <3>1, <4>1 DEF IndexVector, CommandInHand, Targets
    <3> QED BY <3>2, <3>3
  <2>12. OnlyGoodIndexed'
    BY <1>7 DEF IndexVector, IndexAdd, OnlyGoodIndexed, NoneRefused, Graph
  <2>13. RefusedStayInOutbox'
    BY <1>7 DEF IndexVector, IndexAdd, RefusedStayInOutbox, ActiveSet
  <2>14. LostWhileDown'
    BY <1>7 DEF IndexVector, IndexAdd, LostWhileDown
  <2>15. PendingIsCurrent'
    BY <1>7 DEF IndexVector, IndexAdd, PendingIsCurrent
  <2>16. IndexCoverage'
    BY <1>7, <2>2 DEF IndexVector, IndexCoverage, ActiveSet
  <2>17. ForgottenHidden'
    BY <1>7, <2>1, <2>3 DEF IndexVector, ForgottenHidden, ForgottenSet
  <2> QED BY <2>11, <2>12, <2>13, <2>14, <2>15, <2>16, <2>17
<1>8. ASSUME NEW m \in Memory, IndexForget(m) PROVE IndexInv'
  <2>1. pc = "index" /\ cur # NoCommand /\ cur.op = "forget" /\ todo = {m}
    BY <1>8 DEF IndexForget, CommandInHand
  <2>2. status[m] = "forgotten"
    BY <1>8, <2>1 DEF IndexForget, CommandInHand
  <2>3. /\ Visible(m)' = {}
        /\ \A x \in Memory \ {m} : Visible(x)' = Visible(x)
    BY <1>8 DEF IndexForget, IndexRemove, Visible
  <2>11. CommandInHand'
    BY <1>8, <2>1 DEF IndexForget, CommandInHand, Writes
  <2>12. OnlyGoodIndexed'
    BY <1>8 DEF IndexForget, IndexRemove, OnlyGoodIndexed, NoneRefused, Graph
  <2>13. RefusedStayInOutbox'
    BY <1>8 DEF IndexForget, IndexRemove, RefusedStayInOutbox, ActiveSet
  <2>14. LostWhileDown'
    BY <1>8 DEF IndexForget, IndexRemove, LostWhileDown
  <2>15. PendingIsCurrent'
    BY <1>8 DEF IndexForget, IndexRemove, PendingIsCurrent
  <2>16. IndexCoverage'
    BY <1>8, <2>2, <2>3 DEF IndexForget, IndexCoverage, ActiveSet
  <2>17. ForgottenHidden'
    BY <1>8, <2>1, <2>3 DEF IndexForget, ForgottenHidden, ForgottenSet
  <2> QED BY <2>11, <2>12, <2>13, <2>14, <2>15, <2>16, <2>17
<1>9. ASSUME NEW m \in Memory, DrainRow(m) PROVE IndexInv'
  <2>1. vec[m] \in Visible(m)
    BY <1>9 DEF DrainRow, CommandInHand
  <2>2. vec[m] \notin BadVec
    BY <2>1 DEF Visible, OnlyGoodIndexed, NoneRefused
  <2>3. /\ \A x \in Memory : Visible(x)' = Visible(x)
        /\ \A x \in Memory \ {m} : pending'[x] = pending[x]
    BY <1>9 DEF DrainRow, Visible
  <2>11. CommandInHand'
    BY <1>9 DEF DrainRow, CommandInHand, Visible, Targets, Writes
  <2>12. OnlyGoodIndexed'
    BY <1>9 DEF DrainRow, OnlyGoodIndexed, NoneRefused, Graph
  <2>13. RefusedStayInOutbox'
    BY <1>9, <2>2, <2>3 DEF DrainRow, RefusedStayInOutbox, ActiveSet
  <2>14. LostWhileDown'
    BY <1>9 DEF DrainRow, LostWhileDown
  <2>15. PendingIsCurrent'
    BY <1>9 DEF DrainRow, PendingIsCurrent
  <2>16. IndexCoverage'
    BY <1>9, <2>1, <2>3 DEF DrainRow, IndexCoverage, ActiveSet
  <2>17. ForgottenHidden'
    BY <1>9 DEF DrainRow, ForgottenHidden, Visible, ForgottenSet
  <2> QED BY <2>11, <2>12, <2>13, <2>14, <2>15, <2>16, <2>17
<1>10. CASE Reply
  <2>11. CommandInHand'
    BY <1>10 DEF Reply, CommandInHand, Visible, Targets, Writes
  <2>12. OnlyGoodIndexed'
    BY <1>10 DEF Reply, OnlyGoodIndexed, NoneRefused, Graph
  <2>13. RefusedStayInOutbox'
    BY <1>10 DEF Reply, RefusedStayInOutbox, ActiveSet
  <2>14. LostWhileDown'
    BY <1>10 DEF Reply, LostWhileDown
  <2>15. PendingIsCurrent'
    BY <1>10 DEF Reply, PendingIsCurrent
  <2>16. IndexCoverage'
    BY <1>10 DEF Reply, IndexCoverage, Visible, ActiveSet
  <2>17. ForgottenHidden'
    BY <1>10 DEF Reply, ForgottenHidden, Visible, ForgottenSet
  <2> QED BY <2>11, <2>12, <2>13, <2>14, <2>15, <2>16, <2>17
<1>11. CASE ActorExit
  BY <1>11, EndInv DEF ActorExit, OnlyGoodIndexed
<1>12. CASE Load
  <2>11. CommandInHand'
    BY <1>12 DEF Load, CommandInHand, ActiveSet
  <2>12. OnlyGoodIndexed'
    <3>1. CASE Loadable(live, bak) # Missing
      <4>1. graph' = Loadable(live, bak) /\ UNCHANGED snap
        BY <1>12, <3>1 DEF Load
      <4>2. NoneRefused(Loadable(live, bak))
        BY <3>1, SavesAreGood DEF OnlyGoodIndexed
      <4> QED BY <4>1, <4>2 DEF OnlyGoodIndexed, NoneRefused
    <3>2. CASE Loadable(live, bak) = Missing
      BY <1>12, <3>2 DEF Load, OnlyGoodIndexed, NoneRefused
    <3> QED BY <3>1, <3>2
  <2>13. RefusedStayInOutbox'
    BY <1>12 DEF Load, RefusedStayInOutbox, ActiveSet
  <2>14. LostWhileDown'
    BY <1>12 DEF Load, LostWhileDown
  <2>15. PendingIsCurrent'
    BY <1>12 DEF Load, PendingIsCurrent
  <2>16. IndexCoverage'
    <3>1. SUFFICES ASSUME NEW x \in Memory, status[x] = "active", x \notin Unrecoverable(live, bak)
                   PROVE  vec[x] \in Visible(x)' \/ pending[x] = vec[x]
      BY <1>12 DEF Load, LostWhileDown, IndexCoverage, ActiveSet
    <3>2. CASE Loadable(live, bak) # Missing
      <4>1. graph' = Loadable(live, bak) /\ tombs' = ForgottenSet
        BY <1>12, <3>2 DEF Load
      <4>2. x \notin tombs'
        BY <3>1, <4>1 DEF ForgottenSet
      <4>3. pending[x] = vec[x] \/ vec[x] \in Loadable(live, bak)[x]
        BY <3>1, <3>2 DEF Unrecoverable, ActiveSet
      <4> QED BY <4>1, <4>2, <4>3 DEF Visible
    <3>3. CASE Loadable(live, bak) = Missing
      <4>1. vec[x] \in BadVec => pending[x] = vec[x]
        BY <3>1 DEF RefusedStayInOutbox, ActiveSet
      <4>2. vec[x] \notin BadVec => vec[x] \in graph'[x] /\ x \notin tombs'
        BY <1>12, <3>1, <3>3 DEF Load, ActiveSet
      <4> QED BY <4>1, <4>2 DEF Visible
    <3> QED BY <3>2, <3>3
  <2>17. ForgottenHidden'
    <3>1. SUFFICES ASSUME NEW x \in Memory, status[x] = "forgotten"
                   PROVE  Visible(x)' = {}
      BY <1>12 DEF Load, ForgottenHidden, ForgottenSet
    <3>2. CASE Loadable(live, bak) # Missing
      BY <1>12, <3>1, <3>2 DEF Load, ForgottenSet, Visible
    <3>3. CASE Loadable(live, bak) = Missing
      BY <1>12, <3>1, <3>3 DEF Load, ActiveSet, Visible
    <3> QED BY <3>2, <3>3
  <2> QED BY <2>11, <2>12, <2>13, <2>14, <2>15, <2>16, <2>17
<1>13. CASE ReplayDone
  <2>11. CommandInHand'
    BY <1>13 DEF ReplayDone, CommandInHand, Visible, Targets, Writes
  <2>12. OnlyGoodIndexed'
    BY <1>13 DEF ReplayDone, OnlyGoodIndexed, NoneRefused, Graph
  <2>13. RefusedStayInOutbox'
    BY <1>13 DEF ReplayDone, RefusedStayInOutbox, ActiveSet
  <2>14. LostWhileDown'
    BY <1>13 DEF ReplayDone, LostWhileDown
  <2>15. PendingIsCurrent'
    BY <1>13 DEF ReplayDone, PendingIsCurrent
  <2>16. IndexCoverage'
    BY <1>13 DEF ReplayDone, IndexCoverage, Visible, ActiveSet
  <2>17. ForgottenHidden'
    BY <1>13 DEF ReplayDone, ForgottenHidden, Visible, ForgottenSet
  <2> QED BY <2>11, <2>12, <2>13, <2>14, <2>15, <2>16, <2>17
<1>14. ASSUME NEW m \in Memory, ReplayRow(m) PROVE IndexInv'
  <2>1. pc = "replay" /\ status[m] = "active" /\ pending[m] = vec[m] /\ pending[m] # NoVec
    BY <1>14 DEF ReplayRow, CommandInHand, PendingIsCurrent
  <2>2. /\ \A x \in Memory \ {m} : Visible(x)' = Visible(x) /\ pending'[x] = pending[x]
        /\ pending'[m] = pending[m] \/ vec[m] \in Visible(m)'
    BY <1>14, <2>1 DEF ReplayRow, IndexAdd, Visible, Graph
  <2>11. CommandInHand'
    BY <1>14 DEF ReplayRow, IndexAdd, CommandInHand, Visible, Targets, Writes
  <2>12. OnlyGoodIndexed'
    BY <1>14 DEF ReplayRow, IndexAdd, OnlyGoodIndexed, NoneRefused, Graph
  <2>13. RefusedStayInOutbox'
    BY <1>14 DEF ReplayRow, IndexAdd, RefusedStayInOutbox, ActiveSet
  <2>14. LostWhileDown'
    BY <1>14 DEF ReplayRow, IndexAdd, LostWhileDown
  <2>15. PendingIsCurrent'
    BY <1>14 DEF ReplayRow, IndexAdd, PendingIsCurrent
  <2>16. IndexCoverage'
    BY <1>14, <2>1, <2>2 DEF ReplayRow, IndexCoverage, ActiveSet
  <2>17. ForgottenHidden'
    BY <1>14, <2>1, <2>2 DEF ReplayRow, ForgottenHidden, ForgottenSet
  <2> QED BY <2>11, <2>12, <2>13, <2>14, <2>15, <2>16, <2>17
<1>15. ASSUME NEW c \in Client, CallRemember(c) PROVE IndexInv'
  BY <1>15, QuietStep DEF CallRemember, SubmitFresh, Submit
<1>16. ASSUME NEW c \in Client, CallRememberBatch(c) PROVE IndexInv'
  BY <1>16, QuietStep DEF CallRememberBatch, SubmitFresh, Submit
<1>17. ASSUME NEW c \in Client, CallUpdate(c) PROVE IndexInv'
  BY <1>17, QuietStep DEF CallUpdate, Submit
<1>18. ASSUME NEW c \in Client, CallForget(c) PROVE IndexInv'
  BY <1>18, QuietStep DEF CallForget, Submit
<1>19. ASSUME NEW c \in Client, CallSave(c) PROVE IndexInv'
  BY <1>19, QuietStep DEF CallSave, Submit
<1>20. ASSUME NEW c \in Client, Abandon(c) PROVE IndexInv'
  <2>1. \/ cur' = cur
        \/ /\ cur # NoCommand /\ cur' # NoCommand
           /\ cur'.op = cur.op /\ cur'.items = cur.items
    BY <1>20, AbandonedCommand DEF Abandon
  <2> QED BY <1>20, <2>1, QuietStep DEF Abandon
<1>21. CASE Crash
  BY <1>21, EndInv DEF Crash, OnlyGoodIndexed
<1>22. CASE CrashInSave
  <2>1. PICK s \in BrokenSaves(live, bak, graph) : EndProcess(s.live, s.bak)
    BY <1>22 DEF CrashInSave
  <2>2. (Usable(s.live) => NoneRefused(s.live)) /\ (Usable(s.bak) => NoneRefused(s.bak))
    BY SavesAreGood DEF OnlyGoodIndexed
  <2> QED BY <2>1, <2>2, EndInv
<1>23. ASSUME NEW save \in BOOLEAN, StopService(save) PROVE IndexInv'
  BY <1>23, QuietStep DEF StopService
<1>24. CASE UNCHANGED vars
  BY <1>24, QuietStep DEF vars
<1> QED
  BY <1>1, <1>2, <1>3, <1>4, <1>5, <1>6, <1>7, <1>8, <1>9, <1>10, <1>11, <1>12, <1>13,
     <1>14, <1>15, <1>16, <1>17, <1>18, <1>19, <1>20, <1>21, <1>22, <1>23, <1>24
     DEF Next, ActorStep, ReplayStep, CallerStep
-----------------------------------------------------------------------------
\* Only the end of a process takes it down; it leaves the rows of the store alone.
LEMMA DownStep ==
    ASSUME TypeOK, IndexInv, Next, pc # "down", pc' = "down"
    PROVE  UNCHANGED store
<1> USE DEF EndProcess, store
<1>1. \A l, b : EndProcess(l, b) => UNCHANGED store
  OBVIOUS
<1>2. Crash \/ CrashInSave \/ ActorExit => UNCHANGED store
  BY <1>1 DEF Crash, CrashInSave, ActorExit
<1>3. Crash \/ CrashInSave \/ ActorExit
  BY DEF Next, ActorStep, ReplayStep, CallerStep, TxRemember, TxUpdate, TxForget, TxRefused,
         TxFails, SaveSnapshot, Take, IndexVector, IndexForget, DrainRow, Reply, Load,
         ReplayDone, ReplayRow, CallRemember, CallRememberBatch, CallUpdate, CallForget,
         CallSave, Abandon, SubmitFresh, Submit, StopService
<1> QED BY <1>2, <1>3

\* A process whose index is in the live pair when it ends costs no memory its vector.
LEMMA SavedStopStep ==
    TypeOK /\ IndexInv /\ [Next]_vars =>
        [(pc # "down" /\ pc' = "down" /\ live' = graph) => lost' \subseteq lost]_vars
<1> SUFFICES ASSUME TypeOK, IndexInv, Next, pc # "down", pc' = "down", live' = graph
             PROVE  lost' \subseteq lost
  OBVIOUS
<1>1. TypeOK' /\ IndexInv'
  BY TypeStep, IndexStep DEF IndexInv
<1>2. status' = status /\ vec' = vec /\ pending' = pending
  BY DownStep DEF store
<1>3. Loadable(live', bak') = graph
  BY DEF TypeOK, Graph, Loadable, Usable
<1>4. graph # Missing
  BY DEF TypeOK
<1>5. lost' = {m \in ActiveSet' : pending'[m] # vec'[m] /\ vec'[m] \notin graph[m]}
  BY <1>1, <1>3, <1>4 DEF IndexInv, LostWhileDown, Unrecoverable
<1>6. ActiveSet' = ActiveSet
  BY <1>2 DEF ActiveSet
<1>7. \A m \in ActiveSet \ lost : vec[m] \in graph[m] \/ pending[m] = vec[m]
  BY DEF IndexInv, IndexCoverage, Visible
<1> QED BY <1>2, <1>5, <1>6, <1>7

-----------------------------------------------------------------------------
(* A write answered Ok can be found.                                        *)

\* The actor takes the first command; the others move up by one.
LEMMA Taken ==
    ASSUME TypeOK, NEW next, NEW targets, NEW result, Take(next, targets, result)
    PROVE  /\ 1 \in DOMAIN queue /\ cur' = queue[1] /\ cur' \in Command /\ cur' # NoCommand
           /\ \A i \in DOMAIN queue' : /\ i + 1 \in DOMAIN queue /\ i + 1 # 1
                                       /\ queue'[i] = queue[i + 1]
<1>1. /\ queue \in Seq(Command) /\ Len(queue) \in 0..Capacity /\ queue # <<>>
      /\ queue' = Tail(queue) /\ cur' = Head1
  BY DEF TypeOK, Take
<1>2. /\ Head1 \in Command /\ Tail(queue) \in Seq(Command)
      /\ Len(Tail(queue)) = Len(queue) - 1
      /\ \A i \in 1..Len(Tail(queue)) : Tail(queue)[i] = queue[i + 1]
  BY <1>1, HeadAndTail
<1>3. DOMAIN queue = 1..Len(queue) /\ DOMAIN queue' = 1..Len(queue') /\ Head1 = queue[1]
  BY <1>1, <1>2 DEF Head1
<1>4. Len(queue) \in Nat /\ Len(queue) # 0
  BY <1>1
<1> QED BY <1>1, <1>2, <1>3, <1>4

\* A caller's command goes to the end of the channel.
LEMMA Appended ==
    ASSUME TypeOK, NEW cmd \in Command, queue' = Append(queue, cmd)
    PROVE  \A i \in DOMAIN queue' : \/ i \in DOMAIN queue /\ queue'[i] = queue[i]
                                    \/ i = Len(queue) + 1 /\ queue'[i] = cmd
BY DEF TypeOK

\* A caller who gives up leaves what its command says.
LEMMA Abandoned ==
    ASSUME TypeOK, NEW c \in Client, Abandon(c)
    PROVE  /\ DOMAIN queue' = DOMAIN queue
           /\ \A i \in DOMAIN queue : /\ queue'[i].op = queue[i].op
                                      /\ queue'[i].items = queue[i].items
           /\ \/ cur' = cur
              \/ /\ cur # NoCommand /\ cur' # NoCommand
                 /\ cur'.op = cur.op /\ cur'.items = cur.items
<1>1. \A i \in DOMAIN queue : queue[i] \in Command
  BY DEF TypeOK
<1>2. cur # NoCommand => cur \in Command
  BY DEF TypeOK
<1> QED BY <1>1, <1>2, AbandonedCommand DEF Abandon

\* A command appended keeps single writes single when it is one itself.
LEMMA SinglesSubmit ==
    ASSUME TypeOK, SinglesAreSingle, NEW cmd \in Command, OneTarget(cmd),
           queue' = Append(queue, cmd), cur' = cur
    PROVE  SinglesAreSingle'
BY Appended DEF SinglesAreSingle, OneTarget, Targets

LEMMA SinglesTake ==
    ASSUME TypeOK, SinglesAreSingle, NEW next, NEW targets, NEW result, Take(next, targets, result)
    PROVE  SinglesAreSingle'
BY Taken DEF SinglesAreSingle, OneTarget, Targets

\* Callers name one memory in a remember and in an update.
LEMMA SinglesStep == TypeOK /\ SinglesAreSingle /\ [Next]_vars => SinglesAreSingle'
<1> SUFFICES ASSUME TypeOK, SinglesAreSingle, [Next]_vars PROVE SinglesAreSingle'
  OBVIOUS
<1>1. CASE TxRemember
  BY <1>1, SinglesTake DEF TxRemember
<1>2. CASE TxUpdate
  BY <1>2, SinglesTake DEF TxUpdate
<1>3. CASE TxForget
  BY <1>3, SinglesTake DEF TxForget
<1>4. CASE TxRefused \/ TxFails
  BY <1>4, SinglesTake DEF TxRefused, TxFails
<1>5. CASE SaveSnapshot
  BY <1>5, SinglesTake DEF SaveSnapshot
<1>6. CASE UNCHANGED <<queue, cur>>
  BY <1>6 DEF SinglesAreSingle, OneTarget, Targets
<1>7. CASE Reply
  BY <1>7 DEF Reply, SinglesAreSingle, OneTarget, Targets
<1>8. CASE queue' = <<>> /\ cur' = NoCommand
  BY <1>8 DEF SinglesAreSingle
<1>9. ASSUME NEW c \in Client, CallRemember(c) PROVE SinglesAreSingle'
  <2>1. PICK m \in Memory, v \in Vec : SubmitFresh(c, "remember", [i \in {m} |-> v])
    BY <1>9 DEF CallRemember
  <2> DEFINE cmd == [op |-> "remember", by |-> c, items |-> [i \in {m} |-> v]]
  <2>2. cmd \in Command
    BY OneItemCommand DEF Writes
  <2>3. OneTarget(cmd)
    BY DEF OneTarget, Targets
  <2>4. queue' = Append(queue, cmd) /\ cur' = cur
    BY <2>1 DEF SubmitFresh, Submit, actor
  <2> HIDE DEF cmd
  <2> QED BY <2>2, <2>3, <2>4, SinglesSubmit
<1>10. ASSUME NEW c \in Client, CallRememberBatch(c) PROVE SinglesAreSingle'
  <2> PICK ids \in SUBSET Memory : \E items \in [ids -> Vec] : SubmitFresh(c, "batch", items)
    BY <1>10 DEF CallRememberBatch
  <2>1. PICK items \in [ids -> Vec] : SubmitFresh(c, "batch", items)
    OBVIOUS
  <2> DEFINE cmd == [op |-> "batch", by |-> c, items |-> items]
  <2>2. cmd \in Command
    BY WriteCommand DEF Writes
  <2>3. OneTarget(cmd)
    BY DEF OneTarget
  <2>4. queue' = Append(queue, cmd) /\ cur' = cur
    BY <2>1 DEF SubmitFresh, Submit, actor
  <2> HIDE DEF cmd
  <2> QED BY <2>2, <2>3, <2>4, SinglesSubmit
<1>11. ASSUME NEW c \in Client, CallUpdate(c) PROVE SinglesAreSingle'
  <2>1. PICK m \in UNION asked, v \in Vec : Submit(c, "update", [i \in {m} |-> v])
    BY <1>11 DEF CallUpdate
  <2> DEFINE cmd == [op |-> "update", by |-> c, items |-> [i \in {m} |-> v]]
  <2>2. m \in Memory
    BY DEF TypeOK
  <2>3. cmd \in Command
    BY <2>2, OneItemCommand DEF Writes
  <2>4. OneTarget(cmd)
    BY <2>2 DEF OneTarget, Targets
  <2>5. queue' = Append(queue, cmd) /\ cur' = cur
    BY <2>1 DEF Submit, actor
  <2> HIDE DEF cmd
  <2> QED BY <2>3, <2>4, <2>5, SinglesSubmit
<1>12. ASSUME NEW c \in Client, CallForget(c) PROVE SinglesAreSingle'
  <2>1. PICK m \in UNION asked : Submit(c, "forget", [i \in {m} |-> NoVec])
    BY <1>12 DEF CallForget
  <2> DEFINE cmd == [op |-> "forget", by |-> c, items |-> [i \in {m} |-> NoVec]]
  <2>2. cmd \in Command
    BY OtherCommands DEF TypeOK
  <2>3. OneTarget(cmd)
    BY DEF OneTarget
  <2>4. queue' = Append(queue, cmd) /\ cur' = cur
    BY <2>1 DEF Submit, actor
  <2> HIDE DEF cmd
  <2> QED BY <2>2, <2>3, <2>4, SinglesSubmit
<1>13. ASSUME NEW c \in Client \cup {Nobody}, cur' = cur,
              queue' = Append(queue, [op |-> "save", by |-> c, items |-> NoItems])
       PROVE  SinglesAreSingle'
  <2> DEFINE cmd == [op |-> "save", by |-> c, items |-> NoItems]
  <2>1. cmd \in Command
    BY OtherCommands
  <2>2. OneTarget(cmd)
    BY DEF OneTarget
  <2>3. queue' = Append(queue, cmd)
    BY <1>13
  <2> HIDE DEF cmd
  <2> QED BY <1>13, <2>1, <2>2, <2>3, SinglesSubmit
<1>14. ASSUME NEW c \in Client, CallSave(c) PROVE SinglesAreSingle'
  BY <1>13, <1>14 DEF CallSave, Submit, actor
<1>15. ASSUME NEW save \in BOOLEAN, StopService(save) PROVE SinglesAreSingle'
  <2>1. CASE save
    BY <1>13, <1>15, <2>1 DEF StopService, actor
  <2>2. CASE ~save
    BY <1>6, <1>15, <2>2 DEF StopService, actor
  <2> QED BY <2>1, <2>2
<1>16. ASSUME NEW c \in Client, Abandon(c) PROVE SinglesAreSingle'
  BY <1>16, Abandoned DEF SinglesAreSingle, OneTarget, Targets
<1>17. ASSUME NEW m \in Memory, IndexVector(m) \/ IndexForget(m) \/ DrainRow(m) \/ ReplayRow(m)
       PROVE  SinglesAreSingle'
  BY <1>6, <1>17 DEF IndexVector, IndexForget, DrainRow, ReplayRow
<1>18. CASE Load \/ ReplayDone \/ UNCHANGED vars
  BY <1>6, <1>18 DEF Load, ReplayDone, vars, actor
<1>19. CASE ActorExit \/ Crash \/ CrashInSave
  BY <1>8, <1>19 DEF ActorExit, Crash, CrashInSave, EndProcess
<1> QED
  BY <1>1, <1>2, <1>3, <1>4, <1>5, <1>7, <1>9, <1>10, <1>11, <1>12, <1>14, <1>15, <1>16,
     <1>17, <1>18, <1>19 DEF Next, ActorStep, ReplayStep, CallerStep

\* A step that leaves the rows, the index and the result in hand alone.
LEMMA ServedQuiet ==
    ASSUME ServedInv, UNCHANGED <<store, index, pc, todo, ok, served>>,
           \/ cur' = cur
           \/ /\ cur # NoCommand /\ cur' # NoCommand
              /\ cur'.op = cur.op /\ cur'.items = cur.items
    PROVE  ResultInHand' /\ ServedAreStored' /\ OkMeansSearchable'
<1> USE DEF store, index
<1>1. ResultInHand'
  BY DEF ServedInv, ResultInHand, Findable, Visible, Targets
<1>2. ServedAreStored' /\ OkMeansSearchable'
  BY DEF ServedInv, ServedAreStored, OkMeansSearchable, Visible, ActiveSet
<1> QED BY <1>1, <1>2

\* A step to a state in which no write is in hand, which takes nobody out of the index or
\* the outbox, and serves nobody new.
LEMMA ServedIdle ==
    ASSUME ServedInv, UNCHANGED <<store, index, served>>, pc' \notin {"index", "down", "replay"},
           pc' = "reply" => todo' = {} /\ (ok' => cur'.op \notin Writes)
    PROVE  ResultInHand' /\ ServedAreStored' /\ OkMeansSearchable'
<1> USE DEF store, index
<1>1. ResultInHand'
  BY DEF ResultInHand
<1>2. ServedAreStored' /\ OkMeansSearchable'
  BY DEF ServedInv, ServedAreStored, OkMeansSearchable, Visible, ActiveSet
<1> QED BY <1>1, <1>2

\* Every step keeps what is said of answered writes.
LEMMA ServedStep == TypeOK /\ IndexInv /\ ServedInv /\ [Next]_vars => ServedInv'
<1> SUFFICES ASSUME TypeOK, IndexInv, ServedInv, [Next]_vars
             PROVE  ResultInHand' /\ ServedAreStored' /\ OkMeansSearchable'
  BY SinglesStep DEF ServedInv
<1> DEFINE Goal == ResultInHand' /\ ServedAreStored' /\ OkMeansSearchable'
<1>1. CASE TxRemember
  <2>1. /\ pc' = "index" /\ ok' = TRUE /\ cur' = Head1 /\ todo' = Targets(Head1)
        /\ served' = served /\ UNCHANGED index
        /\ \A m \in Targets(Head1) : status[m] = "absent"
        /\ \A m \in Memory \ Targets(Head1) : /\ status'[m] = status[m]
                                              /\ vec'[m] = vec[m]
                                              /\ pending'[m] = pending[m]
        /\ \A m \in Targets(Head1) \cap Memory : status'[m] = "active"
    BY <1>1 DEF TxRemember, Take
  <2>2. ResultInHand'
    BY <2>1 DEF ResultInHand, Targets
  <2>3. \A m \in served : m \notin Targets(Head1)
    BY <2>1 DEF ServedInv, ServedAreStored
  <2>4. ServedAreStored'
    BY <2>1, <2>3 DEF ServedInv, ServedAreStored, TypeOK
  <2>5. OkMeansSearchable'
    BY <2>1, <2>3 DEF ServedInv, OkMeansSearchable, ActiveSet, Visible, index, TypeOK
  <2> QED BY <2>2, <2>4, <2>5
<1>2. CASE TxUpdate
  <2>1. PICK m \in Targets(Head1) :
           /\ status[m] = "active"
           /\ vec' = [vec EXCEPT ![m] = Head1.items[m]]
           /\ pending' = [pending EXCEPT ![m] = Head1.items[m]]
           /\ served' = served \ {m}
           /\ Take("index", {m}, TRUE)
    BY <1>2 DEF TxUpdate
  <2>2. /\ pc' = "index" /\ ok' = TRUE /\ todo' = {m} /\ cur' = Head1 /\ cur' # NoCommand
        /\ UNCHANGED <<status, index>>
    BY <1>2, <2>1, Taken DEF TxUpdate, Take
  <2>3. OneTarget(cur)'
    BY <2>2, SinglesStep DEF ServedInv, SinglesAreSingle
  <2>4. Targets(cur)' = {m}
    BY <1>2, <2>1, <2>2, <2>3 DEF OneTarget, TxUpdate, Targets
  <2>5. ResultInHand'
    BY <2>2, <2>4 DEF ResultInHand
  <2>6. ServedAreStored'
    BY <2>1, <2>2 DEF ServedInv, ServedAreStored
  <2>7. OkMeansSearchable'
    BY <2>1, <2>2 DEF ServedInv, OkMeansSearchable, ActiveSet, Visible, index, TypeOK
  <2> QED BY <2>5, <2>6, <2>7
<1>3. CASE TxForget
  <2>1. PICK m \in Targets(Head1) : /\ status[m] # "absent"
                                    /\ status' = [status EXCEPT ![m] = "forgotten"]
                                    /\ Take("index", {m}, TRUE)
    BY <1>3 DEF TxForget
  <2>2. /\ pc' = "index" /\ ok' = TRUE /\ cur' = Head1 /\ cur'.op = "forget"
        /\ UNCHANGED <<vec, pending, index, served>>
    BY <1>3, <2>1 DEF TxForget, Take
  <2>3. ResultInHand'
    BY <2>2 DEF ResultInHand, Writes
  <2>4. ServedAreStored'
    BY <2>1, <2>2 DEF ServedInv, ServedAreStored, TypeOK
  <2>5. OkMeansSearchable'
    BY <2>1, <2>2 DEF ServedInv, OkMeansSearchable, ActiveSet, Visible, index, TypeOK
  <2> QED BY <2>3, <2>4, <2>5
<1>4. CASE TxRefused \/ TxFails
  BY <1>4, ServedIdle DEF TxRefused, TxFails, Take
<1>5. CASE SaveSnapshot
  BY <1>5, ServedIdle DEF SaveSnapshot, Take, Writes
<1>6. ASSUME NEW m \in Memory, IndexVector(m) PROVE Goal
  <2>1. /\ pc = "index" /\ ok = TRUE /\ m \in todo /\ cur # NoCommand /\ cur.op \in Writes
        /\ status[m] = "active" /\ vec[m] = cur.items[m] /\ pending[m] = vec[m]
        /\ todo \subseteq Targets(cur)
    BY <1>6 DEF IndexVector, IndexInv, CommandInHand, ServedInv, ResultInHand, TypeOK
  <2>2. UNCHANGED <<status, vec, pending, cur, served>> /\ todo' = todo \ {m}
    BY <1>6 DEF IndexVector, store
  <2>3. \A x \in Memory : Visible(x) \subseteq Visible(x)'
    BY <1>6 DEF IndexVector, IndexAdd, Visible, Graph, index, TypeOK
  <2>4. ServedAreStored'
    BY <1>6, <2>2 DEF IndexVector, ServedInv, ServedAreStored
  <2>5. OkMeansSearchable'
    BY <2>2, <2>3 DEF ServedInv, OkMeansSearchable, ActiveSet
  <2>6. \A x \in Memory : Findable(x) => Findable(x)'
    BY <2>2, <2>3 DEF Findable
  <2>7. \A x \in Targets(cur) \ todo : /\ x \in Memory /\ status[x] # "absent"
                                       /\ status[x] = "active" => Findable(x)
    <3>1. Targets(cur) \subseteq Memory
      BY <2>1, CommandParts DEF Targets, TypeOK
    <3>2. pc \in {"index", "reply"} /\ ok /\ cur.op \in Writes
      BY <2>1
    <3>3. \A x \in Targets(cur) \ todo : /\ status[x] # "absent"
                                         /\ status[x] = "active" => Findable(x)
      BY <3>2, Zenon DEF ServedInv, ResultInHand
    <3> QED BY <3>1, <3>3
  <2>8. CASE cur.items[m] \notin BadVec
    <3>1. ok' = ok /\ Findable(m)'
      BY <1>6, <2>1, <2>2, <2>8 DEF IndexVector, IndexAdd, Findable, Visible, Graph, TypeOK
    <3> QED BY <1>6, <2>1, <2>2, <2>4, <2>5, <2>6, <2>7, <3>1 DEF IndexVector, ResultInHand, Targets
  <2>9. CASE cur.items[m] \in BadVec /\ cur.op = "batch"
    <3>1. ok' = TRUE /\ Findable(m)'
      BY <1>6, <2>1, <2>2, <2>9 DEF IndexVector, Findable
    <3> QED BY <1>6, <2>1, <2>2, <2>4, <2>5, <2>6, <2>7, <3>1 DEF IndexVector, ResultInHand, Targets
  <2>10. CASE cur.items[m] \in BadVec /\ cur.op # "batch"
    <3>1. ok' = FALSE
      BY <1>6, <2>10 DEF IndexVector
    <3>2. OneTarget(cur)
      BY <2>1 DEF ServedInv, SinglesAreSingle
    <3>3. todo = {m}
      BY <2>1, <2>10, <3>2 DEF OneTarget, Writes
    <3> QED BY <1>6, <2>4, <2>5, <3>1, <3>3 DEF IndexVector, ResultInHand
  <2> QED BY <2>8, <2>9, <2>10
<1>7. ASSUME NEW m \in Memory, IndexForget(m) PROVE Goal
  <2>1. /\ pc = "index" /\ cur.op = "forget" /\ status[m] = "forgotten" /\ cur' = cur
        /\ todo' = {} /\ pc' = "reply" /\ UNCHANGED <<store, served>>
    BY <1>7 DEF IndexForget, IndexInv, CommandInHand
  <2>2. \A x \in Memory \ {m} : Visible(x)' = Visible(x)
    BY <1>7 DEF IndexForget, IndexRemove, Visible
  <2>3. ResultInHand'
    BY <2>1 DEF ResultInHand, Writes
  <2>4. ServedAreStored' /\ OkMeansSearchable'
    BY <2>1, <2>2 DEF ServedInv, ServedAreStored, OkMeansSearchable, ActiveSet, store
  <2> QED BY <2>3, <2>4
<1>8. ASSUME NEW m \in Memory, DrainRow(m) PROVE Goal
  <2>1. vec[m] \in Visible(m)
    BY <1>8 DEF DrainRow, IndexInv, CommandInHand
  <2>2. /\ UNCHANGED <<status, vec, served, index>> /\ pc' \in {"recv", "drain"}
        /\ \A x \in Memory \ {m} : pending'[x] = pending[x]
    BY <1>8 DEF DrainRow, TypeOK
  <2>3. \A x \in Memory : Visible(x)' = Visible(x)
    BY <2>2 DEF Visible, index
  <2>4. ResultInHand'
    BY <2>2 DEF ResultInHand
  <2>5. ServedAreStored'
    BY <2>2 DEF ServedInv, ServedAreStored
  <2>6. OkMeansSearchable'
    BY <2>1, <2>2, <2>3 DEF ServedInv, OkMeansSearchable, ActiveSet
  <2> QED BY <2>4, <2>5, <2>6
<1>9. CASE Reply
  <2>1. /\ pc = "reply" /\ todo = {} /\ pc' \in {"recv", "drain"} /\ UNCHANGED <<store, index>>
        /\ \A m \in served' \ served : m \in Targets(cur) /\ ok /\ cur.op \in Writes
    BY <1>9 DEF Reply, ServedInv, ResultInHand
  <2>2. \A m \in served' : m \in Memory /\ (m \in served \/ /\ status[m] # "absent"
                                                            /\ status[m] = "active" => Findable(m))
    <3>1. cur \in Command
      BY <2>1 DEF IndexInv, CommandInHand, TypeOK
    <3>2. Targets(cur) \subseteq Memory
      BY <3>1, CommandParts DEF Targets
    <3>3. ASSUME NEW m \in served' \ served
          PROVE  m \in Memory /\ status[m] # "absent" /\ (status[m] = "active" => Findable(m))
      <4>1. m \in Targets(cur) \ todo /\ ok /\ cur.op \in Writes /\ pc \in {"index", "reply"}
        BY <2>1, <3>3
      <4>2. status[m] # "absent" /\ (status[m] = "active" => Findable(m))
        BY <4>1, Zenon DEF ServedInv, ResultInHand
      <4> QED BY <3>2, <4>1, <4>2
    <3> QED BY <3>3 DEF TypeOK
  <2>3. ResultInHand'
    BY <2>1 DEF ResultInHand
  <2>4. ServedAreStored'
    BY <2>1, <2>2 DEF ServedInv, ServedAreStored, store
  <2>5. OkMeansSearchable'
    BY <2>1, <2>2 DEF ServedInv, OkMeansSearchable, Findable, ActiveSet, Visible, store, index
  <2> QED BY <2>3, <2>4, <2>5
<1>10. ASSUME served' = {}, pc' \in {"down", "replay", "recv"} PROVE Goal
  BY <1>10 DEF ResultInHand, ServedAreStored, OkMeansSearchable
<1>11. CASE ActorExit \/ Crash \/ CrashInSave
  BY <1>10, <1>11 DEF ActorExit, Crash, CrashInSave, EndProcess
<1>12. CASE Load
  BY <1>10, <1>12 DEF Load, ServedInv, ServedAreStored
<1>13. CASE ReplayDone
  BY <1>10, <1>13 DEF ReplayDone, ServedInv, ServedAreStored
<1>14. ASSUME NEW m \in Memory, ReplayRow(m) PROVE Goal
  BY <1>10, <1>14 DEF ReplayRow, ServedInv, ServedAreStored
<1>15. ASSUME NEW c \in Client, NEW op, NEW items, Submit(c, op, items) PROVE Goal
  BY <1>15, ServedQuiet DEF Submit, actor
<1>16. ASSUME NEW c \in Client,
              \/ CallRemember(c) \/ CallRememberBatch(c) \/ CallUpdate(c) \/ CallForget(c)
              \/ CallSave(c)
       PROVE  Goal
  <2> HIDE DEF Goal
  <2> QED BY <1>15, <1>16 DEF CallRemember, CallRememberBatch, CallUpdate, CallForget, CallSave,
                              SubmitFresh
<1>17. ASSUME NEW c \in Client, Abandon(c) PROVE Goal
  BY <1>17, Abandoned, ServedQuiet DEF Abandon
<1>18. ASSUME NEW save \in BOOLEAN, StopService(save) PROVE Goal
  BY <1>18, ServedQuiet DEF StopService, actor
<1>19. CASE UNCHANGED vars
  BY <1>19, ServedQuiet DEF vars, actor
<1> HIDE DEF Goal
<1>20. Goal
  BY <1>1, <1>2, <1>3, <1>4, <1>5, <1>6, <1>7, <1>8, <1>9, <1>11, <1>12, <1>13, <1>14,
     <1>16, <1>17, <1>18, <1>19 DEF Next, ActorStep, ReplayStep, CallerStep, Goal
<1> QED BY <1>20 DEF Goal
-----------------------------------------------------------------------------
(* The writer implements MemoryPromise.                                     *)

\* A step that leaves the commands, what was asked and the answers alone.
LEMMA PromiseQuiet ==
    ASSUME PromiseInv, UNCHANGED <<queue, cur, asked, answer>>,
           pc' \in {"index", "reply"} => pc \in {"index", "reply"}
    PROVE  PromiseInv'
<1>1. QueuedOnce'
  BY DEF PromiseInv, QueuedOnce, Unanswered, New, Targets
<1>2. InHandOnce'
  BY DEF PromiseInv, InHandOnce, Unanswered, New, Targets
<1>3. AnswersWereAsked'
  BY DEF PromiseInv, AnswersWereAsked
<1> QED BY <1>1, <1>2, <1>3 DEF PromiseInv

\* A command whose new memories nobody asked for before goes to the end of the channel.
LEMMA PromiseSubmit ==
    ASSUME TypeOK, PromiseInv, NEW cmd \in Command, queue' = Append(queue, cmd),
           UNCHANGED <<cur, pc, answer>>, asked \subseteq asked',
           New(cmd) \cap UNION asked = {},
           cmd.op \in {"remember", "batch"} => Targets(cmd) \in asked'
    PROVE  PromiseInv'
<1>1. \A i \in DOMAIN queue' : \/ i \in DOMAIN queue /\ queue'[i] = queue[i]
                               \/ i = Len(queue) + 1 /\ queue'[i] = cmd
  BY Appended
<1>2. Len(queue) + 1 \notin DOMAIN queue
  BY DEF TypeOK
<1>3. \A x \in Command : New(x) \subseteq Memory
  BY CommandParts DEF New, Targets
<1>4. \A i \in DOMAIN queue : New(queue[i]) \subseteq UNION asked
  BY DEF PromiseInv, QueuedOnce, Unanswered, New
<1>5. pc \in {"index", "reply"} => New(cur) \subseteq UNION asked
  BY DEF PromiseInv, InHandOnce, Unanswered, New
<1>6. QueuedOnce'
  <2>1. ASSUME NEW i \in DOMAIN queue' PROVE Unanswered(queue[i])'
    <3>1. CASE i \in DOMAIN queue /\ queue'[i] = queue[i]
      <4>1. Unanswered(queue[i])
        BY <3>1 DEF PromiseInv, QueuedOnce
      <4> QED BY <3>1, <4>1 DEF Unanswered, New, Targets
    <3>2. CASE queue'[i] = cmd
      <4>1. \A m \in New(cmd) : answer[m] = "none"
        BY <1>3 DEF PromiseInv, AnswersWereAsked
      <4> QED BY <3>2, <4>1 DEF Unanswered, New, Targets
    <3> QED BY <1>1, <3>1, <3>2
  <2>2. ASSUME NEW i \in DOMAIN queue', NEW j \in DOMAIN queue', i # j
        PROVE  New(queue[i])' \cap New(queue[j])' = {}
    <3>1. New(queue[i])' = New(queue'[i]) /\ New(queue[j])' = New(queue'[j])
      BY DEF New, Targets
    <3>2. CASE i \in DOMAIN queue /\ j \in DOMAIN queue
      BY <1>1, <1>2, <2>2, <3>1, <3>2 DEF PromiseInv, QueuedOnce
    <3>3. CASE i \in DOMAIN queue /\ j \notin DOMAIN queue
      BY <1>1, <1>2, <1>4, <3>1, <3>3
    <3>4. CASE i \notin DOMAIN queue /\ j \in DOMAIN queue
      BY <1>1, <1>2, <1>4, <3>1, <3>4
    <3>5. CASE i \notin DOMAIN queue /\ j \notin DOMAIN queue
      BY <1>1, <2>2, <3>5
    <3> QED BY <3>2, <3>3, <3>4, <3>5
  <2> QED BY <2>1, <2>2 DEF QueuedOnce
<1>7. InHandOnce'
  <2> SUFFICES ASSUME pc \in {"index", "reply"}
               PROVE  /\ Unanswered(cur)'
                      /\ \A i \in DOMAIN queue' : New(cur)' \cap New(queue[i])' = {}
    BY DEF InHandOnce
  <2>1. Unanswered(cur)'
    BY DEF PromiseInv, InHandOnce, Unanswered, New, Targets
  <2>2. ASSUME NEW i \in DOMAIN queue' PROVE New(cur)' \cap New(queue[i])' = {}
    <3>1. New(queue[i])' = New(queue'[i]) /\ New(cur)' = New(cur)
      BY DEF New, Targets
    <3>2. CASE i \in DOMAIN queue /\ queue'[i] = queue[i]
      BY <3>1, <3>2 DEF PromiseInv, InHandOnce
    <3>3. CASE queue'[i] = cmd
      BY <1>5, <3>1, <3>3
    <3> QED BY <1>1, <3>2, <3>3
  <2> QED BY <2>1, <2>2
<1>8. AnswersWereAsked'
  BY DEF PromiseInv, AnswersWereAsked
<1> QED BY <1>6, <1>7, <1>8 DEF PromiseInv

\* The actor takes the first command in hand.
LEMMA PromiseTake ==
    ASSUME TypeOK, PromiseInv, NEW next, NEW targets, NEW result, Take(next, targets, result)
    PROVE  PromiseInv'
<1>1. UNCHANGED <<asked, answer>>
  BY DEF Take
<1>2. QueuedOnce'
  <2>1. ASSUME NEW i \in DOMAIN queue' PROVE Unanswered(queue[i])'
    <3>1. queue'[i] = queue[i + 1] /\ Unanswered(queue[i + 1])
      BY Taken DEF PromiseInv, QueuedOnce
    <3> QED BY <1>1, <3>1 DEF Unanswered, New, Targets
  <2>2. ASSUME NEW i \in DOMAIN queue', NEW j \in DOMAIN queue', i # j
        PROVE  New(queue[i])' \cap New(queue[j])' = {}
    <3>1. New(queue[i])' = New(queue'[i]) /\ New(queue[j])' = New(queue'[j])
      BY DEF New, Targets
    <3>2. /\ queue'[i] = queue[i + 1] /\ queue'[j] = queue[j + 1]
          /\ i + 1 \in DOMAIN queue /\ j + 1 \in DOMAIN queue
      BY Taken
    <3>3. i + 1 # j + 1
      <4>1. queue' = Tail(queue) /\ queue \in Seq(Command) /\ queue # <<>>
        BY DEF Take, TypeOK
      <4>2. i \in Nat /\ j \in Nat
        BY <4>1
      <4> QED BY <2>2, <4>2
    <3> QED BY <3>1, <3>2, <3>3 DEF PromiseInv, QueuedOnce
  <2> QED BY <2>1, <2>2 DEF QueuedOnce
<1>3. InHandOnce'
  <2>1. cur' = queue[1] /\ 1 \in DOMAIN queue
    BY Taken
  <2>2. Unanswered(cur)'
    <3>1. Unanswered(queue[1])
      BY <2>1 DEF PromiseInv, QueuedOnce
    <3> QED BY <1>1, <2>1, <3>1 DEF Unanswered, New, Targets
  <2>3. ASSUME NEW i \in DOMAIN queue' PROVE New(cur)' \cap New(queue[i])' = {}
    <3>1. New(queue[i])' = New(queue'[i]) /\ New(cur)' = New(cur')
      BY DEF New, Targets
    <3>2. queue'[i] = queue[i + 1] /\ i + 1 \in DOMAIN queue /\ i + 1 # 1
      BY Taken
    <3> QED BY <2>1, <3>1, <3>2 DEF PromiseInv, QueuedOnce
  <2> QED BY <2>2, <2>3 DEF InHandOnce
<1>4. AnswersWereAsked'
  BY <1>1 DEF PromiseInv, AnswersWereAsked
<1> QED BY <1>2, <1>3, <1>4 DEF PromiseInv

\* The answer goes to those who asked for the memories of the command in hand only.
LEMMA PromiseReply == TypeOK /\ IndexInv /\ PromiseInv /\ Reply => PromiseInv'
<1> SUFFICES ASSUME TypeOK, IndexInv, PromiseInv, Reply PROVE PromiseInv'
  OBVIOUS
<1>1. /\ pc = "reply" /\ pc' \notin {"index", "reply"} /\ UNCHANGED <<queue, asked>>
      /\ \A m \in Memory : m \notin New(cur) => answer'[m] = answer[m]
  BY DEF Reply, TypeOK, New
<1>2. \A i \in DOMAIN queue : queue[i] \in Command
  BY DEF TypeOK
<1>3. \A i \in DOMAIN queue : New(queue[i]) \subseteq Memory
  BY <1>2, CommandParts DEF New, Targets
<1>4. QueuedOnce'
  <2>1. ASSUME NEW i \in DOMAIN queue PROVE Unanswered(queue[i])'
    <3>1. Unanswered(queue[i]) /\ New(cur) \cap New(queue[i]) = {}
      BY <1>1 DEF PromiseInv, QueuedOnce, InHandOnce
    <3>2. \A m \in New(queue[i]) : answer'[m] = "none"
      BY <1>1, <1>3, <3>1 DEF Unanswered
    <3> QED BY <1>1, <3>1, <3>2 DEF Unanswered, New, Targets
  <2> QED BY <1>1, <2>1 DEF PromiseInv, QueuedOnce, New, Targets
<1>5. InHandOnce'
  BY <1>1 DEF InHandOnce
<1>6. AnswersWereAsked'
  <2>1. New(cur) \subseteq UNION asked
    BY <1>1 DEF PromiseInv, InHandOnce, Unanswered, New
  <2> QED BY <1>1, <2>1 DEF PromiseInv, AnswersWereAsked
<1> QED BY <1>4, <1>5, <1>6 DEF PromiseInv

\* Every step keeps commands apart and unanswered: the ids of a call are fresh.
LEMMA PromiseInvStep == TypeOK /\ IndexInv /\ PromiseInv /\ [Next]_vars => PromiseInv'
<1> SUFFICES ASSUME TypeOK, IndexInv, PromiseInv, [Next]_vars PROVE PromiseInv'
  OBVIOUS
<1>1. CASE TxRemember \/ TxUpdate \/ TxForget
  BY <1>1, PromiseTake DEF TxRemember, TxUpdate, TxForget
<1>2. CASE TxRefused \/ TxFails \/ SaveSnapshot
  BY <1>2, PromiseTake DEF TxRefused, TxFails, SaveSnapshot
<1>3. ASSUME NEW m \in Memory, IndexVector(m) \/ IndexForget(m) PROVE PromiseInv'
  BY <1>3, PromiseQuiet DEF IndexVector, IndexForget
<1>4. ASSUME NEW m \in Memory, DrainRow(m) \/ ReplayRow(m) PROVE PromiseInv'
  BY <1>4, PromiseQuiet DEF DrainRow, ReplayRow
<1>5. CASE Load \/ ReplayDone \/ UNCHANGED vars
  BY <1>5, PromiseQuiet DEF Load, ReplayDone, vars, actor
<1>6. CASE Reply
  BY <1>6, PromiseReply
<1>7. CASE ActorExit \/ Crash \/ CrashInSave
  <2>1. queue' = <<>> /\ pc' = "down" /\ UNCHANGED <<asked, answer>>
    BY <1>7 DEF ActorExit, Crash, CrashInSave, EndProcess
  <2> QED BY <2>1 DEF PromiseInv, QueuedOnce, InHandOnce, AnswersWereAsked
<1>8. ASSUME NEW c \in Client, NEW op \in {"remember", "batch"}, NEW ids \in SUBSET Memory,
             NEW items \in [ids -> Vec], SubmitFresh(c, op, items)
      PROVE  PromiseInv'
  <2> DEFINE cmd == [op |-> op, by |-> c, items |-> items]
  <2>1. cmd \in Command
    BY WriteCommand DEF Writes
  <2>2. New(cmd) = ids /\ Targets(cmd) = ids
    BY DEF New, Targets
  <2>3. /\ ids \cap UNION asked = {} /\ asked' = asked \cup {ids}
        /\ queue' = Append(queue, cmd) /\ UNCHANGED <<cur, pc, answer>>
    BY <1>8 DEF SubmitFresh, Submit, actor
  <2> HIDE DEF cmd
  <2> QED BY <2>1, <2>2, <2>3, PromiseSubmit
<1>9. ASSUME NEW c \in Client, CallRemember(c) PROVE PromiseInv'
  <2>1. PICK m \in Memory, v \in Vec : SubmitFresh(c, "remember", [i \in {m} |-> v])
    BY <1>9 DEF CallRemember
  <2>2. [i \in {m} |-> v] \in [{m} -> Vec] /\ {m} \in SUBSET Memory
    OBVIOUS
  <2> QED BY <1>8, <2>1, <2>2
<1>10. ASSUME NEW c \in Client, CallRememberBatch(c) PROVE PromiseInv'
  BY <1>8, <1>10 DEF CallRememberBatch
<1>11. ASSUME NEW cmd \in Command, cmd.op \notin {"remember", "batch"},
              queue' = Append(queue, cmd), UNCHANGED <<cur, pc, asked, answer>>
       PROVE  PromiseInv'
  <2>1. New(cmd) = {}
    BY <1>11 DEF New
  <2> QED BY <1>11, <2>1, PromiseSubmit
<1>12. ASSUME NEW c \in Client, CallUpdate(c) PROVE PromiseInv'
  <2>1. PICK m \in UNION asked, v \in Vec :
           Submit(c, "update", [i \in {m} |-> v]) /\ UNCHANGED asked
    BY <1>12 DEF CallUpdate
  <2> DEFINE cmd == [op |-> "update", by |-> c, items |-> [i \in {m} |-> v]]
  <2>2. m \in Memory
    BY DEF TypeOK
  <2>3. cmd \in Command /\ cmd.op = "update"
    BY <2>2, OneItemCommand DEF Writes
  <2>4. queue' = Append(queue, cmd) /\ UNCHANGED <<cur, pc, asked, answer>>
    BY <2>1 DEF Submit, actor
  <2> HIDE DEF cmd
  <2> QED BY <1>11, <2>3, <2>4
<1>13. ASSUME NEW c \in Client, CallForget(c) PROVE PromiseInv'
  <2>1. PICK m \in UNION asked :
           Submit(c, "forget", [i \in {m} |-> NoVec]) /\ UNCHANGED asked
    BY <1>13 DEF CallForget
  <2> DEFINE cmd == [op |-> "forget", by |-> c, items |-> [i \in {m} |-> NoVec]]
  <2>2. cmd \in Command /\ cmd.op = "forget"
    BY OtherCommands DEF TypeOK
  <2>3. queue' = Append(queue, cmd) /\ UNCHANGED <<cur, pc, asked, answer>>
    BY <2>1 DEF Submit, actor
  <2> HIDE DEF cmd
  <2> QED BY <1>11, <2>2, <2>3
<1>14. ASSUME NEW c \in Client \cup {Nobody}, UNCHANGED <<cur, pc, asked, answer>>,
              queue' = Append(queue, [op |-> "save", by |-> c, items |-> NoItems])
       PROVE  PromiseInv'
  <2> DEFINE cmd == [op |-> "save", by |-> c, items |-> NoItems]
  <2>1. cmd \in Command /\ cmd.op = "save"
    BY OtherCommands
  <2>2. queue' = Append(queue, cmd)
    BY <1>14
  <2> HIDE DEF cmd
  <2> QED BY <1>11, <1>14, <2>1, <2>2
<1>15. ASSUME NEW c \in Client, CallSave(c) PROVE PromiseInv'
  BY <1>14, <1>15 DEF CallSave, Submit, actor
<1>16. ASSUME NEW save \in BOOLEAN, StopService(save) PROVE PromiseInv'
  <2>1. CASE save
    BY <1>14, <1>16, <2>1 DEF StopService, actor
  <2>2. CASE ~save
    BY <1>16, <2>2, PromiseQuiet DEF StopService, actor
  <2> QED BY <2>1, <2>2
<1>17. ASSUME NEW c \in Client, Abandon(c) PROVE PromiseInv'
  <2>1. /\ DOMAIN queue' = DOMAIN queue
        /\ \A i \in DOMAIN queue : New(queue[i])' = New(queue[i])
                                   /\ Targets(queue[i])' = Targets(queue[i])
                                   /\ queue'[i].op = queue[i].op
    BY <1>17, Abandoned DEF New, Targets
  <2>2. pc' = pc /\ UNCHANGED <<asked, answer>>
    BY <1>17 DEF Abandon
  <2>3. /\ New(cur)' = New(cur) /\ Targets(cur)' = Targets(cur)
        /\ Unanswered(cur) => Unanswered(cur)'
    BY <1>17, <2>2, Abandoned DEF New, Targets, Unanswered
  <2>4. QueuedOnce'
    BY <2>1, <2>2 DEF PromiseInv, QueuedOnce, Unanswered
  <2>5. InHandOnce'
    BY <2>1, <2>2, <2>3 DEF PromiseInv, InHandOnce
  <2>6. AnswersWereAsked'
    BY <2>2 DEF PromiseInv, AnswersWereAsked
  <2> QED BY <2>4, <2>5, <2>6 DEF PromiseInv
<1> QED
  BY <1>1, <1>2, <1>3, <1>4, <1>5, <1>6, <1>7, <1>9, <1>10, <1>12, <1>13, <1>15, <1>16, <1>17
     DEF Next, ActorStep, ReplayStep, CallerStep

\* Every step of the writer is a step of the promise, or leaves what it speaks of alone.
LEMMA PromiseStep ==
    TypeOK /\ IndexInv /\ ServedInv /\ PromiseInv /\ [Next]_vars
        => [Promise!Next]_(Promise!promiseVars)
<1> SUFFICES ASSUME TypeOK, IndexInv, ServedInv, PromiseInv, [Next]_vars
             PROVE  Promise!Next \/ UNCHANGED <<asked, status, vec, answer>>
  BY DEF Promise!promiseVars
<1> DEFINE Kept == UNCHANGED <<asked, status, vec, answer>>
<1>1. CASE TxRemember
  <2>1. /\ Head1 \in Command /\ Head1.op \in {"remember", "batch"} /\ Head1 = queue[1]
        /\ 1 \in DOMAIN queue
    BY <1>1, HeadAndTail DEF TxRemember, TypeOK, Head1
  <2>2. Targets(Head1) \in asked /\ \A m \in Targets(Head1) : answer[m] = "none"
    BY <2>1 DEF PromiseInv, QueuedOnce, Unanswered, New
  <2>3. Head1.items \in [Targets(Head1) -> Vec]
    BY <2>1 DEF Command, Writes, Targets
  <2>4. Promise!Store(Targets(Head1), Head1.items)
    BY <1>1, <2>2 DEF TxRemember, Take, Promise!Store
  <2> QED BY <2>2, <2>3, <2>4 DEF Promise!Next
<1>2. CASE TxUpdate
  <2>1. Head1 \in Command /\ Head1.op \in Writes
    BY <1>2, HeadAndTail DEF TxUpdate, TypeOK, Writes
  <2>2. PICK m \in Targets(Head1) : /\ status[m] = "active"
                                    /\ vec' = [vec EXCEPT ![m] = Head1.items[m]]
    BY <1>2 DEF TxUpdate
  <2>3. m \in Memory /\ Head1.items[m] \in Vec
    BY <2>1, WriteItems DEF Targets
  <2>4. Promise!Rewrite(m, Head1.items[m])
    BY <1>2, <2>2 DEF TxUpdate, Take, Promise!Rewrite
  <2> QED BY <2>3, <2>4 DEF Promise!Next
<1>3. CASE TxForget
  <2>1. Head1 \in Command
    BY <1>3, HeadAndTail DEF TxForget, TypeOK
  <2>2. PICK m \in Targets(Head1) : /\ status[m] # "absent"
                                    /\ status' = [status EXCEPT ![m] = "forgotten"]
    BY <1>3 DEF TxForget
  <2>3. m \in Memory
    BY <2>1, CommandParts DEF Targets
  <2>4. status[m] \in {"active", "forgotten"}
    BY <2>2, <2>3 DEF TypeOK
  <2>5. Promise!Forget(m)
    BY <1>3, <2>2, <2>4 DEF TxForget, Take, Promise!Forget
  <2> QED BY <2>3, <2>5 DEF Promise!Next
<1>4. CASE Reply
  <2>1. pc = "reply" /\ cur \in Command /\ todo = {}
    BY <1>4 DEF Reply, IndexInv, CommandInHand, ServedInv, ResultInHand, TypeOK
  <2>2. CASE cur.by # Nobody /\ cur.op \in {"remember", "batch"}
    <3> DEFINE said == IF ok THEN "ok" ELSE "err"
    <3>1. Targets(cur) \in asked /\ \A m \in Targets(cur) : answer[m] = "none"
      BY <2>1, <2>2 DEF PromiseInv, InHandOnce, Unanswered, New
    <3>2. ok => \A m \in Targets(cur) : status[m] # "absent"
      <4>1. pc \in {"index", "reply"} /\ cur.op \in Writes /\ Targets(cur) \ todo = Targets(cur)
        BY <2>1, <2>2 DEF Writes
      <4> QED BY <4>1, Zenon DEF ServedInv, ResultInHand
    <3>3. said \in {"ok", "err"} /\ (said = "ok" => ok)
      BY DEF TypeOK
    <3>4. answer' = [m \in Memory |-> IF m \in Targets(cur) THEN said ELSE answer[m]]
      BY <1>4, <2>2 DEF Reply
    <3>5. UNCHANGED <<asked, status, vec>>
      BY <1>4 DEF Reply, store
    <3> HIDE DEF said
    <3>6. Promise!Answer(Targets(cur), said)
      BY <3>1, <3>2, <3>3, <3>4, <3>5 DEF Promise!Answer
    <3> QED BY <3>1, <3>3, <3>6 DEF Promise!Next
  <2>3. CASE ~(cur.by # Nobody /\ cur.op \in {"remember", "batch"})
    BY <1>4, <2>3 DEF Reply, store
  <2> QED BY <2>2, <2>3
<1>5. ASSUME NEW c \in Client, NEW op, NEW ids \in SUBSET Memory, ids # {},
             NEW items \in [ids -> Vec], SubmitFresh(c, op, items)
      PROVE  Promise!Next
  <2>1. Promise!Ask(ids)
    BY <1>5 DEF SubmitFresh, Submit, store, Promise!Ask
  <2>2. ids \in (SUBSET Memory) \ {{}}
    BY <1>5
  <2> QED BY <2>1, <2>2, Zenon DEF Promise!Next
<1>6. ASSUME NEW c \in Client, CallRemember(c) PROVE Promise!Next
  <2>1. PICK m \in Memory, v \in Vec : SubmitFresh(c, "remember", [i \in {m} |-> v])
    BY <1>6 DEF CallRemember
  <2> DEFINE ids == {m}
             items == [i \in ids |-> v]
  <2>2. ids \in SUBSET Memory /\ ids # {} /\ items \in [ids -> Vec]
    OBVIOUS
  <2>3. SubmitFresh(c, "remember", items)
    BY <2>1
  <2> HIDE DEF items, ids
  <2> QED BY <1>5, <2>2, <2>3
<1>7. ASSUME NEW c \in Client, CallRememberBatch(c) PROVE Promise!Next
  <2>1. PICK ids \in (SUBSET Memory) \ {{}} :
           \E items \in [ids -> Vec] : SubmitFresh(c, "batch", items)
    BY <1>7 DEF CallRememberBatch
  <2>2. PICK items \in [ids -> Vec] : SubmitFresh(c, "batch", items)
    BY <2>1
  <2>3. ids \in SUBSET Memory /\ ids # {}
    BY <2>1
  <2> QED BY <1>5, <2>2, <2>3
<1>8. ASSUME NEW c \in Client, CallUpdate(c) \/ CallForget(c) \/ CallSave(c) \/ Abandon(c)
      PROVE  Kept
  BY <1>8 DEF CallUpdate, CallForget, CallSave, Abandon, Submit, store
<1>9. CASE TxRefused \/ TxFails \/ SaveSnapshot
  BY <1>9 DEF TxRefused, TxFails, SaveSnapshot, Take, store
<1>10. ASSUME NEW m \in Memory, IndexVector(m) \/ IndexForget(m) \/ DrainRow(m) \/ ReplayRow(m)
       PROVE  Kept
  BY <1>10 DEF IndexVector, IndexForget, DrainRow, ReplayRow, store
<1>11. CASE Load \/ ReplayDone \/ UNCHANGED vars
  BY <1>11 DEF Load, ReplayDone, vars, store
<1>12. CASE ActorExit \/ Crash \/ CrashInSave
  BY <1>12 DEF ActorExit, Crash, CrashInSave, EndProcess, store
<1>13. ASSUME NEW save \in BOOLEAN, StopService(save) PROVE Kept
  BY <1>13 DEF StopService, store
<1> QED
  BY <1>1, <1>2, <1>3, <1>4, <1>6, <1>7, <1>8, <1>9, <1>10, <1>11, <1>12, <1>13
     DEF Next, ActorStep, ReplayStep, CallerStep
-----------------------------------------------------------------------------
(* The theorems.                                                            *)

\* At the start nothing is queued, in hand, asked or answered.
LEMMA OthersInit == Init => ServedInv /\ PromiseInv
<1> SUFFICES ASSUME Init PROVE ServedInv /\ PromiseInv
  OBVIOUS
<1>1. DOMAIN queue = {} /\ pc = "down" /\ served = {} /\ cur = NoCommand
      /\ \A m \in Memory : answer[m] = "none"
  BY DEF Init
<1>2. ServedInv
  BY <1>1 DEF ServedInv, SinglesAreSingle, ResultInHand, ServedAreStored, OkMeansSearchable
<1>3. PromiseInv
  BY <1>1 DEF PromiseInv, QueuedOnce, InHandOnce, AnswersWereAsked
<1> QED BY <1>2, <1>3

\* The types and the three inductive invariants hold in every reachable state.
THEOREM Invariants == Spec => [](TypeOK /\ IndexInv /\ ServedInv /\ PromiseInv)
<1> DEFINE Inv == TypeOK /\ IndexInv /\ ServedInv /\ PromiseInv
<1>1. Init => Inv
  BY TypeInit, IndexInit, OthersInit
<1>2. Inv /\ [Next]_vars => Inv'
  BY TypeStep, IndexStep, ServedStep, PromiseInvStep DEF IndexInv
<1> QED BY <1>1, <1>2, PTL DEF Spec

\* Every variable of the writer keeps its type: the actor never indexes, replays or drains
\* a memory without an embedding, and its channel stays within the capacity.
THEOREM TypeCorrect == Spec => []TypeOK
BY Invariants, PTL

\* Whatever crashes, failed transactions, refused vectors, broken saves and restarts came
\* before, a running process holds each recoverable active memory in its index or outbox.
THEOREM NothingUncovered == Spec => []IndexCoverage
<1>1. IndexInv => IndexCoverage
  BY DEF IndexInv
<1> QED BY <1>1, Invariants, PTL

\* A forgotten memory stays out of searches through every reload, rebuild and replay.
THEOREM ForgottenStaysHidden == Spec => []ForgottenHidden
<1>1. IndexInv => ForgottenHidden
  BY DEF IndexInv
<1> QED BY <1>1, Invariants, PTL

\* No outbox row survives the write that supersedes its embedding.
THEOREM OutboxIsCurrent == Spec => []PendingIsCurrent
<1>1. IndexInv => PendingIsCurrent
  BY DEF IndexInv
<1> QED BY <1>1, Invariants, PTL

\* Stopping with the index saved is safe, however the process got there.
THEOREM SavedStopIsSafe == Spec => SavedStopLosesNothing
BY Invariants, SavedStopStep, PTL DEF Spec, SavedStopLosesNothing

\* A caller told Ok finds what it wrote, by its current embedding, for as long as the process
\* runs and the memory is active; only the refused items of a batch wait in the outbox.
THEOREM OkIsSearchable == Spec => []OkMeansSearchable
<1>1. ServedInv => OkMeansSearchable
  BY DEF ServedInv
<1> QED BY <1>1, Invariants, PTL

\* The writer, with its index, outbox, snapshots, channel and crashes, implements the
\* abstract store of MemoryPromise.
THEOREM WriterKeepsPromise == Spec => KeepsPromise
<1>1. Init => Promise!Init
  BY DEF Init, Promise!Init
<1> QED BY <1>1, Invariants, PromiseStep, PTL DEF Spec, KeepsPromise, Promise!Spec
=============================================================================
