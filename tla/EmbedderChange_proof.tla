-------------------------- MODULE EmbedderChange_proof --------------------------
(***************************************************************************)
(* For any number of memories, chunks and models, and wherever a command   *)
(* is cut off: an untainted library opens and searches one vector space,   *)
(* and the model last migrated to has a row of every memory.               *)
(***************************************************************************)
EXTENDS EmbedderChange, TLAPS

USE EmbedderChangeAssumption

\* Vectors are pairs of an item and a model, and what is stored has a row.
LEMMA VectorFacts ==
    /\ \A v \in Vector : v[1] \in Item /\ v[2] \in Model /\ v = <<v[1], v[2]>>
    /\ \A i \in Item, m \in Model : <<i, m>> \in Vector
    /\ Memory \subseteq Item
    /\ \A i : i \in Stored <=> \E v \in rows : v[1] = i
BY DEF Vector, Item, Stored

\* What opening the library gives: the vectors of the snapshot and of the outbox are in the
\* index or still in the outbox, and without a snapshot all rows of the model are.
LEMMA OpenFacts ==
    TypeOK /\ OneSpaceUntainted /\ Open =>
        /\ running' = config
        /\ graph' \subseteq rows \cup snap \cup pending /\ pending' \subseteq pending
        /\ snap \cup pending \subseteq graph' \cup pending'
        /\ snap = {} => Of(config) \subseteq graph'
        /\ ~tainted' => ~tainted /\ \A v \in graph' : v[2] = config
        /\ tainted' \in BOOLEAN
        /\ lost' = IF snap = {} THEN {} ELSE lost
BY DEF Open, OneSpaceUntainted, Of, TypeOK

\* What the end of a process leaves: its snapshot or the one before, and in lost the items
\* that the next start will not index.
LEMMA EndFacts ==
    \A save \in BOOLEAN : TypeOK /\ End(save) =>
        /\ pc' = "down" /\ running' = NoModel /\ graph' = {} /\ todo' = {}
        /\ gc' = FALSE /\ full' = FALSE /\ failed' = FALSE /\ done' = FALSE
        /\ backup' = NoModel /\ target' = NoModel
        /\ snap' = snap \/ (snap' = graph /\ save)
        /\ snap' # {} => lost' = lost \cup {v[1] : v \in graph \ (snap' \cup pending)}
        /\ lost' \subseteq lost \cup {v[1] : v \in graph}
BY DEF End, IdleJob

LEMMA EmbedderTypeStep == TypeOK /\ EmbedderInv /\ [Next]_vars => TypeOK'
<1> SUFFICES ASSUME TypeOK, EmbedderInv, [Next]_vars PROVE TypeOK'
  OBVIOUS
<1> USE VectorFacts DEF TypeOK, EmbedderInv, db, files, job, history
<1>0. pending \subseteq Vector /\ {v[1] : v \in graph} \subseteq Item
  <2>1. Stored \subseteq Item
    OBVIOUS
  <2> QED BY <2>1 DEF Vector
<1>1. CASE StartDaemon
  <2>1. graph' \subseteq Vector /\ pending' \subseteq pending /\ lost' \subseteq Item
        /\ tainted' \in BOOLEAN /\ running' \in Model
    BY <1>0, <1>1, OpenFacts DEF StartDaemon
  <2>2. Stored' = Stored
    BY <1>1 DEF StartDaemon, Stored
  <2> QED BY <1>1, <2>1, <2>2 DEF StartDaemon
<1>2. CASE SaveSnapshot
  BY <1>2 DEF SaveSnapshot, Stored
<1>3. ASSUME NEW i \in Item, Remember(i) PROVE TypeOK'
  <2>1. running \in Model /\ <<i, running>> \in Vector
    BY <1>3 DEF Remember
  <2>2. Stored \subseteq Stored' /\ i \in Stored'
    <3>1. rows \subseteq rows' /\ <<i, running>> \in rows'
      BY <1>3 DEF Remember
    <3> QED BY <3>1 DEF Stored
  <2>3. pending' \subseteq Stored' \X Model
    <3>1. pending \subseteq Stored' \X Model /\ <<i, running>> \in Stored' \X Model
      BY <2>1, <2>2
    <3>2. pending' \subseteq pending \cup {<<i, running>>}
      BY <1>3 DEF Remember
    <3> QED BY <3>1, <3>2
  <2>4. rows' \subseteq Vector /\ graph' \subseteq Vector
    BY <1>3, <2>1 DEF Remember
  <2>5. home' \in Model \cup {NoModel}
    BY <1>3 DEF Remember
  <2> QED BY <1>3, <2>3, <2>4, <2>5 DEF Remember
<1>4. CASE \/ \E save \in BOOLEAN : Stop(save)
           \/ FinishReembedUnwiped \/ Crash
  <2>1. PICK save \in BOOLEAN : End(save)
    BY <1>4 DEF Stop, FinishReembedUnwiped, Crash
  <2>2. UNCHANGED <<db, config, home, tainted>> /\ Stored' = Stored
    BY <1>4 DEF Stop, FinishReembedUnwiped, Crash, Stored
  <2>3. lost' \subseteq Item /\ snap' \subseteq Vector
    BY <1>0, <2>1, EndFacts
  <2> QED BY <2>1, <2>2, <2>3, EndFacts
<1>5. ASSUME NEW m \in Model, SwitchEmbedder(m) \/ ClearSnapshots(m) PROVE TypeOK'
  BY <1>5 DEF SwitchEmbedder, ClearSnapshots, Stored, CommandInHand
<1>6. ASSUME NEW from \in {NoModel} \cup (Model \ {config}), NEW collect \in BOOLEAN,
             StartReembed(from, collect)
      PROVE  TypeOK'
  <2>1. graph' \subseteq Vector /\ pending' \subseteq pending /\ lost' \subseteq Item
        /\ tainted' \in BOOLEAN /\ running' \in Model
    BY <1>0, <1>6, OpenFacts DEF StartReembed
  <2>2. Stored' = Stored
    BY <1>6 DEF StartReembed, Stored
  <2>3. todo' \subseteq Memory /\ gc' \in BOOLEAN /\ full' \in BOOLEAN
    BY <1>6 DEF StartReembed, Stale
  <2>4. home' \in Model \cup {NoModel}
    BY <1>6 DEF StartReembed
  <2> QED BY <1>6, <2>1, <2>2, <2>3, <2>4 DEF StartReembed
<1>7. ASSUME NEW i \in Memory, ReembedRow(i) PROVE TypeOK'
  <2>1. running \in Model
    BY <1>7 DEF ReembedRow, CommandInHand
  <2>2. rows' \subseteq Vector
    BY <1>7, <2>1 DEF ReembedRow
  <2>3. Stored \subseteq Stored'
    <3> SUFFICES ASSUME NEW v \in rows PROVE \E w \in rows' : w[1] = v[1]
      BY DEF Stored
    <3>1. v[1] # i => v \in rows'
      BY <1>7 DEF ReembedRow
    <3>2. <<i, running>> \in rows'
      BY <1>7 DEF ReembedRow
    <3> QED BY <3>1, <3>2
  <2> QED BY <1>7, <2>2, <2>3 DEF ReembedRow
<1>8. ASSUME NEW i \in Memory, ReembedRowFails(i) PROVE TypeOK'
  BY <1>8 DEF ReembedRowFails, Stored
<1>9. CASE FinishReembed
  <2>1. lost' \subseteq lost \cup {v[1] : v \in graph}
    BY <1>9 DEF FinishReembed
  <2>2. snap' \subseteq Vector /\ tainted' \in BOOLEAN
    BY <1>9 DEF FinishReembed
  <2>3. home' \in Model \cup {NoModel} /\ Stored' = Stored
    BY <1>9 DEF FinishReembed, Stored
  <2> QED BY <1>0, <1>9, <2>1, <2>2, <2>3 DEF FinishReembed, IdleJob
<1>10. CASE ReplaceConfig
  BY <1>10 DEF ReplaceConfig, Stored, CommandInHand
<1>11. CASE OpenForMigration
  <2>1. graph' \subseteq Vector /\ pending' \subseteq pending /\ lost' \subseteq Item
        /\ tainted' \in BOOLEAN /\ running' \in Model
    BY <1>0, <1>11, OpenFacts DEF OpenForMigration
  <2>2. Stored' = Stored
    BY <1>11 DEF OpenForMigration, Stored
  <2> QED BY <1>11, <2>1, <2>2 DEF OpenForMigration, Stale
<1>12. CASE StartGc
  BY <1>12 DEF StartGc, Stale, Stored
<1>13. CASE AbortMigration \/ FinishMigration
  BY <1>13 DEF AbortMigration, FinishMigration, IdleJob, Stored
<1>14. CASE UNCHANGED vars
  BY <1>14 DEF vars, Stored
<1> QED BY <1>1, <1>2, <1>3, <1>4, <1>5, <1>6, <1>7, <1>8, <1>9, <1>10, <1>11, <1>12, <1>13,
           <1>14 DEF Next

\* One step per operation, and under it one per part of the invariant it can disturb.
LEMMA EmbedderStep == TypeOK /\ EmbedderInv /\ [Next]_vars => EmbedderInv'
<1> SUFFICES ASSUME TypeOK, EmbedderInv, [Next]_vars PROVE EmbedderInv'
  OBVIOUS
<1> USE VectorFacts DEF TypeOK, EmbedderInv, db, files, job, history
<1>1. CASE StartDaemon
  <2>1. /\ pc = "down" /\ pc' = "serve" /\ Open
        /\ UNCHANGED <<rows, config, snap, todo, gc, full, failed, home>>
    BY <1>1 DEF StartDaemon
  <2>2. Stored' = Stored
    BY <2>1 DEF Stored
  <2>3. CommandInHand'
    BY <2>1, <2>2 DEF CommandInHand
  <2>4. OneSpaceUntainted'
    BY <2>1, OpenFacts DEF OneSpaceUntainted
  <2>5. (RowsOfHome /\ TodoOrRow)'
    BY <2>1, <2>2 DEF RowsOfHome, TodoOrRow
  <2>6. RowsAreIndexed'
    BY <2>1, OpenFacts DEF RowsAreIndexed, CommandInHand, Of
  <2> QED BY <2>3, <2>4, <2>5, <2>6
<1>2. CASE SaveSnapshot
  <2>1. /\ pc = "serve" /\ snap' = graph /\ lost' = lost \ {v[1] : v \in graph}
        /\ UNCHANGED <<rows, pending, config, pc, running, graph, todo, gc, full, failed, target,
                       home, tainted>>
    BY <1>2 DEF SaveSnapshot
  <2>2. Stored' = Stored
    BY <2>1 DEF Stored
  <2>3. (CommandInHand /\ OneSpaceUntainted)'
    BY <2>1, <2>2 DEF CommandInHand, OneSpaceUntainted
  <2>4. (RowsOfHome /\ TodoOrRow)'
    BY <2>1, <2>2 DEF RowsOfHome, TodoOrRow
  <2>5. RowsAreIndexed'
    <3> SUFFICES ASSUME ~tainted, NEW v \in Of(config)
                 PROVE  v \in graph \cup pending \/ v[1] \in lost'
      BY <2>1 DEF RowsAreIndexed, Of
    <3>1. v \in graph \cup pending \/ v[1] \in lost
      BY <2>1 DEF RowsAreIndexed
    <3>2. ASSUME NEW w \in graph, w[1] = v[1] PROVE v \in graph
      <4>1. w[2] = config /\ v[2] = config
        BY <2>1 DEF OneSpaceUntainted, Of
      <4>2. w = <<w[1], w[2]>> /\ v = <<v[1], v[2]>>
        BY DEF Of
      <4>3. w = v
        BY <3>2, <4>1, <4>2
      <4> QED BY <4>3
    <3> QED BY <2>1, <3>1, <3>2
  <2> QED BY <2>3, <2>4, <2>5
<1>3. ASSUME NEW i \in Item, Remember(i) PROVE EmbedderInv'
  <2>1. /\ pc = "serve" /\ rows' = rows \cup {<<i, running>>}
        /\ graph \subseteq graph' /\ graph' \subseteq graph \cup {<<i, running>>}
        /\ pending \subseteq pending' /\ <<i, running>> \in graph' \cup pending'
        /\ home' = IF i \in Memory /\ home # running THEN NoModel ELSE home
        /\ UNCHANGED <<config, snap, pc, running, todo, gc, full, failed, target, lost, tainted>>
    BY <1>3 DEF Remember
  <2>2. running \in Model /\ Stored \subseteq Stored' /\ \A j \in Stored' : j \in Stored \/ j = i
    BY <2>1 DEF Stored
  <2>3. (CommandInHand /\ OneSpaceUntainted)'
    BY <2>1, <2>2 DEF CommandInHand, OneSpaceUntainted
  <2>4. (RowsOfHome /\ TodoOrRow)'
    BY <2>1, <2>2 DEF RowsOfHome, TodoOrRow
  <2>5. RowsAreIndexed'
    BY <2>1 DEF RowsAreIndexed, Of
  <2> QED BY <2>3, <2>4, <2>5
<1>4. CASE \/ \E save \in BOOLEAN : Stop(save)
           \/ FinishReembedUnwiped \/ Crash
  <2>1. PICK save \in BOOLEAN : End(save) /\ (save => pc = "serve")
    BY <1>4 DEF Stop, FinishReembedUnwiped, Crash
  <2>2. UNCHANGED <<rows, pending, config, home, tainted>> /\ Stored' = Stored
    BY <1>4 DEF Stop, FinishReembedUnwiped, Crash, Stored
  <2>3. /\ pc' = "down" /\ graph' = {} /\ todo' = {} /\ gc' = FALSE
        /\ snap' = snap \/ (snap' = graph /\ pc = "serve")
        /\ snap' # {} => lost' = lost \cup {v[1] : v \in graph \ (snap' \cup pending)}
    BY <2>1, EndFacts
  <2>4. (CommandInHand /\ OneSpaceUntainted)'
    BY <2>2, <2>3 DEF CommandInHand, OneSpaceUntainted
  <2>5. (RowsOfHome /\ TodoOrRow)'
    BY <2>2, <2>3 DEF RowsOfHome, TodoOrRow
  <2>6. RowsAreIndexed'
    <3> SUFFICES ASSUME ~tainted, snap' # {}, NEW v \in Of(config)
                 PROVE  v \in pending \cup snap' \/ v[1] \in lost'
      BY <2>2, <2>3 DEF RowsAreIndexed, Of
    <3>1. v \in graph \cup pending \cup snap' \/ v[1] \in lost
      BY <2>3 DEF RowsAreIndexed
    <3> QED BY <2>3, <3>1
  <2> QED BY <2>4, <2>5, <2>6
<1>5. ASSUME NEW m \in Model, SwitchEmbedder(m) PROVE EmbedderInv'
  <2>1. /\ pc = "serve" /\ tainted'
        /\ UNCHANGED <<rows, pending, snap, pc, running, graph, todo, gc, full, failed, home, lost>>
    BY <1>5 DEF SwitchEmbedder
  <2>2. Stored' = Stored
    BY <2>1 DEF Stored
  <2> QED BY <2>1, <2>2 DEF CommandInHand, OneSpaceUntainted, RowsOfHome, TodoOrRow, RowsAreIndexed
<1>6. ASSUME NEW m \in Model, ClearSnapshots(m) PROVE EmbedderInv'
  <2>1. /\ pc = "down" /\ pc' = "config" /\ snap' = {} /\ target' = m
        /\ UNCHANGED <<rows, pending, config, running, graph, todo, gc, full, failed, home, tainted>>
    BY <1>6 DEF ClearSnapshots
  <2>2. Stored' = Stored
    BY <2>1 DEF Stored
  <2> QED BY <2>1, <2>2 DEF CommandInHand, OneSpaceUntainted, RowsOfHome, TodoOrRow, RowsAreIndexed
<1>7. ASSUME NEW from \in {NoModel} \cup (Model \ {config}), NEW collect \in BOOLEAN,
             StartReembed(from, collect)
      PROVE  EmbedderInv'
  <2>1. /\ pc = "down" /\ pc' = "reembed" /\ Open
        /\ todo' = IF from = NoModel THEN Stale(config) ELSE {i \in Memory : <<i, from>> \in rows}
        /\ gc' = collect /\ full' = (from = NoModel)
        /\ home' = IF collect /\ home # config THEN NoModel ELSE home
        /\ UNCHANGED <<rows, config, snap>>
    BY <1>7 DEF StartReembed
  <2>2. Stored' = Stored /\ graph = {}
    BY <2>1 DEF Stored, CommandInHand
  <2>3. todo' \subseteq Stored
    BY <2>1 DEF Stale
  <2>4. CommandInHand'
    BY <2>1, <2>2, <2>3, OpenFacts DEF CommandInHand
  <2>5. OneSpaceUntainted'
    BY <2>1, OpenFacts DEF OneSpaceUntainted
  <2>6. RowsOfHome'
    BY <2>1, <2>2 DEF RowsOfHome
  <2>7. TodoOrRow'
    <3> SUFFICES ASSUME from = NoModel, NEW i \in Stored \cap Memory
                 PROVE  i \in Stale(config) \/ <<i, config>> \in rows
      BY <2>1, <2>2, OpenFacts DEF TodoOrRow
    <3>1. PICK v \in rows : v[1] = i
      OBVIOUS
    <3>2. v[2] \in Model /\ v = <<i, v[2]>>
      BY <3>1
    <3> QED BY <3>2 DEF Stale
  <2>8. RowsAreIndexed'
    BY <2>1, <2>2, OpenFacts DEF RowsAreIndexed, Of
  <2> QED BY <2>4, <2>5, <2>6, <2>7, <2>8
<1>8. ASSUME NEW i \in Memory, ReembedRow(i) PROVE EmbedderInv'
  <2>1. /\ i \in todo /\ todo' = todo \ {i}
        /\ rows' = {v \in rows : ~gc \/ v[1] # i} \cup {<<i, running>>}
        /\ tainted' = (tainted \/ snap # {})
        /\ UNCHANGED <<pending, config, snap, pc, running, graph, gc, full, failed, target, home,
                       lost>>
    BY <1>8 DEF ReembedRow
  <2>2. pc \in {"reembed", "prepare", "gc"} /\ running = config /\ running \in Model
    BY <2>1 DEF CommandInHand
  <2>3. \A j : j \in Stored' <=> j \in Stored
    <3>1. \A v \in rows : v[1] # i => v \in rows'
      BY <2>1
    <3>2. /\ i \in Stored /\ <<i, running>> \in rows'
          /\ \A v \in rows' : v \in rows \/ v = <<i, running>>
      BY <2>1 DEF CommandInHand
    <3> QED BY <3>1, <3>2 DEF Stored
  <2>4. CommandInHand'
    BY <2>1, <2>2, <2>3 DEF CommandInHand
  <2>5. OneSpaceUntainted'
    BY <2>1, <2>2 DEF OneSpaceUntainted
  <2>6. RowsOfHome'
    <3> SUFFICES ASSUME home # NoModel, NEW j \in Stored \cap Memory PROVE <<j, home>> \in rows'
      BY <2>1, <2>3 DEF RowsOfHome
    <3>1. <<j, home>> \in rows
      BY DEF RowsOfHome
    <3>2. gc => home = running
      BY DEF CommandInHand
    <3> QED BY <2>1, <3>1, <3>2
  <2>7. TodoOrRow'
    BY <2>1, <2>3 DEF TodoOrRow
  <2>8. RowsAreIndexed'
    BY <2>1, <2>2 DEF RowsAreIndexed, Of
  <2> QED BY <2>4, <2>5, <2>6, <2>7, <2>8
<1>9. ASSUME NEW i \in Memory, ReembedRowFails(i) PROVE EmbedderInv'
  <2>1. /\ i \in todo /\ todo' = todo \ {i} /\ failed' = TRUE
        /\ UNCHANGED <<rows, pending, config, snap, pc, running, graph, gc, full, target, home,
                       lost, tainted>>
    BY <1>9 DEF ReembedRowFails
  <2>2. Stored' = Stored
    BY <2>1 DEF Stored
  <2> QED BY <2>1, <2>2 DEF CommandInHand, OneSpaceUntainted, RowsOfHome, TodoOrRow,
              RowsAreIndexed, Of
<1>10. CASE FinishReembed
  <2>1. /\ pc = "reembed" /\ todo = {} /\ pc' = "down" /\ graph' = {} /\ todo' = {} /\ gc' = FALSE
        /\ home' = IF full /\ ~failed THEN config ELSE home
        /\ UNCHANGED <<rows, pending, config>>
    BY <1>10 DEF FinishReembed, IdleJob
  <2>2. \/ snap' = {}
        \/ /\ UNCHANGED <<snap, tainted>>
           /\ snap # {} => lost' = lost \cup {v[1] : v \in graph \ (snap \cup pending)}
    BY <1>10 DEF FinishReembed
  <2>3. Stored' = Stored
    BY <2>1 DEF Stored
  <2>4. CommandInHand'
    BY <2>1 DEF CommandInHand
  <2>5. OneSpaceUntainted'
    BY <2>1, <2>2 DEF OneSpaceUntainted
  <2>6. (RowsOfHome /\ TodoOrRow)'
    BY <2>1, <2>3 DEF RowsOfHome, TodoOrRow, CommandInHand
  <2>7. RowsAreIndexed'
    BY <2>1, <2>2 DEF RowsAreIndexed, Of
  <2> QED BY <2>4, <2>5, <2>6, <2>7
<1>11. CASE ReplaceConfig
  <2>1. /\ pc = "config" /\ pc' = "open" /\ snap = {}
        /\ UNCHANGED <<rows, pending, snap, running, graph, todo, gc, full, failed, home, tainted>>
    BY <1>11 DEF ReplaceConfig, CommandInHand
  <2>2. Stored' = Stored
    BY <2>1 DEF Stored
  <2> QED BY <2>1, <2>2 DEF CommandInHand, OneSpaceUntainted, RowsOfHome, TodoOrRow, RowsAreIndexed
<1>12. CASE OpenForMigration
  <2>1. /\ pc = "open" /\ pc' = "prepare" /\ Open
        /\ todo' = Stale(config) /\ full' = TRUE
        /\ UNCHANGED <<rows, config, snap, gc, failed, home>>
    BY <1>12 DEF OpenForMigration
  <2>2. Stored' = Stored /\ snap = {}
    BY <2>1 DEF Stored, CommandInHand
  <2>3. todo' \subseteq Stored
    BY <2>1 DEF Stale
  <2>4. CommandInHand'
    BY <2>1, <2>2, <2>3, OpenFacts DEF CommandInHand
  <2>5. (OneSpaceUntainted /\ RowsOfHome /\ RowsAreIndexed)'
    BY <2>1, <2>2 DEF OneSpaceUntainted, RowsOfHome, RowsAreIndexed
  <2>6. TodoOrRow'
    <3> SUFFICES ASSUME NEW i \in Stored \cap Memory
                 PROVE  i \in Stale(config) \/ <<i, config>> \in rows
      BY <2>1, <2>2, OpenFacts DEF TodoOrRow
    <3>1. PICK v \in rows : v[1] = i
      OBVIOUS
    <3>2. v[2] \in Model /\ v = <<i, v[2]>>
      BY <3>1
    <3> QED BY <3>2 DEF Stale
  <2> QED BY <2>4, <2>5, <2>6
<1>13. CASE StartGc
  <2>1. /\ pc = "prepare" /\ todo = {} /\ ~failed /\ pc' = "gc"
        /\ todo' = Stale(config) /\ gc' = TRUE /\ home' = config
        /\ UNCHANGED <<rows, pending, config, snap, running, graph, tainted>>
    BY <1>13 DEF StartGc
  <2>2. Stored' = Stored /\ Stale(config) \subseteq Stored
    BY <2>1 DEF Stored, Stale
  <2>3. CommandInHand'
    BY <2>1, <2>2 DEF CommandInHand
  <2>4. RowsOfHome'
    BY <2>1, <2>2 DEF RowsOfHome, TodoOrRow, CommandInHand
  <2>5. (OneSpaceUntainted /\ TodoOrRow /\ RowsAreIndexed)'
    BY <2>1 DEF OneSpaceUntainted, TodoOrRow, RowsAreIndexed, CommandInHand
  <2> QED BY <2>3, <2>4, <2>5
<1>14. CASE AbortMigration \/ FinishMigration
  <2>1. /\ pc' = "down" /\ snap' = {} /\ graph' = {} /\ todo' = {} /\ gc' = FALSE
        /\ UNCHANGED <<rows, home>>
    BY <1>14 DEF AbortMigration, FinishMigration, IdleJob, CommandInHand
  <2>2. Stored' = Stored
    BY <2>1 DEF Stored
  <2> QED BY <2>1, <2>2 DEF CommandInHand, OneSpaceUntainted, RowsOfHome, TodoOrRow, RowsAreIndexed
<1>15. CASE UNCHANGED vars
  <2>1. Stored' = Stored
    BY <1>15 DEF vars, Stored
  <2> QED BY <1>15, <2>1 DEF vars, CommandInHand, OneSpaceUntainted, RowsOfHome, TodoOrRow,
              RowsAreIndexed, Of
<1> QED BY <1>1, <1>2, <1>3, <1>4, <1>5, <1>6, <1>7, <1>8, <1>9, <1>10, <1>11, <1>12, <1>13,
           <1>14, <1>15 DEF Next

LEMMA EmbedderInvariant == Spec => [](TypeOK /\ EmbedderInv)
<1>1. Init => TypeOK
  <2> SUFFICES ASSUME Init PROVE TypeOK
    OBVIOUS
  <2>1. {gc, full, failed, done, tainted} \subseteq BOOLEAN
    BY DEF Init
  <2>2. running \in (IF pc \in {"down", "config", "open"} THEN {NoModel} ELSE Model)
    BY DEF Init
  <2>3. {backup, target, home} \subseteq Model \cup {NoModel}
    BY DEF Init
  <2>4. rows \subseteq Vector /\ pending \subseteq Stored \X Model /\ config \in Model
    BY DEF Init
  <2>5. snap \subseteq Vector /\ graph \subseteq Vector /\ todo \subseteq Memory /\ lost \subseteq Item
    BY DEF Init
  <2>6. pc \in {"down", "serve", "reembed", "config", "open", "prepare", "gc"}
    BY DEF Init
  <2> QED BY <2>1, <2>2, <2>3, <2>4, <2>5, <2>6 DEF TypeOK
<1>2. Init => EmbedderInv
  BY DEF Init, EmbedderInv, CommandInHand, OneSpaceUntainted, RowsOfHome, TodoOrRow,
         RowsAreIndexed, Stored, Of
<1>3. TypeOK /\ EmbedderInv /\ [Next]_vars => (TypeOK /\ EmbedderInv)'
  BY EmbedderTypeStep, EmbedderStep
<1> QED BY <1>1, <1>2, <1>3, PTL DEF Spec

\* A daemon of an untainted library searches vectors of the model it embeds queries with
\* (apply_migration, reembed.rs:run, replay_pending_index).
THEOREM NeverMixesSpaces == Spec => []OneVectorSpace
<1>1. EmbedderInv => OneVectorSpace
  BY DEF EmbedderInv, OneSpaceUntainted, OneVectorSpace
<1> QED BY <1>1, EmbedderInvariant, PTL

\* While the configured model is the one last migrated to, every memory has a row of it,
\* whatever was cut off or rolled back since (run_reembed_phases).
THEOREM ConfiguredHasRows == Spec => []ConfigHasRows
<1>1. TypeOK /\ EmbedderInv => ConfigHasRows
  <2> SUFFICES ASSUME TypeOK, RowsOfHome, config = home, NEW i \in Stored \cap Memory
               PROVE  \E v \in Of(config) : v[1] = i
    BY DEF EmbedderInv, ConfigHasRows
  <2>1. <<i, config>> \in Of(config)
    BY DEF TypeOK, RowsOfHome, Of
  <2> QED BY <2>1
<1> QED BY <1>1, EmbedderInvariant, PTL

\* ... and the index of a daemon finds every memory by it, unless the outbox still has it or
\* a crash lost it (FinishReembed and FinishMigration wipe, Open rebuilds).
THEOREM MigratedIsFound == Spec => []MigratedIsSearchable
<1>1. TypeOK /\ EmbedderInv => MigratedIsSearchable
  BY VectorFacts DEF TypeOK, EmbedderInv, OneSpaceUntainted, RowsOfHome, RowsAreIndexed,
         MigratedIsSearchable, Of
<1> QED BY <1>1, EmbedderInvariant, PTL

\* An untainted library opens: no step of a migration or of a re-embedding leaves a snapshot of
\* a dimension the configured model does not have (apply_migration).
THEOREM UntaintedOpens == Spec => []Opens
<1>1. EmbedderInv => Opens
  BY DEF EmbedderInv, OneSpaceUntainted, Opens, CanOpen, SameDim
<1> QED BY <1>1, EmbedderInvariant, PTL

=============================================================================
