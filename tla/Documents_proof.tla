---------------------------- MODULE Documents_proof ----------------------------
(***************************************************************************)
(* For any number of documents, texts, principals and chunks, of crashes   *)
(* and of restarts: what is ingested is found or waits in the outbox, what *)
(* is forgotten stays hidden, and an erasure takes only what is its own.   *)
(***************************************************************************)
EXTENDS Documents, TLAPS

USE DocumentsAssumption

\* Which chunks a document has, and that no set of chunks stands for a missing snapshot.
LEMMA ChunkFacts ==
    /\ \A c \in Chunk : c[1] \in Doc
    /\ \A d \in Doc : ChunksOf(d) \subseteq Chunk
    /\ \A d \in Doc, c \in Chunk : c \in ChunksOf(d) <=> c[1] = d
    /\ \A chunks \in SUBSET Chunk : chunks # Missing
BY DEF Chunk, ChunksOf

LEMMA DocumentsTypeStep ==
    TypeOK /\ CommandInHand /\ PointsInOrder /\ [Next]_vars => TypeOK'
<1> SUFFICES ASSUME TypeOK, CommandInHand, PointsInOrder, [Next]_vars PROVE TypeOK'
  OBVIOUS
<1> USE ChunkFacts DEF TypeOK, Present, db, index, work, history
<1>1. ASSUME NEW p \in Principal, NEW x \in Content, NEW d \in Doc, IngestCommit(p, x, d)
      PROVE  TypeOK'
  <2>1. status' \in [Doc -> {"absent", "active", "forgotten", "erased"}]
    BY <1>1 DEF IngestCommit
  <2>2. rows' \subseteq {c \in Chunk : c[1] \in Present'}
    BY <1>1 DEF IngestCommit
  <2> QED BY <1>1, <2>1, <2>2 DEF IngestCommit
<1>2. CASE IndexChunks
  BY <1>2 DEF IndexChunks, Add, Good, CommandInHand
<1>3. CASE Drain
  BY <1>3 DEF Drain
<1>4. ASSUME NEW d \in Doc, ForgetCommit(d) PROVE TypeOK'
  <2>1. status' \in [Doc -> {"absent", "active", "forgotten", "erased"}]
    BY <1>4 DEF ForgetCommit
  <2>2. rows' \subseteq {c \in Chunk : c[1] \in Present'}
    BY <1>4 DEF ForgetCommit
  <2> QED BY <1>4, <2>1, <2>2 DEF ForgetCommit
<1>5. CASE Tombstone
  BY <1>5 DEF Tombstone, RowsOf
<1>6. CASE TombstoneFails
  BY <1>6 DEF TombstoneFails, CommandInHand
<1>7. ASSUME NEW p \in Principal, NEW d \in Doc, Attach(p, d) \/ LinkOriginal(p, d)
      PROVE  TypeOK'
  BY <1>7 DEF Attach, LinkOriginal
<1>8. ASSUME NEW p \in Principal, EraseRows(p) PROVE TypeOK'
  <2>1. status' \in [Doc -> {"absent", "active", "forgotten", "erased"}]
    BY <1>8 DEF EraseRows
  <2>2. rows' \subseteq {c \in Chunk : c[1] \in Present'}
    <3> SUFFICES ASSUME NEW c \in rows' PROVE c \in Chunk /\ c[1] \in Present'
      OBVIOUS
    <3>1. c \in rows /\ by[c[1]] # p
      BY <1>8 DEF EraseRows
    <3>2. c \in ChunksOf(c[1])
      BY <3>1
    <3>3. c[1] \notin ErasedDocs(p)
      BY <3>1, <3>2 DEF ErasedDocs, RowsOf
    <3> QED BY <1>8, <3>1, <3>3 DEF EraseRows
  <2>3. pending' \subseteq rows' /\ tombs' \subseteq Chunk
    BY <1>8 DEF EraseRows
  <2>4. attached' \in [Doc -> SUBSET Principal] /\ originals' \in [Doc -> SUBSET Principal]
    BY <1>8 DEF EraseRows
  <2>5. pc' \in {"close", "rebuild"}
    BY <1>8 DEF EraseRows
  <2> QED BY <1>8, <2>1, <2>2, <2>3, <2>4, <2>5 DEF EraseRows
<1>9. CASE Stop \/ Crash \/ \E p \in Principal : EraseRefused(p)
  <2>1. Good(ActiveRows) \subseteq Chunk
    BY DEF Good, ActiveRows
  <2>2. \A s : Unrecoverable(s) \subseteq Chunk
    BY <2>1 DEF Unrecoverable
  <2>3. lost' \subseteq Chunk
    BY <1>9, <2>2 DEF Stop, Crash, EraseRefused
  <2>4. (snap' = Missing \/ snap' \subseteq Chunk)
    BY <1>9 DEF Stop, Crash, EraseRefused, Save
  <2>5. Down /\ UNCHANGED db
    BY <1>9 DEF Stop, Crash, EraseRefused
  <2> QED BY <2>3, <2>4, <2>5 DEF Down
<1>10. CASE EraseRebuild
  BY <1>10 DEF EraseRebuild, Add, Good, ActiveRows
<1>11. ASSUME NEW m \in {"serve", "erase"}, Start(m) PROVE TypeOK'
  <2>1. graph' \subseteq Chunk
    BY <1>11 DEF Start, PointsInOrder, Good, ActiveRows
  <2>2. tombs' \subseteq Chunk
    BY <1>11 DEF Start, ForgottenRows
  <2> QED BY <1>11, <2>1, <2>2 DEF Start
<1>12. ASSUME NEW c \in Chunk, ReplayRow(c) PROVE TypeOK'
  BY <1>12 DEF ReplayRow, Add
<1>13. CASE ReplayEnd
  BY <1>13 DEF ReplayEnd
<1>14. CASE UNCHANGED vars
  BY <1>14 DEF vars
<1> QED BY <1>1, <1>2, <1>3, <1>4, <1>5, <1>6, <1>7, <1>8, <1>9, <1>10, <1>11, <1>12, <1>13,
           <1>14 DEF Next

\* One step per operation, and under it one per part of the invariant it can disturb.
LEMMA DocumentsStep == TypeOK /\ DocumentInv /\ [Next]_vars => DocumentInv'
<1> SUFFICES ASSUME TypeOK, DocumentInv, [Next]_vars PROVE DocumentInv'
  OBVIOUS
<1> USE ChunkFacts DEF TypeOK, DocumentInv, Present, RowsOf, ActiveRows, ForgottenRows,
                       Visible, Serving, Good, db, index, work, history
<1>1. ASSUME NEW p \in Principal, NEW x \in Content, NEW d \in Doc, IngestCommit(p, x, d)
      PROVE  DocumentInv'
  <2>1. /\ status' = [status EXCEPT ![d] = "active"] /\ status[d] = "absent"
        /\ rows' = rows \cup ChunksOf(d) /\ pending' = pending \cup ChunksOf(d)
        /\ pc = "idle" /\ pc' = "index" /\ cur' = d
        /\ UNCHANGED <<snap, graph, tombs, drain, todo, lost, untold>>
    BY <1>1 DEF IngestCommit
  <2>2. \A c \in rows \cup graph : c[1] # d
    BY <2>1 DEF PointsInOrder
  <2>3. snap # Missing => snap \cap ChunksOf(d) = {}
    BY <2>1 DEF PointsInOrder
  <2>4. ActiveRows' = ActiveRows \cup ChunksOf(d) /\ ForgottenRows' = ForgottenRows
    BY <2>1, <2>2
  <2>5. CommandInHand'
    BY <2>1, <2>2 DEF CommandInHand
  <2>6. PointsInOrder'
    BY <2>1 DEF PointsInOrder
  <2>7. (RefusedStayInOutbox /\ LostWhileDown /\ ChunkCoverage)'
    BY <2>1, <2>4 DEF RefusedStayInOutbox, LostWhileDown, ChunkCoverage
  <2>8. ReplayInHand'
    BY <2>1, <2>2, <2>3 DEF ReplayInHand
  <2>9. ForgottenChunksHidden'
    BY <2>1, <2>4 DEF ForgottenChunksHidden
  <2>10. OneDocumentPerContent'
    BY <1>1 DEF IngestCommit, Known, OneDocumentPerContent
  <2>11. SearchableOnceServed'
    BY <2>1 DEF SearchableOnceServed
  <2> QED BY <2>5, <2>6, <2>7, <2>8, <2>9, <2>10, <2>11
<1>2. CASE IndexChunks
  <2> DEFINE new == Good(ChunksOf(cur))
  <2>1. /\ graph' = graph \cup new /\ tombs' = tombs \ new /\ drain' = new
        /\ pc = "index" /\ pc' = "drain" /\ cur' = NoDoc
        /\ UNCHANGED <<status, content, rows, pending, snap, todo, lost, untold>>
    BY <1>2 DEF IndexChunks, Add
  <2>2. cur \in Doc /\ status[cur] = "active" /\ graph \cap ChunksOf(cur) = {} /\ drain = {}
    BY <2>1 DEF CommandInHand
  <2>3. new \subseteq Good(Chunk) /\ \A c \in new : c \in Chunk /\ c[1] = cur
    BY <2>2 DEF Good
  <2>4. \A c \in Good(ActiveRows) : c[1] = cur => c \in new
    BY <2>2 DEF Good
  <2>5. Visible' = Visible \cup new
    BY <2>1
  <2> HIDE DEF new
  <2>6. CommandInHand'
    BY <2>1, <2>5 DEF CommandInHand
  <2>7. PointsInOrder'
    BY <2>1, <2>2, <2>3 DEF PointsInOrder
  <2>8. (RefusedStayInOutbox /\ LostWhileDown /\ ChunkCoverage)'
    BY <2>1, <2>5 DEF RefusedStayInOutbox, LostWhileDown, ChunkCoverage
  <2>9. ReplayInHand'
    BY <2>1, <2>2 DEF ReplayInHand
  <2>10. ForgottenChunksHidden'
    BY <2>1, <2>2, <2>3, <2>5 DEF ForgottenChunksHidden
  <2>11. SearchableOnceServed'
    <3>1. Good(ActiveRows)' = Good(ActiveRows)
      BY <2>1
    <3>2. \A c \in Good(ActiveRows) : c \in Visible \cup lost \/ c[1] = cur
      BY <2>1 DEF SearchableOnceServed
    <3> QED BY <2>1, <2>4, <2>5, <3>1, <3>2 DEF SearchableOnceServed
  <2>12. OneDocumentPerContent'
    BY <2>1 DEF OneDocumentPerContent
  <2> QED BY <2>6, <2>7, <2>8, <2>9, <2>10, <2>11, <2>12
<1>3. CASE Drain
  <2>1. /\ pending \ drain \subseteq pending' /\ pending' \subseteq pending
    BY <1>3 DEF Drain
  <2>2. /\ pc = "drain" /\ pc' = "idle" /\ drain' = {}
        /\ UNCHANGED <<status, content, rows, snap, cur, graph, tombs, todo,
                       lost, untold>>
    BY <1>3 DEF Drain
  <2>3. drain \subseteq Visible /\ drain \subseteq Good(Chunk)
    BY <2>2 DEF CommandInHand, PointsInOrder
  <2>4. (CommandInHand /\ PointsInOrder)'
    BY <2>2 DEF CommandInHand, PointsInOrder
  <2>5. RefusedStayInOutbox'
    BY <2>1, <2>2, <2>3 DEF RefusedStayInOutbox, Good
  <2>6. (LostWhileDown /\ ChunkCoverage)'
    BY <2>1, <2>2, <2>3 DEF LostWhileDown, ChunkCoverage
  <2>7. ReplayInHand'
    BY <2>1, <2>2 DEF ReplayInHand
  <2>8. (ForgottenChunksHidden /\ OneDocumentPerContent /\ SearchableOnceServed)'
    BY <2>1, <2>2 DEF ForgottenChunksHidden, OneDocumentPerContent, SearchableOnceServed
  <2> QED BY <2>4, <2>5, <2>6, <2>7, <2>8
<1>4. ASSUME NEW d \in Doc, ForgetCommit(d) PROVE DocumentInv'
  <2>1. /\ status' = [status EXCEPT ![d] = "forgotten"] /\ status[d] \in {"active", "forgotten"}
        /\ pc = "idle" /\ pc' = "tombstone" /\ cur' = d
        /\ UNCHANGED <<content, rows, pending, snap, graph, tombs, drain, todo,
                       lost, untold>>
    BY <1>4 DEF ForgetCommit
  <2>2. ActiveRows' \subseteq ActiveRows /\ \A c \in ForgottenRows' : c \in ForgottenRows \/ c[1] = d
    BY <2>1
  <2>3. CommandInHand'
    BY <2>1 DEF CommandInHand
  <2>4. PointsInOrder'
    BY <2>1 DEF PointsInOrder
  <2>5. (RefusedStayInOutbox /\ LostWhileDown /\ ChunkCoverage)'
    BY <2>1, <2>2 DEF RefusedStayInOutbox, LostWhileDown, ChunkCoverage
  <2>6. (ReplayInHand /\ SearchableOnceServed)'
    BY <2>1 DEF ReplayInHand, SearchableOnceServed
  <2>7. ForgottenChunksHidden'
    BY <2>1, <2>2 DEF ForgottenChunksHidden
  <2>8. OneDocumentPerContent'
    BY <2>1 DEF OneDocumentPerContent
  <2> QED BY <2>3, <2>4, <2>5, <2>6, <2>7, <2>8
<1>5. CASE Tombstone
  <2>1. /\ tombs' = tombs \cup RowsOf(cur) /\ pc = "tombstone" /\ pc' = "idle" /\ cur' = NoDoc
        /\ UNCHANGED <<status, content, rows, pending, snap, graph, drain, todo,
                       lost, untold>>
    BY <1>5 DEF Tombstone
  <2>2. cur \in Doc /\ status[cur] = "forgotten" /\ drain = {}
    BY <2>1 DEF CommandInHand
  <2>3. RowsOf(cur) \cap ActiveRows = {} /\ \A c \in rows : c \in RowsOf(cur) <=> c[1] = cur
    BY <2>2
  <2>4. (CommandInHand /\ PointsInOrder /\ ReplayInHand)'
    BY <2>1, <2>2 DEF CommandInHand, PointsInOrder, ReplayInHand
  <2>5. (RefusedStayInOutbox /\ LostWhileDown /\ ChunkCoverage)'
    BY <2>1, <2>3 DEF RefusedStayInOutbox, LostWhileDown, ChunkCoverage
  <2>6. (ForgottenChunksHidden /\ OneDocumentPerContent /\ SearchableOnceServed)'
    BY <2>1, <2>3 DEF ForgottenChunksHidden, OneDocumentPerContent, SearchableOnceServed
  <2> QED BY <2>4, <2>5, <2>6
<1>6. CASE TombstoneFails
  <2>1. /\ untold' = untold \cup {cur} /\ pc = "tombstone" /\ pc' = "idle" /\ cur' = NoDoc
        /\ UNCHANGED <<status, content, rows, pending, snap, graph, tombs, drain,
                       todo, lost>>
    BY <1>6 DEF TombstoneFails
  <2>2. (CommandInHand /\ PointsInOrder /\ ReplayInHand)'
    BY <2>1 DEF CommandInHand, PointsInOrder, ReplayInHand
  <2>3. (RefusedStayInOutbox /\ LostWhileDown /\ ChunkCoverage)'
    BY <2>1 DEF RefusedStayInOutbox, LostWhileDown, ChunkCoverage
  <2>4. (ForgottenChunksHidden /\ OneDocumentPerContent /\ SearchableOnceServed)'
    BY <2>1 DEF ForgottenChunksHidden, OneDocumentPerContent, SearchableOnceServed
  <2> QED BY <2>2, <2>3, <2>4
<1>7. ASSUME NEW p \in Principal, NEW d \in Doc, Attach(p, d) \/ LinkOriginal(p, d)
      PROVE  DocumentInv'
  <2>1. UNCHANGED <<status, content, rows, pending, snap, pc, cur, graph, tombs,
                    drain, todo, lost, untold>>
    BY <1>7 DEF Attach, LinkOriginal
  <2> QED BY <2>1 DEF CommandInHand, PointsInOrder, RefusedStayInOutbox, LostWhileDown,
              Unrecoverable, ReplayInHand, ChunkCoverage, ForgottenChunksHidden,
              OneDocumentPerContent, SearchableOnceServed
<1>8. ASSUME NEW p \in Principal, EraseRows(p) PROVE DocumentInv'
  <2> DEFINE gone == {c \in rows : by[c[1]] = p}
  <2>1. /\ \A d \in Doc : status'[d] = status[d] \/ status'[d] = "erased"
        /\ rows' = rows \ gone /\ pending' = pending \ gone /\ tombs' = tombs \cup gone
        /\ pc = "idle" /\ pc' \in {"close", "rebuild"}
        /\ UNCHANGED <<content, snap, cur, graph, drain, todo, lost, untold>>
    BY <1>8 DEF EraseRows
  <2> HIDE DEF gone
  <2>2. ActiveRows' \subseteq ActiveRows \ gone /\ ForgottenRows' \subseteq ForgottenRows
    BY <2>1
  <2>3. (CommandInHand /\ PointsInOrder /\ ReplayInHand)'
    BY <2>1 DEF CommandInHand, PointsInOrder, ReplayInHand
  <2>4. (RefusedStayInOutbox /\ LostWhileDown /\ ChunkCoverage)'
    BY <2>1, <2>2 DEF RefusedStayInOutbox, LostWhileDown, ChunkCoverage
  <2>5. ForgottenChunksHidden'
    BY <2>1, <2>2 DEF ForgottenChunksHidden
  <2>6. (OneDocumentPerContent /\ SearchableOnceServed)'
    BY <2>1 DEF OneDocumentPerContent, SearchableOnceServed
  <2> QED BY <2>3, <2>4, <2>5, <2>6
<1>9. CASE Stop \/ Crash \/ \E p \in Principal : EraseRefused(p)
  <2>1. Down /\ UNCHANGED <<status, content, rows, pending>>
    BY <1>9 DEF Stop, Crash, EraseRefused
  <2>2. lost' = lost \cup Unrecoverable(snap')
    BY <1>9 DEF Stop, Crash, EraseRefused
  <2>3. \/ UNCHANGED snap
        \/ snap' = graph /\ pc \in {"idle", "close"}
        \/ snap' = Missing
    BY <1>9 DEF Stop, Crash, EraseRefused, Save
  <2>4. CommandInHand'
    BY <2>1 DEF CommandInHand, Down
  <2>5. PointsInOrder'
    BY <2>1, <2>3 DEF PointsInOrder, Down
  <2>6. RefusedStayInOutbox'
    BY <2>1 DEF RefusedStayInOutbox
  <2>7. LostWhileDown'
    BY <2>1, <2>2 DEF LostWhileDown, Unrecoverable
  <2>8. ReplayInHand'
    <3>1. CASE snap' = graph /\ pc \in {"idle", "close"}
      BY <2>1, <3>1 DEF ReplayInHand, SearchableOnceServed, CommandInHand, Down
    <3>2. CASE UNCHANGED snap \/ snap' = Missing
      BY <2>1, <3>2 DEF ReplayInHand, Down
    <3> QED BY <2>3, <3>1, <3>2
  <2>9. (ChunkCoverage /\ ForgottenChunksHidden /\ SearchableOnceServed)'
    BY <2>1 DEF ChunkCoverage, ForgottenChunksHidden, SearchableOnceServed, Down
  <2>10. OneDocumentPerContent'
    BY <2>1 DEF OneDocumentPerContent
  <2> QED BY <2>4, <2>5, <2>6, <2>7, <2>8, <2>9, <2>10
<1>10. CASE EraseRebuild
  <2> DEFINE new == Good(ActiveRows)
  <2>1. /\ graph' = graph \cup new /\ tombs' = tombs \ new
        /\ pc = "rebuild" /\ pc' = "close"
        /\ UNCHANGED <<status, content, rows, pending, snap, cur, drain, todo, lost,
                       untold>>
    BY <1>10 DEF EraseRebuild, Add
  <2>2. new \subseteq Good(Chunk) /\ new \subseteq ActiveRows
    BY DEF Good
  <2> HIDE DEF new
  <2>3. (CommandInHand /\ ReplayInHand /\ SearchableOnceServed)'
    BY <2>1 DEF CommandInHand, ReplayInHand, SearchableOnceServed
  <2>4. PointsInOrder'
    BY <2>1, <2>2 DEF PointsInOrder
  <2>5. (RefusedStayInOutbox /\ LostWhileDown /\ ChunkCoverage)'
    BY <2>1 DEF RefusedStayInOutbox, LostWhileDown, ChunkCoverage
  <2>6. (ForgottenChunksHidden /\ OneDocumentPerContent)'
    BY <2>1, <2>2 DEF ForgottenChunksHidden, OneDocumentPerContent
  <2> QED BY <2>3, <2>4, <2>5, <2>6
<1>11. ASSUME NEW m \in {"serve", "erase"}, Start(m) PROVE DocumentInv'
  <2>1. /\ pc = "down" /\ pc' = "replay"
        /\ todo' = pending \cap Good(ActiveRows)
        /\ UNCHANGED <<status, content, rows, pending, snap, cur, drain, lost, untold>>
    BY <1>11 DEF Start
  <2>2. \/ snap = Missing /\ graph' = Good(ActiveRows) /\ tombs' = {}
        \/ snap # Missing /\ graph' = snap /\ tombs' = ForgottenRows
    BY <1>11 DEF Start
  <2>3. CommandInHand'
    BY <2>1 DEF CommandInHand
  <2>4. PointsInOrder'
    BY <2>1, <2>2 DEF PointsInOrder, Good
  <2>5. (RefusedStayInOutbox /\ LostWhileDown)'
    BY <2>1 DEF RefusedStayInOutbox, LostWhileDown
  <2>6. ReplayInHand'
    <3>1. Good(ActiveRows)' = Good(ActiveRows)
      BY <2>1
    <3>2. CASE snap = Missing
      BY <2>1, <2>2, <3>1, <3>2 DEF ReplayInHand
    <3>3. CASE snap # Missing
      <4>1. Good(ActiveRows) \subseteq pending \cup snap \cup lost
        BY <2>1, <3>3 DEF LostWhileDown, Unrecoverable
      <4>2. Good(ActiveRows) \cap ForgottenRows = {}
        OBVIOUS
      <4> QED BY <2>1, <2>2, <3>1, <3>3, <4>1, <4>2 DEF ReplayInHand
    <3> QED BY <3>2, <3>3
  <2>7. ChunkCoverage'
    BY <2>1, <2>2 DEF ChunkCoverage, RefusedStayInOutbox, LostWhileDown, Unrecoverable, Good
  <2>8. ForgottenChunksHidden'
    BY <2>1, <2>2 DEF ForgottenChunksHidden, Good
  <2>9. (OneDocumentPerContent /\ SearchableOnceServed)'
    BY <2>1 DEF OneDocumentPerContent, SearchableOnceServed, ReplayInHand
  <2> QED BY <2>3, <2>4, <2>5, <2>6, <2>7, <2>8, <2>9
<1>12. ASSUME NEW c \in Chunk, ReplayRow(c) PROVE DocumentInv'
  <2>1. /\ graph' = graph \cup {c}
        /\ tombs' = tombs \ {c} /\ todo' = todo \ {c} /\ pc = "replay"
        /\ pending \ {c} \subseteq pending' /\ pending' \subseteq pending
        /\ UNCHANGED <<status, content, rows, snap, pc, cur, drain, lost, untold>>
    BY <1>12 DEF ReplayRow, Add
  <2>2. c \in ActiveRows /\ c \in Good(Chunk)
    BY <1>12 DEF ReplayRow, ReplayInHand
  <2>3. CommandInHand'
    BY <2>1 DEF CommandInHand
  <2>4. PointsInOrder'
    BY <2>1, <2>2 DEF PointsInOrder
  <2>5. (RefusedStayInOutbox /\ LostWhileDown /\ ChunkCoverage)'
    BY <2>1, <2>2 DEF RefusedStayInOutbox, LostWhileDown, ChunkCoverage
  <2>6. (ReplayInHand /\ SearchableOnceServed)'
    <3>1. Good(ActiveRows)' = Good(ActiveRows) /\ Visible' = Visible \cup {c}
      BY <2>1
    <3>2. SearchableOnceServed'
      BY <2>1 DEF SearchableOnceServed
    <3> QED BY <2>1, <3>1, <3>2 DEF ReplayInHand
  <2>7. (ForgottenChunksHidden /\ OneDocumentPerContent)'
    BY <2>1, <2>2 DEF ForgottenChunksHidden, OneDocumentPerContent
  <2> QED BY <2>3, <2>4, <2>5, <2>6, <2>7
<1>13. CASE ReplayEnd
  <2>1. /\ pending \cap ActiveRows \subseteq pending' /\ pending' \subseteq pending
        /\ pc = "replay" /\ pc' = "idle" /\ todo = {}
        /\ UNCHANGED <<status, content, rows, snap, cur, graph, tombs, drain,
                       todo, lost, untold>>
    BY <1>13 DEF ReplayEnd
  <2>2. (CommandInHand /\ PointsInOrder /\ ReplayInHand)'
    BY <2>1 DEF CommandInHand, PointsInOrder, ReplayInHand
  <2>3. (RefusedStayInOutbox /\ LostWhileDown /\ ChunkCoverage)'
    BY <2>1 DEF RefusedStayInOutbox, LostWhileDown, ChunkCoverage
  <2>4. (ForgottenChunksHidden /\ OneDocumentPerContent)'
    BY <2>1 DEF ForgottenChunksHidden, OneDocumentPerContent
  <2>5. Good(ActiveRows)' = Good(ActiveRows) /\ Good(ActiveRows) \subseteq Visible \cup lost
    BY <2>1 DEF ReplayInHand
  <2>6. SearchableOnceServed'
    BY <2>1, <2>5 DEF SearchableOnceServed
  <2> QED BY <2>2, <2>3, <2>4, <2>6
<1>14. CASE UNCHANGED vars
  BY <1>14 DEF vars, CommandInHand, PointsInOrder, RefusedStayInOutbox, LostWhileDown,
         Unrecoverable, ReplayInHand, ChunkCoverage, ForgottenChunksHidden,
         OneDocumentPerContent, SearchableOnceServed
<1> QED BY <1>1, <1>2, <1>3, <1>4, <1>5, <1>6, <1>7, <1>8, <1>9, <1>10, <1>11, <1>12, <1>13,
           <1>14 DEF Next

LEMMA DocumentsInvariant == Spec => [](TypeOK /\ DocumentInv)
<1>1. Init => TypeOK
  <2> SUFFICES ASSUME Init PROVE TypeOK
    OBVIOUS
  <2>1. status \in [Doc -> {"absent", "active", "forgotten", "erased"}]
    BY DEF Init
  <2>2. content \in [Doc -> Content \cup {NoContent}] /\ by \in [Doc -> Principal \cup {NoOne}]
    BY DEF Init
  <2>3. attached \in [Doc -> SUBSET Principal] /\ originals \in [Doc -> SUBSET Principal]
    BY DEF Init
  <2> QED BY <2>1, <2>2, <2>3 DEF Init, TypeOK
<1>2. Init => DocumentInv
  <2> SUFFICES ASSUME Init PROVE DocumentInv
    OBVIOUS
  <2>1. rows = {} /\ graph = {} /\ snap = Missing
        /\ drain = {} /\ todo = {} /\ cur = NoDoc /\ pc = "down" /\ \A d \in Doc : status[d] = "absent"
    BY DEF Init
  <2> QED BY <2>1 DEF DocumentInv, CommandInHand, PointsInOrder, RefusedStayInOutbox,
              LostWhileDown, Unrecoverable, ReplayInHand, ChunkCoverage,
              ForgottenChunksHidden, OneDocumentPerContent, SearchableOnceServed, Present, ActiveRows
<1>3. TypeOK /\ DocumentInv /\ [Next]_vars => (TypeOK /\ DocumentInv)'
  BY DocumentsTypeStep, DocumentsStep DEF DocumentInv
<1> QED BY <1>1, <1>2, <1>3, PTL DEF Spec

\* Every variable keeps its type, and the outbox only has rows of chunks that exist: the
\* foreign keys of pending_index hold through ingest, replay and erasure.
THEOREM DocumentsTypes == Spec => []TypeOK
BY DocumentsInvariant, PTL

\* Each chunk of an active document is searchable or in the outbox, but for those a crash took
\* between drain and snapshot (handle_ingest_document_durable, replay_pending_index).
THEOREM ChunksCovered == Spec => []ChunkCoverage
<1>1. DocumentInv => ChunkCoverage
  BY DEF DocumentInv
<1> QED BY <1>1, DocumentsInvariant, PTL

\* A forgotten document stays out of the index across saves, crashes and starts
\* (handle_forget_document, rebuild_chunk_tombstones_from_sql).
THEOREM ForgottenStaysHidden == Spec => []ForgottenChunksHidden
<1>1. DocumentInv => ForgottenChunksHidden
  BY DEF DocumentInv
<1> QED BY <1>1, DocumentsInvariant, PTL

\* The dedup lookup by content_hash never lets a second document of one text in.
THEOREM NoSecondDocument == Spec => []OneDocumentPerContent
<1>1. DocumentInv => OneDocumentPerContent
  BY DEF DocumentInv
<1> QED BY <1>1, DocumentsInvariant, PTL

\* Once a start has replayed, each chunk the index takes is found by the next search, whether
\* its outbox row could be deleted or not, in every order of failed DELETEs, refusals, saves,
\* crashes and erasures (replay_pending_index, dispatch_ingest_document).
THEOREM ServedIsSearchable == Spec => []SearchableOnceServed
<1>1. DocumentInv => SearchableOnceServed
  BY DEF DocumentInv
<1> QED BY <1>1, DocumentsInvariant, PTL

\* A document only goes as a whole with nobody else's memory or original on it, and one that
\* loses its chunks but stays has another's memory attached and no original of its ingester
\* (gdpr_assets::prepare, delete_principal_rows_with_assets).
THEOREM ErasureKeepsToItsScope == Spec => ErasureScope
<1> DEFINE Scope ==
      \A d \in Present :
          /\ status'[d] = "erased" =>
                \E p \in Principal : /\ attached[d] \cup originals[d] \subseteq {p}
                                     /\ RowsOf(d) # {} => by[d] = p
          /\ status'[d] # "erased" /\ RowsOf(d) # {} /\ rows' \cap ChunksOf(d) = {} =>
                /\ attached[d] \ {by[d]} # {}
                /\ by[d] \notin originals[d]
<1>1. TypeOK /\ [Next]_vars => Scope
  <2> SUFFICES ASSUME TypeOK, [Next]_vars, NEW d \in Present
               PROVE  /\ status'[d] = "erased" =>
                            \E p \in Principal : /\ attached[d] \cup originals[d] \subseteq {p}
                                                 /\ RowsOf(d) # {} => by[d] = p
                      /\ status'[d] # "erased" /\ RowsOf(d) # {} /\ rows' \cap ChunksOf(d) = {} =>
                            /\ attached[d] \ {by[d]} # {}
                            /\ by[d] \notin originals[d]
    OBVIOUS
  <2> USE ChunkFacts DEF TypeOK, Present
  <2>1. CASE \E p \in Principal : EraseRows(p)
    <3>1. PICK p \in Principal : EraseRows(p)
      BY <2>1
    <3>2. /\ status'[d] = IF d \in ErasedDocs(p) THEN "erased" ELSE status[d]
          /\ rows' = rows \ {c \in rows : by[c[1]] = p}
          /\ ~ SharedOriginal(p)
      BY <3>1 DEF EraseRows
    <3>3. CASE d \in ErasedDocs(p)
      <4>1. originals[d] \subseteq {p}
        BY <3>2, <3>3 DEF SharedOriginal
      <4>2. attached[d] \subseteq {p} /\ (RowsOf(d) # {} => by[d] = p)
        BY <3>3 DEF ErasedDocs
      <4> QED BY <3>2, <3>3, <4>1, <4>2
    <3>4. CASE d \notin ErasedDocs(p)
      <4>1. status'[d] # "erased" /\ p \notin originals[d]
        BY <3>2, <3>4 DEF SharedOriginal
      <4>2. RowsOf(d) # {} /\ rows' \cap ChunksOf(d) = {} => by[d] = p
        BY <3>2 DEF RowsOf
      <4>3. RowsOf(d) # {} /\ by[d] = p => ~ attached[d] \subseteq {p}
        BY <3>4 DEF ErasedDocs
      <4> QED BY <4>1, <4>2, <4>3
    <3> QED BY <3>3, <3>4
  <2>2. CASE ~ \E p \in Principal : EraseRows(p)
    <3>1. rows \subseteq rows' /\ status'[d] # "erased"
      <4>1. CASE \E p \in Principal, x \in Content, e \in Doc : IngestCommit(p, x, e)
        BY <4>1 DEF IngestCommit
      <4>2. CASE \E e \in Doc : ForgetCommit(e)
        BY <4>2 DEF ForgetCommit
      <4>3. CASE \/ IndexChunks \/ Drain \/ Tombstone \/ TombstoneFails \/ EraseRebuild
                \/ Stop \/ Crash \/ ReplayEnd \/ UNCHANGED vars
        BY <4>3 DEF IndexChunks, Drain, Tombstone, TombstoneFails, EraseRebuild, Stop, Crash,
                    ReplayEnd, vars, db
      <4>4. CASE \/ \E p \in Principal, e \in Doc : Attach(p, e) \/ LinkOriginal(p, e)
                \/ \E p \in Principal : EraseRefused(p)
        BY <4>4 DEF Attach, LinkOriginal, EraseRefused, db
      <4>5. CASE \/ \E m \in {"serve", "erase"} : Start(m)
                \/ \E c \in Chunk : ReplayRow(c)
        BY <4>5 DEF Start, ReplayRow, db
      <4> QED BY <2>2, <4>1, <4>2, <4>3, <4>4, <4>5 DEF Next
    <3> QED BY <3>1 DEF RowsOf
  <2> QED BY <2>1, <2>2
<1> QED BY <1>1, DocumentsInvariant, PTL DEF Spec, ErasureScope

\* While a process lives, a tombstone is only lifted for a chunk of an active document: neither
\* replay nor rebuild brings back what was forgotten (replay_pending_index,
\* rebuild_hnsw_from_sql).
THEOREM OnlyActiveReturns == Spec => NothingReturns
<1> DEFINE Lifted == pc # "down" /\ pc' # "down" => tombs \ tombs' \subseteq ActiveRows'
<1>1. TypeOK /\ DocumentInv /\ [Next]_vars => Lifted
  <2> SUFFICES ASSUME TypeOK, DocumentInv, [Next]_vars, pc # "down", pc' # "down"
               PROVE  tombs \ tombs' \subseteq ActiveRows'
    OBVIOUS
  <2> USE ChunkFacts DEF TypeOK, DocumentInv, ActiveRows, Add, db, index
  <2>1. CASE IndexChunks
    <3>1. cur \in Doc /\ status[cur] = "active" /\ ChunksOf(cur) \subseteq rows
      BY <2>1 DEF IndexChunks, CommandInHand
    <3> QED BY <2>1, <3>1 DEF IndexChunks, Good
  <2>2. CASE EraseRebuild
    BY <2>2 DEF EraseRebuild, Good
  <2>3. CASE \E c \in Chunk : ReplayRow(c)
    BY <2>3 DEF ReplayRow, ReplayInHand, Good
  <2>4. CASE Drain \/ Tombstone \/ TombstoneFails \/ ReplayEnd \/ UNCHANGED vars
    BY <2>4 DEF Drain, Tombstone, TombstoneFails, ReplayEnd, vars
  <2>5. CASE \/ \E p \in Principal, x \in Content, d \in Doc : IngestCommit(p, x, d)
            \/ \E p \in Principal, d \in Doc : Attach(p, d) \/ LinkOriginal(p, d)
    BY <2>5 DEF IngestCommit, Attach, LinkOriginal
  <2>6. CASE \E d \in Doc : ForgetCommit(d)
    BY <2>6 DEF ForgetCommit
  <2>7. CASE \E p \in Principal : EraseRows(p)
    BY <2>7 DEF EraseRows
  <2>8. CASE Stop \/ Crash \/ \E p \in Principal : EraseRefused(p)
    BY <2>8 DEF Stop, Crash, EraseRefused, Down
  <2>9. CASE \E m \in {"serve", "erase"} : Start(m)
    BY <2>9 DEF Start
  <2> QED BY <2>1, <2>2, <2>3, <2>4, <2>5, <2>6, <2>7, <2>8, <2>9 DEF Next
<1> QED BY <1>1, DocumentsInvariant, PTL DEF Spec, NothingReturns

=============================================================================
