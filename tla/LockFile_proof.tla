----------------------------- MODULE LockFile_proof -----------------------------
(***************************************************************************)
(* For any number of processes, crashes at any point and failed writes:    *)
(* while no two processes acquire the lock at the same time, at most one   *)
(* holds it (even when pids come back), and a start that ends as refused   *)
(* met another living Solo process or read a pid that has come back.       *)
(***************************************************************************)
EXTENDS LockFile, TLAPS

USE LockAssumption

LEMMA LockTypeStep == TypeOK /\ [Next]_vars => TypeOK'
<1> SUFFICES ASSUME TypeOK, [Next]_vars PROVE TypeOK'
  OBVIOUS
<1> USE DEF TypeOK, Place, Acquiring, Gone, history
<1>1. ASSUME NEW p \in Process, NEW place \in Place, Goto(p, place)
      PROVE  at' \in [Process -> Place]
  BY <1>1 DEF Goto
<1>2. ASSUME NEW p \in Process,
             \/ Start(p) \/ TryCreate(p) \/ Retry(p) \/ ReadPid(p) \/ CheckPid(p)
             \/ RemoveStale(p) \/ WritePid(p) \/ Fail(p) \/ Release(p) \/ End(p) \/ Reuse(p)
      PROVE  at' \in [Process -> Place]
  <2>1. (\E place \in Place : Goto(p, place)) \/ at' = at
    BY <1>2 DEF Start, TryCreate, Retry, CreateNew, ReadPid, CheckPid, RemoveStale, WritePid,
                Fail, Release, End, Reuse
  <2> QED BY <1>1, <2>1
<1>3. CASE Next
  <2>1. at' \in [Process -> Place]
    BY <1>2, <1>3 DEF Next
  <2>2. path' \in Process \cup {NoFile} /\ written' \in SUBSET Process /\ foreign' \in SUBSET Process
    BY <1>3 DEF Next, Start, TryCreate, Retry, CreateNew, ReadPid, CheckPid, RemoveStale,
                WritePid, Fail, Release, End, Reuse
  <2>3. seen' \in [Process -> Process \cup {NoPid}]
    BY <1>3 DEF Next, Start, TryCreate, Retry, CreateNew, ReadPid, CheckPid, RemoveStale,
                WritePid, Fail, Release, End, Reuse
  <2>4. raced' \in BOOLEAN /\ reused' \in SUBSET Process /\ met' \in SUBSET Process
    BY <1>3 DEF Next, Start, TryCreate, Retry, CreateNew, ReadPid, CheckPid, RemoveStale,
                WritePid, Fail, Release, End, Reuse
  <2> QED BY <2>1, <2>2, <2>3, <2>4
<1>4. CASE UNCHANGED vars
  BY <1>4 DEF vars
<1> QED BY <1>3, <1>4

\* A step of a process that acquires alone keeps the invariant.
LEMMA LockStep == TypeOK /\ LockInv /\ [Next]_vars => LockInv'
<1> SUFFICES ASSUME TypeOK, LockInv, [Next]_vars PROVE LockInv'
  OBVIOUS
<1> USE DEF TypeOK, LockInv, HolderOwnsPath, AcquiringAlone, MutualExclusion, Goto, history
<1>1. ASSUME NEW p \in Process, Start(p) PROVE LockInv'
  BY <1>1 DEF Start, Acquiring
<1>2. ASSUME NEW p \in Process, TryCreate(p) \/ Retry(p) PROVE LockInv'
  BY <1>2 DEF TryCreate, Retry, CreateNew, Acquiring
<1>3. ASSUME NEW p \in Process, ReadPid(p) PROVE LockInv'
  BY <1>3 DEF ReadPid, Acquiring
<1>4. ASSUME NEW p \in Process, CheckPid(p) PROVE LockInv'
  <2>1. CASE at'[p] = "remove" /\ ~raced
    <3>1. \A q \in Process : at[q] # "held"
      <4>1. SUFFICES ASSUME NEW q \in Process, at[q] = "held" PROVE FALSE
        OBVIOUS
      <4>2. at[p] = "check" /\ path = q /\ q \in written
        BY <1>4, <2>1, <4>1 DEF CheckPid
      <4>3. seen[p] = q /\ Alive(q)
        BY <2>1, <4>1, <4>2 DEF Alive, Gone
      <4> QED BY <1>4, <2>1, <4>3 DEF CheckPid
    <3> QED BY <1>4, <2>1, <3>1 DEF CheckPid, Acquiring
  <2>2. CASE at'[p] = "refused"
    BY <1>4, <2>2 DEF CheckPid, Acquiring
  <2>3. CASE raced
    BY <1>4, <2>3 DEF CheckPid
  <2> QED BY <1>4, <2>1, <2>2, <2>3 DEF CheckPid
<1>5. ASSUME NEW p \in Process, RemoveStale(p) PROVE LockInv'
  BY <1>5 DEF RemoveStale, Acquiring
<1>6. ASSUME NEW p \in Process, WritePid(p) PROVE LockInv'
  BY <1>6 DEF WritePid, Acquiring
<1>7. ASSUME NEW p \in Process, Fail(p) \/ Release(p) \/ End(p) PROVE LockInv'
  BY <1>7 DEF Fail, Release, End, Acquiring, Gone
<1>8. ASSUME NEW p \in Process, Reuse(p) PROVE LockInv'
  BY <1>8 DEF Reuse
<1>9. CASE UNCHANGED vars
  BY <1>9 DEF vars
<1> QED BY <1>1, <1>2, <1>3, <1>4, <1>5, <1>6, <1>7, <1>8, <1>9 DEF Next

\* A process that has met nobody finds the path as it left it, so it is refused only by the
\* pid it read, and that pid has come back.
LEMMA RefusalStep == TypeOK /\ RefusalInv /\ [Next]_vars => RefusalInv'
<1> SUFFICES ASSUME TypeOK, RefusalInv, [Next]_vars PROVE RefusalInv'
  OBVIOUS
<1> USE DEF TypeOK, RefusalInv, AloneAtPath, PidsAreFresh, RefusedOnlyByOther, Others, Goto,
            Acquiring, history
<1>1. ASSUME NEW p \in Process, Start(p) PROVE RefusalInv'
  <2>1. /\ at' = [at EXCEPT ![p] = "create"] /\ at[p] \in Gone /\ p \notin foreign
        /\ seen' = [seen EXCEPT ![p] = NoPid] /\ UNCHANGED <<path, written, foreign>>
        /\ reused' = IF at[p] = "dead" THEN reused \cup {p} ELSE reused
        /\ met' = IF Others(p) = {} THEN met \ {p}
                  ELSE met \cup {p} \cup {q \in Process : at[q] \in Acquiring}
    BY <1>1 DEF Start
  <2>2. AloneAtPath'
    <3> SUFFICES ASSUME NEW q \in Process, at'[q] \in Acquiring, q \notin met'
                 PROVE  /\ Others(q)' = {}
                        /\ at'[q] = "create"
      BY DEF Acquiring
    <3>1. CASE Others(p) = {}
      <4>1. q = p
        BY <2>1, <3>1 DEF Gone
      <4> QED BY <2>1, <3>1, <4>1 DEF Gone
    <3>2. CASE Others(p) # {}
      BY <2>1, <3>2
    <3> QED BY <3>1, <3>2
  <2>3. PidsAreFresh'
    BY <2>1 DEF Gone
  <2>4. RefusedOnlyByOther'
    BY <2>1
  <2> QED BY <2>2, <2>3, <2>4
<1>2. ASSUME NEW p \in Process, TryCreate(p) \/ Retry(p) PROVE RefusalInv'
  <2>1. /\ UNCHANGED <<seen, foreign, reused, met>>
        /\ at[p] \in {"create", "retry"}
        /\ \/ path = NoFile /\ path' = p /\ written' = written \ {p}
              /\ at' = [at EXCEPT ![p] = "write"]
           \/ path # NoFile /\ UNCHANGED <<path, written>>
              /\ at[p] = "create" /\ at' = [at EXCEPT ![p] = "read"]
           \/ path # NoFile /\ UNCHANGED <<path, written>>
              /\ at[p] = "retry" /\ at' = [at EXCEPT ![p] = "refused"]
    BY <1>2 DEF TryCreate, Retry, CreateNew
  <2>2. AloneAtPath'
    BY <2>1 DEF Gone
  <2>3. PidsAreFresh'
    BY <2>1
  <2>4. RefusedOnlyByOther'
    BY <2>1
  <2> QED BY <2>2, <2>3, <2>4
<1>3. ASSUME NEW p \in Process, ReadPid(p) PROVE RefusalInv'
  <2>1. /\ UNCHANGED <<path, written, foreign, reused, met>> /\ at[p] = "read"
        /\ \/ path = NoFile /\ at' = [at EXCEPT ![p] = "refused"] /\ seen' = seen
           \/ path # NoFile /\ at' = [at EXCEPT ![p] = "check"]
              /\ seen' = [seen EXCEPT ![p] = IF path \in written THEN path ELSE NoPid]
    BY <1>3 DEF ReadPid
  <2>2. AloneAtPath'
    BY <2>1 DEF Gone
  <2>3. PidsAreFresh'
    BY <2>1
  <2>4. RefusedOnlyByOther'
    BY <2>1
  <2> QED BY <2>2, <2>3, <2>4
<1>4. ASSUME NEW p \in Process, CheckPid(p) PROVE RefusalInv'
  <2>1. /\ UNCHANGED <<path, written, seen, foreign, reused, met>> /\ at[p] = "check"
        /\ \/ at' = [at EXCEPT ![p] = "refused"] /\ seen[p] # NoPid /\ Alive(seen[p])
           \/ at' = [at EXCEPT ![p] = "remove"]
    BY <1>4 DEF CheckPid
  <2>2. AloneAtPath'
    BY <2>1 DEF Gone
  <2>3. PidsAreFresh'
    BY <2>1
  <2>4. Alive(seen[p]) => p \in met \/ seen[p] \in reused
    BY <2>1 DEF Alive
  <2>5. RefusedOnlyByOther'
    BY <2>1, <2>4
  <2> QED BY <2>2, <2>3, <2>5
<1>5. ASSUME NEW p \in Process, RemoveStale(p) PROVE RefusalInv'
  <2>1. /\ UNCHANGED <<written, seen, foreign, reused, met>> /\ at[p] = "remove"
        /\ path' = NoFile
        /\ \/ path = NoFile /\ at' = [at EXCEPT ![p] = "refused"]
           \/ path # NoFile /\ at' = [at EXCEPT ![p] = "retry"]
    BY <1>5 DEF RemoveStale
  <2>2. AloneAtPath'
    BY <2>1 DEF Gone
  <2>3. PidsAreFresh'
    BY <2>1
  <2>4. RefusedOnlyByOther'
    BY <2>1
  <2> QED BY <2>2, <2>3, <2>4
<1>6. ASSUME NEW p \in Process, WritePid(p) \/ Fail(p) PROVE RefusalInv'
  <2>1. /\ UNCHANGED <<path, seen, foreign, reused, met>> /\ at[p] \in Acquiring
        /\ at' = [at EXCEPT ![p] = "held"] \/ at' = [at EXCEPT ![p] = "failed"]
        /\ written' \in {written, written \cup {p}}
    BY <1>6 DEF WritePid, Fail
  <2>2. AloneAtPath'
    BY <2>1 DEF Gone
  <2> QED BY <2>1, <2>2
<1>7. ASSUME NEW p \in Process, Release(p) \/ End(p) PROVE RefusalInv'
  <2>1. /\ UNCHANGED <<written, seen, foreign, reused, met>> /\ at[p] \notin Gone
        /\ at' = [at EXCEPT ![p] = "dead"]
        /\ path' = path \/ at[p] = "held"
    BY <1>7 DEF Release, End, Gone
  <2>2. AloneAtPath'
    BY <2>1 DEF Gone
  <2> QED BY <2>1, <2>2
<1>8. ASSUME NEW p \in Process, Reuse(p) PROVE RefusalInv'
  BY <1>8 DEF Reuse, Gone
<1>9. CASE UNCHANGED vars
  BY <1>9 DEF vars
<1> QED BY <1>1, <1>2, <1>3, <1>4, <1>5, <1>6, <1>7, <1>8, <1>9 DEF Next

LEMMA LockInit == Init => TypeOK /\ LockInv /\ RefusalInv
BY DEF Init, TypeOK, Place, Acquiring, Gone, LockInv, HolderOwnsPath, AcquiringAlone,
       MutualExclusion, RefusalInv, AloneAtPath, PidsAreFresh, RefusedOnlyByOther

\* While processes acquire one at a time, one process owns the data directory: a stale lock is
\* recovered only from an owner that is gone, and nobody removes a lock that is held.
THEOREM OneOwner == Spec => []OneOwnerUnlessRaced
<1>1. Init => TypeOK /\ LockInv
  BY LockInit
<1>2. TypeOK /\ LockInv /\ [Next]_vars => (TypeOK /\ LockInv)'
  BY LockTypeStep, LockStep
<1>3. LockInv => OneOwnerUnlessRaced
  BY DEF LockInv, OneOwnerUnlessRaced
<1> QED BY <1>1, <1>2, <1>3, PTL DEF Spec

\* Wherever a start is refused, at the read, the pid, the removal or the retry, another Solo
\* process was alive while it acquired or the pid it read has come back: what dead owners and
\* races of the past left at the path stops nobody who starts alone.
THEOREM StaleLockRecovered == Spec => []RefusedOnlyByOther
<1>1. Init => TypeOK /\ RefusalInv
  BY LockInit
<1>2. TypeOK /\ RefusalInv /\ [Next]_vars => (TypeOK /\ RefusalInv)'
  BY LockTypeStep, RefusalStep
<1>3. RefusalInv => RefusedOnlyByOther
  BY DEF RefusalInv
<1> QED BY <1>1, <1>2, <1>3, PTL DEF Spec
=============================================================================
