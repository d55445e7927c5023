-------------------------------- MODULE LockFile --------------------------------
(***************************************************************************)
(* solo.lock (lockfile.rs): what keeps two Solo processes off one data     *)
(* directory.  Every daemon and every one-shot command acquires it first,  *)
(* recovering a lock whose owner has died, and removes it when it ends.    *)
(*                                                                         *)
(* A process is named by its pid.  The file at the lock's path is named by *)
(* the process that created it: two processes may each have a file open    *)
(* while the path leads to one of them or to none.                         *)
(***************************************************************************)
CONSTANTS
    Process,  \* pids
    NoFile,   \* nothing at the lock's path
    NoPid     \* the body of a file whose creator has not written to it

ASSUME LockAssumption ==
    /\ NoFile \notin Process
    /\ NoPid \notin Process

VARIABLES
    at,       \* where each process is
    path,     \* the creator of the file at the lock's path, or NoFile
    written,  \* the creators whose file holds their pid
    seen,     \* the body that each process read
    foreign,  \* pids held by programs other than Solo
    \* history
    raced,    \* two processes have been acquiring at the same time
    reused,   \* pids of dead processes that have come back, as Solo or as another program
    met       \* processes that were not the only living Solo process while they acquired

vars == <<at, path, written, seen, foreign, raced, reused, met>>
history == <<raced, reused, met>>

Acquiring == {"create", "read", "check", "remove", "retry", "write"}
Gone == {"unborn", "dead"}

\* is_pid_alive
Alive(pid) == pid \in Process /\ (at[pid] \notin Gone \/ pid \in foreign)

Init == /\ at = [p \in Process |-> "unborn"]
        /\ path = NoFile
        /\ written = {}
        /\ seen = [p \in Process |-> NoPid]
        /\ foreign = {}
        /\ raced = FALSE /\ reused = {} /\ met = {}

Goto(p, place) == at' = [at EXCEPT ![p] = place]
Others(p) == {q \in Process \ {p} : at[q] \notin Gone}
-----------------------------------------------------------------------------
Start(p) ==
    /\ at[p] \in Gone /\ p \notin foreign
    /\ raced' = (raced \/ \E q \in Process : at[q] \in Acquiring)
    /\ reused' = IF at[p] = "dead" THEN reused \cup {p} ELSE reused
    /\ met' = IF Others(p) = {} THEN met \ {p}
              ELSE met \cup {p} \cup {q \in Process : at[q] \in Acquiring}
    /\ Goto(p, "create")
    /\ seen' = [seen EXCEPT ![p] = NoPid]
    /\ UNCHANGED <<path, written, foreign>>

\* create_new: the file is empty until the pid is written.
CreateNew(p, taken) ==
    /\ IF path = NoFile
       THEN path' = p /\ written' = written \ {p} /\ Goto(p, "write")
       ELSE UNCHANGED <<path, written>> /\ Goto(p, taken)
    /\ UNCHANGED <<seen, foreign, history>>

TryCreate(p) == at[p] = "create" /\ CreateNew(p, "read")

\* The one retry after a recovery.
Retry(p) == at[p] = "retry" /\ CreateNew(p, "refused")

\* read_to_string of whatever is at the path now; nothing there counts as held.
ReadPid(p) ==
    /\ at[p] = "read"
    /\ IF path = NoFile
       THEN Goto(p, "refused") /\ UNCHANGED seen
       ELSE /\ Goto(p, "check")
            /\ seen' = [seen EXCEPT ![p] = IF path \in written THEN path ELSE NoPid]
    /\ UNCHANGED <<path, written, foreign, history>>

\* Mutant: a lock that holds a pid is never taken over, one without a pid is.
CheckPidAny(p) ==
    /\ at[p] = "check"
    /\ Goto(p, IF seen[p] # NoPid THEN "refused" ELSE "remove")
    /\ UNCHANGED <<path, written, seen, foreign, history>>

\* Mutant: the retry removes the lock without asking whether its owner lives.
CheckPidNever(p) ==
    /\ at[p] = "check"
    /\ Goto(p, "remove")
    /\ UNCHANGED <<path, written, seen, foreign, history>>

\* A body without a pid counts as stale.
CheckPid(p) ==
    /\ at[p] = "check"
    /\ Goto(p, IF seen[p] # NoPid /\ Alive(seen[p]) THEN "refused" ELSE "remove")
    /\ UNCHANGED <<path, written, seen, foreign, history>>

\* Removes what is at the path, which need not be the file that was read.
RemoveStale(p) ==
    /\ at[p] = "remove"
    /\ Goto(p, IF path = NoFile THEN "refused" ELSE "retry")
    /\ path' = NoFile
    /\ UNCHANGED <<written, seen, foreign, history>>

\* The pid goes through the handle, wherever the path leads by now; when the write or the
\* fsync fails, acquire returns an error and leaves the file.
WritePid(p) ==
    /\ at[p] = "write"
    /\ \/ Goto(p, "held") /\ written' = written \cup {p}
       \/ Goto(p, "failed") /\ written' \in {written, written \cup {p}}
    /\ UNCHANGED <<path, seen, foreign, history>>

\* An I/O error of the open, the read or the remove. A file that cannot be read is answered
\* as held, whoever owned it.
Fail(p) ==
    /\ at[p] \in {"create", "read", "remove", "retry"}
    /\ Goto(p, "failed")
    /\ UNCHANGED <<path, written, seen, foreign, history>>

\* Drop: removes the file at the path, whoever created it, and the process ends.
Release(p) ==
    /\ at[p] = "held"
    /\ Goto(p, "dead")
    /\ path' = NoFile
    /\ UNCHANGED <<written, seen, foreign, history>>

\* A process that got an error, or crashes, leaves the path as it is.
End(p) ==
    /\ at[p] \notin Gone
    /\ Goto(p, "dead")
    /\ UNCHANGED <<path, written, seen, foreign, history>>

\* Another program gets, or gives back, the pid of a dead process.
Reuse(p) ==
    /\ at[p] = "dead"
    /\ foreign' \in {foreign \cup {p}, foreign \ {p}}
    /\ reused' = reused \cup {p}
    /\ UNCHANGED <<at, path, written, seen, raced, met>>

Next == \E p \in Process :
    \/ Start(p) \/ TryCreate(p) \/ Retry(p) \/ ReadPid(p) \/ CheckPid(p) \/ RemoveStale(p)
    \/ WritePid(p) \/ Fail(p) \/ Release(p) \/ End(p) \/ Reuse(p)

Spec == Init /\ [][Next]_vars
-----------------------------------------------------------------------------
Place == Acquiring \cup Gone \cup {"held", "refused", "failed"}

TypeOK == /\ at \in [Process -> Place]
          /\ path \in Process \cup {NoFile}
          /\ written \in SUBSET Process
          /\ seen \in [Process -> Process \cup {NoPid}]
          /\ foreign \in SUBSET Process
          /\ raced \in BOOLEAN
          /\ reused \in SUBSET Process /\ met \in SUBSET Process

\* lockfile.rs: the lock prevents two daemons from racing on the same data directory.
MutualExclusion == \A p, q \in Process : at[p] = "held" /\ at[q] = "held" => p = q

\* As long as no two acquisitions have overlapped, one process at a time owns the data
\* directory, whatever crashes and pids that come back lie in between.
OneOwnerUnlessRaced == ~raced => MutualExclusion

\* "another Solo process is running" (held_error): whichever look at the path ends a start,
\* the read, the pid, the removal or the one retry, another Solo process was alive between
\* that start and its end, or the pid it read has come back. A start that meets nobody gets
\* past whatever dead owners left, also where starts that raced before it left it.
RefusedOnlyByOther ==
    \A p \in Process : at[p] = "refused" => p \in met \/ seen[p] \in reused

\* The inductive invariants behind both.

\* The path leads to the file of the process that holds the lock, and it names that process.
HolderOwnsPath == \A p \in Process : at[p] = "held" => path = p /\ p \in written

\* Nobody holds the lock that a process is about to take, and one that holds a pid has been
\* read by the process that checks it.
AcquiringAlone ==
    /\ \A p, q \in Process : at[p] \in Acquiring /\ at[q] \in Acquiring => p = q
    /\ \A p \in Process : at[p] = "write" => path = p
    /\ \A p \in Process : at[p] = "check" /\ path \in written => seen[p] = path
    /\ \A p \in Process : at[p] \in {"remove", "retry", "write"}
                          => \A q \in Process : at[q] # "held"

LockInv == ~raced => HolderOwnsPath /\ AcquiringAlone /\ MutualExclusion

\* While a process acquires and has met nobody, the others are gone and the path is as it
\* left it.
AloneAtPath == \A p \in Process : at[p] \in Acquiring /\ p \notin met =>
    /\ Others(p) = {}
    /\ at[p] \in {"read", "check", "remove"} => path # NoFile
    /\ at[p] = "retry" => path = NoFile

\* A pid that has not come back is no other program's, is in no file before it is written
\* there, and is not read by its own process.
PidsAreFresh == \A p \in Process \ reused :
    /\ p \notin foreign
    /\ at[p] \in Acquiring \cup {"unborn"} => p \notin written
    /\ seen[p] # p

RefusalInv == AloneAtPath /\ PidsAreFresh /\ RefusedOnlyByOther
=============================================================================
