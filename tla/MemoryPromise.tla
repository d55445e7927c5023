----------------------------- MODULE MemoryPromise -----------------------------
(***************************************************************************)
(* What the memory store promises its callers, without the index, the      *)
(* outbox, the snapshot files, the command queue or the process: writes    *)
(* become durable whole and at most once, an answer Ok is given only for   *)
(* what is already durable, and no crash takes any of it back.             *)
(***************************************************************************)
CONSTANTS Memory, Vec, NoVec

VARIABLES
    asked,   \* the sets of new memories that callers asked to store together
    status,  \* status[m] \in {"absent", "active", "forgotten"}
    vec,     \* the embedding stored with m
    answer   \* what the caller who asked for m was told: "none", "ok" or "err"

promiseVars == <<asked, status, vec, answer>>

Init == /\ asked = {}
        /\ status = [m \in Memory |-> "absent"]
        /\ vec = [m \in Memory |-> NoVec]
        /\ answer = [m \in Memory |-> "none"]

\* A caller asks for a set of memories nobody asked for before (ids are fresh UUIDs).
Ask(ids) == /\ ids \cap UNION asked = {}
            /\ asked' = asked \cup {ids}
            /\ UNCHANGED <<status, vec, answer>>

\* The whole set becomes durable, once, and before the caller has an answer.
Store(ids, new) ==
    /\ ids \in asked
    /\ \A m \in ids : status[m] = "absent" /\ answer[m] = "none"
    /\ status' = [m \in Memory |-> IF m \in ids THEN "active" ELSE status[m]]
    /\ vec' = [m \in Memory |-> IF m \in ids THEN new[m] ELSE vec[m]]
    /\ UNCHANGED <<asked, answer>>

\* A memory is rewritten in place, only while it is active.
Rewrite(m, v) == /\ status[m] = "active"
                 /\ vec' = [vec EXCEPT ![m] = v]
                 /\ UNCHANGED <<asked, status, answer>>

\* A memory is forgotten for good.
Forget(m) == /\ status[m] \in {"active", "forgotten"}
             /\ status' = [status EXCEPT ![m] = "forgotten"]
             /\ UNCHANGED <<asked, vec, answer>>

\* Ok is only ever said of a durable set, and an answer is given once.
Answer(ids, said) ==
    /\ ids \in asked
    /\ said \in {"ok", "err"}
    /\ \A m \in ids : answer[m] = "none"
    /\ said = "ok" => \A m \in ids : status[m] # "absent"
    /\ answer' = [m \in Memory |-> IF m \in ids THEN said ELSE answer[m]]
    /\ UNCHANGED <<asked, status, vec>>

Next == \/ \E ids \in (SUBSET Memory) \ {{}} : Ask(ids)
        \/ \E ids \in asked : \E new \in [ids -> Vec] : Store(ids, new)
        \/ \E m \in Memory, v \in Vec : Rewrite(m, v)
        \/ \E m \in Memory : Forget(m)
        \/ \E ids \in asked, said \in {"ok", "err"} : Answer(ids, said)

Spec == Init /\ [][Next]_promiseVars
=============================================================================
