------------------------------- MODULE McpStream -------------------------------
(***************************************************************************)
(* One MCP session over HTTP and its event stream: SessionState and the    *)
(* store that forgets it (mcp_session.rs), the bridge that turns the       *)
(* library's invalidations into events (mcp_notify.rs), the tool calls     *)
(* that report progress (mcp_progress.rs), and the resumable GET stream    *)
(* with its replay by Last-Event-ID (http.rs). publish_event is three      *)
(* steps: take an id, push to the replay buffer, send to the channel.      *)
(*                                                                         *)
(* An expiry, a sweep and a DELETE are one action, Evict: whether a        *)
(* lookup finds the session gone or the clock takes it right after makes   *)
(* no difference here. A client answered session_expired starts over, with *)
(* another session. An event that reaches the client reaches it at once.   *)
(***************************************************************************)
EXTENDS Naturals, Sequences, SequencesExt, FiniteSets

CONSTANTS
    Bridge,    \* the session's invalidate bridge
    Reporter,  \* tool calls that may be in flight at the same time
    Cap,       \* MCP_SESSION_EVENT_BUFFER_CAPACITY, of the buffer and of the channel
    LastId     \* bound: event ids of one session

ASSUME McpStreamAssumption ==
    /\ Bridge \notin Reporter
    /\ Cap \in Nat \ {0}
    /\ LastId \in Nat

Publisher == Reporter \cup {Bridge}
Id == 1 .. LastId
Synthetic == 0   \* the SSE id of init, lagged and heartbeat events

VARIABLES
    \* the session
    stored,    \* it is in the SessionStore
    nextId,    \* SessionState::next_event_id
    buffer,    \* event_replay_buffer, oldest first
    sent,      \* everything sent on event_tx, oldest first
    at,        \* publisher -> "off", "ready", or the step of publish_event it is before
    own,       \* publisher -> the id it took
    \* the stream of the client
    stream,    \* "closed", "subscribed" or "open"
    rx,        \* how much of `sent` its receiver has taken
    queue,     \* McpStreamState::replay_queue; Synthetic for the lagged event
    emitted,   \* last_emitted_id, 0 for None
    needsInit,
    \* the client
    filters,   \* it keeps synthetic ids out of its Last-Event-ID, which plain SSE does not
    cursor,    \* the Last-Event-ID it would send
    \* history
    got,       \* ids the client received
    excused,   \* ids it did not get that a lagged event told it of, or that were sent
               \* before a stream it opened with Last-Event-ID 0
    overlapped,\* ids whose publication overlapped with another
    halfSent   \* ids that were in the buffer and not yet sent when a stream subscribed

session == <<stored, nextId, buffer, sent, at, own>>
receiver == <<stream, rx, queue, emitted, needsInit>>
client == <<filters, cursor>>
history == <<got, excused, overlapped, halfSent>>
vars == <<session, receiver, client, history>>

Publishing == {p \in Publisher : at[p] \in {"push", "send"}}

\* Mutant: the bridge asks the store.
AliveStored == stored

\* Somebody holds an Arc of the SessionState; the bridge only holds a Weak.
Alive == stored \/ stream # "closed" \/ Publishing # {} \/ \E r \in Reporter : at[r] # "off"

\* POST /mcp without a session id: SessionStore::insert and spawn_invalidate_bridge.
Init ==
    /\ stored = TRUE
    /\ nextId = 1
    /\ buffer = <<>> /\ sent = <<>>
    /\ at = [p \in Publisher |-> IF p = Bridge THEN "ready" ELSE "off"]
    /\ own = [p \in Publisher |-> Synthetic]
    /\ stream = "closed" /\ rx = 0 /\ queue = <<>> /\ emitted = 0 /\ needsInit = FALSE
    /\ filters \in BOOLEAN
    /\ cursor = 0
    /\ got = {} /\ excused = {} /\ overlapped = {} /\ halfSent = {}

Closed == stream' = "closed" /\ rx' = 0 /\ queue' = <<>> /\ emitted' = 0 /\ needsInit' = FALSE
--------------------------------------------------------------------------------
(* publish_event *)

TakeId(p) ==
    /\ nextId <= LastId
    /\ nextId' = nextId + 1
    /\ own' = [own EXCEPT ![p] = nextId]
    /\ at' = [at EXCEPT ![p] = "push"]
    /\ overlapped' = overlapped \cup
         (IF Publishing = {} THEN {} ELSE {nextId} \cup {own[q] : q \in Publishing})
    /\ UNCHANGED <<stored, buffer, sent, receiver, client, got, excused, halfSent>>

Push(p) ==
    /\ at[p] = "push"
    /\ buffer' = Append(IF Len(buffer) >= Cap THEN Tail(buffer) ELSE buffer, own[p])
    /\ at' = [at EXCEPT ![p] = "send"]
    /\ UNCHANGED <<stored, nextId, sent, own, receiver, client, history>>

Send(p) ==
    /\ at[p] = "send"
    /\ sent' = Append(sent, own[p])
    /\ at' = [at EXCEPT ![p] = "ready"]
    /\ own' = [own EXCEPT ![p] = Synthetic]
    /\ UNCHANGED <<stored, nextId, buffer, receiver, client, history>>

\* The bridge received an invalidation: it publishes one event, or it exits.
BridgeEvent ==
    /\ at[Bridge] = "ready"
    /\ IF Alive
       THEN TakeId(Bridge)
       ELSE /\ at' = [at EXCEPT ![Bridge] = "off"]
            /\ UNCHANGED <<stored, nextId, buffer, sent, own, receiver, client, history>>

\* A tools/call with a progress token, which found the session in the store.
BeginCall(r) ==
    /\ at[r] = "off" /\ stored
    /\ at' = [at EXCEPT ![r] = "ready"]
    /\ UNCHANGED <<stored, nextId, buffer, sent, own, receiver, client, history>>

Report(r) == at[r] = "ready" /\ TakeId(r)

EndCall(r) ==
    /\ at[r] = "ready"
    /\ at' = [at EXCEPT ![r] = "off"]
    /\ UNCHANGED <<stored, nextId, buffer, sent, own, receiver, client, history>>

\* sweep_once, SessionStore::get of an expired session, or DELETE /mcp.
Evict ==
    /\ stored
    /\ stored' = FALSE
    /\ UNCHANGED <<nextId, buffer, sent, at, own, receiver, client, history>>
--------------------------------------------------------------------------------
(* GET /mcp *)

\* The stream subscribes before it looks at the buffer.
Connect ==
    /\ stored /\ stream = "closed"
    /\ stream' = "subscribed"
    /\ rx' = Len(sent)
    /\ excused' = excused \cup (IF cursor = 0 THEN Range(sent) \ got ELSE {})
    /\ halfSent' = halfSent \cup {own[p] : p \in {q \in Publisher : at[q] = "send"}}
    /\ UNCHANGED <<session, queue, emitted, needsInit, client, got, overlapped>>

\* The events of the snapshot that come after `last`, in their order there.
Newer(last, snapshot) ==
    LET newer[n \in 0 .. Len(snapshot)] ==
          IF n = 0 THEN <<>>
          ELSE IF snapshot[n] > last THEN Append(newer[n - 1], snapshot[n]) ELSE newer[n - 1]
    IN  newer[Len(snapshot)]

\* Mutant: evicted events are passed over.
ReplayWithoutLag(last, snapshot) == IF last = 0 THEN <<>> ELSE Newer(last, snapshot)

Replay(last, snapshot) ==
    IF last = 0 \/ snapshot = <<>> THEN <<>>
    ELSE IF last + 1 < Head(snapshot) THEN <<Synthetic>> \o snapshot
    ELSE IF last >= Last(snapshot) THEN <<>>
    ELSE Newer(last, snapshot)

\* Mutant: the stream subscribes after the snapshot.
SnapshotFirst ==
    /\ stream = "subscribed"
    /\ stream' = "open"
    /\ rx' = Len(sent)
    /\ queue' = Replay(cursor, buffer)
    /\ needsInit' = TRUE
    /\ emitted' = 0
    /\ UNCHANGED <<session, client, history>>

Snapshot ==
    /\ stream = "subscribed"
    /\ stream' = "open"
    /\ queue' = Replay(cursor, buffer)
    /\ needsInit' = TRUE
    /\ emitted' = 0
    /\ UNCHANGED <<session, rx, client, history>>

\* The client takes one SSE event and remembers its id.
Receive(i) ==
    /\ cursor' = IF i = Synthetic /\ filters THEN cursor ELSE i
    /\ got' = IF i = Synthetic THEN got ELSE got \cup {i}
    /\ UNCHANGED filters

SendInit ==
    /\ stream = "open" /\ needsInit
    /\ needsInit' = FALSE
    /\ Receive(Synthetic)
    /\ UNCHANGED <<session, stream, rx, queue, emitted, excused, overlapped, halfSent>>

SendQueued ==
    /\ stream = "open" /\ ~needsInit /\ queue # <<>>
    /\ queue' = Tail(queue)
    /\ emitted' = IF Head(queue) = Synthetic THEN emitted ELSE Head(queue)
    /\ Receive(Head(queue))
    /\ excused' = excused \cup
         (IF Head(queue) = Synthetic THEN {i \in Id : i < queue[2]} \ got ELSE {})
    /\ UNCHANGED <<session, stream, rx, needsInit, overlapped, halfSent>>

Tailing == stream = "open" /\ ~needsInit /\ queue = <<>>

\* Mutant: what the replay sent is sent again.
SendLiveAlways ==
    /\ Tailing
    /\ rx < Len(sent) /\ Len(sent) - rx <= Cap
    /\ rx' = rx + 1
    /\ emitted' = sent[rx + 1]
    /\ Receive(sent[rx + 1])
    /\ UNCHANGED <<session, stream, queue, needsInit, excused, overlapped, halfSent>>

SendLive ==
    /\ Tailing
    /\ rx < Len(sent) /\ Len(sent) - rx <= Cap
    /\ rx' = rx + 1
    /\ LET i == sent[rx + 1] IN
         IF i <= emitted THEN UNCHANGED <<emitted, client, got>>
         ELSE emitted' = i /\ Receive(i)
    /\ UNCHANGED <<session, stream, queue, needsInit, excused, overlapped, halfSent>>

\* RecvError::Lagged: the receiver moves to the oldest event the channel retains.
SendLagged ==
    /\ Tailing
    /\ Len(sent) - rx > Cap
    /\ rx' = Len(sent) - Cap
    /\ excused' = excused \cup ({sent[k] : k \in rx + 1 .. Len(sent) - Cap} \ got)
    /\ Receive(Synthetic)
    /\ UNCHANGED <<session, stream, queue, emitted, needsInit, overlapped, halfSent>>

Heartbeat ==
    /\ Tailing
    /\ Receive(Synthetic)
    /\ UNCHANGED <<session, receiver, excused, overlapped, halfSent>>

\* The connection breaks.
Break ==
    /\ stream # "closed"
    /\ Closed
    /\ UNCHANGED <<session, client, history>>
--------------------------------------------------------------------------------
StreamStep == Snapshot \/ SendInit \/ SendQueued \/ SendLive \/ SendLagged

Next ==
    \/ \E p \in Publisher : Push(p) \/ Send(p)
    \/ \E r \in Reporter : BeginCall(r) \/ Report(r) \/ EndCall(r)
    \/ BridgeEvent \/ Evict
    \/ Connect \/ StreamStep \/ Heartbeat \/ Break

Spec == Init /\ [][Next]_vars
--------------------------------------------------------------------------------
TypeOK ==
    /\ stored \in BOOLEAN /\ needsInit \in BOOLEAN /\ filters \in BOOLEAN
    /\ nextId \in 1 .. LastId + 1
    /\ buffer \in Seq(Id) /\ Len(buffer) <= Cap
    /\ sent \in Seq(Id) /\ rx \in 0 .. Len(sent)
    /\ at \in [Publisher -> {"off", "ready", "push", "send"}]
    /\ own \in [Publisher -> Id \cup {Synthetic}]
    /\ \A p \in Publisher : own[p] # Synthetic <=> p \in Publishing
    /\ stream \in {"closed", "subscribed", "open"}
    /\ queue \in Seq(Id \cup {Synthetic})
    /\ {emitted, cursor} \subseteq Id \cup {Synthetic}
    /\ got \cup excused \cup overlapped \cup halfSent \subseteq {i \in Id : i < nextId}

Missed(i) == i \notin got /\ \E j \in got : i < j

\* An event the client never got although it got a later one was announced as
\* dropped, or sent before a stream for which it had nothing but a synthetic id to
\* resume from, or published at the same time as another (build_mcp_session_stream,
\* publish_event).
NoSilentGap ==
    \A i \in Id : Missed(i) => i \in excused \cup overlapped

\* The client gets no event twice and none after a later one, whatever it
\* reconnects, unless publications overlapped or a stream subscribed between the
\* push and the send of the event (McpStreamState::last_emitted_id, replay).
InOrder ==
    [][\A i \in Id :
         i = emitted' /\ emitted' # emitted =>
            \/ i \notin got /\ \A j \in got : j < i
            \/ i \in overlapped \cup halfSent]_vars

\* The bridge of a session exits only when no stream is left to serve, though the
\* store may have dropped the session long before (run_invalidate_bridge).
BridgeServesStream == stream # "closed" => at[Bridge] # "off"

\* A stream that has taken all the channel holds has passed on everything sent,
\* apart from what it announced as dropped, what came before a stream opened with
\* Last-Event-ID 0, and what overlapping publications cost: the replay and the live
\* tail leave no event between them (subscribe_events, snapshot_replay_buffer).
CaughtUp ==
    Tailing /\ rx = Len(sent) => Range(sent) \subseteq got \cup excused \cup overlapped
--------------------------------------------------------------------------------
(* The inductive invariant behind the properties above.                          *)

\* Ids whose publication overlapped with no other.
Plain == {i \in Id : i < nextId /\ i \notin overlapped}

\* Everything before a plain id in a sequence is older, everything after it newer, and this
\* also where the id itself is missing from the sequence.
Ordered(ids) == \A i \in Plain : \A a, b \in DOMAIN ids : a < b /\ i <= ids[a] => i < ids[b]

\* A publisher that nobody overlapped has the newest id, and older plain ids are published.
PublishersInOrder ==
    /\ \A p \in Publishing :
          /\ own[p] < nextId /\ own[p] \notin Range(sent)
          /\ own[p] \notin overlapped => Publishing = {p} /\ own[p] = nextId - 1
          /\ \A i \in Plain \ {own[p]} : i < own[p]
          /\ \A q \in Publishing \ {p} : own[q] # own[p]
          /\ at[p] = "push" => own[p] \notin Range(buffer) \cup Range(queue) \cup got
    /\ \A i \in Id : i < nextId => i \in Range(sent) \/ \E p \in Publishing : own[p] = i

\* The buffer has every plain id that was pushed to it, or nothing but later ones.
BufferInOrder ==
    /\ Ordered(sent) /\ Ordered(buffer) /\ Ordered(queue)
    /\ \A i \in Range(sent) \cup Range(buffer) \cup Range(queue) : i < nextId
    /\ \A i \in Plain : \/ i \in Range(buffer)
                        \/ \E p \in Publishing : at[p] = "push" /\ own[p] = i
                        \/ buffer # <<>> /\ \A a \in DOMAIN buffer : i < buffer[a]

\* What the stream holds; a lagged event is the first of its queue and has a successor.
StreamInOrder ==
    /\ {cursor, emitted} \subseteq got \cup {Synthetic}
    /\ stream # "open" => queue = <<>> /\ emitted = 0
    /\ \A a \in DOMAIN queue : queue[a] = Synthetic => a = 1 /\ Len(queue) > 1

\* Plain ids that the client lacks and was not told of, ...
Owed == Plain \ (got \cup excused)

\* ... what the stream's receiver has taken from the channel, ...
Taken == {sent[k] : k \in 1 .. rx}

\* ... and where an open stream still has an owed id for the client: in its replay, behind
\* the lagged event that will tell of it, or in the channel.
StillToCome(i) ==
    \/ i \in Range(queue)
    \/ queue # <<>> /\ Head(queue) = Synthetic /\ i < queue[2]
    \/ i \notin Taken /\ \A a \in DOMAIN queue : queue[a] < i

OwedInOrder ==
    /\ \A i \in Owed, j \in got : j < i
    /\ stream = "subscribed" /\ cursor = 0 => Owed \cap Taken = {}
    /\ stream = "open" => \A i \in Owed : StillToCome(i)

\* Plain ids that the client got or got a later one of do not come again.
Passed == {i \in Plain : \E j \in got : i <= j}

PassedInOrder == \A i \in Passed :
    /\ cursor = 0 \/ i <= cursor
    /\ \A a \in DOMAIN queue : queue[a] = Synthetic \/ i < queue[a]
    /\ stream # "closed" /\ i \notin Taken =>
          \/ stream = "open" /\ i <= emitted
          \/ i \in halfSent /\ \A k \in rx + 1 .. Len(sent) : i <= sent[k]

\* The bridge is gone only when the session is.
BridgeInOrder == at[Bridge] = "off" => ~stored /\ stream = "closed"

StreamInv == /\ PublishersInOrder /\ BufferInOrder /\ StreamInOrder
             /\ OwedInOrder /\ PassedInOrder /\ BridgeInOrder
=============================================================================
