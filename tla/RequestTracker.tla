--------------------------- MODULE RequestTracker ---------------------------
(***************************************************************************)
(* MidiCIManager of midicci-app keeps an entry for each property it has    *)
(* asked a peer for, so that the user's next click asks only once.  An     *)
(* entry goes when the property arrives or 3 seconds after its last sign   *)
(* of life.  Three threads meet: the UI asks, the input thread takes       *)
(* replies, and a detached thread registers for the values of a new        *)
(* connection.  The library asks by itself: on each connection for the     *)
(* ResourceList, always with request id 0, and when that has come for more *)
(* properties.  Of that MidiCIManager knows nothing.                       *)
(*                                                                         *)
(* One peer.  It answers in order; how its answers and the 3 seconds       *)
(* relate is left open.  A key is a property with its resource id.  The    *)
(* counter of request ids starts anywhere, so that it soon wraps to the id *)
(* of the ResourceList.                                                    *)
(***************************************************************************)
EXTENDS Integers, Sequences, SequencesExt

CONSTANTS
    Keys,
    State,       \* the key requestSaveState asks with a callback of its own
    ResourceList,
    Automatic,   \* sequence of keys the library asks for after the ResourceList
    NumIds,      \* 256
    MaxAsks, MaxConnections, MaxUnderWay  \* bounds

ASSUME TrackerAssumption ==
    /\ State \in Keys /\ ResourceList \notin Keys
    /\ Automatic \in Seq(Keys \ {State})
    /\ MaxConnections \in Nat \ {0} /\ MaxUnderWay \in Nat /\ NumIds \in Nat
    /\ NumIds > MaxUnderWay

VARIABLES
    conn,        \* number of connections to the peer so far; the last one lives
    hooked,      \* its property list has the callbacks of MidiCIManager
    lists,       \* number of ResourceLists the library has asked for
    open,        \* open_requests_ of the last connection: keys by request id
    waiting,     \* pending_get_property_callbacks_: ids requestSaveState waits for
    counter,     \* request id of the library
    wire,        \* requests without an answer: [id, key, by]
    pending,     \* pending_property_requests_: "none", "fresh", or "late": over 3 s
    ids,         \* inflight_request_map_: keys by request id
    registering, \* what the UI thread has sent and not registered yet
    asks,        \* number of requests of the UI, bounded
    excused,     \* history: keys that timed out, that the library asked for, or
                 \* that the answer to another request with their id cleared
    missed,      \* history: keys whose last answer was an error or came to nobody
    raced        \* history: keys answered before their id was registered

connection == <<conn, hooked, lists>>
requests == <<open, waiting>>
history == <<excused, missed, raced>>
vars == <<connection, requests, counter, wire, pending, ids, registering, asks,
          history>>

RequestIds == 0 .. NumIds - 1
Nothing == <<>>
Ages == {"none", "fresh", "late"}

Init ==
    /\ conn = 1 /\ hooked = FALSE /\ lists = 0
    /\ open = <<>> /\ waiting = {}
    /\ counter \in RequestIds
    /\ wire = <<>>
    /\ pending = [k \in Keys |-> "none"]
    /\ ids = <<>>
    /\ registering = Nothing
    /\ asks = 0
    /\ excused = {} /\ missed = {} /\ raced = {}

-----------------------------------------------------------------------------
\* Mutant: the id is not counted up.
NextIdStuck(i) == counter

NextId(i) == (counter + i) % NumIds

Request(id, key, by) == [id |-> id, key |-> key, by |-> by]

\* A map by request ids with one more entry, or another for its id.
Put(f, id, k) == [i \in DOMAIN f \cup {id} |-> IF i = id THEN k ELSE f[i]]

Without(f, id) == Restrict(f, DOMAIN f \ {id})

\* Mutant: the young ones are dropped.
CleanedYoung(p) == [k \in Keys |-> IF p[k] = "fresh" THEN "none" ELSE p[k]]

\* cleanupExpiredPropertyRequests
Cleaned(p) == [k \in Keys |-> IF p[k] = "late" THEN "none" ELSE p[k]]

\* The request functions of one key up to the sending; the input thread may
\* run before the id is registered.  requestSaveState registers no id.
Ask(k) ==
    /\ registering = Nothing
    /\ asks < MaxAsks
    /\ asks' = asks + 1
    /\ excused' = excused \cup {l \in Keys : pending[l] = "late"}
    /\ \/ /\ Cleaned(pending)[k] # "none"
          /\ pending' = Cleaned(pending)
          /\ UNCHANGED <<requests, counter, wire, registering>>
       \/ /\ Cleaned(pending)[k] = "none" /\ Len(wire) < MaxUnderWay
          /\ pending' = [Cleaned(pending) EXCEPT ![k] = "fresh"]
          /\ counter' = NextId(1)
          /\ wire' = Append(wire, Request(NextId(1), k, "ui"))
          /\ open' = Put(open, NextId(1), k)
          /\ waiting' = IF k = State THEN waiting \cup {NextId(1)} ELSE waiting
          /\ registering' = IF k = State THEN Nothing ELSE <<NextId(1), k>>
    /\ UNCHANGED <<connection, ids, missed, raced>>

\* The user's requests for k that are under way.
Requests(k) == {i \in 1 .. Len(wire) : wire[i].key = k /\ wire[i].by = "ui"}

\* registerPropertyRequestId, unaware of an answer that has come meanwhile.
Register ==
    LET id == registering[1]
        k == registering[2]
    IN
    /\ registering # Nothing
    /\ registering' = Nothing
    /\ ids' = Put(ids, id, k)
    /\ raced' = IF \E i \in Requests(k) : wire[i].id = id THEN raced
                ELSE raced \cup {k}
    /\ UNCHANGED <<connection, requests, counter, wire, pending, asks, excused, missed>>

Age(k) ==
    /\ pending[k] = "fresh"
    /\ pending' = [pending EXCEPT ![k] = "late"]
    /\ UNCHANGED <<connection, requests, counter, wire, ids, registering, asks,
                   history>>

\* A reply to the inquiry of property capabilities that each connection
\* begins with: requestPropertyList asks for the ResourceList, with id 0.
RequestList ==
    /\ lists < conn /\ Len(wire) < MaxUnderWay
    /\ lists' = lists + 1
    /\ open' = Put(open, 0, ResourceList)
    /\ wire' = Append(wire, Request(0, ResourceList, "library"))
    /\ UNCHANGED <<conn, hooked, waiting, counter, pending, ids, registering, asks,
                   history>>

\* A DiscoveryReply replaces the connection, whose open requests go; a
\* detached thread registers for the values of the new one.
Reconnect ==
    /\ conn < MaxConnections
    /\ conn' = conn + 1
    /\ hooked' = FALSE
    /\ open' = <<>> /\ waiting' = {}
    /\ UNCHANGED <<lists, counter, wire, pending, ids, registering, asks, history>>

\* setupPropertyCallbacks
Hook ==
    /\ ~hooked
    /\ hooked' = TRUE
    /\ UNCHANGED <<conn, lists, requests, counter, wire, pending, ids, registering,
                   asks, history>>

-----------------------------------------------------------------------------
\* extendPendingPropertyRequest by the chunk callback, which finds the key by
\* request id; the header of a reply names no property.  An entry that is over
\* 3 s, but not cleaned up, gets young again.
Extended(id) ==
    IF id \in DOMAIN ids /\ pending[ids[id]] # "none"
    THEN [pending EXCEPT ![ids[id]] = "fresh"] ELSE pending

\* Mutant: requestSaveState's callback leaves the entry.
ClearedButState(p, heard) ==
    [k \in Keys |-> IF k \in heard \ {State} THEN "none" ELSE p[k]]

\* removePendingPropertyRequest and, in any case, clearRequestIdTracking.
Cleared(p, heard) == [k \in Keys |-> IF k \in heard THEN "none" ELSE p[k]]

\* Mutant: tracking is cleared only together with an entry.
UntrackedIfPending(heard) ==
    Restrict(ids, {id \in DOMAIN ids :
                      ids[id] \in heard => pending[ids[id]] = "none"})

Untracked(heard) == Restrict(ids, {id \in DOMAIN ids : ids[id] \notin heard})

\* A reply comes in several packets; each but the last only extends.
Chunk ==
    /\ wire # <<>>
    /\ pending' = Extended(Head(wire).id)
    /\ UNCHANGED <<connection, requests, counter, wire, ids, registering, asks,
                   history>>

\* A property message the peer sends of its own accord extends the key its
\* request id, of the peer's choice, is tracked for, or else the property its
\* header names: it may be any.
Foreign(k) ==
    /\ pending[k] = "late"
    /\ pending' = [pending EXCEPT ![k] = "fresh"]
    /\ UNCHANGED <<connection, requests, counter, wire, ids, registering, asks,
                   history>>

\* The keys MidiCIManager clears when an answer with this id comes: State by
\* the callback of requestSaveState, whatever the status; others when their
\* value is set, and what is set is the property of the open request.  The
\* value of State is under the key with its resource id.
Heard(id, ok) ==
    (IF id \in waiting THEN {State} ELSE {})
    \cup (IF ok /\ hooked /\ id \in DOMAIN open
          THEN {open[id]} \ {ResourceList, State} ELSE {})

\* What the library asks for when a ResourceList has come.
AutomaticGets ==
    [i \in 1 .. Len(Automatic) |-> Request(NextId(i), Automatic[i], "library")]

\* sendGetPropertyData, one after the other.
Opened(gets) == FoldLeft(LAMBDA f, r : Put(f, r.id, r.key), open, gets)

\* The last packet of an answer, and what processGetDataReply makes of it.
\* The reply goes to the connection there is now, and is matched by its id
\* alone; the open request is erased at the end, whatever has its id by then.
\* A body that is not the list of resources, or not taken for it, starts no gets.
Answer(ok) ==
    LET m == Head(wire)
        heard == Heard(m.id, ok)
        loads == /\ ok /\ m.key = ResourceList
                 /\ m.id \in DOMAIN open /\ open[m.id] = ResourceList
        gets == IF loads THEN AutomaticGets ELSE <<>>
    IN
    /\ wire # <<>>
    /\ Len(wire) - 1 + Len(gets) <= MaxUnderWay
    /\ counter' = NextId(Len(gets))
    /\ wire' = Tail(wire) \o gets
    /\ open' = Without(Opened(gets), m.id)
    /\ waiting' = waiting \ {m.id}
    /\ pending' = Cleared(Extended(m.id), heard)
    /\ ids' = Untracked(heard)
    /\ excused' = excused \cup (heard \ {m.key}) \cup {r.key : r \in ToSet(gets)}
    /\ missed' = (missed \ heard)
                 \cup (IF m.by = "ui" THEN {m.key} \ heard ELSE {})
    /\ raced' = raced \ heard
    /\ UNCHANGED <<connection, registering, asks>>

Next ==
    \/ \E k \in Keys : Ask(k) \/ Age(k) \/ Foreign(k)
    \/ Register \/ RequestList \/ Reconnect \/ Hook \/ Chunk
    \/ \E ok \in BOOLEAN : Answer(ok)

Spec == Init /\ [][Next]_vars

-----------------------------------------------------------------------------
\* The user's clicks send a second request for a key while the first is under
\* way only if the first was over 3 seconds old, if the library had asked for
\* the key as well, whose answer clears the entry, or if the answer to another
\* request with the same id did.  Reconnections, errors, messages of the peer
\* and late registration are no reasons.  And no two requests under way have
\* the same id from the counter, also after it has wrapped; only the fixed id
\* of ResourceLists meets others.
OneUnderWay ==
    /\ \A k \in Keys \ excused : \A i, j \in Requests(k) : i = j
    /\ \A i, j \in 1 .. Len(wire) :
            /\ wire[i].key # ResourceList /\ wire[j].key # ResourceList
            /\ wire[i].id = wire[j].id
            => i = j

\* An entry keeps its key blocked only while an answer is to come, unless an
\* answer came that MidiCIManager did not hear of.
PendingIsAwaited ==
    \A k \in Keys \ missed : pending[k] # "none" => Requests(k) # {}

\* An id is tracked only while its request is under way, unless its answer was
\* not heard of, or came before the id was registered: else a later message
\* that gets the same id would extend the wrong key.
TrackedIsUnderWay ==
    \A id \in DOMAIN ids : ids[id] \notin missed \cup raced
        => \E i \in Requests(ids[id]) : wire[i].id = id

\* Nothing is left of a request whose answer MidiCIManager heard of: neither
\* the entry that blocks its key nor the id by which chunks are matched.  Also
\* where an id of the counter meets the fixed one of a ResourceList.
NothingIsLeft == PendingIsAwaited /\ TrackedIsUnderWay
=============================================================================
