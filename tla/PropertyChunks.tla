---------------------------- MODULE PropertyChunks ----------------------------
(***************************************************************************)
(* The receiving side of multi-packet property messages: one device runs   *)
(* Messenger::handleChunk on the packets of several transfers.  Partial    *)
(* bodies wait in a PropertyChunkManager under the key (source MUID,       *)
(* request id).  The device has one manager per ClientConnection and a     *)
(* local one for sources it has no connection to.                          *)
(*                                                                         *)
(* A transfer t is one property message of a peer.  Its packets are sent   *)
(* by one loop of Messenger::send, so they arrive in order; the loops of   *)
(* different messages hold no common lock, so packets of different         *)
(* transfers interleave freely.  Emission and arrival are one step: no     *)
(* state of the sender depends on what the receiver does meanwhile.        *)
(*                                                                         *)
(* A request carries an id of the sender's counter and a reply an id of    *)
(* the receiver's, so nothing relates the ids in use: any may be picked.   *)
(* A body is a sequence of bytes <<t, i>>, byte i of transfer t, and the   *)
(* header of t is t itself.                                                *)
(***************************************************************************)
EXTENDS PropertyChunking, Sequences

CONSTANTS
    Transfers,   \* the messages peers may send
    Sources,     \* MUIDs of the peers
    RequestIds,  \* values of the 8 bit request id
    HeaderLens,  \* lengths of a header: JSON text, never empty
    BodyLens,    \* lengths of a body
    ChunkSizes,  \* max_property_chunk_size at the sender
    NoHeader,    \* the empty header of packets 2, 3, ...
    NoEntry      \* no chunk pending under a key

\* A pending Chunk: the header of its first packet and the bytes so far.
Entries == [header : Transfers \cup {NoHeader},
            data : Seq(Transfers \X (Nat \ {0}))]

ASSUME ChunksAssumption ==
    /\ HeaderLens \subseteq Nat \ {0}
    /\ BodyLens \subseteq Nat
    /\ ChunkSizes \subseteq Nat
    /\ NoHeader \notin Transfers /\ NoEntry \notin Entries

VARIABLES
    status,     \* per transfer: idle, sending, done or failed
    msg,        \* per transfer: its message, chosen when it starts
    next,       \* per transfer: the next packet to arrive
    chunks,     \* per manager and key: the pending Chunk or NoEntry
    connected,  \* sources the device has a ClientConnection to
    delivered,  \* per transfer: what on_complete was called with
    progress,   \* the last PropertyChunk notification
    disturbed   \* history: transfers whose chunks were mixed or cut

vars == <<status, msg, next, chunks, connected, delivered, progress,
          disturbed>>

Keys == Sources \X RequestIds
Managers == {"local", "connection"}

\* Messages that serializeMulti does not refuse.
Messages ==
    {m \in [src : Sources, id : RequestIds, h : HeaderLens,
            len : BodyLens, max : ChunkSizes] :
        Sendable(m.h, m.len, m.max)}

NoMessage == [src |-> NoEntry]
NoResult == [header |-> NoHeader, body |-> <<>>]

Key(t) == <<msg[t].src, msg[t].id>>
Last(t) == NumChunks(msg[t].h, msg[t].len, msg[t].max)
From(t, k) == Offset(msg[t].h, msg[t].len, msg[t].max, k)

\* Mutant: byte a instead of byte a+1 comes first.
BytesShifted(t, a, b) == [i \in 1 .. b - a |-> <<t, a + i - 1>>]

\* Bytes a+1 .. b of transfer t.
Bytes(t, a, b) == [i \in 1 .. b - a |-> <<t, a + i>>]

\* Header and body of the packet of t that arrives next.
PacketHeader(t) == IF next[t] = 1 THEN t ELSE NoHeader
PacketBody(t) == Bytes(t, From(t, next[t]), From(t, next[t] + 1))

\* The chunk manager handleChunk picks, and the chunk it holds for t.
Manager(s) == IF s \in connected THEN "connection" ELSE "local"
Pending(t) == chunks[Manager(msg[t].src)][Key(t)]

\* Transfers of which some but not all packets have arrived.
Underway(u) == status[u] = "sending" /\ next[u] > 1

-----------------------------------------------------------------------------
Init ==
    /\ status = [t \in Transfers |-> "idle"]
    /\ msg = [t \in Transfers |-> NoMessage]
    /\ next = [t \in Transfers |-> 1]
    /\ chunks = [m \in Managers |-> [k \in Keys |-> NoEntry]]
    /\ connected = {}
    /\ delivered = [t \in Transfers |-> NoResult]
    /\ progress = [of |-> NoHeader, header |-> NoHeader]
    /\ disturbed = {}

\* A peer serializes a message and enters the loop that sends its packets.
Start(t, m) ==
    /\ status[t] = "idle"
    /\ status' = [status EXCEPT ![t] = "sending"]
    /\ msg' = [msg EXCEPT ![t] = m]
    /\ UNCHANGED <<next, chunks, connected, delivered, progress, disturbed>>

\* Mutant: the header of the packet, also when it has none.
NotifyBareChunk(t) == progress' = [of |-> t, header |-> PacketHeader(t)]

\* The callback notifyPropertyChunk, with the header handleChunk works out.
NotifyChunk(t) ==
    progress' = [of |-> t,
                 header |-> IF PacketHeader(t) = NoHeader /\ Pending(t) # NoEntry
                            THEN Pending(t).header ELSE PacketHeader(t)]

\* Bookkeeping of the model: packets of two transfers of one key are mixed,
\* or the first packet of t finds what an earlier transfer left behind.
NoteMixing(t) ==
    LET others == {u \in Transfers \ {t} : Underway(u) /\ Key(u) = Key(t)}
        stale == next[t] = 1 /\ Pending(t) # NoEntry
    IN  disturbed' = disturbed \cup others
                     \cup (IF others # {} \/ stale THEN {t} ELSE {})

\* Mutant: a finished chunk is not erased.
SetPendingKeeps(t, entry) ==
    chunks' = IF entry = NoEntry THEN chunks
              ELSE [chunks EXCEPT ![Manager(msg[t].src)][Key(t)] = entry]

\* What a chunk manager does with the entry of t.
SetPending(t, entry) ==
    chunks' = [chunks EXCEPT ![Manager(msg[t].src)][Key(t)] = entry]

\* Mutant: the data is replaced, not appended to.
ExtendedOver(t) ==
    IF Pending(t) = NoEntry
    THEN [header |-> PacketHeader(t), data |-> PacketBody(t)]
    ELSE [header |-> Pending(t).header, data |-> PacketBody(t)]

\* addPendingChunk
Extended(t) ==
    IF Pending(t) = NoEntry
    THEN [header |-> PacketHeader(t), data |-> PacketBody(t)]
    ELSE [header |-> Pending(t).header, data |-> Pending(t).data \o PacketBody(t)]

\* Mutant: the header comes from the last packet.
CompletedBare(t) ==
    IF Pending(t) = NoEntry
    THEN [header |-> PacketHeader(t), body |-> PacketBody(t)]
    ELSE [header |-> PacketHeader(t), body |-> Pending(t).data \o PacketBody(t)]

\* finishPendingChunk, or the packet as it is when nothing is pending.
Completed(t) ==
    IF Pending(t) = NoEntry
    THEN [header |-> PacketHeader(t), body |-> PacketBody(t)]
    ELSE [header |-> Pending(t).header, body |-> Pending(t).data \o PacketBody(t)]

\* handleChunk on a packet with chunk_index < num_chunks.
ReceivePart(t) ==
    /\ status[t] = "sending"
    /\ next[t] < Last(t)
    /\ NotifyChunk(t)
    /\ SetPending(t, Extended(t))
    /\ NoteMixing(t)
    /\ next' = [next EXCEPT ![t] = @ + 1]
    /\ UNCHANGED <<status, msg, connected, delivered>>

\* handleChunk on the last packet: on_complete gets header and body.
ReceiveLast(t) ==
    /\ status[t] = "sending"
    /\ next[t] >= Last(t)
    /\ NotifyChunk(t)
    /\ delivered' = [delivered EXCEPT ![t] = Completed(t)]
    /\ SetPending(t, NoEntry)
    /\ NoteMixing(t)
    /\ status' = [status EXCEPT ![t] = "done"]
    /\ next' = [next EXCEPT ![t] = @ + 1]
    /\ UNCHANGED <<msg, connected>>

\* The transport refuses a packet: Messenger::send throws and the rest of
\* the packets is never sent.
SendFails(t) ==
    /\ status[t] = "sending"
    /\ status' = [status EXCEPT ![t] = "failed"]
    /\ UNCHANGED <<msg, next, chunks, connected, delivered, progress, disturbed>>

\* Every partial transfer of s now continues in another manager.
SwitchManager(s) ==
    /\ chunks' = [chunks EXCEPT !["connection"] =
                    [k \in Keys |-> IF k[1] = s THEN NoEntry ELSE @[k]]]
    /\ disturbed' = disturbed \cup
                    {t \in Transfers : Underway(t) /\ msg[t].src = s}
    /\ UNCHANGED <<status, msg, next, delivered, progress>>

\* handleNewEndpoint: a DiscoveryReply of s, known or not, creates a new
\* ClientConnection, and so an empty chunk manager.
NewEndpoint(s) ==
    /\ connected' = connected \cup {s}
    /\ SwitchManager(s)

\* processInvalidateMUID, for a message of 18 bytes or more: the connection goes,
\* and its manager with it.
Invalidate(s) ==
    /\ s \in connected
    /\ connected' = connected \ {s}
    /\ SwitchManager(s)

Next ==
    \/ \E t \in Transfers :
        \/ \E m \in Messages : Start(t, m)
        \/ ReceivePart(t)
        \/ ReceiveLast(t)
        \/ SendFails(t)
    \/ \E s \in Sources : NewEndpoint(s) \/ Invalidate(s)

Spec == Init /\ [][Next]_vars

-----------------------------------------------------------------------------
Results == [header : Transfers \cup {NoHeader},
            body : Seq(Transfers \X (Nat \ {0}))]

\* Every variable keeps its type.
TypeOK ==
    /\ status \in [Transfers -> {"idle", "sending", "done", "failed"}]
    /\ msg \in [Transfers -> Messages \cup {NoMessage}]
    /\ \A t \in Transfers : status[t] # "idle" => msg[t] \in Messages
    /\ next \in [Transfers -> Nat \ {0}]
    /\ chunks \in [Managers -> [Keys -> Entries \cup {NoEntry}]]
    /\ connected \subseteq Sources
    /\ delivered \in [Transfers -> Results]
    /\ progress \in [of : Transfers \cup {NoHeader},
                     header : Transfers \cup {NoHeader}]
    /\ disturbed \subseteq Transfers

Exact(t) == [header |-> t, body |-> Bytes(t, 0, msg[t].len)]

\* on_complete gets the header and the whole body of the message, in order,
\* however the packets of other transfers and the coming and going of other
\* connections fall in between.
ExactDelivery ==
    \A t \in Transfers \ disturbed :
        status[t] = "done" => delivered[t] = Exact(t)

\* The chunk notification carries the header of the message the packet
\* belongs to also for packets 2, 3, ..., which come without a header.
ProgressHeader == progress.of \in disturbed \/ progress.header = progress.of

\* No manager, in use or not, keeps a chunk of a transfer that was completed
\* undisturbed: what is pending is underway, was cut off or was disturbed.
NoResidue ==
    \A m \in Managers, k \in Keys :
        chunks[m][k] # NoEntry =>
            \E t \in Transfers :
                /\ status[t] # "idle" /\ Key(t) = k /\ next[t] > 1
                /\ Underway(t) \/ status[t] = "failed" \/ t \in disturbed

-----------------------------------------------------------------------------
\* What the component promises: a message arrives once and whole.
Whole == INSTANCE PropertyTransfer WITH
    fate <- [t \in Transfers |->
                IF status[t] # "done" THEN status[t]
                ELSE IF delivered[t] = Exact(t) THEN "exact" ELSE "spoiled"]

Refinement == Whole!Spec
=============================================================================
