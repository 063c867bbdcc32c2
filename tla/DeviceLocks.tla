------------------------------ MODULE DeviceLocks ------------------------------
(***************************************************************************)
(* The threads of the keyboard and the mutexes they share: the user        *)
(* interface calls MidiCIManager, the MIDI input calls processInput of the *)
(* device, and the connections-changed callback starts a thread that sets  *)
(* up property callbacks.  A call is the sequence of mutexes it takes and  *)
(* drops and of its uses of the sizes in the device configuration, which   *)
(* Messenger::send lowers to what the remote device can receive.           *)
(***************************************************************************)
EXTENDS Naturals, SequencesExt

CONSTANTS
    ConfigChunk, ConfigSysex,   \* max_property_chunk_size, receivable_max_sysex_size
    RemoteLimits                \* getRemoteMaxSysexSize of the connection: one of these

ASSUME SizesAssumption ==
    /\ ConfigChunk \in Nat \ {0} /\ ConfigSysex \in Nat \ {0}
    /\ RemoteLimits \subseteq Nat \ {0}

-----------------------------------------------------------------------------
(* Programs.  All mutexes are recursive: what a thread takes again while   *)
(* it holds it is no step.                                                 *)

Holding(lock, body) ==
    <<[do |-> "take", on |-> lock]>> \o body \o <<[do |-> "drop", on |-> lock]>>
Touch(lock) == <<[do |-> "touch", on |-> lock]>>
Do(what) == <<[do |-> what, on |-> "nothing"]>>

\* One more step of a program; held is the stack of lock_guards.
Added(acc, step) ==
    LET rest == SubSeq(acc.held, 1, Len(acc.held) - 1)
        add == [acc EXCEPT !.steps = Append(@, step)]
    IN  CASE step.do = "take" ->
                [held |-> Append(acc.held, step.on),
                 steps |-> IF step.on \in ToSet(acc.held) THEN acc.steps ELSE add.steps]
          [] step.do = "drop" ->
                [held |-> rest, steps |-> IF step.on \in ToSet(rest) THEN acc.steps ELSE add.steps]
          [] step.do = "touch" ->
                IF step.on \in ToSet(acc.held) \/ (acc.steps # <<>> /\ step = acc.steps[Len(acc.steps)])
                THEN acc ELSE add
          [] OTHER -> add

Effective(program) == FoldLeft(Added, [held |-> <<>>, steps |-> <<>>], program).steps

\* Messenger::send to a device that has a connection, and to all devices.
send ==
    Touch("device") \o Do("save") \o Touch("device") \o Touch("connection")
        \o Do("lower") \o Do("serialize") \o Do("restore") \o Touch("device")
sendToAll == Touch("device")

\* PropertyClientFacade.
sendMessage == Holding("facade", Touch("device") \o send)
sendGetPropertyData ==
    Holding("facade", Touch("device") \o Touch("connection") \o sendMessage)
requestPropertyList == Touch("device") \o Touch("connection") \o sendMessage

\* ClientObservablePropertyList, through the facade.
getProperties == Touch("facade")
readProperties == getProperties \o Touch("list")

\* ClientConnection::getDeviceInfo.
getDeviceInfo == Holding("connection", readProperties)

\* The callbacks of MidiCIManager: property updated, of DeviceInfo as well.
valueUpdated == Touch("manager")
deviceInfoUpdated == Touch("manager") \o Touch("device") \o getDeviceInfo

-----------------------------------------------------------------------------
(* Calls of the user interface to MidiCIManager.                           *)

request ==
    Touch("device") \o Touch("manager") \o Touch("connection") \o sendGetPropertyData
        \o Touch("manager")
requestSaveState ==
    Touch("device") \o Touch("manager") \o Touch("connection")
        \o Holding("facade", sendGetPropertyData)
sendState == Touch("device") \o Touch("connection") \o sendGetPropertyData
read == Touch("manager") \o Touch("device") \o Touch("connection") \o readProperties
sendDiscovery == Holding("device", Do("announce") \o sendToAll)
getDiscoveredDeviceDetails == Touch("manager")

\* The thread that connections_changed starts, for one connection.
setupPropertyCallbacks ==
    Touch("device") \o Touch("connection") \o getProperties \o Touch("list")
connectionsChangedLocked == Touch("device") \o Holding("manager", setupPropertyCallbacks)
connectionsChanged == Touch("device") \o setupPropertyCallbacks

-----------------------------------------------------------------------------
(* Messenger::processInput, message by message.                            *)

notify == Touch("messenger")
onClient(body) == Touch("device") \o Touch("connection") \o body

processDiscoveryReply ==
    notify \o Do("spawn") \o send \o send \o send \o send
processEndpointReply == Holding("messenger", Touch("device") \o getDeviceInfo)
processInvalidateMUID == notify \o Do("spawn")
processPropertyCapabilitiesReply ==
    notify \o onClient(Holding("facade", requestPropertyList))
processProfileReply ==
    notify \o onClient(Holding("profileClient", Touch("profiles")))
processProcessInquiryReply == notify \o onClient(<<>>)

\* A chunk extends the request it belongs to, by its id or by its header.
extended ==
    Touch("manager") \o Touch("connection") \o Touch("facade") \o Touch("manager")
handleChunk == onClient(Touch("facade") \o Touch("chunks") \o extended \o Touch("chunks"))
processGetDataReply(callback, updated, after) ==
    handleChunk \o notify
        \o onClient(Holding("facade", callback \o Holding("list", updated) \o after))
resourceList == Touch("list") \o sendGetPropertyData \o sendGetPropertyData \o sendGetPropertyData
allCtrlList == Touch("connection") \o send
\* Also of a subscription.
processSetDataReply == notify \o onClient(Touch("facade"))
processFull ==
    handleChunk \o notify \o Touch("host")
        \o onClient(Holding("facade", Holding("list", valueUpdated))) \o send
processNotify ==
    handleChunk \o notify \o Touch("host")
        \o onClient(Holding("facade", Touch("list") \o sendGetPropertyData)) \o send

processDiscovery == notify \o Do("announce") \o send
processInquiry == notify \o send
processProfileInquiry ==
    notify \o Touch("profileHost") \o Touch("hostProfiles") \o send
processGetPropertyData == notify \o Touch("host") \o send
processSubscribeProperty == handleChunk \o processGetPropertyData
\* A new value is broadcast to the subscribers of the property.
processSetPropertyData ==
    handleChunk \o notify \o Holding("host", Holding("hostList", Touch("device") \o sendToAll)) \o send

-----------------------------------------------------------------------------
Input(handlers) == [k \in DOMAIN handlers |-> Holding("device", handlers[k])]

UICalls ==
    [request |-> request, requestSaveState |-> requestSaveState, sendState |-> sendState,
     read |-> read, sendDiscovery |-> sendDiscovery,
     getDiscoveredDeviceDetails |-> getDiscoveredDeviceDetails]

InputCalls == Input(
    [DiscoveryReply |-> processDiscoveryReply,
     EndpointReply |-> processEndpointReply,
     InvalidateMUID |-> processInvalidateMUID,
     PropertyGetCapabilitiesReply |-> processPropertyCapabilitiesReply,
     ProfileReply |-> processProfileReply,
     ProcessInquiryCapabilitiesReply |-> processProcessInquiryReply,
     ChunkOfReply |-> handleChunk,
     ValueReply |-> processGetDataReply(Touch("manager"), valueUpdated, <<>>),
     DeviceInfoReply |-> processGetDataReply(<<>>, deviceInfoUpdated, <<>>),
     ResourceListReply |-> processGetDataReply(<<>>, valueUpdated, resourceList),
     AllCtrlListReply |-> processGetDataReply(<<>>, valueUpdated, allCtrlList),
     SetPropertyDataReply |-> processSetDataReply,
     SubscribePropertyFull |-> processFull,
     SubscribePropertyNotify |-> processNotify,
     DiscoveryInquiry |-> processDiscovery,
     Inquiry |-> processInquiry,
     ProfileInquiry |-> processProfileInquiry,
     GetPropertyData |-> processGetPropertyData,
     SetPropertyData |-> processSetPropertyData,
     SubscribePropertyStart |-> processSubscribeProperty])

HookCalls == [connectionsChanged |-> connectionsChanged]

Steps(calls) == [c \in DOMAIN calls |-> Effective(calls[c])]
Programs == [UI |-> Steps(UICalls), Input |-> Steps(InputCalls), Hook |-> Steps(HookCalls)]
Threads == DOMAIN Programs

VARIABLES
    call,       \* what each thread is doing: "none" at first and between calls
    at,         \* the step of the call it takes next
    owner,      \* who holds each mutex: "none" of a free one
    started,    \* a thread of connections_changed has been started and not yet run
    chunk, sysex,   \* the two sizes in the configuration
    limit,      \* getRemoteMaxSysexSize of the connection
    saved,      \* the original sizes, of each thread that is sending
    overlapped, \* what a thread used has been saved, and not restored, by another
    wrong       \* a message has been cut too large, or a lowered size announced

vars == <<call, at, owner, started, chunk, sysex, limit, saved, overlapped, wrong>>

Locks == {"device", "messenger", "connection", "facade", "list", "manager", "chunks",
          "profileClient", "profiles", "host", "hostList", "profileHost", "hostProfiles"}
NotSending == <<0, 0>>

Init ==
    /\ call = [t \in Threads |-> "none"] /\ at = [t \in Threads |-> 1]
    /\ owner = [l \in Locks |-> "none"] /\ started = FALSE
    /\ chunk = ConfigChunk /\ sysex = ConfigSysex /\ limit \in RemoteLimits
    /\ saved = [t \in Threads |-> NotSending]
    /\ overlapped = FALSE /\ wrong = FALSE

Busy(t) == call[t] # "none"
Step(t) == Programs[t][call[t]][at[t]]
At(t, what) == Busy(t) /\ Step(t).do = what

\* The call goes on to its next step, or ends.
Proceed(t) ==
    LET last == at[t] = Len(Programs[t][call[t]])
    IN  /\ at' = [at EXCEPT ![t] = IF last THEN 1 ELSE @ + 1]
        /\ call' = [call EXCEPT ![t] = IF last THEN "none" ELSE @]

\* The user, a message, or the thread that has been started.
Begin(t) ==
    /\ ~Busy(t)
    /\ t = "Hook" => started
    /\ started' = (started /\ t # "Hook")
    /\ \E c \in DOMAIN Programs[t] : call' = [call EXCEPT ![t] = c]
    /\ UNCHANGED <<at, owner, chunk, sysex, limit, saved, overlapped, wrong>>

\* A mutex is taken once it is free; a touch takes and drops it.
Lock(t) ==
    /\ At(t, "take") \/ At(t, "touch")
    /\ owner[Step(t).on] = "none"
    /\ owner' = IF At(t, "take") THEN [owner EXCEPT ![Step(t).on] = t] ELSE owner
    /\ Proceed(t)
    /\ UNCHANGED <<started, chunk, sysex, limit, saved, overlapped, wrong>>

Unlock(t) ==
    /\ At(t, "drop")
    /\ owner' = [owner EXCEPT ![Step(t).on] = "none"]
    /\ Proceed(t)
    /\ UNCHANGED <<started, chunk, sysex, limit, saved, overlapped, wrong>>

\* Threads of connections_changed that wait to run are as good as one.
Spawn(t) ==
    /\ At(t, "spawn") /\ started' = TRUE
    /\ Proceed(t)
    /\ UNCHANGED <<owner, chunk, sysex, limit, saved, overlapped, wrong>>

Elsewhere(t) == \E u \in Threads \ {t} : saved[u] # NotSending

Save(t) ==
    /\ At(t, "save")
    /\ saved' = [saved EXCEPT ![t] = <<chunk, sysex>>]
    /\ overlapped' = (overlapped \/ Elsewhere(t))
    /\ Proceed(t)
    /\ UNCHANGED <<owner, started, chunk, sysex, limit, wrong>>

Lesser(a, b) == IF a < b THEN a ELSE b
Lower(t) ==
    /\ At(t, "lower")
    /\ chunk' = Lesser(chunk, limit) /\ sysex' = Lesser(sysex, limit)
    /\ Proceed(t)
    /\ UNCHANGED <<owner, started, limit, saved, overlapped, wrong>>

\* midiCIPropertyChunks cuts the message at the chunk size.
Serialize(t) ==
    /\ At(t, "serialize")
    /\ wrong' = (wrong \/ chunk > limit)
    /\ Proceed(t)
    /\ UNCHANGED <<owner, started, chunk, sysex, limit, saved, overlapped>>

RestoreChunk(t) ==
    /\ At(t, "restore")
    /\ chunk' = saved[t][1] /\ saved' = [saved EXCEPT ![t] = NotSending]
    /\ Proceed(t)
    /\ UNCHANGED <<owner, started, sysex, limit, overlapped, wrong>>

\* Only sizes that have been lowered are put back.
Restore(t) ==
    LET overridden == saved[t][1] > limit \/ saved[t][2] > limit
    IN  /\ At(t, "restore")
        /\ IF overridden THEN chunk' = saved[t][1] /\ sysex' = saved[t][2]
           ELSE UNCHANGED <<chunk, sysex>>
        /\ saved' = [saved EXCEPT ![t] = NotSending]
        /\ Proceed(t)
        /\ UNCHANGED <<owner, started, limit, overlapped, wrong>>

\* An inquiry and a reply of discovery carry receivable_max_sysex_size.
Announce(t) ==
    /\ At(t, "announce")
    /\ wrong' = (wrong \/ sysex # ConfigSysex)
    /\ overlapped' = (overlapped \/ Elsewhere(t))
    /\ Proceed(t)
    /\ UNCHANGED <<owner, started, chunk, sysex, limit, saved>>

Go(t) ==
    \/ Lock(t) \/ Unlock(t) \/ Spawn(t)
    \/ Save(t) \/ Lower(t) \/ Serialize(t) \/ Restore(t) \/ Announce(t)
Next == \E t \in Threads : Begin(t) \/ Go(t)

Spec == Init /\ [][Next]_vars

-----------------------------------------------------------------------------
WaitsFor(t) ==
    IF t \in Threads /\ (At(t, "take") \/ At(t, "touch")) THEN owner[Step(t).on] ELSE "none"

\* Three threads: a circle is closed after one, two or three of them.
InCircle(t) ==
    t \in {WaitsFor(t), WaitsFor(WaitsFor(t)), WaitsFor(WaitsFor(WaitsFor(t)))}

\* Threads wait for each other in a circle only when the user interface asks
\* for a property, or sets one, while a message is handled: the facade's mutex
\* is taken before the device's there, and after it here.  Reading properties,
\* discovery, and the callbacks of the other threads close no circle, though
\* they take the same mutexes in other orders.
NoOtherCircle ==
    \A t \in Threads : InCircle(t) =>
        /\ t \in {"UI", "Input"} /\ call["UI"] \in {"request", "requestSaveState", "sendState"}
        /\ owner["facade"] = "UI" /\ owner["device"] = "Input"

\* As long as no two threads use the sizes at once, a message to the remote
\* device is never cut larger than it can receive, the size that is announced
\* is the configured one, and both sizes are the configured ones whenever
\* nothing is being sent.
SizesComeBack ==
    ~overlapped =>
        /\ ~wrong
        /\ (\A t \in Threads : saved[t] = NotSending) =>
                chunk = ConfigChunk /\ sysex = ConfigSysex
=============================================================================
