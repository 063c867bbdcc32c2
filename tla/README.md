# midicci in TLA+

Formal models of midicci, a C++ implementation of MIDI-CI (discovery, profiles,
property exchange, process inquiry) over MIDI 2.0 UMP, with a translator between
UMP and MIDI 1.0, MIDI files and an application. Two kinds of modules: state
machines for the parts whose correctness depends on the order of messages, on
several actors and on state that outlives a call; and functions for the formats,
checked by writing and reading back.

## Inventory

Paths are relative to the repository; `M/` stands for `src/midicci/`.

| Component | State | Operations | Talks to |
| --- | --- | --- | --- |
| Property message chunking, `M/CIFactory.cpp` | none | `midiCIPropertyChunks` | `Messenger::send` |
| Chunk reassembly, `M/PropertyChunkManager.cpp`, `Messenger::handleChunk` | pending chunks per source MUID and request id, one manager per connection and a local one | `addPendingChunk`, `finishPendingChunk`, `getPendingHeader`, the chunk callback | the handlers of complete messages |
| `Messenger`, `M/Messenger.cpp` | 8 bit request id counter, callbacks | `processInput` and one handler per message, `send` | device, connections, facades |
| `MidiCIDevice` and `ClientConnection` | connections by MUID, the features of a peer | `storeConnection`, `removeConnection`, callbacks | tooling, application |
| Property client, `M/PropertyClientFacade.cpp`, `CommonRulesPropertyClient.cpp`, `ObservablePropertyList.cpp` | open requests, callbacks, subscriptions, values, catalog | get, set, subscribe, unsubscribe and their replies | the peer's host side |
| Property host, `M/PropertyHostFacade.cpp`, `CommonRulesPropertyService.cpp` | metadata, values, two lists of subscriptions | process get/set/subscribe, set value, partial update, shutdown, terminate, remove | its clients |
| Profiles, `M/Profile*Facade.cpp`, `ObservableProfileList.cpp` | profile lists with enabled flags | add, remove, enable, reports | the peer |
| Message formats, `M/Message.cpp`, `CIFactory.cpp`, `CIRetrieval.cpp`, `Json.cpp` | none | serialize, read, parse | `Messenger`, property rules |
| Standard properties, `M/commonproperties` | struct lists in property values | to and from JSON, getters and setters | application |
| UMP, `src/umppi` | translator context (RPN, NRPN, data entry, bank), a MIDI 1.0 machine | write, read, translate, MIDI files | all |
| SysEx transport: `M/musicdevice/MidiCISession.cpp`, `tools/tooling/src/CIDeviceManager.cpp`, `tools/midicci-app/src/keyboard_controller.cpp` | a buffer of SysEx7 bytes each; the keyboard also what it sent lately | take a packet, send a message | ports, device |
| Tooling, `tools/tooling` | list of connection models, shown values and profiles | follows the device's callbacks | a UI |
| `MidiCIManager`, `tools/midicci-app` | pending property requests with timeouts, id maps, discovered devices | request, extend, expire | device, UI thread |
| `KeyboardController` and `KeyboardPanel`, `tools/midicci-app` | open ports, port and device lists with indices, caches of control lists and maps, values heard, keys held | click, draw a frame, receive | ports, `MidiCIManager` |

Threads: MIDI input arrives on a transport thread, which holds the device's
recursive mutex during the whole of a handler; the UI thread calls facades,
which have recursive mutexes of their own; new connections and the panel's
delayed work use short-lived threads. Within a handler sends go out through the
transport, possibly synchronously.

What is hard: packets of several transfers interleave; a transport may refuse a
packet halfway; connections are replaced by any DiscoveryReply; requests,
replies and notifications cross; ids have 8 bits and one of them is fixed; two
lists on the host and two on the client are meant to agree; a value lives in
lists that three pieces of code update each in its own way; a parameter is
spread over four controllers in a context shared by all channels; ports come
and go under the index that selects them; requests have a timeout in the
application and none in the library; locks are taken in different orders by
different threads. `PROJECT.json` lists these hazards by line.

Correctness, by component: chunking tiles the body and respects the remote
limit; reassembly delivers what was sent or nothing; a reply sets the value and
fires the callback of its own request; a connection that stays ends up loaded;
the tooling shows the live connection and its values; client and host agree on
subscriptions and profiles when nothing is under way; what was set is what is
read; what is written in a format is read back; a translation has the effect of
what was translated; a pending request ends; no threads wait for each other in
a circle; the panel shows the ports that are
open, the values heard last and the map of its popup; every note ends.

## Modules

| Module | Models |
| --- | --- |
| `PropertyChunking` | lengths of the packets of a property message, in closed form |
| `PropertyChunks` | the receiver: `handleChunk` over chunk managers and connections |
| `PropertyTransfer` | abstract: a message is handed over at most once, exact unless disturbed |
| `..._proofs` | theorems about the module of that name |
| `PropertySubscription` | subscriptions, client and host side of every device |
| `SessionSetup` | discovery, connections, capabilities, property requests and the automatic gets |
| `PropertyValues` | gets and sets of values, whole and in parts, on both sides |
| `Lists` | what stays of a list when entries are removed by place, in closed form |
| `Profiles` | profile lists of host and client, inquiries and reports, the tooling's mirrors |
| `SysexAssembly` | SysEx7 packets cut by `UmpFactory` and gathered by three receivers; the keyboard's memory of its own messages |
| `RequestTracker` | what midicci-app remembers of its property requests |
| `KeyboardPorts` | selecting and losing ports, the manager of a pair, the panel's lists and indices |
| `KeyboardNotes`, `KeyboardPanel` | the piano; control lists, sliders and popups of the panel |
| `CIMessages` | every MIDI-CI message as serialized and as read, and the answers to inquiries |
| `Umps` | what `UmpFactory` writes and `Ump` and `UmpRetriever` read |
| `MidiFiles` | events, sizes and bytes of MIDI files, merging, ticks and tempos |
| `Json`, `StandardProperties` | JSON texts; the lists of standard and foundational properties |
| `UmpTranslator`, `Midi1Machine`, `UmpTranslation` | translation of UMP and MIDI 1.0 in both directions; what a receiver of MIDI 1.0 keeps; a run of the translator |
| `DeviceLocks` | the mutexes three threads of the keyboard share, and the sizes `Messenger::send` lowers |
| `MC...` | values for the constants; `MCFormats` also the inputs and properties of all formats and translations |

Composition. `PropertyChunks` extends `PropertyChunking`, so sender and receiver
of a property message are composed, and implements `PropertyTransfer`.
`PropertySubscription`, `SessionSetup` and `PropertyValues` take a message as
arriving whole, which `PropertyTransfer` justifies. `CIMessages` uses
`PropertyChunking`, too, and `MCFormats` carries its messages through the SysEx7
packets of `Umps`. `StandardProperties` uses `Json`, `UmpTranslation` joins
`UmpTranslator`, `Umps` and two instances of a `Midi1Machine`, `KeyboardPanel`
extends `KeyboardNotes`. `Profiles` and `PropertySubscription` extend `Lists`:
the loops of the code that erase from vectors become sets of places that stay,
which can be reasoned about.

### PropertyChunks

`chunks` holds the entries of the managers: `"local"` is
`local_chunk_manager_`, `"connection"` the one of the source's connection.
`ReceivePart` and `ReceiveLast` are the two branches of `handleChunk`;
`SetPending`, `Extended` and `Completed` are what `addPendingChunk` and
`finishPendingChunk` do. `Start` and `SendFails` are `Messenger::send`: packets
of one message arrive in order, those of different messages in any order,
because no lock spans a send loop. `NewEndpoint` and `Invalidate` create and
remove a connection, and so change the manager.

The variable `disturbed` is history. It collects the transfers that are mixed
with another of the same source and id, that find a chunk an earlier transfer
left, or whose manager is switched halfway. What these get is not promised. The
ids of requests count at the sender, those of replies at the receiver, and
nothing prevents two from meeting; so ids are arbitrary in the model.

### PropertySubscription

Each device has client variables (`clientSubs` of the facade, `ruleSubs` of the
property rules) and host variables (`facadeSubs`, `serviceSubs`). `Subscribe`
and `Unsubscribe` are the client's calls, `Shutdown`, `Terminate`,
`RemoveProperty` and `SetProperty` the host application's. `Receive` is
`processInput` with `processSubscribeProperty`: it routes an `end` to the client
or to the host side by the existence of a connection, as the code does.
Messages whose handler changes nothing are not put on the wire.

### SessionSetup

`conns` are the `ClientConnection` objects ever created, `current` the map
`connections_`; a call may use a connection that has been replaced, as the
application holds shared pointers. `open` and `waiting` are `open_requests_` and
the callbacks. `NewEndpoint` is `handleNewEndpoint` with both connection
callbacks, `TakeReply` the whole of `processGetDataReply`: callback, value,
catalog, automatic gets, message report, erasure. `model` is the connection list
of `CIDeviceModel`. The three properties it asks for by itself (`Automatic`) are named, as in
`propertyValueUpdated`. A peer answers in order. `Goodbye` is an InvalidateMUID in
the 18 bytes `processInput` waits for.

### PropertyValues

`values` is the list all three writers of the host share: `setPropertyValue` of
the application (`HostWrite`), `processSetPropertyData` of the facade and
`setPropertyData` of the service, one after the other in `HostReceives`, as the
code calls them. A JSON tree is the set of its leaves with their paths, so that
the partial updater is set algebra; Mcoded7 and zlib are codes that can be
undone. `shown` is the client's list, `mirror` that of
`ClientConnectionModel`. An answer carries, as history, the bodies it may have.
Notifications are a history as well: the subscriber refuses them (see the
finding below).

### Profiles

`host`, `client` are the two `ObservableProfileList`s, `local` and `shown` the
mirrors the tooling keeps of them. The host has two threads: the application's
changes the list (`AddProfile`, `RemoveProfile`, `SetEnabled`) and then sends
the report (`SendReport`), which needs the device's mutex; the input thread
holds that mutex from `BeginAnswer` to `SendReplies` and reads the list in steps
between. `Leftover` is what callbacks see in place of a removed entry, since
`remove` calls them between `std::remove_if` and `erase`. In this repository
nothing sends the reports by itself; the model's application does, as the
functions of `Messenger` are meant to be used.

### SysexAssembly

`Packets` and `Status` are the packets of `sysex7Process`; a packet's bytes are
named by transmission and index. `Packet` is the arrival of one, at all three
receivers: `ToolReceives` is `MidiCISession::processUmpInput` followed by
`process_single_ump_packet`, which feed one device, so that it takes every
MIDI-CI message twice; `KeyboardReceives` is `onMidiInput`. `Cut` ends a
transmission halfway. `Send` is `sendSysExViaMidi`, of which an echo may come
back any time later. `disturbed` collects the transmissions that packets of
another stream came into: with one buffer for all groups nothing can be promised
for them.

### RequestTracker

`pending` and `ids` are `pending_property_requests_` and
`inflight_request_map_`; `open` and `waiting` are `open_requests_` and the
callbacks of the connection there is. `Ask` is any of the request functions up to
the sending, `Register` the rest of it. The library asks by itself, too:
`RequestList` is its ResourceList get on each connection, always with id 0, and
the `AutomaticGets` go out in the `Answer` to it. `Chunk` and `Answer` are packets
of a reply, which is matched by its id alone; `Age` lets 3 seconds pass, `Hook`
is the detached thread that registers callbacks on a new connection. The counter
of ids starts anywhere, so that it meets the id of a ResourceList under way.
Three history variables name the reasons for which an entry may be wrong:
`excused` (over 3 seconds, asked for by the library as well, or cleared by the
answer to another request with its id), `missed` (an error, or an answer that
came to nobody: for a connection that was replaced or not hooked yet, or after
the answer to another request with its id), `raced` (an answer before
`Register`). There is one peer, which answers in order; the ids that go to sets,
subscriptions and other peers are left out.

### KeyboardPorts

`present` are the ports of the system, `ctl` the `KeyboardController`, `panel`
the lists and indices the panel keeps of ports and devices. `Frame` brings what
is dirty up to date, then one click may follow (`Select`, `Deselect`,
`RefreshDevices`, `SendDiscovery`, `SelectCiDevice`); `Plug` and `Unplug` change
the ports under the panel's indices, `DeviceFound` and `EndpointReply` are the
input thread. `Select` is `selectInputDevice` and `selectOutputDevice` with all
they call: closing, opening (which may fail), matching the other side, making
and shutting down the manager, discovery.

### KeyboardNotes and KeyboardPanel

`keys` is `MidiKeyboard` with the notes it has started; the mouse presses,
glides, leaves and is released anywhere, and clicks the octave buttons. A frame
of the panel is three steps, `Apply` (queued updates), `Draw` (with the requests
that drawing triggers) and at most one click. `store` is what the connections
hold, `tracker` the pending requests of `RequestTracker` as the panel meets them,
`panel.maps` the `ControlMapCache`s with their own timeout. `Answer` stores a
list or a map and marks it updated, `Lose` loses a request. `panel.heard` is what
the code remembers of values (`identity_values_`); `told` is history, the value
that came in last for each control, whether or not the code still remembers it.
It forgets only what the code is meant to lose: when the panel takes over a change
of devices (`ci_dirty_`), what is not queued at that moment.

### Formats: CIMessages, Umps, MidiFiles, Json, StandardProperties

A message is a record, its packets are sequences of bytes. `Serialize` is the
`serialize` of each class with `CIFactory`, `Read` is `processInput` with
`CIRetrieval`, and `Reply` answers inquiries over a host at rest. `Umps` has
`UmpFactory` on one side and the accessors of `Ump` and `UmpRetriever` on the
other. `MidiFiles` has `Midi1Writer` and `Midi1Reader`, with the size of a track
computed as the code computes it, apart from what is written, and
`Midi1Music`. `Json` writes and parses texts as sequences of tokens;
`StandardProperties` builds and reads the lists. `MCFormats` enumerates the
inputs: a first state names an area, its successors are the area's inputs, and
every property is an invariant of these.

### Translation: UmpTranslator, Midi1Machine, UmpTranslation

`UmpTranslator` translates bytes of MIDI 1.0 into UMPs (`LoopTurn` is one turn
of the loop with the context it changes) and UMPs back into bytes.
`UmpTranslation` runs it: `Gather` takes a message that belongs to a parameter,
bank or program, `Translate` any other, `Finish` ends the loop. `source` is a
`Midi1Machine` that hears the bytes, `target` one that hears the UMPs as MIDI
1.0 messages. `tidy` is history: whether the sender has kept to one parameter of
one channel at a time, first its number, then its data, first the upper half.

### DeviceLocks

A program is a call as the sequence of mutexes it takes and drops: `Holding` is
the scope of a lock_guard, `Touch` a function that takes a mutex, copies and
drops it, and `Effective` leaves out what a recursive mutex makes no step. `UI`
runs the calls of `MidiCIManager`, `Input` `processInput` with each class of
message, `Hook` the thread that `connections_changed` starts. `Save`, `Lower`,
`Serialize` and `Restore` are `Messenger::send` on the shared configuration;
`Announce` is the reading of the size for a discovery message. Locks are made
from the code by hand: one connection, one hook thread at a time, consecutive
touches of a mutex as one, and no mutex that is held only around a copy
(loggers, panel, `MidiDeviceManager`). The tooling's models are left out: most
clicks of that tool take their mutexes in the other order than its input.

## Runs

| Run | Shows | Bounds |
| --- | --- | --- |
| `chunks` | undisturbed transfers arrive exactly; progress has the right header; nothing stays; `PropertyTransfer` is implemented | 3 transfers, 1 peer, 2 ids, 1 or 3 packets: two may share an id while the third does not |
| `subscription` | client and host agree, nobody is served in vain or left out, and everything settles | 2 clients with a property each, or 1 client and the host's own operations; 3 requests each: subscribe, leave, subscribe again before answers |
| `session` | replies match their requests, nothing is left open, the mirror follows, what stays is loaded | 1 peer, 2 discoveries, 1 invalidation, 2 calls |
| `values` | what was set is read; notifications carry stored values; the mirror follows | 3 requests, 2 changes, 2 resource ids, 2 encodings: set, set in part, get, with a change between any two |
| `profiles` | client and host agree once all is answered and reported; the mirrors miss nothing | 2 profiles at 2 addresses, 3 changes, 2 connections: a change before, inside and after an answer, and a late reply to a replaced connection |
| `sysex` | what is handed over is whole, what arrives whole is handed over, first echoes are ignored | a peer's message, one that is not MIDI-CI, 3 echoes of which 2 are remembered, 2 streams, any cut |
| `tracker` | one request per property under way; ids of the counter do not meet; entries and ids go with their answers | 3 properties, 3 requests, 2 connections, a ResourceList on each, 4 ids from any start: asked, timed out, asked again while another is under way, with the id of a ResourceList under way |
| `ports` | the panel shows the port that is open; an open pair has its manager; devices shown are known | 2 inputs and 2 outputs that match in different ways, an own port, 2 devices; 2 plugs; any number of clicks |
| `keyboard` | values heard since devices changed are shown; a popup gets its map; no note stays | 2 devices with a control in common, 2 maps, 4 events and 1 loss; or 5 moves and notes |
| `locks` | one circle of waiting threads and no other; sizes are put back unless sends overlap | 3 threads, any sequence of calls, remote limits between and below the two sizes |
| `formats` | messages, UMPs, files, JSON and standard lists are read as written | header up to 6, body up to 14 and size up to 34 against the loop: capacities from 0 to more than the body; bodies and data up to 130 bytes, texts up to 60: 1 to 5 packets; META events up to 381 bytes: 1 to 3 pieces |
| `formats`, translation | both receivers know the same; every translation can be undone | 6 messages of parameters, banks and programs on 2 channels (a number takes 2, its data 2 more), 1 other; 4 contexts; delta times of 1 to 4 bytes |
| `subscription_update` | a finding, see below | 1 client, 2 requests |

`chunks` has one peer because chunks are kept by source: transfers of different
peers meet only if they share a key, which none do; the theorems below hold for any
number of peers. `session` has one peer for a similar reason: open requests and
callbacks belong to a connection, and peers share only the id counter.

The bounds on requests, discoveries and calls stand in the guards
(`MaxRequests`, `MaxDiscoveries`, `MaxGoodbyes`, `MaxGets`, `MaxChanges`,
`MaxConnections`, `MaxAsks`, `MaxPlugs`, `MaxGatherings`, `MaxOthers`,
`Budgets`). Runs may stop when the bounds are used up, so deadlock is not
checked in these; nor in `locks`, whose threads can be stuck for good (see
below). `ports` and `keyboard`, whose frames never end, check it.

## Findings

`subscription_update`: value notifications are refused by the subscriber. They
carry no command, and `processSubscribeProperty` answers a message without a
command with a NAK.

Weaknesses the models show, by the exceptions their properties make, and which no
run states by itself, since the repository does not say what ought to happen:

- Subscriptions and sessions. Two clients of one property: the end of one, which
  has no subscribeId, removes the entry of the other. Two devices that know each
  other: an end is routed to the client side (`Messenger.cpp:910`), and the host
  never sees it. Two ResourceList requests on one connection share the fixed id
  0, and so does, when the 8-bit counter has come round, one of the application:
  the second takes the first one's place in `open_requests_`, the answer to either
  is taken for the other's, and the one left over finds nothing (`RequestTracker`
  excepts ResourceLists from `OneUnderWay` and counts the rest to `excused` and
  `missed`). InvalidateMUID is written with 17 bytes, and `processInput` wants 18.
- Locks. The user asks for a property, or sends a state, and holds the mutex of
  the facade when it wants that of the device; a handler holds the device's and
  wants the facade's: both wait for ever. `NoOtherCircle` excepts this circle.
  Two sends that overlap save each other's lowered sizes: the configuration may
  keep them for good, a message may be cut larger than the peer takes, and the
  size announced by discovery may be the lowered one (`overlapped`).
- Tooling. Every packet reaches its device twice (`WholeIsHanded` says so). To the
  chunk managers these are two transfers of one key, which `ExactDelivery` excepts:
  each part of a property message in several packets is appended twice.
- Profiles. One that is enabled between the two look-ups of an answer is in
  neither list, and its report finds nothing at the client (`torn`). A removed one
  stays in the tooling's lists unless it was the last (`Leftover`).
- Values. A partial set is merged into the first value of the property, then
  overwritten by the partial body. A notification is about the first value of the
  property whatever its resource id. A client keeps one value per property, as it
  came, encoded. A page of the ResourceList shrinks the catalog to the page.
  `updatePropertyMetadata` erases the property's values.
- Messages. ProcessInquiryCapabilitiesReply and ProfileDetailsReply are sent to
  the sender's own MUID; ProfileSpecificData and the size before it are written
  in another form than they are read. Request id 247 is F7, which ends the SysEx
  for a reader that looks for it.
- UMP and translation. A second data entry without a new number ends the
  translation with an error; the context is shared by all channels; half of a bank
  select sends 0 for the other half; protocol MIDI1 mangles system messages;
  running status is not understood in files.
- Files. System messages F1 to FE have size 0 and are written with a byte. A track
  end inside merged tracks suppresses the final one. A delta time from 2^28 on is
  written and not read.
- JSON and standard properties. Strings are unescaped twice; bytes from 80 on are
  written as `\uffffff..`; numbers keep six digits; `recognize` is written only
  beside another transmit; the ids of DeviceInfo are written as bytes and read as
  numbers; omni mode of a channel is inverted or lost.
- Keyboard. The memory of sent messages is a set trimmed in byte order: the second
  echo of a message sent twice, or of one that was trimmed, is taken for a message
  of a peer. A port that fails to open leaves the panel with a closed port shown as
  selected. A device that is found or tells its name makes the panel forget the
  values of all controls of all devices (`ci_dirty_`, `KeyboardPanel.cpp:237-245`):
  lists made anew show defaults until a control moves again. `ReceivedIsShown`
  is about values since then. Controls of different channels share a slot. A note-on of MIDI 2.0
  with a velocity below 512 is taken for a release. An error reply leaves its
  property blocked until the 3 seconds are over (`missed`), an answer that overtakes
  `registerPropertyRequestId` leaves its id (`raced`), the user and the library may
  ask for the same property at once (`excused`), and the packets of a saved state
  do not extend its time, as no id is registered for it.

## Fairness

`PropertySubscription!FairSpec` has weak fairness of `Receive`,
`SessionSetup!FairSpec` of `PeerAnswers` and `Receive`: transports deliver and
both devices keep reading. Lost messages are not modelled in these two: the code
has no retry, so nothing could be promised. `KeyboardPanel!FairSpec` has weak
fairness of the stages of a frame (the window draws as long as it is open), of an
answer to some request that was not lost, and of the two timeouts (time passes).
It loses messages, as caches and tracker retry. Nothing is assumed of users and
applications: `MapIsServed` is about a popup that stays open, `NotesEnd` about a
mouse button that is up. Nothing lives in `DeviceLocks`: with the circle it has,
no thread is sure to go on.

## Proofs

Every theorem holds for all values of the constants that the named assumption of
its module allows; the assumptions say what the code takes for granted (lengths
are naturals, names are names, a fixed id is in use) and are evaluated in every
run. `<Module>_proofs` has the proofs about `<Module>`.

| Theorem | States |
| --- | --- |
| `PropertyChunks_proofs!TypeCorrect`, `DeliveryIsExact`, `ProgressIsRight`, `NothingStays`, `Implements` | the invariants of run `chunks`, and that reassembly implements `PropertyTransfer` |
| `SysexAssembly_proofs!TypeCorrect`, `NothingMixed`, `NothingLost` | `TypeOK`, `HandedIsWhole`, `WholeIsHanded` |
| `RequestTracker_proofs!OneAtATime`, `NothingIsKept` | `OneUnderWay`, `NothingIsLeft` |
| `KeyboardPorts_proofs!PanelShowsCurrent`, `PairHasManager`, `PanelShowsDevices` | `ShownIsCurrent`, `PairIsServed`, `DevicesAreShown` |
| `SessionSetup_proofs!TypeCorrect`, `ListFollows`, `RepliesFind` | `TypeOK`, `ModelFollows`, and `RepliesMatch` until the ids come round |
| `PropertySubscription_proofs!TypeCorrect`, `Subscribed`, `BothAgree`, `LeftIsRemoved` | `TypeOK`, `SubscribedIsServed`, `Agreement`, `UnsubscribedIsRemoved` |
| `KeyboardPanel_proofs!HeardIsShown` | `ReceivedIsShown` |
| `Profiles_proofs!TypeCorrect`, `MirrorsKeepUp`, `ClientAgrees` | `TypeOK`, `MirrorsFollow`, `Agreement` |

None of these invariants is inductive by itself. In each module a conjunction
`Inductive` is (`Sound` in `PropertySubscription_proofs`), `TLC` has checked it on
the runs (that of `KeyboardPanel` with one event less; the histories of `Sound`,
which it cannot guess, kept as variables), one
lemma per action shows that the action keeps it, and the theorems follow. What is
added, and why:

- `PropertyChunks`. What a transfer delivers depends on what is pending when its
  last packet comes: `NoneLeft` (a key whose transfers are all undisturbed and
  not underway has no chunk), `Gathered` (an undisturbed transfer underway has
  its header and exactly its first bytes pending, in the manager its next packet
  goes to), `Accounted` (every pending chunk has a transfer it came from).
  Lemmas about `PropertyChunking` supply the arithmetic: capacities and packet
  counts are naturals, offsets grow from 0 to the length.
- `SysexAssembly`. A receiver hands over what its buffer holds when an end
  packet comes, so `Buffers` says what that is halfway: exactly the packets so
  far of an undisturbed message, and if it begins like a MIDI-CI message, one
  that is underway, disturbed or cut. `Remembered` counts: as long as no more
  than `Limit` messages were sent, none is forgotten before its echo.
- `RequestTracker`. Ids have 8 bits and come back, so what keeps two requests
  apart is that their ids are in the order they were sent in, and none was handed
  out longer ago (`Ago`) than there are requests behind it (`Ordered`), of which
  there are fewer than ids (`MaxUnderWay`, in the run 3 with 4 ids). This is said of
  ids from the counter alone: ResourceLists lie between them with their id 0.
  `Blocked` says that a request of the user has its entry, unless excused, and one
  of the library excuses its key; `Once` that a key has one.
- `KeyboardPorts`. `Sound` holds of the controller after each of its functions:
  pair, manager and devices fit. `Remembers` ties the panel's index to the port
  the controller was told to open; `Asked` and `Suppressed` are what the
  short-lived states between a click and the next frame keep.
- `SessionSetup`. `Structure` (types, numbers of connections that exist,
  callbacks that belong to calls) and `ModelFollows` hold whatever the ids do.
  For the replies, `Lines` says of the two lines of a peer that ids of the
  counter are not in use twice (`Fresh`, `Once`, `Apart`), that a message with
  the id of an open request is about its property (`Same`) and that each open
  request has its message (`Comes`); `FeaturesKnown` that the answer to the
  process inquiry comes before every reply to a connection that does not know
  the features yet; `AllTidy` that callbacks wait for calls of their property
  and never for the list with its fixed id 0.
- `Profiles`. Of each profile a list says one of three things: absent, off or on
  (`State`), and messages on their way are a function on these (`Effect`,
  `IsEffect`). A reply adds what it names and changes nothing that is there; a
  report may come before it or after it. `WireOK` says that what is on its way,
  with the report still due, takes the client to what the host knows, or to
  absent while no answer of this connection has come (`Informed`). It says so of
  each rest of the line, from absent as well: a client that connects halfway
  begins there. `ReadingOK` says what an answer at work has seen: of a profile
  whose address is not yet looked up nothing, of one whose address is done, that
  the replies tell of it as the host knows it, with the report that is due; and
  between the two look-ups, that it is in the enabled list, or is not enabled, or
  is `torn`, the exception of `Agreement`: there `LookUpDisabled` would not keep
  the invariant. `DueOK` says that a report repeats what its change has done.
- `PropertySubscription`. The invariants relate lists of two devices, between
  which messages lie that each list meets at another time. So `AllExplained` says
  that for each client, host and property there is a history that explains all of
  it: what every request of the client was (`kind`, `prop`), which subscribeId the
  host gave to a start (`given`), which start an end takes (`match`), and four
  numbers, how far the host has come with the requests,
  the client with the replies, and which starts either has dropped (`gone`,
  `left`). `Fits` reads lines and lists off the history: the requests after `host`
  are on the way out, the replies after `client` on the way back, the service
  lists the starts the host has taken and not dropped, the client those it still
  wants, in this order. Each action makes a new history of the old. `Owned`
  (entries and messages belong to a subscription of the scenario), `Counted`
  (request ids are the number of requests sent) and `Issued` (the host's ids only
  grow) are what the steps need. On a quiet line `host` and `client` are at the
  end, so that both lists are the same starts: that is `Agreement`; an entry that
  is Subscribed has its reply behind it and no end before it: that is
  `SubscribedIsServed`.
- `KeyboardPanel`. `Good` says of every control in a list that its key is among
  those that values are looked up by, and that the key has the value the panel
  remembers for its identity, unless the user set it. Without the first part `Shown` would
  not keep the second. `Good` is kept by every function on panels, and by a frame
  that takes queues of any length (`Caught`, by the first entry that would break
  it); `Queued` says that queues and stored lists are typed. `Remembered` ties the
  panel's memory to the history: what was told of a control last is the last value
  queued for it, or what the panel remembers if none is queued (`LastIs`).

Three theorems on subscriptions assume `OneSubscriber`, `OneWay` and
`FewRequests`: a property of a host has one subscriber, of two devices one is
connected to the other, and the request ids have not come round. They are
what the first of the weaknesses above leaves: an end without a subscribeId takes
another client's entry, and one that finds a connection goes to the client side;
replies are matched by an id that is given out again. `MCPropertySubscription`
states them as an assumption of its own, so `TLC` evaluates them on the instances
of both runs. They say nothing about what is under way: a client may subscribe and
leave any number of times before answers, and the host may end, remove and set at
any time.

`RepliesFind` is `Spec /\ [][NotRound]_vars => []RepliesMatch`, where `NotRound`
says that a step does not lower the counter. It cannot be proved of `Spec` alone:
the code gives out an 8-bit id again whether or not its request is still open, so
with 256 requests under way one takes the place of another. The run starts at
id 0, makes fewer requests than that, and so meets the hypothesis everywhere.

Two modules had their recursion rewritten for the proofs: the erasing loops of
`PropertySubscription` use `Lists`, and the two queues of a panel's frame are one
recursive function over both, `Caught`, instead of folds.

Two attempts corrected a model. `HandedIsWhole` was not provable because nothing
said that a transmission of the keyboard is its own: `SourceAssumption` now does.
The bound of the tracker's ids was a bound on all requests ever made; it is now
one on those under way.

Only model-checked, and why:

- liveness (`AllLoaded` and the others of `FairSpec`s), which needs `ENABLED`;
- the formats and translations of `MCFormats`, whose readers and writers are
  recursive, and the closed forms of `PropertyChunking` against the loop: they
  would need induction over data;
- the invariants of `PropertyValues` and `DeviceLocks`. Those of `PropertyValues`
  go through folds over lists of updates, encodings and pages, which would have to
  become recursive functions first, see the plan. The circles of `DeviceLocks` are
  found by a search over the programs of three threads, which the code fixes:
  there is nothing a theorem could be more general in.

## Not modelled

- ACK and NAK, which only notify; the details of a profile, which are not filled
  in; `updateProfileTarget`, `cleanupExpiredChunks`, `MidiCIConverter` and
  `getSerializedBytes`, which nothing calls.
- SysEx8 at the receivers of `SysexAssembly`, which treat it like SysEx7; chunk
  headers and SMPTE formats of files; schemas and columns of properties.
- The program list and the saved states of the keyboard panel; windows, settings,
  drawing, texts; port access through libremidi and RtMidi; Android packaging,
  embedded fonts and vendored code. They are data, I/O or layout.
- Data races (`recentOutgoingSysEx`, the copy of a profile list while it changes,
  the reset of `midiCIManager`) have no outcomes to enumerate; the models take
  each access as a step.

## Plan

Next, in this order:

1. The second delivery of a message in `PropertySubscription`: a `start` that
   comes twice.
2. Proofs of `PropertyValues`: `OneValueEach` and `MirrorFollows`, which follow from
   what `WithValue` and the callbacks do to a list, then `NoticesAreStored`, by the
   first notification whose body is none of the host's; `Encodings` in the form of
   `Caught` first.
3. Without `OneSubscriber`, what is left of `Agreement`: the host has as many
   entries of a property as its clients together think they have.
