---------------------------- MODULE KeyboardPanel ----------------------------
(***************************************************************************)
(* The keyboard panel above its ports: the piano (KeyboardNotes), the list *)
(* of a device's controls with their sliders, and the popups with the      *)
(* titles of a control's values (CtrlMapList).                             *)
(*                                                                         *)
(* The UI thread draws a frame in three steps: Apply takes over what other *)
(* threads have queued, Draw renders and does what rendering triggers (a   *)
(* popup asks for its map), then the user may click once.  The input       *)
(* thread stores answers of the devices and queues what it hears; it may   *)
(* run between any two steps.                                              *)
(*                                                                         *)
(* A control is a record: kind and index (its MIDI message), channel, map  *)
(* (the id of its CtrlMapList or NoMap) and default.                       *)
(***************************************************************************)
EXTENDS KeyboardNotes

CONSTANTS
    Devices,     \* MUIDs of devices with a connection
    NoDevice, NoList, NoMap, NoValue,
    ListsOf,     \* ListsOf[d]: control lists d may answer with
    Values,      \* values of controls
    Moves,       \* positions of the mouse
    NoteMessages,\* note messages that come in
    Budgets,     \* bound: [notes, events, losses]: how many of each happen
    NoMessage

Controls == UNION {ToSet(l) : l \in UNION {ListsOf[d] : d \in Devices}}
Maps == {c.map : c \in Controls} \ {NoMap}
Kinds == {"cc", "rpn", "nrpn", "pnac", "pnrc"}

Identity(c) == <<c.kind, c.index>>
Identities == {Identity(c) : c \in Controls}
Key(d, c) == <<d, Identity(c)>>
Keys == {<<d, i>> : d \in Devices, i \in Identities}
\* Requests: of the control list or of a map.
Requests == Devices \X (Maps \cup {NoMap})

ASSUME PanelAssumption ==
    /\ DOMAIN ListsOf = Devices
    /\ \A d \in Devices : \A l \in ListsOf[d] : l \in Seq(ToSet(l))
    /\ \A c \in Controls : c.kind \in Kinds /\ c.default \in Values
    /\ Budgets \subseteq [notes : Nat, events : Nat, losses : Nat]

VARIABLES
    keys,     \* midi_keyboard_
    mouse,    \* what ImGui tells about the mouse
    store,    \* what the connections hold: [list, map], one map per device
    tracker,  \* pending requests: "none", "fresh" or "late" (3 s old)
    asked,    \* requests under way: <<d, NoMap>> for the list, <<d, m>>
    updates,  \* pending_property_updates_
    heard,    \* pending_control_updates_: <<identity, value>>
    ciDirty,
    panel,    \* what is listed, shown and selected
    stage,    \* of the frame: "apply", "draw" or "click"
    left,     \* what is left of the budget
    told      \* history: the value heard last of each identity, until the
              \* panel takes over a change of devices

hearing == <<heard, told>>
vars == <<keys, mouse, store, tracker, asked, updates, hearing, ciDirty, panel,
          stage, left>>

\* ControlMapCache: late when the request is 3 s old, value is the id of the
\* map whose values it holds.
NoCache == [exists |-> FALSE, pending |-> FALSE, late |-> FALSE,
            checked |-> FALSE, value |-> NoMap]

Empty(p) ==
    [p EXCEPT !.lists = [d \in Devices |-> NoList],
              !.maps = [d \in Devices |-> [m \in Maps |-> NoCache]]]

-----------------------------------------------------------------------------
\* Messages of controls.

\* resolve_channel
Channel(p, c) == IF p.context \in {"channel", "key"} THEN p.channel ELSE c.channel

\* send_control_value with sendRPN, sendNRPN, sendPerNoteControlChange and
\* sendControlChange: an index that is too short sends nothing, a kind the
\* panel does not know is sent as a control change.
MessageOf(p, c, v) ==
    LET Message(status, b3, b4) ==
            [status |-> status, channel |-> Channel(p, c), byte3 |-> b3,
             byte4 |-> b4, value |-> v]
    IN  IF c.kind \in {"rpn", "nrpn"}
        THEN IF Len(c.index) < 2 THEN NoMessage
             ELSE Message(c.kind, c.index[1], c.index[2])
        ELSE IF Len(c.index) < 1 THEN NoMessage
        ELSE IF c.kind = "pnac" THEN Message("pnac", p.key, c.index[1])
        ELSE Message("cc", c.index[1], 0)

\* extract_control_value: the identity a message is about.
IdentityOf(m) ==
    <<m.status, IF m.status = "cc" THEN <<m.byte3>>
                ELSE IF m.status \in {"pnac", "pnrc"} THEN <<m.byte4>>
                ELSE <<m.byte3, m.byte4>>>>

-----------------------------------------------------------------------------
\* The steps of a frame.
NextStage ==
    stage' = CASE stage = "apply" -> "draw"
               [] stage = "draw" -> "click"
               [] stage = "click" -> "apply"

-----------------------------------------------------------------------------
\* Apply.

\* The clearing part of apply_pending_updates and refresh_ci_devices, as far
\* as a device stays or gets selected.
Dirtied(p, selected) ==
    [Empty(p) EXCEPT !.values = [k \in Keys |-> NoValue],
                     !.heard = [i \in Identities |-> NoValue],
                     !.targets = {}, !.own = {}, !.selected = selected]

\* Mutant: values heard before the list are not shown.
RebuiltWithout(p, d, list) ==
    [p EXCEPT !.targets = {k \in @ : k[1] # d}
                          \cup {Key(d, list[i]) : i \in 1 .. Len(list)}]

\* rebuild_control_lookup: the keys of d change, values heard are taken over.
Rebuilt(p, d, list) ==
    LET new == {Key(d, list[i]) : i \in 1 .. Len(list)} IN
    [p EXCEPT
        !.targets = {k \in @ : k[1] # d} \cup new,
        !.values = [k \in Keys |->
            IF k \in new /\ p.heard[k[2]] # NoValue THEN p.heard[k[2]]
            ELSE @[k]],
        !.own = @ \ {k \in new : p.heard[k[2]] # NoValue}]

\* Mutant: the only map there is is taken for any.
AnyMap(d, m) == store[d].map

\* getCtrlMapList: the connection keeps one value of the property, with its
\* resId.
MapOf(d, m) == IF store[d].map = m THEN m ELSE NoMap

\* One entry of process_property_updates: the list, or a map that some row
\* has an entry for.
Taken(p, u) ==
    LET d == u[1] m == u[2] IN
    IF m = NoMap
    THEN IF store[d].list = NoList THEN p
         ELSE Rebuilt([p EXCEPT !.lists[d] = store[d].list], d, store[d].list)
    ELSE IF ~p.maps[d][m].exists THEN p
    ELSE [p EXCEPT !.maps[d][m] =
            [exists |-> TRUE, pending |-> FALSE, late |-> FALSE,
             checked |-> TRUE, value |-> MapOf(d, m)]]

\* Mutant: a value is shown, but not kept for lists to come.
ShownOnly(p, h) ==
    [p EXCEPT !.values = [k \in Keys |->
                  IF k \in p.targets /\ k[2] = h[1] THEN h[2] ELSE @[k]],
              !.own = {k \in @ : k[2] # h[1]}]

\* One of process_incoming_control_events: every control of that identity.
Shown(p, h) ==
    [p EXCEPT !.heard[h[1]] = h[2],
              !.values = [k \in Keys |->
                  IF k \in p.targets /\ k[2] = h[1] THEN h[2] ELSE @[k]],
              !.own = {k \in @ : k[2] # h[1]}]

\* What is queued, in order: updates of properties, then values.
Caught(p) ==
    LET after[n \in 0 .. Len(updates) + Len(heard)] ==
            IF n = 0 THEN p
            ELSE IF n <= Len(updates) THEN Taken(after[n - 1], updates[n])
            ELSE Shown(after[n - 1], heard[n - Len(updates)])
    IN  after[Len(updates) + Len(heard)]

\* A value of this identity is queued.
IsQueued(id) == \E i \in 1 .. Len(heard) : heard[i][1] = id

\* apply_pending_updates.  A change of devices forgets all values that were
\* heard, but those still queued.
Apply ==
    /\ stage = "apply"
    /\ \E selected \in IF ciDirty THEN Devices \cup {NoDevice}
                       ELSE {panel.selected} :
        panel' = Caught(IF ciDirty THEN Dirtied(panel, selected) ELSE panel)
    /\ keys' = NotesShown(keys)
    /\ ciDirty' = FALSE /\ updates' = <<>> /\ heard' = <<>>
    /\ told' = [id \in Identities |->
                    IF ciDirty /\ ~IsQueued(id) THEN NoValue ELSE told[id]]
    /\ NextStage
    /\ UNCHANGED <<mouse, store, tracker, asked, left>>

-----------------------------------------------------------------------------
\* Draw.

\* control_matches_context
Matches(p, c) ==
    CASE p.context = "global" -> c.kind = "nrpn"
      [] p.context = "key" -> c.kind = "pnac"
      [] OTHER -> TRUE

\* The rows of the table.
Rows(p) ==
    IF p.selected = NoDevice \/ p.lists[p.selected] = NoList THEN <<>>
    ELSE SelectSeq(p.lists[p.selected], LAMBDA c : Matches(p, c))

\* The caches of a device are dropped when another one is selected.
Reselected(p) ==
    IF p.selected \in {p.last, NoDevice} THEN p
    ELSE IF p.last = NoDevice THEN [p EXCEPT !.last = p.selected]
    ELSE [p EXCEPT !.lists[p.last] = NoList,
                   !.maps[p.last] = [m \in Maps |-> NoCache],
                   !.last = p.selected]

\* A row without a value gets its default.
Defaulted(p) ==
    LET of == [i \in 1 .. Len(Rows(p)) |-> Key(p.selected, Rows(p)[i])] IN
    [p EXCEPT !.values = [k \in Keys |->
        IF @[k] = NoValue /\ \E i \in 1 .. Len(of) : of[i] = k
        THEN Rows(p)[CHOOSE i \in 1 .. Len(of) : of[i] = k].default
        ELSE @[k]]]

\* A row with a map has an entry; invalidate_invisible_ctrl_map_entries
\* forgets the values of the others.
Pruned(p) ==
    IF p.selected = NoDevice THEN p
    ELSE [p EXCEPT !.maps[p.selected] = [m \in Maps |->
            IF \E i \in 1 .. Len(Rows(p)) : Rows(p)[i].map = m
            THEN [@[m] EXCEPT !.exists = TRUE]
            ELSE [@[m] EXCEPT !.checked = FALSE, !.value = NoMap]]]

\* The map the popup is about: popups belong to a row, not to its control.
PopupMap(p) ==
    IF p.popup \in 1 .. Len(Rows(p)) THEN Rows(p)[p.popup].map ELSE NoMap

\* The popup looks for its map: after 3 s it gives up on a request, it looks
\* into the store once, and asks when it has nothing to wait for.
Looked(d, m, cache) ==
    LET c == IF cache.pending /\ cache.late
             THEN [cache EXCEPT !.pending = FALSE, !.checked = FALSE]
             ELSE cache
    IN  IF c.value # NoMap \/ c.checked THEN c
        ELSE [c EXCEPT !.checked = TRUE, !.value = MapOf(d, m),
                       !.pending = @ /\ MapOf(d, m) = NoMap]

\* Request functions: nothing is sent while a request of the key is tracked
\* and younger than 3 s; entries that are older are dropped on the way.
Cleaned == [k \in DOMAIN tracker |->
                IF tracker[k] = "late" THEN "none" ELSE tracker[k]]

Request(k) ==
    /\ tracker' = [Cleaned EXCEPT ![k] = "fresh"]
    /\ asked' = IF Cleaned[k] = "none" THEN asked \cup {k} ELSE asked

\* Mutant: a request given up on is not repeated.
AsksOnce(cache) == cache.value = NoMap /\ ~cache.pending /\ ~cache.late

AsksAgain(cache) == cache.value = NoMap /\ ~cache.pending

\* render: keyboard, then the table of controls with the open popup, which
\* closes when its row is not drawn.
Draw ==
    LET p == Pruned(Defaulted(Reselected(panel)))
        d == p.selected
        m == PopupMap(p)
        looked == Looked(d, m, p.maps[d][m])
    IN
    /\ stage = "draw"
    /\ keys' = Moused(keys, mouse)
    /\ mouse' = [mouse EXCEPT !.clicked = FALSE]
    /\ IF m = NoMap
       THEN /\ panel' = [p EXCEPT !.popup = 0]
            /\ UNCHANGED <<tracker, asked>>
       ELSE IF AsksAgain(looked)
       THEN /\ panel' = [p EXCEPT !.maps[d][m] =
                            [looked EXCEPT !.pending = TRUE, !.late = FALSE]]
            /\ Request(<<d, m>>)
       ELSE /\ panel' = [p EXCEPT !.maps[d][m] = looked]
            /\ UNCHANGED <<tracker, asked>>
    /\ NextStage
    /\ UNCHANGED <<store, updates, hearing, ciDirty, left>>

-----------------------------------------------------------------------------
\* Clicks; any of them closes the popup, except the one that opens it.

Spend(what) ==
    /\ left[what] > 0
    /\ left' = [left EXCEPT ![what] = @ - 1]

Click ==
    /\ stage = "click" /\ NextStage
    /\ UNCHANGED <<keys, mouse, store, updates, hearing, ciDirty>>

\* A frame without a click.
Pass ==
    /\ Click
    /\ UNCHANGED <<panel, tracker, asked, left>>

\* The lists of devices and of contexts.
Select(d) ==
    /\ Click /\ Spend("events")
    /\ panel' = [panel EXCEPT !.selected = d, !.popup = 0]
    /\ UNCHANGED <<tracker, asked>>

SelectContext(context) ==
    /\ Click /\ Spend("events")
    /\ panel' = [panel EXCEPT !.context = context, !.popup = 0]
    /\ UNCHANGED <<tracker, asked>>

\* The arrow of row i opens the popup or closes it.
Arrow(i) ==
    /\ Click /\ Spend("events")
    /\ Rows(panel)[i].map # NoMap
    /\ panel' = [panel EXCEPT !.popup = IF @ = i THEN 0 ELSE i]
    /\ UNCHANGED <<tracker, asked>>

\* The slider of row i, or an entry of its popup; the message it sends has no
\* effect here.
Slide(i, v) ==
    LET k == Key(panel.selected, Rows(panel)[i]) IN
    /\ Click /\ Spend("events")
    /\ panel' = [panel EXCEPT !.values[k] = v, !.own = @ \cup {k}, !.popup = 0]
    /\ UNCHANGED <<tracker, asked>>

\* The button "Request": requestAllCtrlList.
RequestList ==
    /\ Click /\ Spend("events")
    /\ panel.selected # NoDevice
    /\ Request(<<panel.selected, NoMap>>)
    /\ panel' = [panel EXCEPT !.popup = 0]

-----------------------------------------------------------------------------
\* The input thread, the devices and time.

inputIdle == <<keys, mouse, panel, stage>>

\* The answer to k is heard: the callback of the panel queues the update.
\* Answers to equal requests count once.
Answered(k) ==
    /\ k \in asked
    /\ asked' = asked \ {k}
    /\ updates' = Append(updates, k)

\* A device answers: the connection has stored the value by then.
Answer(d, m) ==
    /\ Answered(<<d, m>>)
    /\ IF m = NoMap
       THEN \E l \in ListsOf[d] : store' = [store EXCEPT ![d].list = l]
       ELSE store' = [store EXCEPT ![d].map = m]
    /\ tracker' = [tracker EXCEPT ![<<d, m>>] = "none"]
    /\ UNCHANGED <<inputIdle, hearing, ciDirty, left>>

\* Request or answer is lost, or the device answers with an error.
Lose(k) ==
    /\ Spend("losses")
    /\ k \in asked
    /\ asked' = asked \ {k}
    /\ UNCHANGED <<inputIdle, store, tracker, updates, hearing, ciDirty>>

\* 3 s have passed since the manager's request,
TrackerTime(k) ==
    /\ tracker[k] = "fresh"
    /\ tracker' = [tracker EXCEPT ![k] = "late"]

TrackerAges(k) ==
    /\ TrackerTime(k)
    /\ UNCHANGED <<inputIdle, store, asked, updates, hearing, ciDirty, left>>

\* and since the panel's.
CacheTime(d, m) ==
    /\ panel.maps[d][m].pending /\ ~panel.maps[d][m].late
    /\ panel' = [panel EXCEPT !.maps[d][m].late = TRUE]

CacheAges(d, m) ==
    /\ CacheTime(d, m)
    /\ UNCHANGED <<keys, mouse, stage, store, tracker, asked, updates,
                   hearing, ciDirty, left>>

\* onMidiInput: a control moves at the device, which sends what the panel
\* would; enqueue_incoming_control_event.
HearControl(c, v) ==
    LET m == MessageOf(panel, c, v) IN
    /\ Spend("events")
    /\ m # NoMessage
    /\ heard' = Append(heard, <<IdentityOf(m), m.value>>)
    /\ told' = [told EXCEPT ![IdentityOf(m)] = m.value]
    /\ UNCHANGED <<inputIdle, store, tracker, asked, updates, ciDirty>>

\* onMidiInput: a note.
HearNote(m) ==
    /\ Spend("notes")
    /\ keys' = NoteComes(keys, m)
    /\ UNCHANGED <<mouse, panel, stage, store, tracker, asked, updates,
                   hearing, ciDirty>>

\* ImGui delivers one change of the button per frame.
MouseMoves(at, down) ==
    /\ Spend("notes")
    /\ ~mouse.clicked
    /\ mouse' = [at |-> at, down |-> down, clicked |-> down /\ ~mouse.down]
    /\ UNCHANGED <<keys, panel, stage, store, tracker, asked, updates,
                   hearing, ciDirty>>

\* A device is found or tells its name: ci_dirty_.
DevicesChanged ==
    /\ Spend("events")
    /\ ciDirty' = TRUE
    /\ UNCHANGED <<inputIdle, store, tracker, asked, updates, hearing>>

\* The manager is replaced and the devices are found again: their properties
\* and the requests under way are gone.
Replaced ==
    /\ Spend("events")
    /\ store' = [d \in Devices |-> [list |-> NoList, map |-> NoMap]]
    /\ tracker' = [k \in DOMAIN tracker |-> "none"]
    /\ asked' = {}
    /\ ciDirty' = TRUE
    /\ UNCHANGED <<inputIdle, updates, hearing>>

-----------------------------------------------------------------------------
Init ==
    /\ keys = NotesInit
    /\ mouse = [down |-> FALSE, clicked |-> FALSE, at |-> Elsewhere]
    /\ store = [d \in Devices |-> [list |-> NoList, map |-> NoMap]]
    /\ tracker = [k \in Requests |-> "none"]
    /\ asked = {}
    /\ updates = <<>> /\ heard = <<>>
    /\ told = [id \in Identities |-> NoValue]
    /\ ciDirty = TRUE
    /\ panel = [lists |-> [d \in Devices |-> NoList],
                maps |-> [d \in Devices |-> [m \in Maps |-> NoCache]],
                values |-> [k \in Keys |-> NoValue],
                heard |-> [i \in Identities |-> NoValue],
                targets |-> {}, own |-> {}, selected |-> NoDevice,
                last |-> NoDevice, popup |-> 0, context |-> "channel",
                channel |-> 0, key |-> 60]
    /\ stage = "apply"
    /\ left \in Budgets

Next ==
    \/ Apply \/ Draw \/ Pass
    \/ \E d \in Devices : Select(d)
    \/ \E context \in {"group", "channel", "key", "global"} :
            SelectContext(context)
    \/ \E i \in 1 .. Len(Rows(panel)) : Arrow(i) \/ \E v \in Values : Slide(i, v)
    \/ RequestList
    \/ \E d \in Devices, m \in Maps \cup {NoMap} :
            \/ Answer(d, m) \/ Lose(<<d, m>>) \/ TrackerAges(<<d, m>>)
    \/ \E d \in Devices, m \in Maps : CacheAges(d, m)
    \/ \E c \in Controls, v \in Values : HearControl(c, v)
    \/ \E m \in NoteMessages : HearNote(m)
    \/ \E at \in Moves, down \in BOOLEAN : MouseMoves(at, down)
    \/ DevicesChanged \/ Replaced

Spec == Init /\ [][Next]_vars

\* Frames go on, devices answer what is not lost, and time passes.
Fairness ==
    /\ WF_stage(NextStage)
    /\ WF_<<asked, updates>>(\E k \in Requests : Answered(k))
    /\ WF_tracker(\E k \in Requests : TrackerTime(k))
    /\ WF_panel(\E d \in Devices, m \in Maps : CacheTime(d, m))

FairSpec == Spec /\ Fairness

-----------------------------------------------------------------------------
\* Every control in a list shows the value heard last for its message since
\* the panel took over the last change of devices, whether the list or the
\* value came first and however often lists were exchanged since; unless the
\* user has moved the control or a newer value is still queued.  What was heard
\* before the change is lost: until the control moves again the lists made
\* anew show its default.
ReceivedIsShown ==
    \A d \in Devices : panel.lists[d] # NoList =>
        \A i \in 1 .. Len(panel.lists[d]) :
            LET k == Key(d, panel.lists[d][i]) IN
            told[k[2]] # NoValue /\ ~IsQueued(k[2]) /\ k \notin panel.own
                => panel.values[k] = told[k[2]]

\* The popup is open and does not show the titles of its row's control.
Waiting ==
    /\ PopupMap(panel) # NoMap
    /\ panel.maps[panel.selected][PopupMap(panel)].value # PopupMap(panel)

\* An open popup gets its own map in the end and never stays with another's,
\* though requests are dropped while an older one is tracked, answers are lost,
\* and the one value the connection keeps is displaced by others.
MapIsServed == []<>~Waiting

\* No note sounds for ever: with the button up all notes sent end.
NotesEnd == ~mouse.down ~> keys.sounding = {} \/ mouse.down
=============================================================================
