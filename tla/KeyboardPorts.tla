---------------------------- MODULE KeyboardPorts ----------------------------
(***************************************************************************)
(* The keyboard panel's MIDI ports.  KeyboardController opens one input    *)
(* and one output port and owns a MidiCIManager, which is made anew        *)
(* whenever the two ports become a pair and is shut down when they no      *)
(* longer are one.  KeyboardPanel keeps its own lists of ports and MIDI-CI *)
(* devices and indices into them, which it brings up to date at the start  *)
(* of a frame when a callback has marked them dirty.                       *)
(*                                                                         *)
(* Threads: the UI thread draws frames (Frame) and, after the update,      *)
(* takes at most one click per frame; the input thread delivers answers of *)
(* devices; the system adds and removes ports.  A port is a record: its    *)
(* id, the token of the id, its name without (In)/(Out) suffixes and       *)
(* whether it is the application's own virtual port.                       *)
(***************************************************************************)
EXTENDS Integers, Sequences, SequencesExt

CONSTANTS
    InPorts, OutPorts, \* all ports there may be
    NoPort,
    Behind,            \* Behind[port]: devices that answer through an input
    MaxPlugs           \* bound: ports added or removed

Sides == {"in", "out"}
All(side) == IF side = "in" THEN InPorts ELSE OutPorts
Ports == InPorts \cup OutPorts
Devices == UNION {Behind[p] : p \in InPorts}

ASSUME PortsAssumption ==
    /\ NoPort \notin Ports
    /\ \A p \in Ports : {"id", "token", "base", "own"} \subseteq DOMAIN p
    /\ DOMAIN Behind = InPorts
    /\ MaxPlugs \in Nat

VARIABLES
    present,  \* present[side]: the observer's ports
    plugs,    \* ports added or removed so far
    ctl,      \* the controller: ports open and last told to open, manager
    panel,    \* the panel: lists of ports and devices, indices into them
    drawn     \* a frame is drawn and waits for a click

vars == <<present, plugs, ctl, panel, drawn>>

NoManager == [for |-> <<NoPort, NoPort>>, asked |-> FALSE, exists |-> FALSE]
\* A manager knows for which open ports it was made (history: the code does
\* not store it) and whether a discovery inquiry left through an open port.
Manager(c) == [for |-> <<c.open["in"], c.open["out"]>>, asked |-> FALSE,
               exists |-> TRUE]

NoPorts == [side \in Sides |-> NoPort]

-----------------------------------------------------------------------------
\* KeyboardController.  Each operator is what a function makes of ctl.

HasPair(c) == \A side \in Sides : c.open[side] # NoPort

\* ports_match
PortsMatch(i, o) == (i.token # "" /\ i.token = o.token) \/ i.base = o.base

\* Mutant: the panel is not told that the devices are gone.
ShutSilently(c) == [c EXCEPT !.manager = NoManager, !.known = <<>>]

\* MidiCIManager::shutdown, with clearDiscoveredDevices, and reset.
Shut(c) ==
    IF c.manager.exists
    THEN [c EXCEPT !.manager = NoManager, !.known = <<>>, !.ciDirty = TRUE]
    ELSE c

\* Mutant: the manager there is kept.
InitializedOnce(c) ==
    IF c.manager.exists THEN c ELSE [c EXCEPT !.manager = Manager(c)]

\* initializeMidiCI
Initialized(c) == [Shut(c) EXCEPT !.manager = Manager(c)]

\* updateUIConnectionState
Updated(c) ==
    LET now == HasPair(c) IN
    IF now = c.paired THEN c
    ELSE [(IF now THEN c ELSE Shut(c)) EXCEPT
            !.paired = now, !.devicesDirty = TRUE]

\* sendDiscovery, which needs an open output to reach anyone.
Discovered(c) ==
    IF c.manager.exists /\ c.open["out"] # NoPort
    THEN [c EXCEPT !.manager.asked = TRUE] ELSE c

\* checkAndAutoConnect: with a pair of matching ports the observer lists.
AutoConnected(c) ==
    IF /\ HasPair(c)
       /\ \A side \in Sides : c.current[side] \in ToSet(present[side])
       /\ PortsMatch(c.current["in"], c.current["out"])
    THEN Discovered(c) ELSE c

Closed(c, side) ==
    IF c.open[side] = NoPort THEN c
    ELSE Updated([c EXCEPT !.open[side] = NoPort])

\* selectInputDevice and selectOutputDevice of a port the observer lists;
\* whether open_port succeeds is not looked at.
Opened(c, side, port, opens) ==
    LET chosen == [Closed(c, side) EXCEPT
                        !.open[side] = IF opens THEN port ELSE NoPort,
                        !.current[side] = port]
        With(d) == IF HasPair(d) THEN Initialized(d) ELSE d
    IN  AutoConnected(IF side = "in" THEN Updated(With(chosen))
                      ELSE With(Updated(chosen)))

\* The same of the empty id.
Deselected(c, side) ==
    Updated([Closed(c, side) EXCEPT !.current[side] = NoPort])

-----------------------------------------------------------------------------
\* KeyboardPanel.

\* The port a side of the panel shows as selected, and the device.
Shown(pan, side) ==
    IF pan.index[side] \in 1 .. Len(pan.list[side])
    THEN pan.list[side][pan.index[side]] ELSE NoPort

SelectedDevice(pan) ==
    IF pan.ciIndex \in 1 .. Len(pan.ciList) THEN {pan.ciList[pan.ciIndex].muid}
    ELSE {}

\* Mutant: the index stays, the list changes under it.
RefreshedKeepsIndex(pan) ==
    [pan EXCEPT !.list = [side \in Sides |->
        SelectSeq(present[side], LAMBDA p : ~p.own)]]

\* refresh_devices: the own virtual ports are left out, the selected port is
\* looked up again.
Refreshed(pan) ==
    LET list == [side \in Sides |->
                    SelectSeq(present[side], LAMBDA p : ~p.own)]
        At(side) == {i \in 1 .. Len(list[side]) :
                        list[side][i] = pan.chosen[side]}
    IN  [pan EXCEPT
            !.list = list,
            !.index = [side \in Sides |->
                IF At(side) = {} THEN 0 ELSE CHOOSE i \in At(side) : TRUE],
            !.chosen = [side \in Sides |->
                IF At(side) = {} THEN NoPort ELSE @[side]]]

\* refresh_ci_devices.  After "Refresh Devices" nothing is selected once;
\* otherwise the device stays selected if it is still there, or else the
\* index, or else a device that has answered the endpoint inquiry.
CiRefreshed(pan, devices) ==
    LET inside == IF pan.ciIndex > Len(devices) THEN 0 ELSE pan.ciIndex
        kept == {i \in 1 .. Len(devices) :
                    devices[i].muid \in SelectedDevice(pan)}
        ready == {i \in 1 .. Len(devices) : devices[i].ready}
        First(s) == CHOOSE i \in s : \A j \in s : i <= j
        index == IF pan.suppress THEN inside
                 ELSE IF kept # {} THEN First(kept)
                 ELSE IF inside # 0 \/ devices = <<>> THEN inside
                 ELSE IF ready # {} THEN First(ready) ELSE 1
    IN  [pan EXCEPT !.ciList = devices, !.ciIndex = index, !.suppress = FALSE]

\* check_and_auto_connect: the panel looks at the ports it shows and sends a
\* discovery of its own.
PanelConnected(c, pan) ==
    IF /\ \A side \in Sides : Shown(pan, side) # NoPort
       /\ PortsMatch(Shown(pan, "in"), Shown(pan, "out"))
    THEN Discovered(c) ELSE c

-----------------------------------------------------------------------------
Init ==
    /\ present \in [Sides -> UNION {SetToSeqs(s) : s \in SUBSET Ports}]
    /\ \A side \in Sides : ToSet(present[side]) = All(side)
    /\ plugs = 0
    /\ ctl = Initialized(
            [open |-> NoPorts, current |-> NoPorts, paired |-> FALSE,
             manager |-> NoManager, known |-> <<>>,
             devicesDirty |-> TRUE, ciDirty |-> TRUE])
    /\ panel = [list |-> [side \in Sides |-> <<>>],
                index |-> [side \in Sides |-> 0], chosen |-> NoPorts,
                ciList |-> <<>>, ciIndex |-> 0, suppress |-> FALSE]
    /\ drawn = FALSE

\* render starts with apply_pending_updates.
Frame ==
    LET listed == IF ctl.devicesDirty THEN Refreshed(panel) ELSE panel IN
    /\ panel' = IF ctl.ciDirty THEN CiRefreshed(listed, ctl.known) ELSE listed
    /\ ctl' = [ctl EXCEPT !.devicesDirty = FALSE, !.ciDirty = FALSE]
    /\ drawn' = TRUE
    /\ UNCHANGED <<present, plugs>>

\* A click on what the frame shows.
Click == drawn /\ drawn' = FALSE /\ UNCHANGED <<present, plugs>>

\* select_input_device, select_output_device: a port of the panel's list.
\* When the controller refuses it, the panel keeps what it showed.
Select(side, i, opens) ==
    LET port == panel.list[side][i]
        refused == port \notin ToSet(present[side])
        selected == IF refused THEN panel
                    ELSE [panel EXCEPT !.index[side] = i, !.chosen[side] = port]
    IN
    /\ Click
    /\ panel' = selected
    /\ ctl' = PanelConnected(IF refused THEN Closed(ctl, side)
                             ELSE Opened(ctl, side, port, opens), selected)

\* The entry "Virtual (default)".
Deselect(side) ==
    LET selected == [panel EXCEPT !.index[side] = 0, !.chosen[side] = NoPort] IN
    /\ Click
    /\ panel' = selected
    /\ ctl' = PanelConnected(Deselected(ctl, side), selected)

\* The button "Refresh Devices".
RefreshDevices ==
    /\ Click
    /\ ctl' = [Deselected(Deselected(ctl, "in"), "out") EXCEPT
                    !.devicesDirty = TRUE, !.ciDirty = TRUE]
    /\ panel' = [panel EXCEPT !.index = [side \in Sides |-> 0],
                    !.chosen = NoPorts, !.ciIndex = 0, !.suppress = TRUE]

\* The button "Send Discovery".
SendDiscovery ==
    /\ Click
    /\ ctl' = Discovered(ctl)
    /\ UNCHANGED panel

\* The list of MIDI-CI devices.
SelectCiDevice(i) ==
    /\ Click
    /\ panel' = [panel EXCEPT !.ciIndex = i]
    /\ UNCHANGED ctl

\* A device behind the open input answers a discovery, perhaps one that an
\* earlier manager sent (all have one MUID); later its endpoint information
\* comes.
DeviceFound(d) ==
    /\ ctl.manager.exists /\ ctl.open["in"] # NoPort
    /\ d \in Behind[ctl.open["in"]]
    /\ \A i \in 1 .. Len(ctl.known) : ctl.known[i].muid # d
    /\ ctl' = [ctl EXCEPT !.known = Append(@, [muid |-> d, ready |-> FALSE]),
                          !.ciDirty = TRUE]
    /\ UNCHANGED <<present, plugs, panel, drawn>>

EndpointReply(i) ==
    /\ ctl.open["in"] # NoPort
    /\ ctl.known[i].muid \in Behind[ctl.open["in"]]
    /\ ctl' = [ctl EXCEPT !.known[i].ready = TRUE, !.ciDirty = TRUE]
    /\ UNCHANGED <<present, plugs, panel, drawn>>

\* A port is removed or added; an open handle stays.
Unplug(side, i) ==
    /\ plugs < MaxPlugs
    /\ present' = [present EXCEPT ![side] = RemoveAt(@, i)]
    /\ plugs' = plugs + 1
    /\ UNCHANGED <<ctl, panel, drawn>>

Plug(side, port) ==
    /\ plugs < MaxPlugs
    /\ port \in All(side) \ ToSet(present[side])
    /\ \E at \in 1 .. Len(present[side]) + 1 :
            present' = [present EXCEPT ![side] = InsertAt(@, at, port)]
    /\ plugs' = plugs + 1
    /\ UNCHANGED <<ctl, panel, drawn>>

Next ==
    \/ Frame
    \/ \E side \in Sides :
        \/ \E i \in 1 .. Len(panel.list[side]), opens \in BOOLEAN :
                Select(side, i, opens)
        \/ Deselect(side)
        \/ \E i \in 1 .. Len(present[side]) : Unplug(side, i)
        \/ \E port \in All(side) : Plug(side, port)
    \/ RefreshDevices
    \/ SendDiscovery
    \/ \E i \in 1 .. Len(panel.ciList) : SelectCiDevice(i)
    \/ \E d \in Devices : DeviceFound(d)
    \/ \E i \in 1 .. Len(ctl.known) : EndpointReply(i)

Spec == Init /\ [][Next]_vars

-----------------------------------------------------------------------------
\* What a combo box shows as selected is the port the controller was last
\* told to open, whatever came and went in the lists meanwhile; and the
\* controller holds no other port open.
ShownIsCurrent ==
    \A side \in Sides :
        /\ Shown(panel, side) # NoPort => Shown(panel, side) = ctl.current[side]
        /\ ctl.open[side] \in {NoPort, ctl.current[side]}

\* An open pair has a manager that was made for these two ports, and if the
\* panel shows them and their names match, devices have been asked for.
\* No manager outlives the pair it was made for.
PairIsServed ==
    /\ HasPair(ctl) =>
        /\ ctl.manager.exists
        /\ ctl.manager.for = <<ctl.open["in"], ctl.open["out"]>>
        /\ (\A side \in Sides : Shown(panel, side) # NoPort)
           /\ PortsMatch(ctl.open["in"], ctl.open["out"])
                => ctl.manager.asked
    /\ ~HasPair(ctl) => ctl.manager.for = NoManager.for

\* A frame shows the devices the manager knows, with none after a pair is
\* lost, and while there is a pair has one selected if there are any.
DevicesAreShown ==
    ~ctl.ciDirty =>
        /\ panel.ciList = ctl.known
        /\ HasPair(ctl) /\ panel.ciList # <<>>
                => panel.ciIndex \in 1 .. Len(panel.ciList)
=============================================================================
