------------------------- MODULE KeyboardPorts_proofs -------------------------
(***************************************************************************)
(* Proofs about KeyboardPorts, for any ports and devices.  What each       *)
(* function makes of the controller is a lemma of its own: it leaves the   *)
(* controller sound, whatever it was told to open.                         *)
(***************************************************************************)
EXTENDS KeyboardPorts, WellFoundedInduction, TLAPS

Known == [muid : Devices, ready : BOOLEAN]

\* The controller and its parts have their fields.
IsController(c) ==
    /\ DOMAIN c = {"open", "current", "paired", "manager", "known",
                   "devicesDirty", "ciDirty"}
    /\ DOMAIN c.open = Sides /\ DOMAIN c.current = Sides
    /\ DOMAIN c.manager = {"for", "asked", "exists"}
    /\ c.paired \in BOOLEAN /\ c.manager.exists \in BOOLEAN
    /\ c.ciDirty \in BOOLEAN /\ c.known \in Seq(Known)

IsPanel(pan) ==
    /\ DOMAIN pan = {"list", "index", "chosen", "ciList", "ciIndex", "suppress"}
    /\ DOMAIN pan.index = Sides /\ DOMAIN pan.chosen = Sides
    /\ pan.ciIndex \in Nat /\ pan.suppress \in BOOLEAN

MadeFor(c) == <<c.open["in"], c.open["out"]>>

\* What holds of the controller after each of its functions: the manager is
\* that of the pair, and there are devices only with a manager.
Sound(c) ==
    /\ c.paired <=> HasPair(c)
    /\ HasPair(c) => c.manager.exists /\ c.manager.for = MadeFor(c)
    /\ ~HasPair(c) => c.manager.for = NoManager.for
    /\ ~c.manager.exists => c.known = <<>>
    /\ \A side \in Sides : c.open[side] \in {NoPort, c.current[side]}

\* The panel remembers the port it shows, which is what the controller was
\* told to open.
Remembers(c, pan) ==
    \A side \in Sides :
        /\ Shown(pan, side) = pan.chosen[side]
        /\ pan.chosen[side] \in {NoPort, c.current[side]}

\* The part of PairIsServed that does not follow from Sound.
Asked(c, pan) ==
    /\ HasPair(c) /\ \A side \in Sides : Shown(pan, side) # NoPort
    /\ PortsMatch(c.open["in"], c.open["out"])
    => c.manager.asked

\* "Refresh Devices" leaves no pair, and no click comes before the next frame.
Suppressed == panel.suppress => ~HasPair(ctl) /\ ctl.ciDirty /\ ~drawn

Inductive ==
    /\ IsController(ctl) /\ IsPanel(panel) /\ Sound(ctl) /\ Remembers(ctl, panel)
    /\ Asked(ctl, panel) /\ Suppressed /\ DevicesAreShown

\* What a function may have done about the devices: it marked them dirty, or
\* left them alone.
Tells(c, d) ==
    d.ciDirty \/ (d.ciDirty = c.ciDirty /\ d.known = c.known)

-----------------------------------------------------------------------------
LEMMA ShutIs ==
    ASSUME NEW c, IsController(c)
    PROVE  /\ IsController(Shut(c)) /\ Tells(c, Shut(c))
           /\ Shut(c).open = c.open /\ Shut(c).current = c.current
           /\ Shut(c).paired = c.paired /\ ~Shut(c).manager.exists
           /\ c.manager.exists =>
                Shut(c).manager = NoManager /\ Shut(c).known = <<>> /\ Shut(c).ciDirty
           /\ ~c.manager.exists => Shut(c) = c
<1>1. CASE ~c.manager.exists
  BY <1>1 DEF Shut, Tells, IsController
<1>2. CASE c.manager.exists
  <2> DEFINE r == [c EXCEPT !.manager = NoManager, !.known = <<>>, !.ciDirty = TRUE]
  <2>1. Shut(c) = r
    BY <1>2 DEF Shut
  <2>2. /\ DOMAIN r = DOMAIN c /\ r.open = c.open /\ r.current = c.current
        /\ r.paired = c.paired /\ r.manager = NoManager /\ r.known = <<>> /\ r.ciDirty
    BY DEF IsController
  <2>3. DOMAIN NoManager = {"for", "asked", "exists"} /\ NoManager.exists = FALSE
    BY DEF NoManager
  <2> HIDE DEF r
  <2>4. <<>> \in Seq(Known)
    OBVIOUS
  <2> QED
    BY <1>2, <2>1, <2>2, <2>3, <2>4 DEF IsController, Tells
<1> QED
  BY <1>1, <1>2

LEMMA InitializedIs ==
    ASSUME NEW c, IsController(c), ~c.manager.exists => c.known = <<>>
    PROVE  /\ IsController(Initialized(c)) /\ Tells(c, Initialized(c))
           /\ Initialized(c).open = c.open /\ Initialized(c).current = c.current
           /\ Initialized(c).paired = c.paired /\ Initialized(c).manager.exists
           /\ Initialized(c).manager.for = MadeFor(c) /\ Initialized(c).known = <<>>
<1> DEFINE s == Shut(c)
           r == [s EXCEPT !.manager = Manager(c)]
<1>1. /\ IsController(s) /\ Tells(c, s) /\ s.open = c.open /\ s.current = c.current
      /\ s.paired = c.paired /\ s.known = <<>>
  BY ShutIs
<1>2. Initialized(c) = r
  BY DEF Initialized
<1> HIDE DEF s
<1>3. /\ DOMAIN r = DOMAIN s /\ r.open = s.open /\ r.current = s.current
      /\ r.paired = s.paired /\ r.manager = Manager(c) /\ r.known = s.known
      /\ r.ciDirty = s.ciDirty
  BY <1>1 DEF IsController
<1>4. /\ DOMAIN Manager(c) = {"for", "asked", "exists"} /\ Manager(c).exists = TRUE
      /\ Manager(c).for = MadeFor(c)
  BY DEF Manager, MadeFor
<1> HIDE DEF r
<1> QED
  BY <1>1, <1>2, <1>3, <1>4 DEF IsController, Tells

LEMMA DiscoveredIs ==
    ASSUME NEW c, IsController(c)
    PROVE  /\ IsController(Discovered(c))
           /\ Discovered(c).open = c.open /\ Discovered(c).current = c.current
           /\ Discovered(c).paired = c.paired /\ Discovered(c).known = c.known
           /\ Discovered(c).ciDirty = c.ciDirty
           /\ Discovered(c).manager.exists = c.manager.exists
           /\ Discovered(c).manager.for = c.manager.for
           /\ c.manager.asked => Discovered(c).manager.asked
           /\ c.manager.exists /\ HasPair(c) => Discovered(c).manager.asked
<1> DEFINE r == [c EXCEPT !.manager.asked = TRUE]
           m == [c.manager EXCEPT !.asked = TRUE]
<1>1. /\ DOMAIN r = DOMAIN c /\ r.open = c.open /\ r.current = c.current
      /\ r.paired = c.paired /\ r.known = c.known /\ r.ciDirty = c.ciDirty
      /\ r.manager = m
  BY DEF IsController
<1>2. /\ DOMAIN m = DOMAIN c.manager /\ m.exists = c.manager.exists
      /\ m.for = c.manager.for /\ m.asked = TRUE
  BY DEF IsController
<1> HIDE DEF r, m
<1>3. IsController(r)
  BY <1>1, <1>2 DEF IsController
<1>4. Discovered(c) = IF c.manager.exists /\ c.open["out"] # NoPort THEN r ELSE c
  BY DEF Discovered, r
<1>5. HasPair(c) => c.open["out"] # NoPort
  BY DEF HasPair, Sides
<1> QED
  BY <1>1, <1>2, <1>3, <1>4, <1>5

\* A discovery changes nothing that Sound looks at.
LEMMA SoundDiscovered ==
    ASSUME NEW c, IsController(c)
    PROVE  /\ HasPair(Discovered(c)) <=> HasPair(c)
           /\ Sound(c) => Sound(Discovered(c))
<1> DEFINE d == Discovered(c)
<1>1. /\ d.open = c.open /\ d.current = c.current /\ d.paired = c.paired
      /\ d.known = c.known /\ d.manager.exists = c.manager.exists
      /\ d.manager.for = c.manager.for
  BY DiscoveredIs
<1> HIDE DEF d
<1>2. (HasPair(d) <=> HasPair(c)) /\ MadeFor(d) = MadeFor(c)
  BY <1>1 DEF HasPair, MadeFor
<1>3. Sound(c) => Sound(d)
  BY <1>1, <1>2 DEF Sound
<1> QED
  BY <1>2, <1>3 DEF d

LEMMA UpdatedIs ==
    ASSUME NEW c, IsController(c)
    PROVE  /\ IsController(Updated(c)) /\ Tells(c, Updated(c))
           /\ Updated(c).open = c.open /\ Updated(c).current = c.current
           /\ Updated(c).paired = HasPair(c)
           /\ HasPair(c) \/ ~c.paired =>
                /\ Updated(c).manager = c.manager /\ Updated(c).known = c.known
                /\ Updated(c).ciDirty = c.ciDirty
           /\ ~HasPair(c) /\ c.paired =>
                /\ Updated(c).manager = Shut(c).manager
                /\ Updated(c).known = Shut(c).known
<1>1. HasPair(c) \in BOOLEAN
  BY DEF HasPair
<1>2. CASE HasPair(c) = c.paired
  <2>1. Updated(c) = c
    BY <1>2 DEF Updated
  <2> QED
    BY <1>1, <1>2, <2>1 DEF IsController, Tells
<1>3. CASE HasPair(c) # c.paired
  <2> DEFINE s == IF HasPair(c) THEN c ELSE Shut(c)
             r == [s EXCEPT !.paired = HasPair(c), !.devicesDirty = TRUE]
  <2>1. Updated(c) = r
    BY <1>3 DEF Updated
  <2>2. IsController(s) /\ Tells(c, s) /\ s.open = c.open /\ s.current = c.current
    BY ShutIs DEF Tells
  <2>3. (HasPair(c) => s = c) /\ (~HasPair(c) => s = Shut(c))
    OBVIOUS
  <2> HIDE DEF s
  <2>4. /\ DOMAIN r = DOMAIN s /\ r.open = s.open /\ r.current = s.current
        /\ r.paired = HasPair(c) /\ r.manager = s.manager /\ r.known = s.known
        /\ r.ciDirty = s.ciDirty
    BY <2>2 DEF IsController
  <2> HIDE DEF r
  <2>5. IsController(r) /\ Tells(c, r)
    BY <1>1, <2>2, <2>4 DEF IsController, Tells
  <2>6. ~c.paired => HasPair(c)
    BY <1>1, <1>3 DEF IsController
  <2> QED
    BY <2>1, <2>2, <2>3, <2>4, <2>5, <2>6
<1> QED
  BY <1>2, <1>3

LEMMA ClosedIs ==
    ASSUME NEW c, IsController(c), Sound(c), NEW side \in Sides
    PROVE  /\ IsController(Closed(c, side)) /\ Sound(Closed(c, side))
           /\ Tells(c, Closed(c, side)) /\ ~HasPair(Closed(c, side))
           /\ Closed(c, side).current = c.current
           /\ Closed(c, side).open[side] = NoPort
           /\ \A s \in Sides : s # side => Closed(c, side).open[s] = c.open[s]
<1>1. CASE c.open[side] = NoPort
  BY <1>1 DEF Closed, Tells, HasPair
<1>2. CASE c.open[side] # NoPort
  <2> DEFINE o == [c.open EXCEPT ![side] = NoPort]
             s == [c EXCEPT !.open = o]
             r == Updated(s)
  <2>1. Closed(c, side) = r
    BY <1>2 DEF Closed
  <2>2. DOMAIN o = Sides /\ o[side] = NoPort /\ \A t \in Sides : t # side => o[t] = c.open[t]
    BY DEF IsController
  <2> HIDE DEF o
  <2>3. /\ DOMAIN s = DOMAIN c /\ s.open = o /\ s.current = c.current
        /\ s.paired = c.paired /\ s.manager = c.manager /\ s.known = c.known
        /\ s.ciDirty = c.ciDirty
    BY DEF IsController
  <2> HIDE DEF s
  <2>4. IsController(s) /\ ~HasPair(s)
    BY <2>2, <2>3 DEF IsController, HasPair
  <2>5. /\ IsController(r) /\ Tells(s, r) /\ r.open = o /\ r.current = c.current
        /\ r.paired = FALSE
        /\ ~c.paired => r.manager = c.manager /\ r.known = c.known
        /\ c.paired => r.manager = Shut(s).manager /\ r.known = Shut(s).known
    BY <2>3, <2>4, UpdatedIs
  <2> HIDE DEF r
  <2>6. ~HasPair(r) /\ Tells(c, r)
    BY <2>2, <2>3, <2>5 DEF HasPair, Tells
  <2>7. \A t \in Sides : r.open[t] \in {NoPort, r.current[t]}
    BY <2>2, <2>5 DEF Sound
  <2>8. r.manager.for = NoManager.for /\ (~r.manager.exists => r.known = <<>>)
    <3>1. CASE ~c.paired
      BY <2>5, <3>1 DEF Sound
    <3>2. CASE c.paired
      <4>1. s.manager.exists
        BY <2>3, <3>2 DEF Sound
      <4>2. Shut(s).manager = NoManager /\ Shut(s).known = <<>>
        BY <2>4, <4>1, ShutIs
      <4> QED
        BY <2>5, <3>2, <4>2
    <3> QED
      BY <3>1, <3>2
  <2>9. Sound(r)
    BY <2>5, <2>6, <2>7, <2>8 DEF Sound
  <2> QED
    BY <2>1, <2>2, <2>5, <2>6, <2>9
<1> QED
  BY <1>1, <1>2

LEMMA DeselectedIs ==
    ASSUME NEW c, IsController(c), Sound(c), NEW side \in Sides
    PROVE  /\ IsController(Deselected(c, side)) /\ Sound(Deselected(c, side))
           /\ Tells(c, Deselected(c, side)) /\ ~HasPair(Deselected(c, side))
           /\ \A s \in Sides : s # side =>
                Deselected(c, side).current[s] = c.current[s]
<1> DEFINE b == Closed(c, side)
           now == [b.current EXCEPT ![side] = NoPort]
           d == [b EXCEPT !.current = now]
           r == Updated(d)
<1>1. /\ IsController(b) /\ Sound(b) /\ Tells(c, b) /\ ~HasPair(b)
      /\ b.current = c.current /\ b.open[side] = NoPort
  BY ClosedIs
<1>2. Deselected(c, side) = r
  BY DEF Deselected
<1> HIDE DEF b
<1>3. /\ DOMAIN now = Sides /\ now[side] = NoPort
      /\ \A s \in Sides : s # side => now[s] = c.current[s]
  BY <1>1 DEF IsController
<1> HIDE DEF now
<1>4. /\ DOMAIN d = DOMAIN b /\ d.open = b.open /\ d.current = now
      /\ d.paired = b.paired /\ d.manager = b.manager /\ d.known = b.known
      /\ d.ciDirty = b.ciDirty
  BY <1>1 DEF IsController
<1> HIDE DEF d
<1>5. IsController(d) /\ ~HasPair(d) /\ ~d.paired
  BY <1>1, <1>3, <1>4 DEF IsController, HasPair, Sound
<1>6. /\ IsController(r) /\ Tells(d, r) /\ r.open = b.open /\ r.current = now
      /\ r.paired = HasPair(d) /\ r.manager = b.manager /\ r.known = b.known
  BY <1>4, <1>5, UpdatedIs
<1> HIDE DEF r
<1>7. ~HasPair(r) /\ Tells(c, r) /\ ~r.paired
  BY <1>1, <1>4, <1>5, <1>6 DEF HasPair, Tells
<1>8. \A s \in Sides : r.open[s] \in {NoPort, r.current[s]}
  BY <1>1, <1>3, <1>6 DEF Sound
<1>9. Sound(r)
  BY <1>1, <1>6, <1>7, <1>8 DEF Sound
<1> QED
  BY <1>2, <1>3, <1>6, <1>7, <1>9

LEMMA OpenedIs ==
    ASSUME NEW c, IsController(c), Sound(c), NEW side \in Sides, NEW port,
           NEW opens \in BOOLEAN
    PROVE  /\ IsController(Opened(c, side, port, opens))
           /\ Sound(Opened(c, side, port, opens))
           /\ Tells(c, Opened(c, side, port, opens))
           /\ HasPair(Opened(c, side, port, opens)) =>
                Opened(c, side, port, opens).known = <<>>
           /\ Opened(c, side, port, opens).current[side] = port
           /\ \A s \in Sides : s # side =>
                Opened(c, side, port, opens).current[s] = c.current[s]
<1> DEFINE b == Closed(c, side)
           o == [b.open EXCEPT ![side] = IF opens THEN port ELSE NoPort]
           now == [b.current EXCEPT ![side] = port]
           d == [b EXCEPT !.open = o, !.current = now]
           With(e) == IF HasPair(e) THEN Initialized(e) ELSE e
           u == IF side = "in" THEN Updated(With(d)) ELSE With(Updated(d))
           r == AutoConnected(u)
<1>1. /\ IsController(b) /\ Sound(b) /\ Tells(c, b) /\ ~HasPair(b)
      /\ b.current = c.current
      /\ \A s \in Sides : s # side => b.open[s] = c.open[s]
  BY ClosedIs
<1>2. Opened(c, side, port, opens) = r
  <2>1. [b EXCEPT !.open[side] = IF opens THEN port ELSE NoPort, !.current[side] = port]
        = [b EXCEPT !.open = o, !.current = now]
    <3> HIDE DEF b
    <3> QED
      BY <1>1 DEF IsController
  <2> QED
    BY <2>1 DEF Opened
<1> HIDE DEF b
<1>3. /\ DOMAIN o = Sides /\ DOMAIN now = Sides /\ now[side] = port
      /\ \A s \in Sides : s # side => now[s] = c.current[s] /\ o[s] = b.open[s]
      /\ o[side] \in {NoPort, port}
  BY <1>1 DEF IsController
<1> HIDE DEF o, now
<1>4. /\ DOMAIN d = DOMAIN b /\ d.open = o /\ d.current = now
      /\ d.paired = b.paired /\ d.manager = b.manager /\ d.known = b.known
      /\ d.ciDirty = b.ciDirty
  BY <1>1 DEF IsController
<1> HIDE DEF d
<1>5. /\ IsController(d) /\ ~d.paired /\ Tells(c, d) /\ d.manager.for = NoManager.for
      /\ ~d.manager.exists => d.known = <<>>
  BY <1>1, <1>3, <1>4 DEF IsController, Sound, Tells
<1>6. \A s \in Sides : o[s] \in {NoPort, now[s]}
  BY <1>1, <1>3 DEF Sound
<1>7. /\ IsController(u) /\ Tells(c, u) /\ u.open = o /\ u.current = now
      /\ u.paired = HasPair(d)
      /\ HasPair(d) => u.manager.exists /\ u.manager.for = MadeFor(d) /\ u.known = <<>>
      /\ ~HasPair(d) => u.manager = d.manager /\ u.known = d.known
  <2>1. CASE HasPair(d) /\ side = "in"
    <3> DEFINE i == Initialized(d)
    <3>1. /\ IsController(i) /\ Tells(d, i) /\ i.open = o /\ i.current = now
          /\ i.manager.exists /\ i.manager.for = MadeFor(d) /\ i.known = <<>>
      BY <1>4, <1>5, InitializedIs
    <3>2. u = Updated(i)
      BY <2>1
    <3> HIDE DEF i, u
    <3>3. HasPair(i) = HasPair(d)
      BY <1>4, <3>1 DEF HasPair
    <3>4. /\ IsController(u) /\ Tells(i, u) /\ u.open = o /\ u.current = now
          /\ u.paired = HasPair(d) /\ u.manager = i.manager /\ u.known = i.known
      BY <2>1, <3>1, <3>2, <3>3, UpdatedIs
    <3>5. Tells(c, u)
      BY <1>5, <3>1, <3>4 DEF Tells
    <3> QED
      BY <2>1, <3>1, <3>4, <3>5
  <2>2. CASE HasPair(d) /\ side # "in"
    <3> DEFINE p == Updated(d)
    <3>1. /\ IsController(p) /\ Tells(d, p) /\ p.open = o /\ p.current = now
          /\ p.paired = HasPair(d) /\ p.manager = d.manager /\ p.known = d.known
      BY <1>4, <1>5, <2>2, UpdatedIs
    <3>2. u = IF HasPair(p) THEN Initialized(p) ELSE p
      BY <2>2
    <3> HIDE DEF p, u
    <3>3. HasPair(p) = HasPair(d) /\ MadeFor(p) = MadeFor(d)
      BY <1>4, <3>1 DEF HasPair, MadeFor
    <3>4. /\ IsController(u) /\ Tells(p, u) /\ u.open = o /\ u.current = now
          /\ u.paired = HasPair(d) /\ u.manager.exists
          /\ u.manager.for = MadeFor(d) /\ u.known = <<>>
      BY <1>5, <2>2, <3>1, <3>2, <3>3, InitializedIs
    <3>5. Tells(c, u)
      BY <1>5, <3>1, <3>4 DEF Tells
    <3> QED
      BY <2>2, <3>4, <3>5
  <2>3. CASE ~HasPair(d)
    <3> DEFINE p == Updated(d)
    <3>1. /\ IsController(p) /\ Tells(d, p) /\ p.open = o /\ p.current = now
          /\ p.paired = HasPair(d) /\ p.manager = d.manager /\ p.known = d.known
      BY <1>4, <1>5, <2>3, UpdatedIs
    <3>2. ~HasPair(p)
      BY <1>4, <2>3, <3>1 DEF HasPair
    <3>3. u = p
      BY <2>3, <3>2
    <3> HIDE DEF p, u
    <3>4. Tells(c, u)
      BY <1>5, <3>1, <3>3 DEF Tells
    <3> QED
      BY <2>3, <3>1, <3>3, <3>4
  <2> QED
    BY <2>1, <2>2, <2>3
<1> HIDE DEF u
<1>8. (HasPair(u) <=> HasPair(d)) /\ MadeFor(u) = MadeFor(d)
  BY <1>4, <1>7 DEF HasPair, MadeFor
<1>9. Sound(u)
  <2>1. u.paired <=> HasPair(u)
    BY <1>7, <1>8
  <2> QED
    BY <1>5, <1>6, <1>7, <1>8, <2>1 DEF Sound
<1>10. r = u \/ r = Discovered(u)
  BY DEF AutoConnected
<1> HIDE DEF r
<1>11. /\ IsController(r) /\ Sound(r) /\ Tells(c, r) /\ r.current = now
       /\ HasPair(r) => r.known = <<>>
  <2>1. CASE r = u
    BY <1>7, <1>8, <1>9, <2>1
  <2>2. CASE r = Discovered(u)
    BY <1>7, <1>8, <1>9, <2>2, DiscoveredIs, SoundDiscovered DEF Tells
  <2> QED
    BY <1>10, <2>1, <2>2
<1> QED
  BY <1>2, <1>3, <1>11

\* The panel's discovery is sent if the ports it shows match.
LEMMA PanelConnectedIs ==
    ASSUME NEW c, IsController(c), Sound(c), NEW pan
    PROVE  /\ IsController(PanelConnected(c, pan)) /\ Sound(PanelConnected(c, pan))
           /\ HasPair(PanelConnected(c, pan)) <=> HasPair(c)
           /\ PanelConnected(c, pan).open = c.open
           /\ PanelConnected(c, pan).current = c.current
           /\ PanelConnected(c, pan).known = c.known
           /\ PanelConnected(c, pan).ciDirty = c.ciDirty
           /\ /\ HasPair(c) /\ \A side \in Sides : Shown(pan, side) # NoPort
              /\ PortsMatch(Shown(pan, "in"), Shown(pan, "out"))
              => PanelConnected(c, pan).manager.asked
<1> DEFINE matches == /\ \A side \in Sides : Shown(pan, side) # NoPort
                      /\ PortsMatch(Shown(pan, "in"), Shown(pan, "out"))
<1>1. PanelConnected(c, pan) = IF matches THEN Discovered(c) ELSE c
  BY DEF PanelConnected
<1>2. HasPair(c) => c.manager.exists
  BY DEF Sound
<1> HIDE DEF matches
<1>3. /\ IsController(PanelConnected(c, pan)) /\ Sound(PanelConnected(c, pan))
      /\ HasPair(PanelConnected(c, pan)) <=> HasPair(c)
      /\ PanelConnected(c, pan).open = c.open
      /\ PanelConnected(c, pan).current = c.current
      /\ PanelConnected(c, pan).known = c.known
      /\ PanelConnected(c, pan).ciDirty = c.ciDirty
      /\ matches /\ HasPair(c) => PanelConnected(c, pan).manager.asked
  BY <1>1, <1>2, DiscoveredIs, SoundDiscovered
<1> QED
  BY <1>3 DEF matches

-----------------------------------------------------------------------------
LEMMA LeastExists ==
    ASSUME NEW S \in SUBSET Nat, S # {}
    PROVE  \E c \in S : \A d \in S : c <= d
<1>1. PICK c \in S : \A d \in S : <<d, c>> \notin OpToRel(<, Nat)
  BY NatLessThanWellFounded, WFMin
<1>2. ASSUME NEW d \in S PROVE c <= d
  <2>1. ~(d < c)
    BY <1>1 DEF OpToRel
  <2> QED
    BY <2>1
<1> QED
  BY <1>2

\* Whatever the lists are now: what is shown was shown before.
LEMMA RefreshedIs ==
    ASSUME NEW pan, IsPanel(pan)
    PROVE  /\ IsPanel(Refreshed(pan))
           /\ Refreshed(pan).ciList = pan.ciList /\ Refreshed(pan).ciIndex = pan.ciIndex
           /\ Refreshed(pan).suppress = pan.suppress
           /\ \A side \in Sides :
                /\ Shown(Refreshed(pan), side) = Refreshed(pan).chosen[side]
                /\ Refreshed(pan).chosen[side] \in {NoPort, pan.chosen[side]}
<1> DEFINE list == [side \in Sides |-> SelectSeq(present[side], LAMBDA p : ~p.own)]
           At(side) == {i \in 1 .. Len(list[side]) : list[side][i] = pan.chosen[side]}
           place == [side \in Sides |->
                        IF At(side) = {} THEN 0 ELSE CHOOSE i \in At(side) : TRUE]
           port == [side \in Sides |->
                        IF At(side) = {} THEN NoPort ELSE pan.chosen[side]]
           r == [pan EXCEPT !.list = list, !.index = place, !.chosen = port]
<1>1. Refreshed(pan) = r
  BY DEF Refreshed, IsPanel
<1> HIDE DEF list
<1>2. \A side \in Sides :
        /\ At(side) = {} => place[side] = 0 /\ port[side] = NoPort
        /\ At(side) # {} => place[side] \in At(side) /\ port[side] = pan.chosen[side]
  OBVIOUS
<1>3. DOMAIN place = Sides /\ DOMAIN port = Sides
  OBVIOUS
<1> HIDE DEF place, port
<1>4. /\ DOMAIN r = DOMAIN pan /\ r.list = list /\ r.index = place /\ r.chosen = port
      /\ r.ciList = pan.ciList /\ r.ciIndex = pan.ciIndex /\ r.suppress = pan.suppress
  BY DEF IsPanel
<1> HIDE DEF r
<1>5. IsPanel(r)
  BY <1>3, <1>4 DEF IsPanel
<1>6. ASSUME NEW side \in Sides
      PROVE  Shown(r, side) = r.chosen[side] /\ r.chosen[side] \in {NoPort, pan.chosen[side]}
  <2>1. CASE At(side) = {}
    <3>1. place[side] = 0 /\ port[side] = NoPort
      BY <1>2, <2>1
    <3>2. 0 \notin 1 .. Len(list[side])
      OBVIOUS
    <3> QED
      BY <1>4, <3>1, <3>2 DEF Shown
  <2>2. CASE At(side) # {}
    BY <1>2, <1>4, <2>2 DEF Shown
  <2> QED
    BY <2>1, <2>2
<1> QED
  BY <1>1, <1>4, <1>5, <1>6

LEMMA CiRefreshedIs ==
    ASSUME NEW pan, IsPanel(pan), NEW devices \in Seq(Known)
    PROVE  /\ IsPanel(CiRefreshed(pan, devices))
           /\ CiRefreshed(pan, devices).list = pan.list
           /\ CiRefreshed(pan, devices).index = pan.index
           /\ CiRefreshed(pan, devices).chosen = pan.chosen
           /\ CiRefreshed(pan, devices).ciList = devices
           /\ ~CiRefreshed(pan, devices).suppress
           /\ ~pan.suppress /\ devices # <<>> =>
                CiRefreshed(pan, devices).ciIndex \in 1 .. Len(devices)
<1> DEFINE inside == IF pan.ciIndex > Len(devices) THEN 0 ELSE pan.ciIndex
           kept == {i \in 1 .. Len(devices) : devices[i].muid \in SelectedDevice(pan)}
           ready == {i \in 1 .. Len(devices) : devices[i].ready}
           First(s) == CHOOSE i \in s : \A j \in s : i <= j
           place == IF pan.suppress THEN inside
                    ELSE IF kept # {} THEN First(kept)
                    ELSE IF inside # 0 \/ devices = <<>> THEN inside
                    ELSE IF ready # {} THEN First(ready) ELSE 1
           r == [pan EXCEPT !.ciList = devices, !.ciIndex = place, !.suppress = FALSE]
<1>1. CiRefreshed(pan, devices) = r
  BY DEF CiRefreshed
<1>2. kept \subseteq 1 .. Len(devices) /\ ready \subseteq 1 .. Len(devices)
  OBVIOUS
<1>3. Len(devices) \in Nat /\ (devices # <<>> => 1 \in 1 .. Len(devices))
  OBVIOUS
<1>4. inside \in Nat /\ (inside # 0 => inside \in 1 .. Len(devices))
  BY <1>3 DEF IsPanel
<1>5. ASSUME NEW s \in SUBSET (1 .. Len(devices)), s # {} PROVE First(s) \in 1 .. Len(devices)
  <2>1. s \in SUBSET Nat
    OBVIOUS
  <2>2. \E i \in s : \A j \in s : i <= j
    BY <1>5, <2>1, LeastExists
  <2>3. First(s) \in s
    BY <2>2
  <2> QED
    BY <2>3
<1>6. /\ kept # {} => First(kept) \in 1 .. Len(devices)
      /\ ready # {} => First(ready) \in 1 .. Len(devices)
  BY <1>2, <1>5
<1> HIDE DEF inside, kept, ready, First
<1>7. /\ place \in Nat
      /\ ~pan.suppress /\ devices # <<>> => place \in 1 .. Len(devices)
  <2>2. \A i \in 1 .. Len(devices) : i \in Nat
    BY <1>3
  <2> QED
    BY <1>3, <1>4, <1>6, <2>2
<1> HIDE DEF place
<1>8. /\ DOMAIN r = DOMAIN pan /\ r.list = pan.list /\ r.index = pan.index
      /\ r.chosen = pan.chosen /\ r.ciList = devices /\ r.ciIndex = place
      /\ r.suppress = FALSE
  BY DEF IsPanel
<1> HIDE DEF r
<1>9. IsPanel(r)
  BY <1>7, <1>8 DEF IsPanel
<1> QED
  BY <1>1, <1>7, <1>8, <1>9

-----------------------------------------------------------------------------
\* After a click the panel connects, which serves the pair it shows.
LEMMA Clicked ==
    ASSUME Inductive, drawn, ~drawn', NEW c, NEW pan,
           IsController(c), Sound(c), Tells(ctl, c), HasPair(c) => c.known = <<>>,
           IsPanel(pan), Remembers(c, pan),
           pan.ciList = panel.ciList, pan.suppress = panel.suppress,
           ctl' = PanelConnected(c, pan), panel' = pan
    PROVE  Inductive'
<1>1. /\ IsController(ctl') /\ Sound(ctl') /\ (HasPair(ctl') <=> HasPair(c))
      /\ ctl'.open = c.open /\ ctl'.current = c.current /\ ctl'.known = c.known
      /\ ctl'.ciDirty = c.ciDirty
  BY PanelConnectedIs
<1>2. IsPanel(panel') /\ Remembers(ctl', panel')
  BY <1>1 DEF Remembers
<1>3. Asked(ctl', panel')
  <2>1. SUFFICES ASSUME HasPair(c), \A side \in Sides : Shown(pan, side) # NoPort,
                        PortsMatch(c.open["in"], c.open["out"])
                 PROVE  ctl'.manager.asked
    BY <1>1 DEF Asked
  <2>2. \A side \in Sides : Shown(pan, side) = c.open[side]
    BY <2>1 DEF Remembers, Sound, HasPair
  <2>3. Shown(pan, "in") = c.open["in"] /\ Shown(pan, "out") = c.open["out"]
    BY <2>2 DEF Sides
  <2> QED
    BY <2>1, <2>3, PanelConnectedIs
<1>4. ~panel.suppress
  BY DEF Inductive, Suppressed
<1>5. Suppressed'
  BY <1>4 DEF Suppressed
<1>6. DevicesAreShown'
  BY <1>1 DEF Tells, Inductive, DevicesAreShown
<1> QED
  BY <1>1, <1>2, <1>3, <1>5, <1>6 DEF Inductive

\* Choosing a port in the panel, or none.
Chosen(pan, side, i, port) == [pan EXCEPT !.index[side] = i, !.chosen[side] = port]

LEMMA ChosenIs ==
    ASSUME NEW pan, IsPanel(pan), NEW side \in Sides, NEW i, NEW port,
           port = IF i \in 1 .. Len(pan.list[side]) THEN pan.list[side][i] ELSE NoPort,
           \A s \in Sides : Shown(pan, s) = pan.chosen[s],
           NEW r, r = Chosen(pan, side, i, port)
    PROVE  /\ IsPanel(r) /\ r.ciList = pan.ciList /\ r.suppress = pan.suppress
           /\ \A s \in Sides : Shown(r, s) = r.chosen[s]
           /\ r.chosen[side] = port
           /\ \A s \in Sides : s # side => r.chosen[s] = pan.chosen[s]
<1> DEFINE place == [pan.index EXCEPT ![side] = i]
           chosen == [pan.chosen EXCEPT ![side] = port]
<1>1. r = [pan EXCEPT !.index = place, !.chosen = chosen]
  BY DEF IsPanel, Chosen
<1>2. /\ DOMAIN place = Sides /\ DOMAIN chosen = Sides
      /\ place[side] = i /\ chosen[side] = port
      /\ \A s \in Sides : s # side =>
            place[s] = pan.index[s] /\ chosen[s] = pan.chosen[s]
  BY DEF IsPanel
<1> HIDE DEF place, chosen
<1>3. /\ DOMAIN r = DOMAIN pan /\ r.index = place /\ r.chosen = chosen
      /\ r.list = pan.list /\ r.ciList = pan.ciList /\ r.ciIndex = pan.ciIndex
      /\ r.suppress = pan.suppress
  BY <1>1 DEF IsPanel
<1>4. IsPanel(r)
  BY <1>2, <1>3 DEF IsPanel
<1>5. \A s \in Sides : Shown(r, s) = r.chosen[s]
  <2> SUFFICES ASSUME NEW s \in Sides PROVE Shown(r, s) = r.chosen[s]
    OBVIOUS
  <2>1. CASE s = side
    BY <1>2, <1>3, <2>1 DEF Shown
  <2>2. CASE s # side
    <3>1. r.index[s] = pan.index[s] /\ r.list = pan.list
      BY <1>2, <1>3, <2>2
    <3>2. Shown(r, s) = Shown(pan, s)
      BY <3>1 DEF Shown
    <3> QED
      BY <1>2, <1>3, <2>2, <3>2
  <2> QED
    BY <2>1, <2>2
<1> QED
  BY <1>2, <1>3, <1>4, <1>5

LEMMA SelectStep ==
    ASSUME Inductive, NEW side \in Sides, NEW i \in 1 .. Len(panel.list[side]),
           NEW opens \in BOOLEAN, Select(side, i, opens)
    PROVE  Inductive'
<1> DEFINE port == panel.list[side][i]
           sel == Chosen(panel, side, i, port)
<1>1. /\ IsController(ctl) /\ Sound(ctl) /\ IsPanel(panel) /\ Remembers(ctl, panel)
      /\ drawn /\ ~drawn'
  BY DEF Inductive, Select, Click
<1>2. CASE port \notin ToSet(present[side])
  <2> DEFINE c == Closed(ctl, side)
  <2>1. panel' = panel /\ ctl' = PanelConnected(c, panel)
    BY <1>2 DEF Select
  <2>2. /\ IsController(c) /\ Sound(c) /\ Tells(ctl, c) /\ ~HasPair(c)
        /\ c.current = ctl.current
    BY <1>1, ClosedIs
  <2> HIDE DEF c
  <2>3. Remembers(c, panel)
    BY <1>1, <2>2 DEF Remembers
  <2> QED
    BY <1>1, <2>1, <2>2, <2>3, Clicked
<1>3. CASE port \in ToSet(present[side])
  <2> DEFINE c == Opened(ctl, side, port, opens)
  <2>1. panel' = sel /\ ctl' = PanelConnected(c, sel)
    BY <1>3 DEF Select, Chosen
  <2>2. /\ IsController(c) /\ Sound(c) /\ Tells(ctl, c)
        /\ HasPair(c) => c.known = <<>>
        /\ c.current[side] = port
        /\ \A s \in Sides : s # side => c.current[s] = ctl.current[s]
    BY <1>1, OpenedIs
  <2>3. /\ IsPanel(sel) /\ sel.ciList = panel.ciList /\ sel.suppress = panel.suppress
        /\ \A s \in Sides : Shown(sel, s) = sel.chosen[s]
        /\ sel.chosen[side] = port
        /\ \A s \in Sides : s # side => sel.chosen[s] = panel.chosen[s]
    BY <1>1, ChosenIs DEF Remembers
  <2> HIDE DEF c, sel, port
  <2>4. Remembers(c, sel)
    BY <1>1, <2>2, <2>3 DEF Remembers
  <2> QED
    BY <1>1, <2>1, <2>2, <2>3, <2>4, Clicked
<1> QED
  BY <1>2, <1>3

LEMMA DeselectStep ==
    ASSUME Inductive, NEW side \in Sides, Deselect(side)
    PROVE  Inductive'
<1> DEFINE sel == Chosen(panel, side, 0, NoPort)
           c == Deselected(ctl, side)
<1>1. /\ IsController(ctl) /\ Sound(ctl) /\ IsPanel(panel) /\ Remembers(ctl, panel)
      /\ drawn /\ ~drawn'
  BY DEF Inductive, Deselect, Click
<1>2. panel' = sel /\ ctl' = PanelConnected(c, sel)
  BY DEF Deselect, Chosen
<1>3. /\ IsController(c) /\ Sound(c) /\ Tells(ctl, c) /\ ~HasPair(c)
      /\ \A s \in Sides : s # side => c.current[s] = ctl.current[s]
  BY <1>1, DeselectedIs
<1>4. NoPort = IF 0 \in 1 .. Len(panel.list[side]) THEN panel.list[side][0] ELSE NoPort
  <2>1. 0 \notin 1 .. Len(panel.list[side])
    OBVIOUS
  <2> QED
    BY <2>1
<1>5. /\ IsPanel(sel) /\ sel.ciList = panel.ciList /\ sel.suppress = panel.suppress
      /\ \A s \in Sides : Shown(sel, s) = sel.chosen[s]
      /\ sel.chosen[side] = NoPort
      /\ \A s \in Sides : s # side => sel.chosen[s] = panel.chosen[s]
  <2>1. sel = Chosen(panel, side, 0, NoPort) /\ IsPanel(panel)
    BY <1>1
  <2>2. \A s \in Sides : Shown(panel, s) = panel.chosen[s]
    BY <1>1 DEF Remembers
  <2> HIDE DEF sel
  <2> QED
    BY <1>4, <2>1, <2>2, ChosenIs
<1> HIDE DEF c, sel
<1>6. Remembers(c, sel)
  BY <1>1, <1>3, <1>5 DEF Remembers
<1> QED
  BY <1>1, <1>2, <1>3, <1>5, <1>6, Clicked

LEMMA RefreshDevicesStep ==
    ASSUME Inductive, RefreshDevices
    PROVE  Inductive'
<1> DEFINE one == Deselected(ctl, "in")
           two == Deselected(one, "out")
<1>1. IsController(ctl) /\ Sound(ctl) /\ IsPanel(panel) /\ ~drawn'
  BY DEF Inductive, RefreshDevices, Click
<1>2. "in" \in Sides /\ "out" \in Sides
  BY DEF Sides
<1>3. IsController(one) /\ Sound(one)
  BY <1>1, <1>2, DeselectedIs
<1>4. ctl' = [two EXCEPT !.devicesDirty = TRUE, !.ciDirty = TRUE]
  BY DEF RefreshDevices
<1> HIDE DEF one
<1>5. IsController(two) /\ Sound(two) /\ ~HasPair(two)
  BY <1>2, <1>3, DeselectedIs
<1> HIDE DEF two
<1>6. /\ DOMAIN ctl' = DOMAIN two /\ ctl'.open = two.open /\ ctl'.current = two.current
      /\ ctl'.paired = two.paired /\ ctl'.manager = two.manager
      /\ ctl'.known = two.known /\ ctl'.ciDirty = TRUE
  BY <1>4, <1>5 DEF IsController
<1>7. IsController(ctl') /\ ~HasPair(ctl') /\ Sound(ctl')
  <2>1. IsController(ctl')
    BY <1>5, <1>6 DEF IsController
  <2>2. ~HasPair(ctl')
    BY <1>5, <1>6 DEF HasPair
  <2>3. Sound(ctl')
    BY <1>5, <1>6, <2>2 DEF Sound
  <2> QED
    BY <2>1, <2>2, <2>3
<1>8. /\ DOMAIN panel' = DOMAIN panel /\ panel'.index = [side \in Sides |-> 0]
      /\ panel'.chosen = NoPorts /\ panel'.ciIndex = 0 /\ panel'.suppress = TRUE
  BY <1>1 DEF RefreshDevices, IsPanel
<1>9. IsPanel(panel')
  <2>1. DOMAIN panel'.index = Sides /\ DOMAIN panel'.chosen = Sides
    BY <1>8 DEF NoPorts
  <2>2. panel'.ciIndex \in Nat
    BY <1>8
  <2>3. panel'.suppress \in BOOLEAN
    BY <1>8
  <2> QED
    BY <1>1, <1>8, <2>1, <2>2, <2>3, Zenon DEF IsPanel
<1>10. Remembers(ctl', panel')
  <2>1. ASSUME NEW side \in Sides
        PROVE  Shown(panel', side) = NoPort /\ panel'.chosen[side] = NoPort
    <3>1. panel'.index[side] = 0 /\ panel'.chosen[side] = NoPort
      BY <1>8 DEF NoPorts
    <3>2. 0 \notin 1 .. Len(panel'.list[side])
      OBVIOUS
    <3> QED
      BY <3>1, <3>2 DEF Shown
  <2> QED
    BY <2>1 DEF Remembers
<1>11. Asked(ctl', panel') /\ Suppressed' /\ DevicesAreShown'
  BY <1>1, <1>6, <1>7 DEF Asked, Suppressed, DevicesAreShown
<1> QED
  BY <1>7, <1>9, <1>10, <1>11 DEF Inductive

LEMMA FrameStep ==
    ASSUME Inductive, Frame
    PROVE  Inductive'
<1> DEFINE listed == IF ctl.devicesDirty THEN Refreshed(panel) ELSE panel
<1>1. /\ IsController(ctl) /\ Sound(ctl) /\ IsPanel(panel) /\ Remembers(ctl, panel)
      /\ Asked(ctl, panel)
  BY DEF Inductive
<1>2. /\ panel' = IF ctl.ciDirty THEN CiRefreshed(listed, ctl.known) ELSE listed
      /\ ctl' = [ctl EXCEPT !.devicesDirty = FALSE, !.ciDirty = FALSE]
  BY DEF Frame
<1>3. /\ IsPanel(listed) /\ listed.ciList = panel.ciList
      /\ listed.ciIndex = panel.ciIndex /\ listed.suppress = panel.suppress
      /\ \A side \in Sides : /\ Shown(listed, side) = listed.chosen[side]
                             /\ listed.chosen[side] \in {NoPort, panel.chosen[side]}
  BY <1>1, RefreshedIs DEF Remembers
<1> HIDE DEF listed
<1>4. /\ DOMAIN ctl' = DOMAIN ctl /\ ctl'.open = ctl.open /\ ctl'.current = ctl.current
      /\ ctl'.paired = ctl.paired /\ ctl'.manager = ctl.manager
      /\ ctl'.known = ctl.known /\ ctl'.ciDirty = FALSE
  BY <1>1, <1>2 DEF IsController
<1>5. IsController(ctl')
  BY <1>1, <1>4 DEF IsController
<1>6. (HasPair(ctl') <=> HasPair(ctl)) /\ MadeFor(ctl') = MadeFor(ctl)
  BY <1>4 DEF HasPair, MadeFor
<1>7. Sound(ctl')
  BY <1>1, <1>4, <1>6 DEF Sound
<1>8. /\ IsPanel(panel')
      /\ \A side \in Sides : /\ Shown(panel', side) = panel'.chosen[side]
                             /\ panel'.chosen[side] \in {NoPort, panel.chosen[side]}
      /\ ctl.ciDirty => /\ panel'.ciList = ctl.known /\ ~panel'.suppress
                        /\ ~panel.suppress /\ ctl.known # <<>> =>
                                panel'.ciIndex \in 1 .. Len(ctl.known)
      /\ ~ctl.ciDirty => /\ panel'.ciList = panel.ciList /\ panel'.ciIndex = panel.ciIndex
                         /\ panel'.suppress = panel.suppress
  <2>1. CASE ctl.ciDirty
    <3> DEFINE r == CiRefreshed(listed, ctl.known)
    <3>1. /\ IsPanel(r) /\ r.list = listed.list /\ r.index = listed.index
          /\ r.chosen = listed.chosen /\ r.ciList = ctl.known /\ ~r.suppress
          /\ ~listed.suppress /\ ctl.known # <<>> => r.ciIndex \in 1 .. Len(ctl.known)
      BY <1>1, <1>3, CiRefreshedIs DEF IsController
    <3>2. panel' = r
      BY <1>2, <2>1
    <3> HIDE DEF r
    <3>3. \A side \in Sides : Shown(r, side) = Shown(listed, side)
      BY <3>1 DEF Shown
    <3> QED
      BY <1>3, <2>1, <3>1, <3>2, <3>3
  <2>2. CASE ~ctl.ciDirty
    BY <1>2, <1>3, <2>2
  <2> QED
    BY <2>1, <2>2
<1>9. Remembers(ctl', panel')
  BY <1>1, <1>4, <1>8 DEF Remembers
<1>10. Asked(ctl', panel')
  <2>1. \A side \in Sides : Shown(panel', side) # NoPort => Shown(panel, side) # NoPort
    BY <1>1, <1>8 DEF Remembers
  <2> QED
    BY <1>1, <1>4, <1>6, <2>1 DEF Asked
<1>11. ~panel'.suppress
  BY <1>1, <1>8 DEF Inductive, Suppressed
<1>12. Suppressed'
  BY <1>11 DEF Suppressed
<1>13. DevicesAreShown'
  <2>1. HasPair(ctl) => ~panel.suppress
    BY DEF Inductive, Suppressed
  <2>2. CASE ctl.ciDirty
    BY <1>4, <1>6, <1>8, <2>1, <2>2 DEF DevicesAreShown
  <2>3. CASE ~ctl.ciDirty
    BY <1>4, <1>6, <1>8, <2>3 DEF DevicesAreShown, Inductive
  <2> QED
    BY <2>2, <2>3
<1> QED
  BY <1>5, <1>7, <1>8, <1>9, <1>10, <1>12, <1>13 DEF Inductive

\* What an answer of a device changes: the devices known.
LEMMA Answered ==
    ASSUME Inductive, UNCHANGED <<panel, drawn>>, ctl.manager.exists,
           NEW devices \in Seq(Known),
           ctl' = [ctl EXCEPT !.known = devices, !.ciDirty = TRUE]
    PROVE  Inductive'
<1>1. /\ IsController(ctl) /\ Sound(ctl) /\ IsPanel(panel) /\ Remembers(ctl, panel)
      /\ Asked(ctl, panel) /\ Suppressed
  BY DEF Inductive
<1>2. /\ DOMAIN ctl' = DOMAIN ctl /\ ctl'.open = ctl.open /\ ctl'.current = ctl.current
      /\ ctl'.paired = ctl.paired /\ ctl'.manager = ctl.manager
      /\ ctl'.known = devices /\ ctl'.ciDirty = TRUE
  BY <1>1 DEF IsController
<1>3. IsController(ctl')
  BY <1>1, <1>2 DEF IsController
<1>4. (HasPair(ctl') <=> HasPair(ctl)) /\ MadeFor(ctl') = MadeFor(ctl)
  BY <1>2 DEF HasPair, MadeFor
<1>5. Sound(ctl')
  BY <1>1, <1>2, <1>4 DEF Sound
<1>6. Remembers(ctl', panel') /\ Asked(ctl', panel')
  BY <1>1, <1>2, <1>4 DEF Remembers, Asked
<1>7. Suppressed' /\ DevicesAreShown'
  BY <1>1, <1>2, <1>4 DEF Suppressed, DevicesAreShown
<1> QED
  BY <1>1, <1>3, <1>5, <1>6, <1>7 DEF Inductive

LEMMA Initially == Init => Inductive
<1> SUFFICES ASSUME Init PROVE Inductive
  OBVIOUS
<1> DEFINE c == [open |-> NoPorts, current |-> NoPorts, paired |-> FALSE,
                 manager |-> NoManager, known |-> <<>>,
                 devicesDirty |-> TRUE, ciDirty |-> TRUE]
<1>1. ctl = Initialized(c)
  BY DEF Init
<1>2. /\ DOMAIN c = {"open", "current", "paired", "manager", "known",
                     "devicesDirty", "ciDirty"}
      /\ c.open = NoPorts /\ c.current = NoPorts /\ c.paired = FALSE
      /\ c.manager = NoManager /\ c.known = <<>> /\ c.ciDirty = TRUE
  OBVIOUS
<1> HIDE DEF c
<1>3. DOMAIN NoPorts = Sides /\ \A side \in Sides : NoPorts[side] = NoPort
  BY DEF NoPorts
<1>4. /\ DOMAIN NoManager = {"for", "asked", "exists"} /\ NoManager.exists = FALSE
      /\ NoManager.for = <<NoPort, NoPort>>
  BY DEF NoManager
<1>5. IsController(c) /\ MadeFor(c) = NoManager.for
  <2>1. <<>> \in Seq(Known)
    OBVIOUS
  <2> QED
    BY <1>2, <1>3, <1>4, <2>1 DEF IsController, MadeFor, Sides
<1>6. /\ IsController(ctl) /\ Tells(c, ctl) /\ ctl.open = NoPorts
      /\ ctl.current = NoPorts /\ ctl.paired = FALSE /\ ctl.manager.exists
      /\ ctl.manager.for = NoManager.for /\ ctl.known = <<>>
  BY <1>1, <1>2, <1>5, InitializedIs
<1>7. ~HasPair(ctl)
  BY <1>3, <1>6 DEF HasPair, Sides
<1>8. Sound(ctl) /\ ctl.ciDirty
  BY <1>2, <1>3, <1>6, <1>7 DEF Sound, Tells
<1>9. /\ DOMAIN panel = {"list", "index", "chosen", "ciList", "ciIndex", "suppress"}
      /\ panel.index = [side \in Sides |-> 0] /\ panel.chosen = NoPorts
      /\ panel.ciIndex = 0 /\ panel.suppress = FALSE
  BY DEF Init
<1>10. IsPanel(panel)
  <2>1. DOMAIN panel.index = Sides /\ DOMAIN panel.chosen = Sides
    BY <1>3, <1>9
  <2>2. panel.ciIndex \in Nat
    BY <1>9
  <2>3. panel.suppress \in BOOLEAN
    BY <1>9
  <2> QED
    BY <1>9, <2>1, <2>2, <2>3, Zenon DEF IsPanel
<1>11. Remembers(ctl, panel)
  <2>1. ASSUME NEW side \in Sides
        PROVE  Shown(panel, side) = NoPort /\ panel.chosen[side] = NoPort
    <3>1. panel.index[side] = 0 /\ panel.chosen[side] = NoPort
      BY <1>3, <1>9
    <3>2. 0 \notin 1 .. Len(panel.list[side])
      OBVIOUS
    <3> QED
      BY <3>1, <3>2 DEF Shown
  <2> QED
    BY <2>1 DEF Remembers
<1>12. Asked(ctl, panel) /\ Suppressed /\ DevicesAreShown
  BY <1>7, <1>8, <1>9 DEF Asked, Suppressed, DevicesAreShown
<1> QED
  BY <1>6, <1>8, <1>10, <1>11, <1>12 DEF Inductive

LEMMA Preserved == Inductive /\ [Next]_vars => Inductive'
<1> SUFFICES ASSUME Inductive, [Next]_vars PROVE Inductive'
  OBVIOUS
<1>1. /\ IsController(ctl) /\ Sound(ctl) /\ IsPanel(panel) /\ Remembers(ctl, panel)
      /\ Asked(ctl, panel) /\ Suppressed /\ DevicesAreShown
  BY DEF Inductive
<1>2. CASE UNCHANGED <<ctl, panel, drawn>>
  BY <1>1, <1>2 DEF Inductive, Suppressed, DevicesAreShown
<1>3. CASE SendDiscovery
  <2>1. /\ ctl' = Discovered(ctl) /\ panel' = panel /\ ~drawn' /\ drawn
    BY <1>3 DEF SendDiscovery, Click
  <2>2. /\ IsController(ctl') /\ Sound(ctl') /\ (HasPair(ctl') <=> HasPair(ctl))
        /\ ctl'.open = ctl.open /\ ctl'.current = ctl.current /\ ctl'.known = ctl.known
        /\ ctl'.ciDirty = ctl.ciDirty /\ (ctl.manager.asked => ctl'.manager.asked)
    BY <1>1, <2>1, DiscoveredIs, SoundDiscovered
  <2>3. Remembers(ctl', panel') /\ Asked(ctl', panel')
    BY <1>1, <2>1, <2>2 DEF Remembers, Asked
  <2>4. Suppressed' /\ DevicesAreShown'
    BY <1>1, <2>1, <2>2 DEF Suppressed, DevicesAreShown
  <2> QED
    BY <1>1, <2>1, <2>2, <2>3, <2>4 DEF Inductive
<1>4. ASSUME NEW i \in 1 .. Len(panel.ciList), SelectCiDevice(i) PROVE Inductive'
  <2>1. ctl' = ctl /\ ~drawn' /\ drawn /\ panel' = [panel EXCEPT !.ciIndex = i]
    BY <1>4 DEF SelectCiDevice, Click
  <2>2. /\ DOMAIN panel' = DOMAIN panel /\ panel'.list = panel.list
        /\ panel'.index = panel.index /\ panel'.chosen = panel.chosen
        /\ panel'.ciList = panel.ciList /\ panel'.ciIndex = i
        /\ panel'.suppress = panel.suppress
    BY <1>1, <2>1 DEF IsPanel
  <2>3. IsPanel(panel')
    BY <1>1, <2>2 DEF IsPanel
  <2>4. \A side \in Sides : Shown(panel', side) = Shown(panel, side)
    BY <2>2 DEF Shown
  <2>5. Remembers(ctl', panel') /\ Asked(ctl', panel')
    BY <1>1, <2>1, <2>2, <2>4 DEF Remembers, Asked
  <2>6. Suppressed' /\ DevicesAreShown'
    BY <1>1, <1>4, <2>1, <2>2 DEF Suppressed, DevicesAreShown
  <2> QED
    BY <1>1, <2>1, <2>3, <2>5, <2>6 DEF Inductive
<1>5. ASSUME NEW d \in Devices, DeviceFound(d) PROVE Inductive'
  <2> DEFINE devices == Append(ctl.known, [muid |-> d, ready |-> FALSE])
  <2>1. devices \in Seq(Known)
    BY <1>1 DEF IsController, Known
  <2>2. /\ ctl' = [ctl EXCEPT !.known = devices, !.ciDirty = TRUE]
        /\ ctl.manager.exists /\ UNCHANGED <<panel, drawn>>
    BY <1>1, <1>5 DEF DeviceFound, IsController
  <2> HIDE DEF devices
  <2> QED
    BY <2>1, <2>2, Answered
<1>6. ASSUME NEW i \in 1 .. Len(ctl.known), EndpointReply(i) PROVE Inductive'
  <2> DEFINE devices == [ctl.known EXCEPT ![i].ready = TRUE]
  <2>1. ctl.known \in Seq(Known)
    BY <1>1 DEF IsController
  <2>2. devices \in Seq(Known)
    <3>1. ctl.known[i] \in Known
      BY <2>1
    <3>2. [ctl.known[i] EXCEPT !.ready = TRUE] \in Known
      BY <3>1 DEF Known
    <3> QED
      BY <2>1, <3>2
  <2>3. /\ ctl' = [ctl EXCEPT !.known = devices, !.ciDirty = TRUE]
        /\ UNCHANGED <<panel, drawn>>
    BY <1>1, <1>6 DEF EndpointReply, IsController
  <2>4. ctl.manager.exists
    <3>1. ctl.known # <<>>
      BY <2>1
    <3> QED
      BY <1>1, <3>1 DEF Sound
  <2> HIDE DEF devices
  <2> QED
    BY <2>2, <2>3, <2>4, Answered
<1>7. CASE \E side \in Sides :
              \/ \E i \in 1 .. Len(present[side]) : Unplug(side, i)
              \/ \E port \in All(side) : Plug(side, port)
  BY <1>2, <1>7 DEF Unplug, Plug
<1>8. CASE UNCHANGED vars
  BY <1>2, <1>8 DEF vars
<1> QED
  BY <1>3, <1>4, <1>5, <1>6, <1>7, <1>8, FrameStep, SelectStep, DeselectStep,
     RefreshDevicesStep DEF Next

LEMMA Always == Spec => []Inductive
  BY Initially, Preserved, PTL DEF Spec

-----------------------------------------------------------------------------
\* The panel never shows another port than the controller was told to open.
THEOREM PanelShowsCurrent == Spec => []ShownIsCurrent
<1>1. Inductive => ShownIsCurrent
  BY DEF Inductive, Remembers, Sound, ShownIsCurrent
<1> QED
  BY <1>1, Always, PTL

\* A pair of ports has its own manager, whatever was opened, closed, refused
\* and unplugged before.
THEOREM PairHasManager == Spec => []PairIsServed
<1>1. Inductive => PairIsServed
  BY DEF Inductive, Sound, MadeFor, Asked, PairIsServed
<1> QED
  BY <1>1, Always, PTL

\* A frame shows what the manager knows.
THEOREM PanelShowsDevices == Spec => []DevicesAreShown
<1>1. Inductive => DevicesAreShown
  BY DEF Inductive
<1> QED
  BY <1>1, Always, PTL
=============================================================================
