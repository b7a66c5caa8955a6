------------------------------ MODULE LedPainter ------------------------------
(***************************************************************************)
(* What the OpenRGB worker paints (openrgb_consumer.cpp, worker_main): in  *)
(* every frame each zone is rendered into a buffer of its own, copied into *)
(* the device's array behind the zones before it, and the array is sent.   *)
(* Arrays and zone states live until the devices are fetched anew.         *)
(*                                                                         *)
(* When and why the link breaks is OpenRgbWorker's subject: a device that  *)
(* does not get its colours is painted like any other, and so are those    *)
(* after it.                                                               *)
(***************************************************************************)
EXTENDS LedPatterns

CONSTANTS
  Servers,    (* the device lists a refresh may return                     *)
  Snapshots,  (* what the audio system may publish                         *)
  Patterns,   (* what the user may choose                                  *)
  Dts         (* the time between two frames                               *)

Zone ==
  [type : {"Single", "Linear", "Matrix"}, leds : Nat, height : Nat, width : Nat,
   values : Seq({NoLed} \cup Nat)]

Device == [leds : Nat, zones : Seq(Zone)]

ASSUME PainterAssumption ==
  /\ Servers \subseteq Seq(Device)
  /\ Snapshots \subseteq [volume : 0 .. Full, bands : Seq(0 .. Full),
                          phase : Nat, turn : Nat \ {0}]
  /\ Patterns \subseteq [single : SinglePattern, linear : LinearPattern,
                         matrix : MatrixPattern]
  /\ Dts \subseteq Nat \ {0}

VARIABLES
  devices,    (* devices_result.devices                                    *)
  frames,     (* dev_frames: for each device [leds, states]                *)
  tick,       (* [snap, cfg, dt] of the frame under way or the last one    *)
  at, zone,   (* the device and the zone it is at; at is 0 before the first*)
              (* frame and past the last device between frames             *)
  offset      (* led_offset                                                *)

paintVars == <<devices, frames, tick, at, zone, offset>>

-------------------------------------------------------------------------------
(* resize_dev_frames().                                                   *)
Fresh(dev) == [leds |-> Blank(dev.leds), states |-> [zi \in DOMAIN dev.zones |-> State0]]

Scrolls(z, cfg) ==
  z.type = "Matrix" /\ cfg.matrix = "SpectrogramWaterfall" /\ HasCells(z)

(* The zone's state while it is rendered, the buffer it is rendered into, *)
(* and the state it leaves.                                               *)
Before(z, cfg, s, st, dt) ==
  IF z.type = "Linear" /\ cfg.linear = "VuMeter" THEN Peak(st, s.volume, dt)
  ELSE IF Scrolls(z, cfg) THEN Fed(z, st, s) ELSE st

Buffer(z, cfg, s, st) ==
  CASE z.type = "Single" -> Fill(z.leds, RenderSingle(cfg.single, s))
    [] z.type = "Linear" -> RenderLinear(cfg.linear, s, z.leds, st.peak)
    [] z.type = "Matrix" -> RenderMatrix(cfg.matrix, z, s, st)

After(z, cfg, st) == IF Scrolls(z, cfg) THEN Advanced(z, st) ELSE st

(* The copy into the device's array, which may be too short for it.       *)
Copied(leds, out, start) ==
  [l \in DOMAIN leds |-> IF l - start \in DOMAIN out THEN out[l - start] ELSE leds[l]]

(* A mutant of NextOffset: the next zone starts behind this one's cells.     *)
NextOffsetCells(start, z) ==
  IF z.type = "Matrix" THEN start + z.width * z.height ELSE start + z.leds

NextOffset(start, z) == start + z.leds

-------------------------------------------------------------------------------
NoTick == <<>>

BetweenFrames == at \in {0, Len(devices) + 1}

(* A tick: the snapshot and the settings are read once for all devices.   *)
Tick(s, cfg, dt) ==
  /\ BetweenFrames
  /\ tick' = [snap |-> s, cfg |-> cfg, dt |-> dt]
  /\ at' = 1 /\ zone' = 1 /\ offset' = 0
  /\ UNCHANGED <<devices, frames>>

(* The loop over the zones of a device with LEDs.                         *)
AtZone ==
  at \in DOMAIN devices /\ devices[at].leds > 0 /\ zone \in DOMAIN devices[at].zones

PaintZone ==
  /\ AtZone
  /\ devices[at].zones[zone].leds > 0
  /\ LET z == devices[at].zones[zone]
         st == Before(z, tick.cfg, tick.snap, frames[at].states[zone], tick.dt)
         out == Buffer(z, tick.cfg, tick.snap, st)
     IN  /\ frames' = [frames EXCEPT
                         ![at] = [leds |-> Copied(@.leds, out, offset),
                                  states |-> [@.states EXCEPT
                                                ![zone] = After(z, tick.cfg, st)]]]
         /\ offset' = NextOffset(offset, z)
  /\ zone' = zone + 1
  /\ UNCHANGED <<devices, tick, at>>

SkipZone ==
  /\ AtZone
  /\ devices[at].zones[zone].leds = 0
  /\ zone' = zone + 1
  /\ UNCHANGED <<devices, frames, tick, at, offset>>

(* A device without LEDs is skipped; of another the array is sent, and    *)
(* whether or not that works, the next device follows.                    *)
NextDevice ==
  /\ at \in DOMAIN devices
  /\ devices[at].leds = 0 \/ zone > Len(devices[at].zones)
  /\ at' = at + 1 /\ zone' = 1 /\ offset' = 0
  /\ UNCHANGED <<devices, frames, tick>>

(* refresh_devices() and resize_dev_frames(): after connecting, and when  *)
(* the server says its devices have changed.                              *)
Refresh(server) ==
  /\ BetweenFrames
  /\ devices' = server
  /\ frames' = [d \in DOMAIN server |-> Fresh(server[d])]
  /\ tick' = NoTick /\ at' = 0 /\ zone' = 1 /\ offset' = 0

PaintInit ==
  /\ devices \in Servers
  /\ frames = [d \in DOMAIN devices |-> Fresh(devices[d])]
  /\ tick = NoTick /\ at = 0 /\ zone = 1 /\ offset = 0

PaintNext ==
  \/ \E s \in Snapshots, cfg \in Patterns, dt \in Dts : Tick(s, cfg, dt)
  \/ PaintZone \/ SkipZone \/ NextDevice
  \/ \E server \in Servers : Refresh(server)

PaintSpec == PaintInit /\ [][PaintNext]_paintVars

-------------------------------------------------------------------------------
(* Where a zone starts: behind the LEDs of the zones before it.           *)
LedsBefore(dev, zi) == UNION {{j} \X (0 .. (dev.zones[j].leds - 1)) : j \in 1 .. (zi - 1)}

Start(dev, zi) == Cardinality(LedsBefore(dev, zi))

(* The devices this frame has painted.                                    *)
Painted == {d \in DOMAIN devices : d < at /\ devices[d].leds > 0}

(* What LED i of a zone may show, besides nothing.                        *)
PartsOf(z, i) ==
  CASE z.type = "Single" -> {<<"all">>}
    [] z.type = "Linear" ->
         {<<"all">>} \cup {<<k, i>> : k \in {"fill", "peak", "tail", "left", "right", "led"}}
    [] z.type = "Matrix" ->
         {<<"all">>} \cup {<<"cell", r, c>> : r \in 0 .. (z.height - 1), c \in 0 .. (z.width - 1)}

OwnPart(z, i, part) ==
  /\ part \in PartsOf(z, i)
  /\ part[1] = "cell" => CellToLed(z, part[2], part[3]) = i

(* Each LED shows its own zone's pattern: the part of the pattern that is *)
(* meant for it, computed from the frame just painted or, in a waterfall, *)
(* from one before it; LEDs behind the last zone stay dark.  Neither maps *)
(* with gaps and numbers out of range, nor zones without LEDs, nor zones  *)
(* with more LEDs than their device, nor a pattern that does not clear,   *)
(* make a zone paint another or leave an old colour.                      *)
EachLedIsItsZones ==
  \A d \in Painted : \A l \in DOMAIN frames[d].leds :
    LET dev == devices[d]
        colour == frames[d].leds[l]
    IN  colour # Black =>
          \E zi \in DOMAIN dev.zones :
            /\ l - Start(dev, zi) \in 0 .. (dev.zones[zi].leds - 1)
            /\ OwnPart(dev.zones[zi], l - Start(dev, zi), colour[2])
            /\ colour[1] # tick.snap => Scrolls(dev.zones[zi], tick.cfg)

(* The row of a waterfall: the frame it was fed so many frames ago.       *)
PastRow(past, row) == IF row < Len(past) THEN past[row + 1] ELSE Silence

(* "Row 0 shows the most recent sample; each successive row down shows    *)
(* older history": a waterfall shows the last frames it was fed, in order,*)
(* and silence where there were fewer, however long its ring has turned   *)
(* and whatever pattern came between.                                     *)
WaterfallShowsPast ==
  \A d \in Painted : \A zi \in DOMAIN devices[d].zones :
    LET z == devices[d].zones[zi]
    IN  Scrolls(z, tick.cfg) =>
          \A l \in DOMAIN frames[d].leds :
            LET colour == frames[d].leds[l]
            IN  l - Start(devices[d], zi) \in 0 .. (z.leds - 1) /\ colour # Black =>
                  colour[1] = PastRow(frames[d].states[zi].past, colour[2][2])

(* The white dot is at the apex: of a zone that has all its LEDs one shows*)
(* it, unless the peak is 0 or the whole strip, where the rounding puts it*)
(* past the end, and no LED of the bar is above it.                       *)
DotIsTheApex ==
  \A d \in Painted : \A zi \in DOMAIN devices[d].zones :
    LET z == devices[d].zones[zi]
        start == Start(devices[d], zi)
        peak == frames[d].states[zi].peak
        shown == [i \in 0 .. (z.leds - 1) |-> frames[d].leds[start + i]]
        dots == {i \in DOMAIN shown : shown[i] = Lit(tick.snap, <<"peak", i>>)}
    IN  /\ z.type = "Linear" /\ tick.cfg.linear = "VuMeter"
        /\ z.leds > 0 /\ start + z.leds <= devices[d].leds
        => /\ peak >= tick.snap.volume
           /\ Cardinality(dots) = IF peak \in {0, Full} THEN 0 ELSE 1
           /\ \A i \in DOMAIN shown, dot \in dots : shown[i] # Black => i <= dot

(* "Hold ~0.6 s, then start decaying": the peak of a zone is not lowered  *)
(* sooner than that after it rose, as long as the devices stay the same.  *)
PeakIsHeld ==
  [][at' # 0 =>
       \A d \in DOMAIN frames : \A zi \in DOMAIN frames[d].states :
         frames'[d].states[zi].peak < frames[d].states[zi].peak =>
           frames[d].states[zi].since >= HoldTime]_paintVars

(* Why: the place of the loop is one the program can be at, and arrays    *)
(* and states fit the devices ...                                         *)
Memory(z) ==
  [peak : 0 .. Full, hold : 0 .. HoldTime, since : Nat, past : Seq(Snapshots), head : Nat,
   rows : {<<>>} \cup [0 .. (z.height - 1) -> Snapshots \cup {Silence}]]

PaintTypeOK ==
  /\ devices \in Servers
  /\ DOMAIN frames = DOMAIN devices
  /\ \A d \in DOMAIN devices :
       /\ DOMAIN frames[d].leds = 0 .. (devices[d].leds - 1)
       /\ DOMAIN frames[d].states = DOMAIN devices[d].zones
       /\ \A zi \in DOMAIN devices[d].zones :
            frames[d].states[zi] \in Memory(devices[d].zones[zi])
  /\ at \in 0 .. (Len(devices) + 1)
  /\ at # 0 => tick \in [snap : Snapshots, cfg : Patterns, dt : Dts]
  /\ zone \in Nat \ {0}

(* ... the running offset is where the zone starts ...                    *)
OffsetIsStart == at \in DOMAIN devices => offset = Start(devices[at], zone)

(* ... what is left of a peak's hold and the time since it rose make up   *)
(* the hold time ...                                                      *)
PeakRemembered(st) == st.peak = 0 \/ st.since + st.hold >= HoldTime

(* ... the rows of a waterfall are its past: row by row they lie before   *)
(* the head, around the ring ...                                          *)
SlotOf(head, row, height) ==
  IF row < head THEN head - 1 - row ELSE head - 1 - row + height

RowsRemembered(z, st) ==
  \/ st.rows = <<>> /\ st.past = <<>>
  \/ /\ HasCells(z)
     /\ st.head \in 0 .. (z.height - 1)
     /\ DOMAIN st.rows = 0 .. (z.height - 1)
     /\ \A row \in 0 .. (z.height - 1) :
          st.rows[SlotOf(st.head, row, z.height)] = PastRow(st.past, row)

ZonesRemember ==
  \A d \in DOMAIN devices : \A zi \in DOMAIN devices[d].zones :
    /\ PeakRemembered(frames[d].states[zi])
    /\ RowsRemembered(devices[d].zones[zi], frames[d].states[zi])

(* ... and the LEDs of a zone that was painted in this frame show the     *)
(* picture its pattern makes of the snapshot and of the state it left,    *)
(* while a LED of no zone is dark.                                        *)
PastColours(z, past) ==
  [c \in Cells(z) |-> Lit(PastRow(past, c[1]), <<"cell", c[1], c[2]>>)]

Picture(z, st) ==
  IF Scrolls(z, tick.cfg) THEN Draw(z, RowMajor(z), PastColours(z, st.past))
  ELSE Buffer(z, tick.cfg, tick.snap, st)

Done(d, zi) ==
  /\ devices[d].leds > 0
  /\ d < at \/ (d = at /\ zi < zone)

InZone(dev, zi, l) == l - Start(dev, zi) \in 0 .. (dev.zones[zi].leds - 1)

ZonesShow ==
  \A d \in DOMAIN devices : \A zi \in DOMAIN devices[d].zones :
    Done(d, zi) =>
      LET z == devices[d].zones[zi]
          st == frames[d].states[zi]
      IN  /\ \A l \in DOMAIN frames[d].leds :
               InZone(devices[d], zi, l) =>
                 frames[d].leds[l] = Picture(z, st)[l - Start(devices[d], zi)]
          /\ z.type = "Linear" /\ tick.cfg.linear = "VuMeter" /\ z.leds > 0
               => st.peak >= tick.snap.volume

OthersAreDark ==
  \A d \in DOMAIN devices : \A l \in DOMAIN frames[d].leds :
    (\A zi \in DOMAIN devices[d].zones : ~InZone(devices[d], zi, l))
      => frames[d].leds[l] = Black

(* The inductive invariant.                                               *)
PainterInv ==
  /\ PaintTypeOK /\ OffsetIsStart /\ ZonesRemember /\ ZonesShow /\ OthersAreDark
===============================================================================
