----------------------------- MODULE Orientation -----------------------------
(***************************************************************************)
(* The orientation dialog: the user turns what a sensor shows until the    *)
(* floor is level and accepts; the turn is baked into the points and       *)
(* written for the sensor's daemon, which turns what it captures from its  *)
(* next start on.                                                          *)
(*                                                                         *)
(* A turn is a number of equal steps about one axis.  Points are known by  *)
(* how far they are turned from what their sensor delivers: a cloud maps   *)
(* the sensors that have points in it to their turns.                      *)
(***************************************************************************)
EXTENDS StorageEngine, Functions

CONSTANTS
  Steps,     \* steps in a full turn
  Mounted,   \* the sensors a scanner may have, "AIRY" is the reference
  OnStart,   \* those whose daemon reads its turn again when a capture starts
  Profiled,  \* those whose daemon falls back on the sensor's profile
  Sets,      \* scanners: sets of sensors
  MaxDials, MaxAccepts, MaxTakes, MaxHits \* bounds: dialling, accepting, captures, crashes

ASSUME OrientationAssumption ==
  /\ Steps \in Nat \ {0}
  /\ OnStart \subseteq Mounted /\ Profiled \subseteq Mounted
  /\ Sets \subseteq (SUBSET Mounted) \ {{}} /\ "FUSED" \notin Mounted
ASSUME OrientationBounds == {MaxDials, MaxAccepts, MaxTakes, MaxHits} \subseteq Nat

VARIABLES
  dialog,   \* the dialog: open, of which sensor, turned how far
  pane,     \* the bridge: its scanner, contexts' maps, fused cloud, viewport
  shelves,  \* each sensor's profile and its daemon's file, on disk
  keeping,  \* what an accept still has to write
  daemons,  \* the turn each daemon has read, and whether it is recording
  approved, \* history: how the user last accepted each sensor's points
  turns     \* dials, accepts, takes and hits so far

orientationVars == <<dialog, pane, shelves, keeping, daemons, approved, turns>>

Angles    == 0..(Steps - 1)
Untold    == Steps       \* no angle: a profile without a turn, an approval that says nothing
Plus(a, b) == (a + b) % Steps
NoPoints  == [s \in {} |-> 0]
Only(cloud, s) == IF s \in DOMAIN cloud THEN [x \in {s} |-> cloud[s]] ELSE NoPoints
Turned(cloud, by) == [s \in DOMAIN cloud |-> Plus(cloud[s], by)]
TurnedOf(cloud, s, by) == [x \in DOMAIN cloud |-> IF x = s THEN Plus(cloud[x], by) ELSE cloud[x]]

ProfileOf(s)   == <<"profile", s>>
TransformOf(s) == <<"canonical_transform", s>>

\* _load_canonical_transform: the daemon's own file, else the profile's turn.
TurnRead(d, s) ==
  LET Told(f) == Read(d, f) /\ Json(d, f) # Untold IN
  IF Told(TransformOf(s)) THEN Json(d, TransformOf(s))
  ELSE IF s \in Profiled /\ Told(ProfileOf(s)) THEN Json(d, ProfileOf(s))
  ELSE 0

\* updateLiveMultiSensorFusion and the end of a poll: the fused cloud of
\* several sensors, or the map of the only one.
PaneOf(p) ==
  IF Cardinality(p.set) = 1 THEN [p EXCEPT !.shown = p.maps]
  ELSE [p EXCEPT !.display = "FUSED", !.fused = p.maps,
                 !.shown = IF p.maps = NoPoints THEN @ ELSE p.maps]

OrientationInit(shipped) ==
  /\ dialog = [open |-> FALSE, sensor |-> "GEMINI", dial |-> 0]
  /\ \E set \in Sets :
       pane = [set |-> set, capturing |-> FALSE, maps |-> NoPoints, fused |-> NoPoints, shown |-> NoPoints,
               display |-> IF Cardinality(set) = 1 THEN CHOOSE s \in set : TRUE ELSE "FUSED"]
  /\ shelves = shipped
  /\ keeping = <<>>
  /\ daemons = [s \in Mounted |-> [turn |-> TurnRead(shipped, s), on |-> FALSE]]
  /\ approved = [s \in Mounted |-> Untold]
  /\ turns = [dials |-> 0, accepts |-> 0, takes |-> 0, hits |-> 0]

Frozen == dialog.sensor = "AIRY"
Free   == keeping = <<>>
Counted(what, max) == turns[what] < max /\ turns' = [turns EXCEPT ![what] = @ + 1]

\* getDisplayPoints and getTrajectoryPoints: what is shown, turned by the dial
\* if the dialog is about the sensor that is shown.
Previewed == dialog.open /\ dialog.sensor = pane.display
Picture   == IF Previewed THEN Turned(pane.shown, dialog.dial) ELSE pane.shown

-----------------------------------------------------------------------------
(* The viewport and the captures *)

\* setActiveDisplaySensor; of a sensor the scanner does not have, the points
\* that were shown stay.
ShownAs(p, d) ==
  IF p.display = d /\ p.shown # NoPoints THEN p
  ELSE [p EXCEPT !.display = d,
                 !.shown = IF d = "FUSED" /\ p.fused # NoPoints THEN p.fused
                           ELSE IF d \in p.set THEN Only(p.maps, d) ELSE @]
ShowSensor(d) ==
  /\ Free /\ d \in pane.set \cup {"FUSED"} /\ ~dialog.open
  /\ pane' = ShownAs(pane, d) /\ pane' # pane
  /\ UNCHANGED <<dialog, shelves, keeping, daemons, approved, turns>>

\* A daemon that is recording, for a bridge that has died, goes on as it is.
Reread(s) == s \in OnStart \cap pane.set /\ ~daemons[s].on
StartTake ==
  /\ Free /\ ~pane.capturing /\ Counted("takes", MaxTakes)
  /\ pane' = [pane EXCEPT !.capturing = TRUE, !.maps = NoPoints, !.shown = NoPoints]
  /\ daemons' = [s \in Mounted |->
       [turn |-> IF Reread(s) THEN TurnRead(shelves, s) ELSE daemons[s].turn,
        on   |-> daemons[s].on \/ s \in pane.set]]
  /\ UNCHANGED <<dialog, shelves, keeping, approved>>

\* The points the daemons have by now take the place of those in the contexts.
Delivered(some) == [s \in DOMAIN pane.maps \cup some |-> daemons[s].turn]
TakeTick(some) ==
  /\ Free /\ pane.capturing /\ some \subseteq pane.set
  /\ pane' = PaneOf([pane EXCEPT !.maps = Delivered(some)])
  /\ UNCHANGED <<dialog, shelves, keeping, daemons, approved, turns>>
StopTake ==
  /\ Free /\ pane.capturing
  /\ pane' = [PaneOf([pane EXCEPT !.maps = Delivered({})]) EXCEPT !.capturing = FALSE]
  /\ daemons' = [s \in Mounted |-> IF s \in pane.set THEN [daemons[s] EXCEPT !.on = FALSE] ELSE daemons[s]]
  /\ UNCHANGED <<dialog, shelves, keeping, approved, turns>>

\* A daemon is started again; it reads its turn when it is constructed.
RestartDaemon(s) ==
  /\ Free /\ ~pane.capturing /\ s \in Mounted \ {"AIRY"}
  /\ daemons' = [daemons EXCEPT ![s] = [turn |-> TurnRead(shelves, s), on |-> FALSE]]
  /\ UNCHANGED <<dialog, pane, shelves, keeping, approved, turns>>

-----------------------------------------------------------------------------
(* The dialog *)

\* openOrientationDiagnostic: about what is shown; an empty viewport gets the
\* sample cloud, if there is one.
OpenDialog(sample) ==
  /\ Free /\ ~dialog.open /\ sample \in BOOLEAN
  /\ dialog' = [dialog EXCEPT !.open = TRUE, !.sensor = pane.display]
  /\ pane' = IF sample /\ pane.shown = NoPoints /\ pane.display = "GEMINI"
             THEN [pane EXCEPT !.shown = [s \in {"GEMINI"} |-> 0]] ELSE pane
  /\ UNCHANGED <<shelves, keeping, daemons, approved, turns>>

CloseDialog ==
  /\ Free /\ dialog.open
  /\ dialog' = [dialog EXCEPT !.open = FALSE, !.dial = 0]
  /\ UNCHANGED <<pane, shelves, keeping, daemons, approved, turns>>

\* setOrientationDiagSensor, of the sensors that have a button.
PickSensor(s) ==
  /\ Free /\ dialog.open /\ s \in {"AIRY", "GEMINI", "VITURE"} \cap Mounted
  /\ dialog' = [dialog EXCEPT !.sensor = s, !.dial = 0]
  /\ pane' = ShownAs(pane, s)
  /\ UNCHANGED <<shelves, keeping, daemons, approved, turns>>

Dialled(angle) ==
  /\ Free /\ dialog.open /\ ~Frozen /\ Counted("dials", MaxDials)
  /\ dialog' = [dialog EXCEPT !.dial = angle]
  /\ UNCHANGED <<pane, shelves, keeping, daemons, approved>>
SetRotation(angle) == angle \in Angles /\ Dialled(angle)
StepRotation(delta) == delta \in {1, Steps - 1} /\ Dialled(Plus(dialog.dial, delta))
ResetRotation ==
  /\ Free /\ dialog.open /\ dialog.dial # 0
  /\ dialog' = [dialog EXCEPT !.dial = 0]
  /\ UNCHANGED <<pane, shelves, keeping, daemons, approved, turns>>
\* autoLevelOrientationDiag: a floor is found, if at all, within 45 degrees of
\* the horizontal, in what is in the viewport turned by the dial.
AutoLevel(align) ==
  /\ align \in {0, 1, Steps - 1} /\ pane.shown # NoPoints
  /\ Dialled(Plus(dialog.dial, align))

\* The points an accept bakes the dial into: the sensor's context, and the
\* viewport if it shows the sensor.
Baked(p, s) ==
  LET maps == TurnedOf(p.maps, s, dialog.dial) IN
  [p EXCEPT !.maps = maps,
            !.shown = IF p.display # s THEN @
                      ELSE IF s \in p.set THEN Only(maps, s) ELSE Turned(@, dialog.dial)]

\* Mutant: the dial is reset first.
KeptReset == 0
\* What an accept writes: the dial, whatever the points were turned by before.
Kept == dialog.dial
KeptWrites(s) ==
  (IF Holds(shelves, ProfileOf(s)) THEN InPlace(ProfileOf(s), Kept) ELSE <<>>)
    \o InPlace(TransformOf(s), Kept)

\* The turn of a sensor's points the user sees, if nothing has turned them
\* before and they are all that is seen.
Seen(s) == IF Previewed /\ pane.shown = [x \in {s} |-> 0]
             /\ (s \in pane.set => Only(pane.maps, s) = pane.shown)
           THEN Picture[s] ELSE Untold

\* acceptOrientationDiagRotation.  Of the fused view nothing is written.
Accept ==
  LET s == dialog.sensor IN
  /\ Free /\ dialog.open /\ ~Frozen /\ Counted("accepts", MaxAccepts)
  /\ Holds(shelves, ProfileOf(s)) => Read(shelves, ProfileOf(s))
  /\ pane' = Baked(pane, s)
  /\ keeping' = IF s \in Mounted THEN KeptWrites(s) ELSE <<>>
  /\ approved' = [x \in Mounted |-> IF x = s THEN Seen(s) ELSE approved[x]]
  /\ dialog' = [dialog EXCEPT !.dial = 0]
  /\ UNCHANGED <<shelves, daemons>>

\* The profile cannot be read: the points are turned, nothing is written, the
\* dial stays.
AcceptFails ==
  LET s == dialog.sensor IN
  /\ Free /\ dialog.open /\ ~Frozen /\ Counted("accepts", MaxAccepts)
  /\ Holds(shelves, ProfileOf(s)) /\ ~Read(shelves, ProfileOf(s))
  /\ pane' = Baked(pane, s)
  /\ UNCHANGED <<dialog, shelves, keeping, daemons, approved>>

FinishKeeping ==
  /\ ~Free
  /\ shelves' = Applied(shelves, keeping) /\ keeping' = <<>>
  /\ UNCHANGED <<dialog, pane, daemons, approved, turns>>

\* The application dies while it writes and is started again; the daemons
\* go on.
Hit ==
  /\ ~Free /\ Counted("hits", MaxHits)
  /\ shelves' \in Cuts(shelves, keeping) /\ keeping' = <<>>
  /\ dialog' = [open |-> FALSE, sensor |-> "GEMINI", dial |-> 0]
  /\ pane' = [pane EXCEPT !.capturing = FALSE, !.maps = NoPoints, !.fused = NoPoints, !.shown = NoPoints,
                !.display = IF Cardinality(pane.set) = 1 THEN CHOOSE s \in pane.set : TRUE ELSE "FUSED"]
  /\ approved' = [s \in Mounted |-> IF s = dialog.sensor THEN Untold ELSE approved[s]]
  /\ UNCHANGED daemons

OrientationTypes ==
  /\ dialog \in [open : BOOLEAN, sensor : Mounted \cup {"FUSED", "GEMINI", "VITURE"}, dial : Angles]
  /\ pane.set \in Sets /\ DOMAIN pane.maps \subseteq pane.set
  /\ \A cloud \in {pane.maps, pane.fused, pane.shown} : \A s \in DOMAIN cloud : cloud[s] \in Angles
  /\ daemons \in [Mounted -> [turn : Angles, on : BOOLEAN]] /\ approved \in [Mounted -> Angles \cup {Untold}]

-----------------------------------------------------------------------------
(* Properties *)

\* What the user accepts is what the next capture shows: a daemon that reads
\* its turn reads the one its sensor's points were last accepted with, if
\* those had not been turned before ("Orientation ACCEPTED and SAVED":
\* acceptOrientationDiagRotation writes the dial, not what the points were
\* turned by in all), whatever files an earlier crash has torn.
Reads(s) == RestartDaemon(s) \/ (StartTake /\ Reread(s))
AcceptedIsUsed == [][\A s \in Mounted :
  approved[s] # Untold /\ Reads(s) => daemons'[s].turn = approved[s]]_orientationVars
=============================================================================
