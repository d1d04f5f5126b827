------------------------------ MODULE Workspace ------------------------------
(***************************************************************************)
(* The bridge between the user interface and the disk: projects, captures  *)
(* from start to save, what the viewport shows, clean-up, registration and *)
(* fusion, and what of it all is on disk when the application dies.        *)
(*                                                                         *)
(* A call of the user interface is two steps: the call itself, which       *)
(* changes the bridge and says what it writes, and the writing, which a    *)
(* crash may cut off anywhere.                                             *)
(***************************************************************************)
EXTENDS StorageEngine, SequencesExt

CONSTANTS
  Sensors,     \* ids of the sensors that can be selected ("AIRY", "GEMINI", ...)
  Rigs,        \* scanner configurations: sets of sensors
  FirstRig,    \* the first one listed, selected when the application starts
  None,        \* no project, no session, no display
  MaxProjects, MaxSessions, MaxSaves, MaxRegs, \* bounds on what is made
  MaxEdits,    \* bound on the calls that work on what is shown
  MaxCalls,    \* bound on all of these together
  MaxCrashes   \* bound

ASSUME RigsAssumption   == IsFiniteSet(Sensors) /\ Rigs \subseteq (SUBSET Sensors) \ {{}} /\ FirstRig \in Rigs
ASSUME NoneAssumption   == /\ None \notin Nat
                           /\ Sensors \cap {None, "MERGED", "FUSED"} = {}
ASSUME BoundsAssumption == {MaxProjects, MaxSessions, MaxSaves, MaxRegs, MaxEdits, MaxCalls, MaxCrashes} \subseteq Nat

VARIABLES
  disk,    \* the project tree
  writing, \* what the call under way still has to write
  ui,      \* the bridge's members
  lidar,   \* the SLAM backends: which capture each is recording, and its map
  made     \* how many projects, sessions, saves, registrations, edits, crashes so far

vars == <<disk, writing, ui, lidar, made>>

Ids      == Sensors \cup {"MERGED"}
Sessions == 1..MaxSessions   \* a session's id is the time of its start
Projects == 1..MaxProjects
NoReg    == [on |-> FALSE, ref |-> Nothing, mov |-> Nothing, orig |-> Nothing, home |-> None]
Idle     == [take |-> None, map |-> Nothing]
NoSensor == [id \in {} |-> [raw |-> Nothing, map |-> Nothing]]

Sensor(raw, map) == [raw |-> raw, map |-> map] \* a context of activeSensors_
Maps(u)          == {u.sensors[id].map : id \in DOMAIN u.sensors \ {"MERGED"}}
Dual(u)          == Cardinality(DOMAIN u.sensors) > 1
TheOnly(u)       == CHOOSE id \in DOMAIN u.sensors : TRUE \* when there is one

\* cleanRealtimeFast: it never leaves an empty map.
Cleaned(c, live) == IF live /\ ~Empty(c) THEN [c EXCEPT !.clean = TRUE] ELSE c

\* updateLiveMultiSensorFusion: one sensor is its own anchor; several are
\* fused, and shown if the fused view is on.
Fused(u) ==
  LET c == Together(Maps(u)) IN
  IF ~Dual(u) \/ Empty(c) THEN u
  ELSE [u EXCEPT !.fused = c, !.shown = IF u.display = "FUSED" THEN c ELSE @]

\* The end of a rebuild of activeSensors_: the fused view of several sensors,
\* or the name of the only one.
Displayed(u) ==
  IF Dual(u) THEN Fused([u EXCEPT !.display = "FUSED"])
  ELSE [u EXCEPT !.display = TheOnly(u)]

\* rebuildActiveSensorsForSelection: new contexts, with the maps the bridge
\* has kept for each sensor.
Rebuilt(u, rig) ==
  Displayed([u EXCEPT !.sensors = [id \in rig |-> Sensor(Nothing, u.kept[id])],
                      !.able = TRUE])

Fresh(rig) == Rebuilt(
  [project |-> None, session |-> None, state |-> "NO_PROJECT",
   capturing |-> FALSE, canSave |-> FALSE,
   sensors |-> NoSensor,            \* activeSensors_
   able    |-> TRUE,                \* whether they are is_capturable
   kept    |-> [id \in Sensors |-> Nothing], \* airyMapPoints_, geminiMapPoints_, ...
   fused   |-> Nothing, shown |-> Nothing, display |-> None,
   preview |-> FALSE, backup |-> Nothing, live |-> TRUE,
   reg     |-> NoReg, view |-> 0, tinted |-> FALSE], rig)

Init ==
  /\ disk = [f \in {} |-> File(Nothing, TRUE)]
  /\ writing = <<>>
  /\ ui = Fresh(FirstRig)
  /\ lidar = [id \in Sensors |-> Idle]
  /\ made = [projects |-> 0, sessions |-> 0, saves |-> 0, regs |-> 0, edits |-> 0, crashes |-> 0]

Spent ==
  [projects |-> MaxProjects, sessions |-> MaxSessions, saves |-> MaxSaves,
   regs |-> MaxRegs, edits |-> MaxEdits, crashes |-> MaxCrashes]
Ready == writing = <<>>
Calls == made.projects + made.sessions + made.saves + made.regs + made.edits
Made(what, max) ==
  /\ made[what] < max /\ Calls < MaxCalls
  /\ made' = [made EXCEPT ![what] = @ + 1]

-----------------------------------------------------------------------------
(* Projects *)

CreateProject ==
  /\ Ready /\ Made("projects", MaxProjects)
  /\ writing' = Atomically(ProjectFile(made.projects + 1), TRUE)
  /\ ui' = [ui EXCEPT !.project = made.projects + 1, !.state = "READY", !.shown = Nothing]
  /\ UNCHANGED <<disk, lidar>>

\* The captures of a session as openProject scans them: of each sensor, and of
\* merged clouds, the one the directory lists last.
Scans(d, p, s) ==
  LET Of(id) == {c \in CapturesOf(d, p, s) : c[1] = id}
      Maps1(id) == IF Of(id) = {} THEN {Nothing} ELSE {Pcd(d, CaptureMap(p, s, c)) : c \in Of(id)}
  IN {m \in [Ids -> UNION {Maps1(id) : id \in Ids}] : \A id \in Ids : m[id] \in Maps1(id)}

HasData(scan) == \E id \in Ids : ~Empty(scan[id])

\* What openProject finds in the captures: the first session, in directory
\* order, that has data; or nothing, after a look at every session, if in each
\* the captures listed last are empty.
Finds(d, u, p) ==
  LET sessions == SessionsOf(d, p)
      found    == UNION {{[session |-> s, scan |-> m] : m \in {x \in Scans(d, p, s) : HasData(x)}} : s \in sessions}
      none(s)  == [session |-> s, scan |-> [id \in Ids |-> Nothing]]
  IN IF sessions = {} THEN {none(u.session)}
     ELSE IF \A s \in sessions : \E m \in Scans(d, p, s) : ~HasData(m)
     THEN found \cup {none(s) : s \in sessions}
     ELSE found

\* openProject without captures: the map of some session, or the project's.
Fallbacks(d, p, s0) ==
  LET maps == {s \in SessionsOf(d, p) : ~Empty(Pcd(d, SessionMap(p, s)))} IN
  IF maps # {} THEN {[session |-> s, map |-> Pcd(d, SessionMap(p, s))] : s \in maps}
  ELSE {[session |-> s0, map |-> Pcd(d, ProjectMap(p))]}

\* The contexts openProject builds: no raw points, and not is_capturable.
Contexts(scan, map) ==
  LET named == {id \in Sensors : ~Empty(scan[id])} IN
  IF named # {} THEN [id \in named |-> Sensor(Nothing, scan[id])]
  ELSE IF ~Empty(map) THEN [id \in {"MERGED"} |-> Sensor(Nothing, map)]
  ELSE NoSensor

\* Mutant: a state the rest of the bridge does not know.
PresentedOpen(u) == [u EXCEPT !.state = "OPEN"]
\* The end of openProject: fused view, or the map of the only sensor.
Presented(u) ==
  IF DOMAIN u.sensors = {} THEN u
  ELSE LET v == Displayed(u) IN
       IF Dual(v) THEN v ELSE [v EXCEPT !.shown = v.sensors[TheOnly(v)].map]

\* Mutant: a project without points leaves the viewport as it is.
LoadedOver(u, p, s, scan, map) ==
  Presented([u EXCEPT
    !.project = p, !.session = s, !.state = "READY",
    !.kept = [id \in Sensors |-> scan[id]], !.shown = IF Empty(map) THEN @ ELSE map,
    !.sensors = Contexts(scan, map), !.able = FALSE,
    !.reg = NoReg, !.preview = FALSE, !.backup = Nothing, !.fused = Nothing])
Loaded(u, p, s, scan, map) ==
  Presented([u EXCEPT
    !.project = p, !.session = s, !.state = "READY",
    !.kept = [id \in Sensors |-> scan[id]], !.shown = map,
    !.sensors = Contexts(scan, map), !.able = FALSE,
    !.reg = NoReg, !.preview = FALSE, !.backup = Nothing, !.fused = Nothing])

\* openProject: what the bridge may be afterwards.
Opened(d, u, p) ==
  UNION {IF HasData(x.scan) THEN {Loaded(u, p, x.session, x.scan, x.scan["MERGED"])}
         ELSE {Loaded(u, p, y.session, x.scan, y.map) : y \in Fallbacks(d, p, x.session)} :
           x \in Finds(d, u, p)}

OpenProject(p) ==
  /\ Ready /\ p \in Listed(disk)
  /\ ui' \in Opened(disk, ui, p)
  /\ UNCHANGED <<disk, writing, lidar, made>>

SelectScanner(rig) ==
  /\ Ready /\ Made("edits", MaxEdits)
  /\ ui' = Rebuilt(ui, rig)
  /\ UNCHANGED <<disk, writing, lidar>>

-----------------------------------------------------------------------------
(* Captures *)

\* startCapture: a new session on disk and an empty bridge, then the sensors
\* one by one.  If one fails those started before it are stopped; there is no
\* capture then, but the new session and the empty maps stay.
StartCapture(started) ==
  LET s == made.sessions + 1
      u == IF DOMAIN ui.sensors = {} THEN Rebuilt(ui, FirstRig) ELSE ui
      all == DOMAIN u.sensors
      v == [u EXCEPT !.session = s, !.shown = Nothing,
                     !.kept = [id \in Sensors |-> Nothing],
                     !.sensors = [id \in all |-> Sensor(Nothing, Nothing)]] IN
  /\ Ready /\ ui.project # None /\ ~ui.capturing /\ u.able
  /\ started \subseteq all
  /\ Made("sessions", MaxSessions)
  /\ writing' = MakeDir(ui.project, s) \o
                Atomically(SessionFile(ui.project, s), [status |-> "ACTIVE", captures |-> {}])
  /\ ui' = IF started # all THEN v
           ELSE [v EXCEPT !.capturing = TRUE, !.canSave = FALSE, !.state = "CAPTURING"]
  /\ lidar' = [id \in Sensors |->
                 IF id \notin started THEN lidar[id]
                 ELSE [take |-> IF started = all THEN s ELSE None, map |-> Nothing]]
  /\ UNCHANGED disk

\* onTelemetryTick: the sensors in "heard" have new points.
Polled(u, maps) ==
  [u EXCEPT !.sensors = [id \in DOMAIN @ |->
                            IF id \in Sensors THEN Sensor(maps[id].map, Cleaned(maps[id].map, u.live))
                            ELSE @[id]],
            !.kept = [id \in Sensors |->
                        IF id \in DOMAIN u.sensors THEN Cleaned(maps[id].map, u.live) ELSE @[id]]]

Telemetry(heard) ==
  LET maps == [id \in Sensors |->
                 IF id \in heard THEN [lidar[id] EXCEPT !.map = Cloud({<<id, lidar[id].take>>}, FALSE, FALSE)]
                 ELSE lidar[id]]
      u == Polled(ui, maps) IN
  /\ Ready /\ ui.capturing /\ DOMAIN ui.sensors # {}
  /\ \A id \in heard : lidar[id].take # None /\ id \in DOMAIN ui.sensors
  /\ lidar' = maps
  /\ ui' = IF Dual(u) THEN Fused([u EXCEPT !.display = "FUSED"])
           ELSE [u EXCEPT !.shown = u.sensors[TheOnly(u)].map]
  /\ UNCHANGED <<disk, writing, made>>

\* stopCapture: the sensors of the rig are stopped and their maps collected;
\* the session's record says so.
StopCapture ==
  LET u == Polled(ui, lidar)
      v == IF Dual(u) THEN Fused([u EXCEPT !.display = "FUSED"])
           ELSE IF u.display \in DOMAIN u.sensors THEN [u EXCEPT !.shown = u.sensors[u.display].map]
           ELSE u IN
  /\ Ready /\ ui.capturing
  /\ ui' = [v EXCEPT !.capturing = FALSE, !.canSave = TRUE, !.state = "STOPPED"]
  /\ lidar' = [id \in Sensors |-> IF id \in DOMAIN u.sensors THEN [lidar[id] EXCEPT !.take = None] ELSE lidar[id]]
  /\ IF HomesOf(disk, ui.session) = {} THEN UNCHANGED writing
     ELSE \E p \in HomesOf(disk, ui.session) :
            writing' = Atomically(SessionFile(p, ui.session),
                                  [Json(disk, SessionFile(p, ui.session)) EXCEPT !.status = "STOPPED"])
  /\ UNCHANGED <<disk, made>>

\* The files of one sensor's capture; its record goes to a project that has a
\* directory of the session.
CaptureWrites(p, s, c, sensor, place, live) ==
  InPlace(CaptureMap(p, s, c), sensor.map)
    \o (IF live /\ ~Empty(sensor.raw) THEN InPlace(CaptureRaw(p, s, c), sensor.raw) ELSE <<>>)
    \o InPlace(Trajectory(p, s, c), TRUE)
    \o Atomically(CaptureFile(place, s, c), c[1])

\* The files of a save: the scanner's node record, then each sensor's capture.
SavedFiles(p, s, stamp, place) ==
  LET ids == SetToSeq(DOMAIN ui.sensors) IN
  MakeDir(p, s) \o Atomically(SessionNode(p, s), TRUE)
    \o (IF Holds(disk, LegacyNode(p, s)) THEN <<>> ELSE Atomically(LegacyNode(p, s), TRUE))
    \o InPlace(LegacyNode(p, s), TRUE)
    \o FlattenSeq([i \in DOMAIN ids |->
         CaptureWrites(p, s, <<ids[i], stamp>>, ui.sensors[ids[i]], place, ui.live)])

\* The session's record, in the project that answers for the session.
SavedRecord(p, s, stamp, home) ==
  IF home = None THEN <<>>
  ELSE Atomically(SessionFile(home, s),
         [status |-> "SAVED",
          captures |-> Json(disk, SessionFile(home, s)).captures \cup
                       {[id |-> <<id, stamp>>, at |-> p] : id \in DOMAIN ui.sensors}])

\* Mutant: the record goes first.
RecordFirst(p, s, stamp, place, home) ==
  SavedRecord(p, s, stamp, home) \o SavedFiles(p, s, stamp, place)
SaveWrites(p, s, stamp, place, home) ==
  SavedFiles(p, s, stamp, place) \o SavedRecord(p, s, stamp, home)

\* saveCapture
SaveCapture ==
  LET p == ui.project
      s == ui.session IN
  /\ Ready /\ ui.state = "STOPPED" /\ ui.canSave /\ s # None /\ p # None
  /\ Made("saves", MaxSaves)
  /\ \E place \in PlacesOf(disk, s) \cup {p} :
     \E home \in (IF HomesOf(disk, s) = {} THEN {None} ELSE HomesOf(disk, s)) :
       writing' = SaveWrites(p, s, made.saves + 1, place, home)
  /\ ui' = [ui EXCEPT !.canSave = FALSE, !.state = "SAVED"]
  /\ UNCHANGED <<disk, lidar>>

-----------------------------------------------------------------------------
(* The viewport, clean-up and export *)

Edit == Ready /\ Made("edits", MaxEdits)
Put  == Ready /\ Made("saves", MaxSaves)

\* What "FUSED" or the name of a sensor shows.
Selected(u, d) ==
  IF d = "FUSED" /\ ~Empty(u.fused) THEN u.fused
  ELSE IF d \in DOMAIN u.sensors THEN u.sensors[d].map
  ELSE u.shown

SetActiveDisplaySensor(d) ==
  /\ Edit /\ (ui.display # d \/ Empty(ui.shown))
  /\ ui' = [ui EXCEPT !.display = d, !.shown = Selected(ui, d),
                      !.preview = FALSE, !.backup = Nothing]
  /\ UNCHANGED <<disk, writing, lidar>>

\* setLiveCleanupEnabled: every sensor with raw points is filtered again.
SetLiveCleanup(live) ==
  LET Again(x) == IF Empty(x.raw) THEN x ELSE Sensor(x.raw, Cleaned(x.raw, live))
      now == [id \in DOMAIN ui.sensors |-> Again(ui.sensors[id])] IN
  /\ Edit /\ ui.live # live
  /\ ui' = [ui EXCEPT !.live = live, !.sensors = now,
                      !.shown = IF ui.display \in DOMAIN now /\ ~Empty(now[ui.display].raw)
                                THEN now[ui.display].map ELSE @]
  /\ UNCHANGED <<disk, writing, lidar>>

\* runPointCloudCleanup: the cloud that is cleaned is the one backed up by the
\* first preview, whatever is shown by now.
CleanUp ==
  LET source == IF ~ui.preview \/ Empty(ui.backup) THEN ui.shown ELSE ui.backup IN
  /\ Edit /\ ~Empty(source)
  /\ ui' = [ui EXCEPT !.backup = source, !.shown = Cleaned(source, TRUE), !.preview = TRUE]
  /\ UNCHANGED <<disk, writing, lidar>>

ResetCleanup ==
  /\ Ready /\ ui.preview /\ ~Empty(ui.backup)
  /\ ui' = [ui EXCEPT !.shown = ui.backup, !.backup = Nothing, !.preview = FALSE]
  /\ UNCHANGED <<disk, writing, lidar, made>>

\* Mutant: the raw backup of a session is written at every commit.
BackedUpAgain(d, p, s, backup, shown) ==
  InPlace(RawBackup(p, s), IF Empty(backup) THEN shown ELSE backup)
\* What was cleaned is kept beside its session's map, once.
BackedUp(d, p, s, backup, shown) ==
  IF Empty(backup) \/ Holds(d, RawBackup(p, s)) THEN <<>> ELSE InPlace(RawBackup(p, s), backup)

\* commitCleanedPointCloud: what is shown becomes the map of the sensor on
\* display, of the session and of the project.
CommitWrites(d, u) ==
  LET p == u.project
      s == u.session IN
  IF p = None THEN <<>>
  ELSE (IF s = None THEN <<>>
        ELSE MakeDir(p, s) \o BackedUp(d, p, s, u.backup, u.shown)
             \o InPlace(SessionMap(p, s), u.shown))
       \o InPlace(ProjectMap(p), u.shown)

Commit ==
  LET d == ui.display IN
  /\ Put /\ ~Empty(ui.shown)
  /\ writing' = CommitWrites(disk, ui)
  /\ ui' = [ui EXCEPT !.sensors = IF d \in DOMAIN @ THEN [@ EXCEPT ![d].map = ui.shown] ELSE @,
                      !.kept = IF d \in Sensors THEN [@ EXCEPT ![d] = ui.shown] ELSE @,
                      !.fused = IF d = "FUSED" THEN ui.shown ELSE @,
                      !.backup = Nothing, !.preview = FALSE]
  /\ UNCHANGED <<disk, lidar>>

\* exportActivePointCloud, to the project's export directory.
ExportCloud ==
  /\ Put /\ ~Empty(ui.shown) /\ ui.project # None
  /\ writing' = InPlace(Export(ui.project), ui.shown)
  /\ UNCHANGED <<disk, ui, lidar>>

-----------------------------------------------------------------------------
(* Fusion *)

\* fuseActiveMultiSensorMaps: also of one sensor.
Fuse ==
  LET c == Together(Maps(ui)) IN
  /\ Edit /\ ~Empty(c)
  /\ ui' = [ui EXCEPT !.fused = c, !.display = "FUSED", !.shown = c]
  /\ UNCHANGED <<disk, writing, lidar>>

\* saveFusedMapToProject: into the current session, or a new one.
SaveFused ==
  LET p == ui.project
      s == IF ui.session = None THEN made.sessions + 1 ELSE ui.session
      c == <<"MERGED", 0>> IN
  /\ Ready /\ ~Empty(ui.fused) /\ p # None
  /\ IF ui.session = None THEN Made("sessions", MaxSessions) ELSE Made("saves", MaxSaves)
  /\ \E place \in PlacesOf(disk, s) \cup {p} :
       writing' = MakeDir(p, s)
         \o InPlace(SessionMap(p, s), ui.fused) \o InPlace(ProjectMap(p), ui.fused)
         \o InPlace(CaptureMap(p, s, c), ui.fused)
         \o Atomically(CaptureFile(place, s, c), "MERGED")
         \o InPlace(CaptureFile(p, s, c), "MERGED")
  /\ UNCHANGED <<disk, ui, lidar>>

-----------------------------------------------------------------------------
(* Registration *)

\* The clouds the dialog lists of a project: session maps and captures.
ProjectClouds(d, p) ==
  {f \in DOMAIN d : f[1] = "map.pcd" /\ Len(f) \in {3, 4} /\ f[2] = p}

\* updateRegistrationDisplayPoints
Overlaid(u) ==
  IF ~u.reg.on THEN u
  ELSE [u EXCEPT !.shown = CASE u.view = 1 -> u.reg.ref
                             [] u.view = 2 -> u.reg.mov
                             [] u.view = 0 /\ u.tinted -> [Together({u.reg.ref, u.reg.mov}) EXCEPT !.tint = TRUE]
                             [] u.view = 0 /\ ~u.tinted -> u.reg.orig]

\* The session a registration is saved in: the current one, else one of the
\* project's, else a new one.
RegSessions(p) ==
  IF ui.session # None THEN {ui.session}
  ELSE LET listed == {s \in SessionsOf(disk, p) : Read(disk, SessionFile(p, s))} IN
       IF listed # {} THEN listed ELSE {made.sessions + 1}

RunRegistration(ref, mov) ==
  LET p == IF ui.project # None THEN ui.project ELSE ref[2]
      r == made.regs + 1
      a == Pcd(disk, ref)
      b == Pcd(disk, mov) IN
  /\ Ready /\ ref # mov /\ ~Empty(a) /\ ~Empty(b)
  /\ \E s \in RegSessions(p) \cap Sessions :
       /\ made' = [made EXCEPT !.regs = r, !.sessions = IF s > @ THEN s ELSE @]
       /\ r <= MaxRegs /\ Calls < MaxCalls
       /\ writing' = MakeDir(p, s)
            \o InPlace(Combined(p, s, r), Together({a, b})) \o InPlace(Aligned(p, s, r), b)
            \o Atomically(RegFile(p, s, r), [ref |-> ref, home |-> <<p, s, r>>])
       /\ ui' = Overlaid([ui EXCEPT !.tinted = TRUE,
                  !.reg = [on |-> TRUE, ref |-> a, mov |-> b, orig |-> Together({a, b}), home |-> <<p, s, r>>]])
  /\ UNCHANGED <<disk, lidar>>

\* loadRegistration: the record and the clouds it names, wherever it is.
LoadRegistration(f) ==
  LET home == Json(disk, f).home
      ref  == Json(disk, f).ref IN
  /\ Edit /\ Read(disk, f)
  /\ ui' = Overlaid([ui EXCEPT !.reg =
             [on |-> TRUE, ref |-> Pcd(disk, ref), home |-> home,
              mov  |-> Pcd(disk, Aligned(home[1], home[2], home[3])),
              orig |-> Pcd(disk, Combined(home[1], home[2], home[3]))]])
  /\ UNCHANGED <<disk, writing, lidar>>

ViewRegistration(view, tinted) ==
  /\ Edit /\ (view = ui.view) # (tinted = ui.tinted) \* one of the two at a time
  /\ ui' = Overlaid([ui EXCEPT !.view = view, !.tinted = tinted])
  /\ UNCHANGED <<disk, writing, lidar>>

ClearRegistration ==
  /\ Ready /\ ui.reg.on
  /\ ui' = [ui EXCEPT !.reg = NoReg, !.shown = IF ui.display \in DOMAIN ui.sensors
                                               THEN ui.sensors[ui.display].map ELSE @]
  /\ UNCHANGED <<disk, writing, lidar, made>>

CombinedOf(reg) == Pcd(disk, Combined(reg.home[1], reg.home[2], reg.home[3]))

\* saveRegistrationAsSessionMap: a copy into the current session, if it is
\* a session of the open project.
SaveAsSessionMap ==
  LET p == ui.project
      s == ui.session IN
  /\ Put /\ ui.reg.on /\ p # None /\ s # None /\ Holds(disk, SessionDir(p, s))
  /\ writing' = InPlace(SessionMap(p, s), CombinedOf(ui.reg))
  /\ UNCHANGED <<disk, ui, lidar>>

\* saveRegistrationAsNewProject: a project of one session that holds the
\* combined cloud three times, and then opens.
NewProjectFiles(p, s, c, reg) ==
  LET cloud == CombinedOf(reg) IN
  MakeDir(p, s) \o Atomically(SessionFile(p, s), [status |-> "CREATED", captures |-> {}])
    \o InPlace(SessionMap(p, s), cloud) \o InPlace(ProjectMap(p), cloud)
    \o InPlace(CaptureMap(p, s, c), cloud)
    \o Atomically(CaptureFile(p, s, c), c[1]) \o InPlace(CaptureFile(p, s, c), c[1])
    \o Atomically(RegFile(p, s, reg.home[3]),
                  [Json(disk, RegFile(reg.home[1], reg.home[2], reg.home[3])) EXCEPT !.home = reg.home])

\* Mutant: the project's record is written when all is in place.
NewProjectLast(p, s, c, reg) == NewProjectFiles(p, s, c, reg) \o Atomically(ProjectFile(p), TRUE)
NewProjectWrites(p, s, c, reg) == Atomically(ProjectFile(p), TRUE) \o NewProjectFiles(p, s, c, reg)

SaveAsNewProject ==
  LET p == made.projects + 1
      s == made.sessions + 1 IN
  /\ Ready /\ ui.reg.on /\ p <= MaxProjects /\ s <= MaxSessions /\ Calls < MaxCalls
  /\ made' = [made EXCEPT !.projects = p, !.sessions = s]
  /\ writing' = NewProjectWrites(p, s, <<"MERGED", 0>>, ui.reg)
  /\ ui' \in Opened(Applied(disk, writing'), ui, p)
  /\ UNCHANGED <<disk, lidar>>

-----------------------------------------------------------------------------
(* The disk, and the end of the application *)

FinishWriting ==
  /\ ~Ready
  /\ disk' = Applied(disk, writing) /\ writing' = <<>>
  /\ UNCHANGED <<ui, lidar, made>>

\* The application dies and is started again; the daemons' recordings are lost
\* with it.
Crash ==
  /\ ~Ready /\ made.crashes < MaxCrashes
  /\ made' = [Spent EXCEPT !.crashes = made.crashes + 1]
  /\ disk' \in Cuts(disk, writing) /\ writing' = <<>>
  /\ ui' = Fresh(FirstRig)
  /\ lidar' = [id \in Sensors |-> Idle]

-----------------------------------------------------------------------------
(* Properties *)

Recordings == Sensors \X Sessions
AnyCloud   == [of : SUBSET Recordings, clean : BOOLEAN, tint : BOOLEAN]

\* The bridge's members and the clouds on disk have their types.
TypeOK ==
  /\ \A f \in DOMAIN disk : disk[f].whole \in BOOLEAN /\ (f[1] \in Clouds => disk[f].body \in AnyCloud)
  /\ ui.project \in Projects \cup {None} /\ ui.session \in Sessions \cup {None}
  /\ ui.state \in {"NO_PROJECT", "READY", "CAPTURING", "STOPPED", "SAVED"}
  /\ ui.display \in Ids \cup {"FUSED", None}
  /\ DOMAIN ui.sensors \subseteq Ids
  /\ \A id \in DOMAIN ui.sensors : ui.sensors[id] \in [raw : AnyCloud, map : AnyCloud]
  /\ ui.kept \in [Sensors -> AnyCloud]
  /\ {ui.fused, ui.shown, ui.backup, ui.reg.ref, ui.reg.mov, ui.reg.orig} \subseteq AnyCloud
  /\ lidar \in [Sensors -> [take : Sessions \cup {None}, map : AnyCloud]]

\* A session whose record says SAVED has every capture it lists on disk, map
\* and trajectory, whole, wherever a save was interrupted (saveCapture writes
\* these in place, and the record after them).
SavedIsWhole == \A f \in DOMAIN disk :
  f[1] = "session.json" /\ disk[f].body.status = "SAVED" =>
    \A c \in disk[f].body.captures : /\ Read(disk, CaptureMap(c.at, f[3], c.id))
                                     /\ Read(disk, Trajectory(c.at, f[3], c.id))

\* Whatever is on disk belongs to a project that the application lists: no
\* crash hides sessions, captures or registrations from the user
\* (createProject and saveRegistrationAsNewProject write the record first).
NothingOrphaned == \A f \in DOMAIN disk : f[2] \in Listed(disk)

\* What was recorded stays: no clean-up, commit, registration or fusion ever
\* writes over the capture of a sensor or over a session's raw backup
\* (commitCleanedPointCloud's test, the time stamps in saveCapture's ids).
Evidence(f) == \/ f[1] = "map_raw_backup.pcd"
               \/ f[1] = "map.pcd" /\ Len(f) = 4 /\ f[4][1] \in Sensors
EvidenceKept == [][\A f \in DOMAIN disk :
  disk[f].whole /\ Evidence(f) => f \in DOMAIN disk' /\ disk'[f] = disk[f]]_vars

\* A project that is opened shows points of its own files only, and shows some
\* if it has any map with points, through all the fallbacks of openProject,
\* unless a session has an empty capture beside another of the same sensor.
PointsOf(d, p) == UNION {d[f].body.of : f \in {g \in DOMAIN d : g[2] = p /\ g[1] = "map.pcd"}}
Hides(d, p) == \E s \in SessionsOf(d, p) : \E a, b \in CapturesOf(d, p, s) :
  a # b /\ a[1] = b[1] /\ Empty(Pcd(d, CaptureMap(p, s, a)))
OpensOwn == [][LET p == ui'.project IN p # None /\ OpenProject(p) =>
  /\ ui'.shown.of \subseteq PointsOf(disk, p)
  /\ PointsOf(disk, p) # {} /\ ~Hides(disk, p) => ~Empty(ui'.shown)]_vars

\* A project that has a map with points shows points when it is opened (the
\* tests' "Restored project must have hasMapData"): it need not, when a capture
\* is under way as another session is opened, and then saved into that session.
Reopens == Ready => \A p \in Listed(disk) :
  PointsOf(disk, p) # {} => \A u \in Opened(disk, ui, p) : ~Empty(u.shown)
=============================================================================
