---------------------------- MODULE DeviceCatalog ----------------------------
(***************************************************************************)
(* Which devices are attached, which profiles describe them, and which     *)
(* scanner configurations are made of them: the device profiler's          *)
(* discovery, the profiles and configurations the storage engine keeps,    *)
(* and the calls of the "Configure sensors" dialog.                        *)
(*                                                                         *)
(* An identifier is the sequence of its words: what the code tests with    *)
(* find or contains is whether some words follow each other in it.  As in  *)
(* Workspace, a call is followed by its writing, which a crash may cut     *)
(* off.                                                                    *)
(***************************************************************************)
EXTENDS StorageEngine

CONSTANTS
  Units,    \* physical devices
  Facts,    \* what the bus says of each: [kind, model, serial]
  Sockets,  \* where they can be attached
  Catalog,  \* models in the vendors' catalogue, with their family
  Titles,   \* the names that can be given to a configuration, as their slugs
  MaxParts, \* bound on the devices of a configuration
  MaxMoves, MaxOrders, MaxFalls \* bounds: attaching, calls that write, crashes

\* "shut" is a camera whose nodes the application may not open.
Kinds == {"camera", "shut", "serial", "usb", "lidar"}
Video == {"camera", "shut"}
ASSUME FactsAssumption == Facts \in [Units -> [kind : Kinds, model : STRING, serial : STRING]]
ASSUME UnitsAssumption == IsFiniteSet(Units)
\* What the bus calls a model (vendor and product) is no part of an identifier
\* but the one it stands for.
ASSUME ModelsAssumption ==
  \A u \in Units : Facts[u].model \notin {"camera", "usb", "robosense", "airy", "01"}
                                          \cup {Facts[v].serial : v \in Units} \cup Sockets
ASSUME TitlesAssumption == Titles \subseteq Seq(STRING)
ASSUME CatalogBounds   == {MaxParts, MaxMoves, MaxOrders, MaxFalls} \subseteq Nat

VARIABLES
  host,    \* where each attached unit is, and its /dev/video node
  shelf,   \* the profiles and configurations on disk
  storing, \* what the call under way still has to write
  panel,   \* what the bridge shows: devices, scanners, the selection
  tally    \* moves, orders and falls so far

catalogVars == <<host, shelf, storing, panel, tally>>

NoId   == <<>>
NoNode == 0
Words(id) == {id[i] : i \in DOMAIN id}
\* QString::contains
HasWords(id, part) ==
  \E i \in 0..(Len(id) - Len(part)) : \A j \in DOMAIN part : id[i + j] = part[j]
HasSerial(u) == Facts[u].serial # ""

-----------------------------------------------------------------------------
(* Discovery *)

\* The identity of a device: its model, and its serial number or, without
\* one, the place it is attached at.  All lidars have the same.
CameraId(u, tail) == <<"camera", Facts[u].model, tail>>
UsbId(u, tail)    == <<"usb", Facts[u].model, tail>>
LidarId           == <<"robosense", "airy", "01">>
DeviceId(u, socket) ==
  LET tail == IF HasSerial(u) THEN Facts[u].serial ELSE socket IN
  CASE Facts[u].kind = "lidar" -> LidarId
    [] Facts[u].kind \in Video -> CameraId(u, tail)
    [] OTHER                   -> UsbId(u, tail)

\* A video node that can be opened and captures is the device's endpoint.
Captures(kind) == kind = "camera"
Endpoint(dev)  == IF Captures(Facts[dev.unit].kind) THEN dev.node ELSE NoNode

\* The streams a device of a kind is known to have.
Streams(kind) ==
  CASE Captures(kind)  -> {"RGB"}
    [] kind = "lidar"  -> {"POINT_CLOUD", "IMU"}
    [] kind = "serial" -> {"SERIAL"}
    [] OTHER           -> {}

\* CapabilityMatcher::matchBackend
Family(streams) ==
  CASE {"POINT_CLOUD", "IMU"} \subseteq streams -> "LIO"
    [] {"DEPTH", "RGB"} \subseteq streams       -> "RGBD"
    [] "RGB" \in streams /\ streams \cap {"DEPTH", "POINT_CLOUD"} = {} -> "MONOCULAR"
    [] {"STEREO", "IMU"} \subseteq streams      -> "VIO"
    [] OTHER                                    -> "UNKNOWN"

\* The cameras, one per parent of the video nodes, and what else is on the
\* bus or on the network.
Device(h, u) == [unit |-> u, id |-> DeviceId(u, h.at[u]), node |-> h.node[u]]
Devices(h)   == {Device(h, u) : u \in DOMAIN h.at}
KindOf(dev)  == Facts[dev.unit].kind

\* The devices that may come first among some: cameras are listed before the
\* others, by node; the bus in no order; the network last.
Firsts(devs) ==
  LET Of(kinds) == {x \in devs : KindOf(x) \in kinds} IN
  IF Of(Video) # {} THEN {x \in Of(Video) : \A y \in Of(Video) : x.node <= y.node}
  ELSE IF Of({"serial", "usb"}) # {} THEN Of({"serial", "usb"}) ELSE devs

ProfileAt(folder, stem) == <<folder, stem>>
ConfigAt(id)            == <<"scanner_configs", id>>
ProfilesIn(d, folder)   == {d[f].body : f \in {g \in DOMAIN d : g[1] = folder /\ d[g].whole}}

\* A profile is a device's by identity, or by a serial number, also one that
\* is part of the profile's identifier.  (No profile states a vendor and a
\* product, the third test never succeeds.)
Fits(p, dev) ==
  \/ p.id = dev.id
  \/ HasSerial(dev.unit) /\ (Facts[dev.unit].serial \in Words(p.id) \/ Facts[dev.unit].serial = p.serial)

\* The profiles a device may be shown with: experimental ones go first.
Matches(d, dev) ==
  LET In(folder) == {p.id : p \in {q \in ProfilesIn(d, folder) : Fits(q, dev)}} IN
  IF In("experimental") # {} THEN In("experimental")
  ELSE IF In("validated") # {} THEN In("validated") ELSE {NoId}

\* discoverPhysicalDevices: every device that is attached, "UNPROFILED" if
\* nothing fits it.
ShownDevice(dev, id) == [unit |-> dev.unit, id |-> dev.id, node |-> dev.node, profile |-> id,
                         status |-> IF id = NoId THEN "UNPROFILED" ELSE "PROFILED"]
Discovered(d, h) ==
  LET Ids1 == UNION {Matches(d, dev) : dev \in Devices(h)} IN
  {{ShownDevice(dev, m[dev]) : dev \in Devices(h)} :
     m \in {f \in [Devices(h) -> Ids1] : \A dev \in Devices(h) : f[dev] \in Matches(d, dev)}}

-----------------------------------------------------------------------------
(* Profiles and configurations on disk *)

Folders == <<"draft", "experimental", "validated", "rejected">>

\* listDeviceProfiles: the stems of all files.
Stems(d) == {f[2] : f \in {g \in DOMAIN d : g[1] # "scanner_configs"}}

\* loadDeviceProfile: by file name in the first folder that has one that can
\* be read, else by the identifier inside.
FirstOf(S) == CHOOSE i \in S : \A j \in S : i <= j
Loadable(d, key) ==
  LET inside(i) == {p \in ProfilesIn(d, Folders[i]) : p.id = key}
      named  == {i \in 1..4 : Read(d, ProfileAt(Folders[i], key))}
      within == {i \in 1..4 : inside(i) # {}} IN
  IF named # {} THEN {Json(d, ProfileAt(Folders[FirstOf(named)], key))}
  ELSE IF within # {} THEN inside(FirstOf(within))
  ELSE {}

\* listScannerConfigs and loadScannerConfig: by file name, else by the
\* identifier inside.
Configs(d) == {d[f].body : f \in {g \in DOMAIN d : g[1] = "scanner_configs" /\ d[g].whole}}
IsConfig(d, id) == Read(d, ConfigAt(id)) \/ \E c \in Configs(d) : c.id = id
ConfigOf(d, id) ==
  IF Read(d, ConfigAt(id)) THEN Json(d, ConfigAt(id)) ELSE CHOOSE c \in Configs(d) : c.id = id

\* generateProfileFromPhysicalDevice.  Whatever speaks CDC-ACM is a Watcher.
NewProfile(dev, now) ==
  LET s == Facts[dev.unit].serial IN
  [id     |-> IF KindOf(dev) = "serial"
              THEN <<"seeed", "sensecap", "watcher", IF s = "" THEN "01" ELSE s>> ELSE dev.id,
   serial |-> IF s = "" THEN "UNKNOWN" ELSE s,
   family |-> Family(Streams(KindOf(dev))),
   node   |-> Endpoint(dev),
   of     |-> dev.unit, made |-> now]

\* seedDeviceProfile
Template(m) ==
  [id |-> <<m.model, "template">>, serial |-> "", family |-> m.family, node |-> NoNode,
   of |-> "nobody", made |-> 0]

\* Mutant: in place as well.
SaveConfigTorn(c) == InPlace(ConfigAt(c.id), c)
\* saveExperimentalProfile writes in place, saveScannerConfig does not.
SaveProfile(p)  == InPlace(ProfileAt("experimental", p.id), p)
SaveConfig(c)   == Atomically(ConfigAt(c.id), c)

-----------------------------------------------------------------------------
(* What the bridge shows *)

\* The part a sensor plays, by the family of its profile.
Role(family, node) ==
  CASE family = "LIO"  -> "AIRY"
    [] family = "RGBD" -> "GEMINI"
    [] family = "VIO"  -> "VITURE"
    [] family = "MONOCULAR" /\ node # NoNode -> "CAMERA"
    [] OTHER           -> "UNSUPPORTED"

\* Without a profile the identifier decides.
Guessed(id) ==
  CASE Words(id) \cap {"airy", "robosense"} # {} -> "LIO"
    [] Words(id) \cap {"gemini", "orbbec"} # {}  -> "RGBD"
    [] Words(id) \cap {"viture", "luma"} # {}    -> "VIO"
    [] OTHER                                     -> "UNKNOWN"

\* A camera can capture if its node exists, whichever camera that is now.
Resolved(h, id, p) ==
  LET role == Role(p.family, p.node) IN
  [id |-> id, role |-> role, node |-> p.node, of |-> p.of, made |-> p.made,
   able |-> role # "UNSUPPORTED" /\ (role = "CAMERA" => \E u \in DOMAIN h.node : h.node[u] = p.node)]
Contexts1(d, h, id) ==
  IF Loadable(d, id) # {} THEN {Resolved(h, id, p) : p \in Loadable(d, id)}
  ELSE {Resolved(h, id, [family |-> Guessed(id), node |-> NoNode, of |-> "nobody", made |-> 0])}

\* rebuildActiveSensorsForSelection: the parts of the composite scanner or of
\* a configuration, or the one profile.
Composite == {<<"scanar", "01">>, <<"scanar">>}
TwoParts  == {<<"robosense", "airy", "01">>, <<"orbbec", "gemini", "336l", "01">>}
Parts(d, id) ==
  IF id \in Composite THEN TwoParts
  ELSE IF IsConfig(d, id) THEN ConfigOf(d, id).instances
  ELSE {id}
InUse(d, h, id) ==
  {{f[part] : part \in Parts(d, id)} :
     f \in {g \in [Parts(d, id) -> UNION {Contexts1(d, h, part) : part \in Parts(d, id)}] :
              \A part \in Parts(d, id) : g[part] \in Contexts1(d, h, part)}}

Picked(d, h, pan, id) == {[pan EXCEPT !.pick = id, !.sensors = s] : s \in InUse(d, h, id)}

\* refreshData: the configurations, then the profiles; the first is selected
\* if none is.
Listing(d) == [configs  |-> {c.id : c \in Configs(d)},
               profiles |-> {p.id : p \in UNION {Loadable(d, stem) : stem \in Stems(d)}}]
HeadsOf(list) == IF list.configs # {} THEN list.configs ELSE list.profiles
Refreshed(d, h, pan) ==
  LET listed == [pan EXCEPT !.scanners = Listing(d)] IN
  IF pan.pick # NoId \/ HeadsOf(Listing(d)) = {} THEN {listed}
  ELSE UNION {Picked(d, h, listed, id) : id \in HeadsOf(Listing(d))}

\* refreshDiscovery
Scanned(d, h, pan) == {[pan EXCEPT !.devices = found] : found \in Discovered(d, h)}
Both(d, h, pan)    == UNION {Scanned(d, h, q) : q \in Refreshed(d, h, pan)}

Opening == [devices |-> {}, scanners |-> [configs |-> {}, profiles |-> {}], pick |-> NoId, sensors |-> {}]

CatalogInit(shipped) ==
  /\ host = [at |-> [u \in {} |-> ""], node |-> [u \in {} |-> NoNode]]
  /\ shelf = shipped
  /\ storing = <<>>
  /\ panel \in Both(shelf, host, Opening)
  /\ tally = [moves |-> 0, orders |-> 0, falls |-> 0]

-----------------------------------------------------------------------------
(* The devices come and go *)

\* A camera is given the lowest node that is free.
FreeNode(h) == CHOOSE n \in 1..(Cardinality(Units) + 1) :
                 /\ \A u \in DOMAIN h.node : h.node[u] # n
                 /\ \A m \in 1..(n - 1) : \E u \in DOMAIN h.node : h.node[u] = m

Moved == tally.moves < MaxMoves /\ tally' = [tally EXCEPT !.moves = @ + 1]

Attach(u, socket) ==
  /\ storing = <<>> /\ u \notin DOMAIN host.at
  /\ \A v \in DOMAIN host.at : host.at[v] # socket
  /\ Moved
  /\ host' = [at   |-> [v \in DOMAIN host.at \cup {u} |-> IF v = u THEN socket ELSE host.at[v]],
              node |-> [v \in DOMAIN host.at \cup {u} |->
                          IF v # u THEN host.node[v]
                          ELSE IF Facts[u].kind \in Video THEN FreeNode(host) ELSE NoNode]]
  /\ UNCHANGED <<shelf, storing, panel>>

Detach(u) ==
  LET rest == DOMAIN host.at \ {u} IN
  /\ storing = <<>> /\ u \in DOMAIN host.at /\ Moved
  /\ host' = [at |-> [v \in rest |-> host.at[v]], node |-> [v \in rest |-> host.node[v]]]
  /\ UNCHANGED <<shelf, storing, panel>>

-----------------------------------------------------------------------------
(* The dialog *)

RefreshDiscovery ==
  /\ storing = <<>>
  /\ panel' \in Scanned(shelf, host, panel)
  /\ UNCHANGED <<host, shelf, storing, tally>>

\* A call that writes, and then shows what it wrote.
Order(writes, next) ==
  /\ storing = <<>> /\ tally.orders < MaxOrders
  /\ tally' = [tally EXCEPT !.orders = @ + 1]
  /\ storing' = writes
  /\ panel' \in next
  /\ UNCHANGED <<host, shelf>>

\* Mutant: the device as the list showed it.
TargetsShown(id) == {[unit |-> x.unit, id |-> x.id, node |-> x.node] : x \in {y \in panel.devices : y.id = id}}
\* The device createProfileForDevice finds for an identifier: the first one
\* that has it, or whose vendor and product the identifier names.
Targets(id) == Firsts({x \in Devices(host) : x.id = id \/ Facts[x.unit].model \in Words(id)})

\* Mutant: it refreshes before it saves.
RefreshedAfterLate(writes) == Both(shelf, host, panel)
RefreshedAfter(writes) == Both(Applied(shelf, writes), host, panel)

\* createProfileForDevice
CreateProfile(shown) ==
  \E dev \in Targets(shown.id) :
    LET p == NewProfile(dev, tally.moves)
        writes == SaveProfile(p) IN
    /\ shown \in panel.devices
    /\ Order(writes, RefreshedAfter(writes))

\* createTemplateProfileFromModel
CreateTemplate(m) ==
  LET writes == SaveProfile(Template(m)) IN
  Order(writes, RefreshedAfter(writes))

\* selectProfileForCapture: the first scanner that has the identifier, or
\* whose own contains it.
SelectProfile(id) ==
  LET Of(ids) == {x \in ids : x = id \/ HasWords(x, id)} IN
  /\ storing = <<>>
  /\ \E pan \in Refreshed(shelf, host, panel) :
     \E x \in (IF Of(pan.scanners.configs) # {} THEN Of(pan.scanners.configs)
               ELSE IF Of(pan.scanners.profiles) # {} THEN Of(pan.scanners.profiles) ELSE {id}) :
       panel' \in Picked(shelf, host, pan, x)
  /\ UNCHANGED <<host, shelf, storing, tally>>

\* saveCustomScannerConfig: the identifier is made of the name, and whatever
\* had it is gone.
SaveCustomConfig(slug, instances) ==
  LET c == [id |-> <<"cfg">> \o slug, instances |-> instances, calib |-> {}]
      writes == SaveConfig(c)
      d == Applied(shelf, writes) IN
  /\ instances \subseteq panel.scanners.profiles /\ Cardinality(instances) \in 1..MaxParts
  /\ Order(writes, UNION {Picked(d, host, pan, c.id) : pan \in Refreshed(d, host, panel)})

\* The configuration a calibration goes to: the selected one, else some other
\* with as many sensors, else a new one.
Calibrated(with) ==
  LET big == {c \in Configs(shelf) : Cardinality(c.instances) >= Cardinality(with)} IN
  IF IsConfig(shelf, panel.pick) THEN {ConfigOf(shelf, panel.pick)}
  ELSE IF big # {} THEN big
  ELSE {[id |-> <<"cfg", "calibrated", "multisensor">>, instances |-> {s.id : s \in with}, calib |-> {}]}

\* calibrateActiveScannerExtrinsics: every pair that converges is written.
\* (Which of the two is the reference is the order of the sensors.)
Calibrate(with, ref, done) ==
  /\ with \subseteq panel.sensors /\ Cardinality(with) >= 2
  /\ ref \in with /\ done # {} /\ done \subseteq with \ {ref}
  /\ \E c \in Calibrated(with) :
       LET writes == SaveConfig([c EXCEPT !.calib = @ \cup {{ref.id, s.id} : s \in done}]) IN
       Order(writes, Refreshed(Applied(shelf, writes), host, panel))

-----------------------------------------------------------------------------
FinishStoring ==
  /\ storing # <<>>
  /\ shelf' = Applied(shelf, storing) /\ storing' = <<>>
  /\ UNCHANGED <<host, panel, tally>>

\* The application dies in the middle of a write and is started again.
Fall ==
  /\ storing # <<>> /\ tally.falls < MaxFalls
  /\ tally' = [tally EXCEPT !.falls = @ + 1]
  /\ shelf' \in Cuts(shelf, storing) /\ storing' = <<>>
  /\ panel' \in Both(shelf', host, Opening)
  /\ UNCHANGED host

CatalogTypes ==
  /\ DOMAIN host.at = DOMAIN host.node /\ DOMAIN host.at \subseteq Units
  /\ \A u \in DOMAIN host.at : host.at[u] \in Sockets /\ host.node[u] \in 0..Cardinality(Units)
  /\ \A f \in DOMAIN shelf : f[1] \in {"scanner_configs"} \cup {Folders[i] : i \in DOMAIN Folders}
  /\ \A x \in panel.devices : /\ x.unit \in Units
                              /\ (x.status = "PROFILED") = (x.profile # NoId)
  /\ \A s \in panel.sensors : s.role \in {"AIRY", "GEMINI", "VITURE", "CAMERA", "UNSUPPORTED"}

-----------------------------------------------------------------------------
(* Properties *)

\* A device is "PROFILED" as soon as its profile is created, as
\* createProfileForDevice means to ("so this device immediately becomes
\* PROFILED in the GUI!"), if no other of its model is attached and it is not
\* a serial device without a number: of the others, the profile is written
\* for the first of the model, or under an identifier nothing is found by.
Alone(u)    == \A v \in DOMAIN host.at \ {u} : Facts[v].model # Facts[u].model
Nameless(u) == Facts[u].kind = "serial" /\ ~HasSerial(u)
ProfiledAtOnce == [][\A dev \in panel.devices :
  /\ dev.unit \in DOMAIN host.at /\ Alone(dev.unit) /\ ~Nameless(dev.unit)
  /\ \E x \in panel'.devices : x.unit = dev.unit /\ x.status = "UNPROFILED"
  => ~CreateProfile(dev)]_catalogVars

\* A camera the bridge would capture from is at the node its profile was
\* written for, unless a device has been moved since then: node numbers are
\* handed out anew, and rebuildActiveSensorsForSelection only looks whether
\* there is a node of that name.
RightCamera == \A s \in panel.sensors :
  s.role = "CAMERA" /\ s.able /\ s.made = tally.moves =>
    s.of \in DOMAIN host.node /\ host.node[s.of] = s.node

\* A configuration is never lost, whatever crashes, and its calibration only
\* when one is saved under a name with the same slug
\* (saveCustomScannerConfig, calibrateActiveScannerExtrinsics).
ConfigsKept == [][\A c \in Configs(shelf) : \E n \in Configs(shelf') :
  n.id = c.id /\ (c.calib \subseteq n.calib \/ n.calib = {})]_catalogVars
=============================================================================
