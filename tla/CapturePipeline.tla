--------------------------- MODULE CapturePipeline ---------------------------
(***************************************************************************)
(* A capture from end to end: the bridge starts, polls and stops the       *)
(* sensors of the scanner one after another; for each it drives a sensor   *)
(* adapter and a SLAM backend, which share one connection to the sensor's  *)
(* daemon.  The user-interface thread waits for every answer, up to a      *)
(* time-out that leaves the connection open.                               *)
(***************************************************************************)
EXTENDS IpcStream, SequencesExt

CONSTANTS
  Active,                                    \* activeSensors_, in order
  MaxStarts, MaxScans, MaxLate, MaxCrashes,  \* bounds
  MaxBacklog  \* bound: no tick while more requests than this are unserved or their answers unread

Sensor == {Active[i] : i \in 1..Len(Active)}

ASSUME ActiveAssumption ==
  /\ Active \in Seq(Sensor) /\ Active # <<>>
  /\ \A i, j \in 1..Len(Active) : Active[i] = Active[j] => i = j
ASSUME NoneAssumption   == None \notin Nat
ASSUME BoundsAssumption == {MaxStarts, MaxScans, MaxLate, MaxCrashes, MaxBacklog} \subseteq Nat

VARIABLES
  daemon,   \* the daemon process of each sensor
  link,     \* the connection: requests sent, answers not read
  orphans,  \* requests of connections the client has closed
  client,   \* adapter and backend of each sensor
  ui,       \* what the user-interface thread is doing
  bridge,   \* captureState_, and the map and trajectory of each sensor
  began,    \* history: the last point scanned before the capture began
  due,      \* history: what each daemon had when the stop was asked for
  failed,   \* history: a start was reported to have failed
  spent     \* what the bounds have left

pipes == <<daemon, link, orphans>>
history == <<began, due>>
vars  == <<daemon, link, orphans, client, ui, bridge, began, due, failed, spent>>

\* "broken": the daemon at the other end is gone and nobody has closed the socket.
Link   == [state : {"closed", "open", "broken"}, toDaemon : Seq(Request), toClient : Seq(Answer)]
Closed == [state |-> "closed", toDaemon |-> <<>>, toClient |-> <<>>]
Fresh  == [state |-> "open", toDaemon |-> <<>>, toClient |-> <<>>]

Client == [connected : BOOLEAN, streaming : BOOLEAN, \* AirySensorAdapter
           running : BOOLEAN,                        \* AiryLioBackend
           map : SUBSET Point, trajectory : SUBSET Point]

\* The steps at which a call is under way, and the request each makes.
RequestAt == [ping |-> "PING", reping |-> "PING", start |-> "START",
              telemetry |-> "TELEMETRY", trajectory |-> "TRAJECTORY", new |-> "NEW",
              all |-> "ALL", halt |-> "STOP", hush |-> "STOP"]
Local == {"enter", "connect", "respawn", "collect", "idle"}

Ui == [op : {"idle", "start", "rollback", "tick", "stop"},
       todo : Seq(Sensor),         \* the sensors the loop has still to visit
       started : Seq(Sensor),      \* started_sensors
       half : {"adapter", "backend"}, \* whose start() it is
       at : Local \cup DOMAIN RequestAt,
       sent : BOOLEAN, dirty : BOOLEAN]
Resting == [op |-> "idle", todo |-> <<>>, started |-> <<>>, half |-> "adapter",
            at |-> "idle", sent |-> FALSE, dirty |-> FALSE]

\* A daemon is a session of its own and outlives the application: the last run
\* may have left one idle.
Init ==
  /\ daemon \in [Sensor -> {Dead, Spawned}]
  /\ link    = [s \in Sensor |-> Closed]
  /\ orphans = [s \in Sensor |-> <<>>]
  /\ client  = [s \in Sensor |-> [connected |-> FALSE, streaming |-> FALSE, running |-> FALSE,
                                  map |-> {}, trajectory |-> {}]]
  /\ ui      = Resting
  /\ bridge  = [state |-> "READY", map |-> [s \in Sensor |-> {}], trajectory |-> [s \in Sensor |-> {}]]
  /\ began   = 0
  /\ due     = [s \in Sensor |-> {}]
  /\ failed  = FALSE
  /\ spent   = [starts |-> 0, scans |-> 0, late |-> 0, crashes |-> 0]

Bound == [starts |-> MaxStarts, scans |-> MaxScans, late |-> MaxLate, crashes |-> MaxCrashes]
Spend(k) == spent[k] < Bound[k] /\ spent' = [spent EXCEPT ![k] = @ + 1]

Subject == Head(ui.todo)
Begin(op, sensors) == [Resting EXCEPT !.op = op, !.todo = sensors, !.at = "enter"]
Goto(at) == ui' = [ui EXCEPT !.at = at, !.sent = FALSE, !.dirty = FALSE]
Set(s, field, value) == client' = [client EXCEPT ![s][field] = value]

\* Mutant: a stopped capture is in a state of no name.
EndOfNameless(op) == IF op = "start" THEN "CAPTURING" ELSE op
EndOf(op) == CASE op = "start" -> "CAPTURING" [] op = "stop" -> "STOPPED" [] OTHER -> bridge.state
\* On to the next sensor, or the end of the loop; b is the bridge but for its state.
NextSensor(started, b) ==
  IF Len(ui.todo) > 1
  THEN ui' = [Begin(ui.op, Tail(ui.todo)) EXCEPT !.started = started] /\ bridge' = b
  ELSE ui' = Resting /\ bridge' = [b EXCEPT !.state = EndOf(ui.op)]

\* A sensor failed to start: the ones started before it are stopped.
Fail ==
  /\ failed' = TRUE
  /\ ui' = IF ui.started = <<>> THEN Resting ELSE Begin("rollback", ui.started)

----------------------------------------------------------------------------
(* The bridge.                                                              *)

StartCapture ==
  /\ ui.op = "idle" /\ bridge.state # "CAPTURING" /\ Spend("starts")
  /\ bridge' = [bridge EXCEPT !.map = [s \in Sensor |-> {}], !.trajectory = [s \in Sensor |-> {}]]
  /\ began'  = spent.scans
  /\ due'    = [s \in Sensor |-> {}]
  /\ failed' = FALSE
  /\ ui' = Begin("start", Active)
  /\ UNCHANGED <<pipes, client>>

OnTelemetryTick ==
  /\ ui.op = "idle" /\ bridge.state = "CAPTURING"
  /\ \A s \in Sensor : Len(link[s].toDaemon) + Len(link[s].toClient) <= MaxBacklog
  /\ ui' = Begin("tick", Active)
  /\ UNCHANGED <<pipes, client, bridge, history, failed, spent>>

StopCapture ==
  /\ ui.op = "idle" /\ bridge.state = "CAPTURING"
  /\ ui' = Begin("stop", Active)
  /\ due' = [s \in Sensor |-> daemon[s].voxels]
  /\ UNCHANGED <<pipes, client, bridge, began, failed, spent>>

\* Adapter and backend look at their flags first.
Enter ==
  /\ ui.at = "enter"
  /\ LET c == client[Subject]
     IN  Goto(CASE ui.op = "start" -> IF c.connected /\ link[Subject].state # "closed"
                                      THEN "start" ELSE "connect"
                [] ui.op = "tick"  -> "telemetry"
                [] OTHER           -> IF c.running THEN "all" ELSE "collect")
  /\ UNCHANGED <<pipes, client, bridge, history, failed, spent>>

\* What the backend holds becomes the sensor's raw_map_points; then the adapter stops.
Shown(c) == [bridge EXCEPT !.map[Subject] = c.map, !.trajectory[Subject] = c.trajectory]
Collect ==
  /\ ui.at = "collect"
  /\ LET c == client[Subject]
         b == IF ui.op = "stop" THEN Shown(c) ELSE bridge
     IN  IF c.streaming THEN Goto("hush") /\ bridge' = b ELSE NextSensor(<<>>, b)
  /\ UNCHANGED <<pipes, client, history, failed, spent>>

----------------------------------------------------------------------------
(* ensureDaemonRunning.                                                     *)

Open(s) == link' = [link EXCEPT ![s] = IF @.state = "closed" THEN Fresh ELSE @]
\* What the daemon has not yet served of a closed connection it may still serve.
Disconnect(s) ==
  /\ link'    = [link EXCEPT ![s] = Closed]
  /\ orphans' = [orphans EXCEPT ![s] = IF link[s].toDaemon = <<>> THEN @ ELSE Append(@, link[s].toDaemon)]

Connect ==
  /\ ui.at = "connect"
  /\ IF link[Subject].state # "closed" \/ daemon[Subject].alive
     THEN Open(Subject) /\ Goto("ping")
     ELSE Goto("respawn") /\ UNCHANGED link
  /\ UNCHANGED <<daemon, orphans, client, bridge, history, failed, spent>>

\* A second daemon finds the port taken and exits.
Respawn ==
  /\ ui.at = "respawn"
  /\ daemon' = [daemon EXCEPT ![Subject] = IF @.alive THEN @ ELSE Spawned]
  /\ Open(Subject)
  /\ Goto("reping")
  /\ UNCHANGED <<orphans, client, bridge, history, failed, spent>>

----------------------------------------------------------------------------
(* A call to the daemon: the request is written, an answer is read.         *)

Calling == ui.at \in DOMAIN RequestAt

Send ==
  /\ Calling /\ ~ui.sent
  /\ ui' = [ui EXCEPT !.sent = TRUE]
  /\ link' = IF link[Subject].state = "open"
             THEN [link EXCEPT ![Subject].toDaemon = Append(@, RequestAt[ui.at])] ELSE link
  /\ UNCHANGED <<daemon, orphans, client, bridge, history, failed, spent>>

\* What follows a call that returned true (ok) or false and left "rest".
Leaves(s, rest) == link' = [link EXCEPT ![s].toClient = rest]

\* Mutant: a failed ping leaves the connection open.
PingKeepsSocket(s, ok, rest) ==
  /\ CASE ok -> Goto("start") /\ UNCHANGED failed
       [] ~ok /\ ui.at = "ping" -> Goto("respawn") /\ UNCHANGED failed
       [] OTHER -> Fail
  /\ client' = IF ok /\ ui.half = "adapter" THEN [client EXCEPT ![s].connected = TRUE] ELSE client
  /\ Leaves(s, rest) /\ UNCHANGED <<orphans, bridge>>
Ping(s, ok, rest) ==
  /\ IF ok
     THEN /\ Goto("start")
          /\ client' = IF ui.half = "adapter" THEN [client EXCEPT ![s].connected = TRUE] ELSE client
          /\ Leaves(s, rest) /\ UNCHANGED <<orphans, failed>>
     ELSE /\ Disconnect(s)
          /\ IF ui.at = "ping" THEN Goto("respawn") /\ UNCHANGED failed ELSE Fail
          /\ UNCHANGED client
  /\ UNCHANGED bridge

\* Mutant: the backend's start does not look at the verdict.
StartIgnoresVerdict(s, ok, rest) ==
  /\ CASE ui.half = "adapter" /\ ~ok -> Fail /\ UNCHANGED <<client, bridge>>
       [] ui.half = "adapter" /\ ok ->
            /\ Set(s, "streaming", TRUE)
            /\ ui' = [ui EXCEPT !.half = "backend", !.at = "connect", !.sent = FALSE, !.dirty = FALSE]
            /\ UNCHANGED <<bridge, failed>>
       [] OTHER ->
            /\ Set(s, "running", TRUE)
            /\ NextSensor(Append(ui.started, s), bridge)
            /\ UNCHANGED failed
  /\ Leaves(s, rest) /\ UNCHANGED orphans
Start(s, ok, rest) ==
  /\ CASE ~ok -> Fail /\ UNCHANGED <<client, bridge>>
       [] ok /\ ui.half = "adapter" ->
            /\ Set(s, "streaming", TRUE)
            /\ ui' = [ui EXCEPT !.half = "backend", !.at = "connect", !.sent = FALSE, !.dirty = FALSE]
            /\ UNCHANGED <<bridge, failed>>
       [] ok /\ ui.half = "backend" ->
            /\ Set(s, "running", TRUE)
            /\ NextSensor(Append(ui.started, s), bridge)
            /\ UNCHANGED failed
  /\ Leaves(s, rest) /\ UNCHANGED orphans

\* The trajectory is fetched when the daemon's is longer than the one held.
Telemetry(s, ok, pts, rest) ==
  /\ IF ok
     THEN /\ Goto(IF Cardinality(pts) > Cardinality(client[s].trajectory) THEN "trajectory" ELSE "new")
          /\ UNCHANGED bridge
     ELSE NextSensor(<<>>, bridge)
  /\ Leaves(s, rest) /\ UNCHANGED <<orphans, client, failed>>

TrajectoryRead(s, ok, pts, rest) ==
  /\ IF ok THEN Set(s, "trajectory", pts) ELSE UNCHANGED client
  /\ Goto("new")
  /\ Leaves(s, rest) /\ UNCHANGED <<orphans, bridge, failed>>

\* fetchNewPoints appends to the backend's map, which no start empties.
NewPoints(s, ok, pts, rest) ==
  /\ client' = IF ok THEN [client EXCEPT ![s].map = @ \cup pts] ELSE client
  /\ NextSensor(<<>>, Shown(client'[s]))
  /\ Leaves(s, rest) /\ UNCHANGED <<orphans, failed>>

\* Mutant: a final pull that fails leaves an empty map.
AllPointsEmpties(s, ok, pts, rest) ==
  /\ Set(s, "map", IF ok THEN pts ELSE {})
  /\ Goto("halt")
  /\ Leaves(s, rest) /\ UNCHANGED <<orphans, bridge, failed>>

\* Mutant: the final pull is thrown away.
AllPointsDiscarded(s, ok, pts, rest) ==
  /\ Goto("halt")
  /\ Leaves(s, rest) /\ UNCHANGED <<orphans, client, bridge, failed>>

\* The final pull replaces the backend's map.
AllPoints(s, ok, pts, rest) ==
  /\ IF ok THEN Set(s, "map", pts) ELSE UNCHANGED client
  /\ Goto("halt")
  /\ Leaves(s, rest) /\ UNCHANGED <<orphans, bridge, failed>>

\* Mutant: the connection is closed before the STOP is known to have arrived.
HaltDisconnects(s, rest) ==
  /\ Set(s, "running", FALSE)
  /\ Goto("collect")
  /\ Disconnect(s) /\ UNCHANGED <<bridge, failed>>

\* Neither stop looks at the answer.
Halt(s, rest) ==
  /\ Set(s, "running", FALSE)
  /\ Goto("collect")
  /\ Leaves(s, rest) /\ UNCHANGED <<orphans, bridge, failed>>

Hush(s, rest) ==
  /\ Set(s, "streaming", FALSE)
  /\ NextSensor(<<>>, bridge)
  /\ Leaves(s, rest) /\ UNCHANGED <<orphans, failed>>

Returned(s, ok, pts, rest) ==
  /\ CASE ui.at \in {"ping", "reping"} -> Ping(s, ok, rest)
       [] ui.at = "start"      -> Start(s, ok, rest)
       [] ui.at = "telemetry"  -> Telemetry(s, ok, pts, rest)
       [] ui.at = "trajectory" -> TrajectoryRead(s, ok, pts, rest)
       [] ui.at = "new"        -> NewPoints(s, ok, pts, rest)
       [] ui.at = "all"        -> AllPoints(s, ok, pts, rest)
       [] ui.at = "halt"       -> Halt(s, rest)
       [] ui.at = "hush"       -> Hush(s, rest)
  /\ UNCHANGED <<daemon, history>>

Waiting == Calling /\ ui.sent

ReadAnswer ==
  /\ Waiting /\ link[Subject].toClient # <<>>
  /\ \E r \in Readings(RequestAt[ui.at], link[Subject].toClient, ui.dirty) :
       IF r.verdict = "more"
       THEN /\ ui' = [ui EXCEPT !.dirty = TRUE]
            /\ Leaves(Subject, r.rest)
            /\ UNCHANGED <<daemon, orphans, client, bridge, history, failed>>
       ELSE Returned(Subject, r.verdict = "ok", r.pts, r.rest)
  /\ UNCHANGED spent

\* Nobody answers on a socket that is closed or whose daemon has gone.
Refused ==
  /\ Waiting /\ link[Subject].toClient = <<>> /\ link[Subject].state # "open"
  /\ Returned(Subject, FALSE, {}, <<>>)
  /\ UNCHANGED spent

\* The answer is late; nothing takes the request back.
TimeOut ==
  /\ Waiting /\ link[Subject].toClient = <<>> /\ link[Subject].state = "open"
  /\ Spend("late")
  /\ Returned(Subject, FALSE, {}, <<>>)

----------------------------------------------------------------------------
(* The daemons: a thread per connection, and the subscriber's.              *)

HandleClient(s) ==
  /\ link[s].state = "open" /\ link[s].toDaemon # <<>>
  /\ LET r == Head(link[s].toDaemon)
     IN  /\ daemon' = [daemon EXCEPT ![s] = Serve(@, r)]
         /\ link' = [link EXCEPT ![s].toDaemon = Tail(@),
                                 ![s].toClient = Append(@, AnswerTo(daemon[s], r))]
  /\ UNCHANGED <<orphans, client, ui, bridge, history, failed, spent>>

\* The thread of a closed connection goes on until a send fails.
HandleOrphan(s) ==
  /\ \E i \in 1..Len(orphans[s]) :
       LET queue == orphans[s][i]
           rest(q) == IF q = <<>> THEN RemoveAt(orphans[s], i) ELSE ReplaceAt(orphans[s], i, q)
       IN  \/ /\ daemon' = [daemon EXCEPT ![s] = Serve(@, Head(queue))]
              /\ orphans' = [orphans EXCEPT ![s] = rest(Tail(queue))]
           \/ /\ orphans' = [orphans EXCEPT ![s] = rest(<<>>)]
              /\ UNCHANGED daemon
  /\ UNCHANGED <<link, client, ui, bridge, history, failed, spent>>

SenseScan(s) ==
  /\ daemon[s].alive /\ daemon[s].capturing /\ daemon[s].flight = None /\ Spend("scans")
  /\ daemon' = [daemon EXCEPT ![s] = Sense(@, spent.scans + 1)]
  /\ UNCHANGED <<link, orphans, client, ui, bridge, history, failed>>

RecordScan(s) ==
  /\ daemon[s].flight # None
  /\ daemon' = [daemon EXCEPT ![s] = Record(@)]
  /\ UNCHANGED <<link, orphans, client, ui, bridge, history, failed, spent>>

\* Answers already sent may be lost with the process or may not.
Crash(s) ==
  /\ daemon[s].alive /\ Spend("crashes")
  /\ daemon'  = [daemon EXCEPT ![s] = Dead]
  /\ orphans' = [orphans EXCEPT ![s] = <<>>]
  /\ IF link[s].state = "open"
     THEN \E in \in {link[s].toClient, <<>>} :
            link' = [link EXCEPT ![s] = [state |-> "broken", toDaemon |-> <<>>, toClient |-> in]]
     ELSE UNCHANGED link
  /\ UNCHANGED <<client, ui, bridge, history, failed>>

----------------------------------------------------------------------------
Thread == Enter \/ Collect \/ Connect \/ Respawn \/ Send \/ ReadAnswer \/ Refused

Next == \/ StartCapture \/ OnTelemetryTick \/ StopCapture
        \/ Thread \/ TimeOut
        \/ \E s \in Sensor : \/ HandleClient(s) \/ HandleOrphan(s)
                             \/ SenseScan(s) \/ RecordScan(s) \/ Crash(s)

Spec == Init /\ [][Next]_vars

\* The user-interface thread and the daemons run; nobody need scan, and the
\* user need not press a button.
Fairness == WF_vars(Thread) /\ \A s \in Sensor : WF_vars(HandleClient(s))
FairSpec == Spec /\ Fairness

----------------------------------------------------------------------------
TypeOK ==
  /\ daemon  \in [Sensor -> Daemon]
  /\ link    \in [Sensor -> Link]
  /\ orphans \in [Sensor -> Seq(Seq(Request))]
  /\ client  \in [Sensor -> Client]
  /\ ui      \in Ui
  /\ bridge  \in [state : {"READY", "CAPTURING", "STOPPED"},
                  map : [Sensor -> SUBSET Point], trajectory : [Sensor -> SUBSET Point]]
  /\ began \in Nat /\ due \in [Sensor -> SUBSET Point] /\ failed \in BOOLEAN
  /\ spent \in [{"starts", "scans", "late", "crashes"} -> Nat]

\* ensureDaemonRunning returns true only on a connection with nothing left in
\* it, however many answers were late before: the START that the backend then
\* sends is answered by its own answer.
PingMeansInStep ==
  (ui.at = "start" /\ ui.half = "backend" /\ ~ui.sent) =>
    link[Subject].toDaemon = <<>> /\ link[Subject].toClient = <<>>

\* While the bridge says it captures, every sensor's daemon that is alive
\* records: no STOP of an earlier connection or attempt overtakes the START.
CapturingMeansRecording ==
  (bridge.state = "CAPTURING" /\ ui.op # "stop") =>
    \A s \in Sensor : daemon[s].alive => daemon[s].capturing

\* A late block of points is never appended to a map that has them already.
PointsArriveOnce ==
  \A s \in Sensor : \A i \in 1..Len(link[s].toClient) :
    LET a == link[s].toClient[i]
    IN  (a.to = "NEW" /\ ~a.torn) => a.pts \cap client[s].map = {}

\* A point of the capture under way that has reached the bridge is never lost
\* again, not even when the final pull fails or answers are late.
Own(s) == {p \in bridge.map[s] : p > began}
NothingShownIsLost ==
  [][ began' = began => \A s \in Sensor : Own(s) \subseteq bridge'.map[s] ]_vars

\* Where every answer came in time and no daemon crashed, the final pull
\* leaves the bridge with all that the daemon had when the stop was asked for
\* ... provided the trajectory had not outgrown a line.
Stopped == bridge.state = "STOPPED" /\ ui = Resting
Smooth  == spent.late = 0 /\ spent.crashes = 0
ShortPullIsWhole ==
  (Stopped /\ Smooth) =>
    \A s \in Sensor : Cardinality(due[s]) <= LineLimit => due[s] \subseteq bridge.map[s]

\* ... and however long the trajectory is.
PullIsWhole == (Stopped /\ Smooth) => \A s \in Sensor : due[s] \subseteq bridge.map[s]

\* When a capture has been stopped its daemons stop recording, even if the
\* answers to the STOPs were late.
StopTakesEffect ==
  \A s \in Sensor :
    (bridge.state = "STOPPED" /\ ui = Resting /\ ~failed)
      ~> (~daemon[s].capturing \/ ui.op = "start")

\* After a failed start, once every request has been served, nothing records.
FailedStartStopsAll ==
  (failed /\ ui = Resting /\ \A s \in Sensor : link[s].toDaemon = <<>> /\ orphans[s] = <<>>)
    => \A s \in Sensor : ~daemon[s].capturing
=============================================================================
