---------------------------- MODULE NeuralCapture ----------------------------
(***************************************************************************)
(* A capture with a camera that a neural engine reconstructs from: the     *)
(* bridge starts, polls and stops one such sensor; its daemon and the      *)
(* daemon's threads are NeuralDaemon.  The user-interface thread waits for *)
(* each answer; what late answers do to a connection is the subject of     *)
(* CapturePipeline.  Telemetry and the path, which is always pulled whole, *)
(* are left out.                                                           *)
(***************************************************************************)
EXTENDS NeuralDaemon

CONSTANT MaxStarts  \* bound

ASSUME StartsAssumption == MaxStarts \in Nat

VARIABLES
  ui,      \* what the user-interface thread is doing
  bridge,  \* captureState_
  client,  \* the map of the C++ backend, in the order of its arrival
  due      \* history: the voxels of this capture when its stop was asked for

vars == <<daemonVars, ui, bridge, client, due>>

Ui == [op : {"idle", "start", "tick", "stop", "hung"}, todo : Seq(Request), sent : BOOLEAN]
Resting == [op |-> "idle", todo |-> <<>>, sent |-> FALSE]
Doing(op, todo) == [op |-> op, todo |-> todo, sent |-> FALSE]

Init ==
  /\ DaemonInit
  /\ ui = Resting /\ bridge = "READY" /\ client = <<>> /\ due = {}

\* The requests of an operation.  The glasses have an adapter and a backend,
\* which both start and stop the daemon; the backend waits for the model first.
CameraStart == <<"START">>
VitureStart == <<"START", "READY", "START">>
StartRequests == IF Glasses THEN VitureStart ELSE CameraStart
CameraStop == <<"NEW", "STOP">>
VitureStop == <<"ALL", "STOP", "STOP">>
\* Mutant: the stop does not pull the points that are left.
StopWithoutPull == IF Glasses THEN VitureStop ELSE Tail(CameraStop)
StopRequests == IF Glasses THEN VitureStop ELSE CameraStop
TickRequests == <<"NEW">>

\* A camera gets a new backend for every capture; the glasses' keeps its map.
Kept == IF Glasses THEN client ELSE <<>>
StartCapture ==
  /\ ui.op = "idle" /\ bridge # "CAPTURING" /\ spent.starts < MaxStarts
  /\ spent' = [spent EXCEPT !.starts = @ + 1]
  /\ ui' = Doing("start", StartRequests)
  /\ client' = Kept /\ due' = {}
  /\ UNCHANGED <<kind, model, backend, daemon, threads, server, mark, bridge>>

\* The daemon did not come up.  initialize() is not asked what became of it, so
\* START is sent without a connection, and fails.
NoDaemon(op) ==
  /\ ui.op = "idle" /\ bridge # "CAPTURING" /\ spent.starts = 0 /\ Spend("fails")
  /\ ui' = [Resting EXCEPT !.op = op]
  /\ client' = <<>> /\ due' = {}
  /\ UNCHANGED <<kind, model, backend, daemon, threads, server, mark, bridge>>
LingBotUnreachable == kind = "LINGBOT" /\ NoDaemon("idle")

\* ABot's client connects again, under the lock it holds, and never returns.
ABotUnreachable == kind = "ABOT" /\ NoDaemon("hung")

OnTelemetryTick ==
  /\ ui.op = "idle" /\ bridge = "CAPTURING"
  /\ ui' = Doing("tick", TickRequests)
  /\ UNCHANGED <<daemonVars, bridge, client, due>>

Known == IF Glasses THEN daemon.voxels ELSE ToSet(SubSeq(backend.voxels, mark + 1, Len(backend.voxels)))
StopCapture ==
  /\ ui.op = "idle" /\ bridge = "CAPTURING"
  /\ ui' = Doing("stop", StopRequests)
  /\ due' = Known
  /\ UNCHANGED <<daemonVars, bridge, client>>

\* On to the next request, or the end of the operation.
Onwards ==
  IF Len(ui.todo) > 1
  THEN ui' = Doing(ui.op, Tail(ui.todo)) /\ UNCHANGED bridge
  ELSE /\ ui' = Resting
       /\ bridge' = CASE ui.op = "start" -> "CAPTURING" [] ui.op = "stop" -> "STOPPED" [] OTHER -> bridge

\* Requests that are answered at once.  NEW extends the map; the final pull
\* replaces the glasses' map.
Asking(request) == ui.todo # <<>> /\ Head(ui.todo) = request /\ server = Idle
FetchNewPoints ==
  /\ Asking("NEW")
  /\ ServeNew
  /\ client' = client \o NewPoints.places
  /\ Onwards
  /\ UNCHANGED <<kind, model, threads, server, mark, spent, due>>

FetchAllPoints ==
  /\ Asking("ALL")
  /\ client' = AllPoints
  /\ Onwards
  /\ UNCHANGED <<daemonVars, due>>

\* waitForModelReady gives up after fifteen seconds, and the start goes on.
WaitForModelReady ==
  /\ Asking("READY")
  /\ Costs("late", model # "loading")
  /\ Onwards
  /\ UNCHANGED <<kind, model, backend, daemon, threads, server, mark, client, due>>

\* START and STOP take their time.
Send ==
  /\ ui.todo # <<>> /\ ~ui.sent /\ Head(ui.todo) \in {"START", "STOP"}
  /\ HandleClient(Head(ui.todo))
  /\ ui' = [ui EXCEPT !.sent = TRUE]
  /\ UNCHANGED <<kind, model, backend, daemon, threads, mark, spent, bridge, client, due>>

Receive ==
  /\ ui.sent /\ server.busy /\ server.todo = <<>>
  /\ server' = Idle
  /\ IF ui.op = "start" /\ ~server.ok THEN ui' = Resting /\ UNCHANGED bridge ELSE Onwards
  /\ UNCHANGED <<kind, model, backend, daemon, threads, mark, spent, client, due>>

----------------------------------------------------------------------------
BridgeWaits == UNCHANGED <<ui, bridge, client, due>>

Next ==
  \/ StartCapture \/ LingBotUnreachable \/ ABotUnreachable \/ OnTelemetryTick \/ StopCapture
  \/ FetchNewPoints \/ FetchAllPoints \/ WaitForModelReady \/ Send \/ Receive
  \/ /\ \/ LoadModel \/ ServerStep
        \/ \E i \in 1..Len(workers)  : StreamingLoop(i) \/ NetworkFails(i) \/ OnLingbotPoints(i)
        \/ \E i \in 1..Len(eyes)     : CameraLoop(i)
        \/ \E i \in 1..Len(trackers) : TrackingLoop(i)
     /\ BridgeWaits

Spec == Init /\ [][Next]_vars

\* What runs by itself: the bridge and the server, which wait for each other,
\* and every thread of the daemon.
BridgeAndServer ==
  FetchNewPoints \/ FetchAllPoints \/ WaitForModelReady \/ Send \/ Receive \/ (ServerStep /\ BridgeWaits)
Reconstructing(i) == i <= Len(workers) /\ (StreamingLoop(i) \/ OnLingbotPoints(i)) /\ BridgeWaits
Filming(i)  == i <= Len(eyes) /\ CameraLoop(i) /\ BridgeWaits
Tracking(i) == i <= Len(trackers) /\ TrackingLoop(i) /\ BridgeWaits

----------------------------------------------------------------------------
TypeOK ==
  /\ kind \in Kinds /\ model \in {"loading", "loaded", "failed"}
  /\ backend \in Backend /\ daemon \in Daemon
  /\ workers \in Seq(Worker) /\ eyes \in Seq(Eye) /\ trackers \in Seq(Tracker)
  /\ server \in Server /\ ui \in Ui
  /\ bridge \in {"READY", "CAPTURING", "STOPPED"} /\ client \in Seq(Place) /\ due \subseteq Place
  /\ mark \in Nat
  /\ spent \in [{"frames", "late", "fails", "starts"} -> Nat]

\* Every thread ended within the time its join allows.
Punctual == spent.late = 0
IdleAfter == ui.op = "idle" /\ bridge # "CAPTURING"

\* The path is in the order in which the frames were taken, and no frame is
\* in it twice ... but in the glasses' fourth capture.  A camera thread may
\* start the engine after the stop has stopped it; when that happens twice, the
\* third stop knows of one worker only, and the next start wakes the other too.
OneWorker == kind = "VITURE" => spent.starts <= 3
InOrder ==
  (Punctual /\ OneWorker) => \A i, j \in 1..Len(backend.path) : i < j => backend.path[i] < backend.path[j]

\* When a stop, or a start that failed, has returned, nothing runs and the
\* camera is free, unless a join timed out ... but for the glasses' engine,
\* which their camera thread may start after the stop has stopped it.
Quiet ==
  (Punctual /\ IdleAfter) =>
    /\ ~daemon.running /\ ~daemon.capturing /\ ~daemon.camera /\ ~daemon.hardware
    /\ \A i \in 1..Len(eyes) : eyes[i].at = "done"
    /\ \A i \in 1..Len(trackers) : trackers[i].at = "done"
    /\ ~Glasses => \A i \in 1..Len(workers) : workers[i].at = "done"

\* A voxel reaches the map of a capture once ... but the glasses' map begins a
\* later capture with the points of the last, until the final pull.  Threads
\* that outlive their join add none twice.
PointsArriveOnce ==
  (Glasses => spent.starts = 1 \/ bridge # "CAPTURING") => IsInjective(client)

\* What the engine had found in this capture when the stop was asked for is in
\* the map when the capture is stopped.
PullIsWhole == (ui.op = "idle" /\ bridge = "STOPPED") => due \subseteq ToSet(client)

\* Every operation of the bridge returns, though it waits for three threads.
UiReturns == (ui.op \notin {"idle", "hung"}) ~> (ui.op = "idle")

\* Threads that outlived their join end too, unless another capture starts
\* before they look at the flag.
ThreadsEnd ==
  IdleAfter ~> \/ ~IdleAfter
               \/ /\ \A i \in 1..Len(eyes) : eyes[i].at = "done"
                  /\ \A i \in 1..Len(trackers) : trackers[i].at = "done"
                  /\ ~Glasses => \A i \in 1..Len(workers) : workers[i].at = "done"
==============================================================================
