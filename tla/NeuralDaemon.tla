----------------------------- MODULE NeuralDaemon -----------------------------
(***************************************************************************)
(* The daemons that reconstruct from a camera.  A thread serves requests;  *)
(* START makes a camera thread, which fills the slot of the engine, and    *)
(* the engine's worker; STOP tells them to end and joins them, each for a  *)
(* few seconds.  The glasses' daemon (VITURE) also polls the tracker, and  *)
(* its camera thread starts the engine itself, when the model is loaded.   *)
(* In its other mode (STEREO) the tracking thread finds the voxels itself, *)
(* in the tracking cameras' images, and there is neither engine nor eye.   *)
(* A thread that outlives its join finds the flags of the next start.      *)
(***************************************************************************)
EXTENDS StreamingBackend

CONSTANTS
  Kinds,                         \* the daemons to look at
  View,                          \* what the n-th frame shows
  MaxFrames,                     \* bound: frames
  MaxMishaps,                    \* bound: waits that time out and things that fail, together
  MaxLateFrames                  \* bound: frames in a behaviour in which a wait times out

ASSUME KindsAssumption        == Kinds \subseteq {"LINGBOT", "ABOT", "VITURE", "STEREO"}
ASSUME ViewAssumption         == View \in [1..MaxFrames -> Place]
ASSUME DaemonBoundsAssumption == {MaxFrames, MaxMishaps, MaxLateFrames} \subseteq Nat

VARIABLES
  kind,      \* which daemon
  model,     \* the weights: "loading", "loaded" or "failed"
  backend,   \* the engine
  daemon,    \* the daemon's own state
  workers,   \* the engine's threads, one per start
  eyes,      \* the camera threads, one per start
  trackers,  \* the tracking threads, one per start
  server,    \* the thread that serves the requests
  mark,      \* history: the engine's voxels when its last worker was made
  spent      \* what the bounds have left

threads    == <<workers, eyes, trackers>>
daemonVars == <<kind, model, backend, daemon, threads, server, mark, spent>>

Request == {"START", "STOP", "READY", "NEW", "ALL"}
Step    == {"begin", "model", "camera", "flag", "halt", "joinWorker", "joinEye", "joinTracker",
            "release", "end", "close"}
Server  == [busy : BOOLEAN, todo : Seq(Step), ok : BOOLEAN]
Idle    == [busy |-> FALSE, todo |-> <<>>, ok |-> TRUE]

Worker == [at : {"wait", "grab", "scale", "step", "deliver", "promote", "done"},
           frames : Seq(Frame), new : Seq(Place), next : {"wait", "promote"}]
Waiting == [at |-> "wait", frames |-> <<>>, new |-> <<>>, next |-> "wait"]
Tracker == [at : {"poll", "store", "done"}, new : Seq(Place)]
Polling == [at |-> "poll", new |-> <<>>]
Eye    == [at : {"enter", "model", "reset", "start", "check", "read", "done"}, open : BOOLEAN]

Daemon == [running   : BOOLEAN,      \* running; is_capturing
           capturing : BOOLEAN,      \* capture_running
           camera    : BOOLEAN,      \* cap is open
           hardware  : BOOLEAN,      \* hardware_active
           worker    : Nat,          \* worker_thread, capture_thread or rgb_thread,
           eye       : Nat,          \*   and tracking_thread: 0 is None
           tracker   : Nat,
           poses     : Seq(Nat),     \* VITURE's trajectory, global_voxels
           voxels    : SUBSET Place, \*   and new_points_buffer
           buffer    : Seq(Place)]

Glasses == kind \in {"VITURE", "STEREO"}

DaemonInit ==
  /\ kind \in Kinds
  /\ model    = "loading"
  /\ backend  = Created
  /\ daemon   = [running |-> FALSE, capturing |-> FALSE, camera |-> FALSE, hardware |-> FALSE,
                 worker |-> 0, eye |-> 0, tracker |-> 0, poses |-> <<>>, voxels |-> {}, buffer |-> <<>>]
  /\ workers  = <<>> /\ eyes = <<>> /\ trackers = <<>>
  /\ server   = Idle
  /\ mark     = 0
  /\ spent    = [frames |-> 0, late |-> 0, fails |-> 0, starts |-> 0]

Spend(k) ==
  /\ k = "frames" => spent.frames < MaxFrames
  /\ spent' = [spent EXCEPT ![k] = @ + 1]
  /\ spent'.frames <= IF spent'.late > 0 THEN MaxLateFrames ELSE MaxFrames
  /\ spent'.late + spent'.fails <= MaxMishaps
Costs(k, harmless) == IF harmless THEN UNCHANGED spent ELSE Spend(k)

\* Without the package, the weights or the memory the model is not loaded.
LoadOutcomes == {"loaded", "failed"}
LoadModel ==
  /\ model = "loading"
  /\ \E m \in LoadOutcomes : model' = m /\ Costs("fails", m = "loaded")
  /\ UNCHANGED <<kind, backend, daemon, threads, server, mark>>

----------------------------------------------------------------------------
(* The engine's start and stop, and its worker.                             *)

\* A start of an engine that runs, or whose model did not load, does nothing.
EngineStarts == model = "loaded" /\ ~backend.running
EngineStart ==
  IF ~EngineStarts THEN UNCHANGED <<backend, workers, mark>>
  ELSE /\ backend' = IF kind = "ABOT" THEN ABotStart(backend) ELSE LingBotStart(backend)
       /\ workers' = Append(workers, Waiting)
       /\ mark' = Len(backend'.voxels)
NextWorker == IF EngineStarts THEN Len(workers) + 1 ELSE daemon.worker

WorkerAt(i, at) == workers' = [workers EXCEPT ![i].at = at]

\* Mutant: the worker looks at the flag only when the slot is empty.
WorkerWaitsForever(i) ==
  /\ workers[i].at = "wait"
  /\ WorkerAt(i, IF backend.running \/ backend.slot = None THEN "grab" ELSE "done")
  /\ UNCHANGED backend
WorkerWait(i) ==
  /\ workers[i].at = "wait"
  /\ WorkerAt(i, IF backend.running THEN "grab" ELSE "done")
  /\ UNCHANGED backend

\* LingBot drops a frame when it is neither collecting nor streaming.
Take(i, b, f) ==
  CASE kind = "ABOT" \/ b.state = "STREAMING" ->
         backend' = b /\ workers' = [workers EXCEPT ![i].at = "step", ![i].frames = <<f>>]
    [] kind # "ABOT" /\ b.state = "ACCUMULATING_SCALE_FRAMES" ->
         LET scale == Append(b.scale, f)
         IN  /\ backend' = [b EXCEPT !.scale = scale]
             /\ IF Len(scale) >= NumScaleFrames
                THEN workers' = [workers EXCEPT ![i].at = "scale", ![i].frames = scale]
                ELSE WorkerAt(i, "wait")
    [] OTHER -> backend' = b /\ WorkerAt(i, "wait")

WorkerGrab(i) ==
  /\ workers[i].at = "grab"
  /\ IF backend.slot = None
     THEN WorkerAt(i, "wait") /\ UNCHANGED backend
     ELSE Take(i, Grab(backend), backend.slot)

\* The network has answered: poses and voxels are stored under the engine's
\* lock.  LingBot tells the glasses' daemon of the new voxels.
Stored(i, b, next) ==
  LET new == IF kind = "VITURE" THEN Beyond(b.voxels, backend.voxels) ELSE <<>>
  IN  /\ backend' = b
      /\ workers' = [workers EXCEPT ![i] =
                       [Waiting EXCEPT !.at = IF new # <<>> THEN "deliver" ELSE next, !.new = new, !.next = next]]

ExecuteScalePass(i) ==
  LET frames == workers[i].frames
      complete == Len(frames) <= Len(backend.scale)
  IN  /\ workers[i].at = "scale"
      /\ IF complete
         THEN Stored(i, LingBotProcess(backend, frames, backend.scale), "promote")
         ELSE /\ backend' = LingBotProcess(backend, frames, backend.scale)
              /\ WorkerAt(i, "done")

ExecuteStreamingStep(i) ==
  /\ workers[i].at = "step" /\ kind # "ABOT"
  /\ Stored(i, LingBotProcess(backend, workers[i].frames, workers[i].frames), "wait")

ABotStreamingStep(i) ==
  /\ workers[i].at = "step" /\ kind = "ABOT"
  /\ Stored(i, ABotProcess(backend, workers[i].frames), "wait")

\* The network failed: ABot loses the frame, LingBot its worker.
WorkerFail(i) ==
  /\ workers[i].at \in {"scale", "step"}
  /\ workers' = [workers EXCEPT ![i] = [Waiting EXCEPT !.at = IF kind = "ABOT" THEN "wait" ELSE "done"]]
  /\ UNCHANGED backend

\* The glasses' daemon is told of the voxels when the engine's lock is free.
OnLingbotPoints(i) ==
  /\ workers[i].at = "deliver"
  /\ daemon' = [daemon EXCEPT !.buffer = @ \o workers[i].new, !.voxels = @ \cup ToSet(workers[i].new)]
  /\ workers' = [workers EXCEPT ![i] = [Waiting EXCEPT !.at = workers[i].next, !.next = workers[i].next]]
  /\ UNCHANGED <<kind, model, backend, eyes, trackers, server, mark, spent>>

WorkerPromote(i) ==
  /\ workers[i].at = "promote"
  /\ backend' = [backend EXCEPT !.state = "STREAMING"]
  /\ workers' = [workers EXCEPT ![i] = Waiting]

StreamingLoop(i) ==
  /\ \/ WorkerWait(i) \/ WorkerGrab(i) \/ WorkerPromote(i)
     \/ ExecuteScalePass(i) \/ ExecuteStreamingStep(i) \/ ABotStreamingStep(i)
  /\ UNCHANGED <<kind, model, daemon, eyes, trackers, server, mark, spent>>
NetworkFails(i) ==
  /\ WorkerFail(i) /\ Spend("fails")
  /\ UNCHANGED <<kind, model, daemon, eyes, trackers, server, mark>>

----------------------------------------------------------------------------
(* The camera threads.                                                      *)

EyeAt(i, at) == eyes' = [eyes EXCEPT ![i].at = at]
Recording == IF Glasses THEN daemon.running ELSE daemon.capturing

\* _rgb_camera_loop: without the glasses there is no camera.
EyeEnter(i) ==
  /\ eyes[i].at = "enter"
  /\ \E opened \in BOOLEAN :
       /\ opened => daemon.hardware
       /\ Costs("fails", opened = daemon.hardware)
       /\ eyes' = [eyes EXCEPT ![i] = [at |-> IF opened THEN "model" ELSE "done", open |-> opened]]
  /\ UNCHANGED <<backend, daemon, workers, mark>>

\* The glasses wait fifteen seconds for the model, then film without an engine.
EyeModel(i) ==
  /\ eyes[i].at = "model"
  /\ IF model = "loading" THEN Spend("late") /\ EyeAt(i, "check")
                          ELSE UNCHANGED spent /\ EyeAt(i, "reset")
  /\ UNCHANGED <<backend, daemon, workers, mark>>

EyeReset(i) ==
  /\ eyes[i].at = "reset"
  /\ backend' = LingBotReset(backend)
  /\ mark' = 0
  /\ EyeAt(i, "start")
  /\ UNCHANGED <<daemon, workers, spent>>

EyeStart(i) ==
  /\ eyes[i].at = "start"
  /\ EngineStart
  /\ daemon' = [daemon EXCEPT !.worker = NextWorker]
  /\ EyeAt(i, "check")
  /\ UNCHANGED spent

\* A camera that is not open is polled until the capture ends.
EyeCheck(i) ==
  /\ eyes[i].at = "check"
  /\ IF ~Recording THEN eyes' = [eyes EXCEPT ![i] = [at |-> "done", open |-> FALSE]]
     ELSE (IF kind = "VITURE" THEN eyes[i].open ELSE daemon.camera) /\ EyeAt(i, "read")
  /\ UNCHANGED <<backend, daemon, workers, mark, spent>>

EyeRead(i) ==
  /\ eyes[i].at = "read"
  /\ EyeAt(i, "check")
  /\ \/ /\ Spend("frames")
        /\ LET f == [n |-> spent.frames + 1, place |-> View[spent.frames + 1]]
           IN  backend' = IF kind = "ABOT" THEN ABotPush(backend, f) ELSE LingBotFeed(backend, f)
     \/ UNCHANGED <<backend, spent>>
  /\ UNCHANGED <<daemon, workers, mark>>

CameraLoop(i) ==
  /\ EyeEnter(i) \/ EyeModel(i) \/ EyeReset(i) \/ EyeStart(i) \/ EyeCheck(i) \/ EyeRead(i)
  /\ UNCHANGED <<kind, model, trackers, server>>

\* _tracking_loop stores a pose while the daemon records.  The first one, which
\* is always stored, stands for the path the glasses take.  With two cameras it
\* first finds voxels in the latest images; nobody holds a lock for them.
\* The latest images are kept when the glasses are gone.
Images == (IF daemon.hardware THEN {spent.frames + 1} ELSE {}) \cup ({spent.frames} \ {0})
FindVoxels(i) ==
  /\ kind = "STEREO" /\ daemon.running /\ trackers[i].at = "poll"
  /\ \E n \in Images :
       /\ IF n > spent.frames THEN Spend("frames") ELSE UNCHANGED spent
       /\ trackers' = [trackers EXCEPT ![i] =
                         [at |-> "store", new |-> IF View[n] \in daemon.voxels THEN <<>> ELSE <<View[n]>>]]
       /\ daemon' = [daemon EXCEPT !.voxels = @ \cup {View[n]}]

StorePose(i) ==
  /\ \/ trackers[i].at = "store"
     \/ trackers[i].at = "poll" /\ daemon.running /\ daemon.poses = <<>>
  /\ daemon' = [daemon EXCEPT !.poses = <<0>>, !.buffer = @ \o trackers[i].new]
  /\ trackers' = [trackers EXCEPT ![i] = Polling]
  /\ UNCHANGED spent

TrackingEnds(i) ==
  /\ trackers[i].at = "poll" /\ ~daemon.running
  /\ trackers' = [trackers EXCEPT ![i].at = "done"]
  /\ UNCHANGED <<daemon, spent>>

TrackingLoop(i) ==
  /\ FindVoxels(i) \/ StorePose(i) \/ TrackingEnds(i)
  /\ UNCHANGED <<kind, model, backend, workers, eyes, server, mark>>

----------------------------------------------------------------------------
(* The requests.  START and STOP are a list of steps.                       *)

StartSteps == IF Glasses THEN <<"begin">> ELSE <<"begin", "model", "camera">>
StopSteps  == IF Glasses
              THEN <<"flag", "halt", "joinWorker", "joinEye", "joinTracker", "close">>
              ELSE <<"flag", "joinEye", "release", "halt", "joinWorker", "end">>

\* START or STOP arrives.
HandleClient(request) ==
  /\ server = Idle
  /\ server' = [busy |-> TRUE, todo |-> IF request = "START" THEN StartSteps ELSE StopSteps, ok |-> TRUE]

\* Mutant: the index of the points served is not moved.
LingBotServesAgain(b) ==
  [places |-> SubSeq(b.voxels, b.served + 1, Len(b.voxels)), left |-> b]

\* The points nobody has asked for yet, and the engine without them.
LingBotGetNewPoints(b) ==
  [places |-> SubSeq(b.voxels, b.served + 1, Len(b.voxels)), left |-> [b EXCEPT !.served = Len(b.voxels)]]
ABotGetNewPoints(b) ==
  [places |-> b.buffer, left |-> [b EXCEPT !.buffer = <<>>]]
VitureGetNewPoints(b) ==
  [places |-> daemon.buffer, left |-> b]

\* What the other requests return, each at once; NEW empties what it returns.
NewPoints == CASE kind = "LINGBOT" -> LingBotGetNewPoints(backend)
               [] kind = "ABOT"    -> ABotGetNewPoints(backend)
               [] OTHER            -> VitureGetNewPoints(backend)
AllPoints  == SetToSeq(daemon.voxels)
ServeNew ==
  /\ server = Idle
  /\ backend' = NewPoints.left
  /\ daemon' = [daemon EXCEPT !.buffer = <<>>]

AtStep(s) == server.todo # <<>> /\ Head(server.todo) = s
Done      == server' = [server EXCEPT !.todo = Tail(@)]
Skip(todo, ok) == server' = [server EXCEPT !.todo = todo, !.ok = ok]
NewEye(at) == Append(eyes, [at |-> at, open |-> FALSE])

\* A start of a daemon that records succeeds.
ServerBegin ==
  /\ AtStep("begin") /\ ~Glasses
  /\ IF daemon.running THEN Skip(<<>>, TRUE) /\ UNCHANGED daemon
     ELSE Done /\ daemon' = [daemon EXCEPT !.running = TRUE]
  /\ UNCHANGED <<backend, threads, mark, spent>>

\* The glasses may not be there; the capture goes on without them.
OpenHardware == BOOLEAN
VitureBegin ==
  /\ AtStep("begin") /\ Glasses
  /\ Done
  /\ IF daemon.running THEN UNCHANGED <<daemon, eyes, trackers>>
     ELSE /\ \E hardware \in OpenHardware :
               daemon' = [daemon EXCEPT !.running = TRUE, !.voxels = {}, !.poses = <<>>, !.buffer = <<>>,
                                        !.hardware = hardware, !.tracker = Len(trackers) + 1,
                                        !.eye = IF kind = "VITURE" THEN Len(eyes) + 1 ELSE @]
          /\ eyes' = IF kind = "VITURE" THEN NewEye("enter") ELSE eyes
          /\ trackers' = Append(trackers, Polling)
  /\ UNCHANGED <<backend, workers, mark, spent>>

\* The engine first, then the camera: the engine is stopped again without one.
ServerModel ==
  /\ AtStep("model") /\ model # "loading"
  /\ IF model = "failed"
     THEN Skip(<<>>, FALSE) /\ daemon' = [daemon EXCEPT !.running = FALSE] /\ UNCHANGED <<backend, workers, mark>>
     ELSE Done /\ EngineStart /\ daemon' = [daemon EXCEPT !.worker = NextWorker]
  /\ UNCHANGED <<eyes, trackers, spent>>

\* Mutant: without a camera the engine is left running.
CameraMissingEngineRuns ==
  /\ AtStep("camera")
  /\ \E opened \in BOOLEAN :
       /\ Costs("fails", opened)
       /\ IF opened
          THEN /\ Done /\ eyes' = NewEye("check")
               /\ daemon' = [daemon EXCEPT !.camera = TRUE, !.capturing = TRUE, !.eye = Len(eyes) + 1]
          ELSE Skip(<<"end">>, FALSE) /\ UNCHANGED <<daemon, eyes>>
  /\ UNCHANGED <<backend, workers, trackers, mark>>

ServerCamera ==
  /\ AtStep("camera")
  /\ \E opened \in BOOLEAN :
       /\ Costs("fails", opened)
       /\ IF opened
          THEN /\ Done /\ eyes' = NewEye("check")
               /\ daemon' = [daemon EXCEPT !.camera = TRUE, !.capturing = TRUE, !.eye = Len(eyes) + 1]
          ELSE Skip(<<"halt", "joinWorker", "end">>, FALSE) /\ UNCHANGED <<daemon, eyes>>
  /\ UNCHANGED <<backend, workers, trackers, mark>>

ServerFlag ==
  /\ AtStep("flag")
  /\ IF Glasses /\ ~daemon.running THEN Skip(<<>>, TRUE) /\ UNCHANGED daemon
     ELSE Done /\ daemon' = IF Glasses THEN [daemon EXCEPT !.running = FALSE]
                                               ELSE [daemon EXCEPT !.capturing = FALSE]
  /\ UNCHANGED <<backend, threads, mark, spent>>

\* Mutant: the engine's stop does not tell its worker.
HaltTellsNobody ==
  /\ AtStep("halt") /\ Done
  /\ UNCHANGED <<backend, daemon, threads, mark, spent>>

\* LingBot's stop returns at once when the engine does not run.
ServerHalt ==
  /\ AtStep("halt")
  /\ IF kind # "ABOT" /\ ~backend.running
     THEN Skip(Tail(Tail(server.todo)), server.ok) /\ UNCHANGED backend
     ELSE Done /\ backend' = [backend EXCEPT !.running = FALSE]
  /\ UNCHANGED <<daemon, threads, mark, spent>>

\* A join waits for the thread to end, or for its few seconds to pass.  They
\* pass for certain when the engine has been started again meanwhile.
Join(i, ended) == Costs("late", i = 0 \/ ended)
ServerJoinWorker ==
  /\ AtStep("joinWorker") /\ Done
  /\ Join(daemon.worker, workers[daemon.worker].at = "done" \/ backend.running)
  /\ backend' = [backend EXCEPT !.state = "STOPPED"]
  /\ daemon'  = IF kind = "ABOT" THEN [daemon EXCEPT !.worker = 0] ELSE daemon
  /\ UNCHANGED <<threads, mark>>

ServerJoinEye ==
  /\ AtStep("joinEye") /\ Done
  /\ Join(daemon.eye, eyes[daemon.eye].at = "done")
  /\ daemon' = [daemon EXCEPT !.eye = 0]
  /\ UNCHANGED <<backend, threads, mark>>

ServerJoinTracker ==
  /\ AtStep("joinTracker") /\ Done
  /\ Join(daemon.tracker, trackers[daemon.tracker].at = "done")
  /\ daemon' = [daemon EXCEPT !.tracker = 0]
  /\ UNCHANGED <<backend, threads, mark>>

ServerRelease ==
  /\ AtStep("release") /\ Done
  /\ daemon' = [daemon EXCEPT !.camera = FALSE]
  /\ UNCHANGED <<backend, threads, mark, spent>>

ServerEnd ==
  /\ AtStep("end") /\ Done
  /\ daemon' = [daemon EXCEPT !.running = FALSE]
  /\ UNCHANGED <<backend, threads, mark, spent>>

\* The camera of a thread that outlived its join is closed under it.
ServerClose ==
  /\ AtStep("close") /\ Done
  /\ daemon' = [daemon EXCEPT !.hardware = FALSE]
  /\ eyes' = [i \in 1..Len(eyes) |-> [eyes[i] EXCEPT !.open = FALSE]]
  /\ UNCHANGED <<backend, workers, trackers, mark, spent>>

ServerStep ==
  /\ \/ ServerBegin \/ VitureBegin \/ ServerModel \/ ServerCamera \/ ServerFlag \/ ServerHalt
     \/ ServerJoinWorker \/ ServerJoinEye \/ ServerJoinTracker
     \/ ServerRelease \/ ServerEnd \/ ServerClose
  /\ UNCHANGED <<kind, model>>
===============================================================================
