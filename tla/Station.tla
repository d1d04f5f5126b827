------------------------------- MODULE Station -------------------------------
(***************************************************************************)
(* A station at work: the capture itself, the orientation of the sensors,  *)
(* the network, and the submaps that a session streams.  As modelled they  *)
(* have no state in common, and a step of one leaves the others alone:     *)
(* whatever happens to one can be seen without them, and a scene is one    *)
(* part at work.                                                           *)
(***************************************************************************)
EXTENDS CapturePipeline, Orientation, Discovery, SubmapStreaming

CONSTANT ShippedTurns \* the orientations that come with the application

\* They are turns, or profiles that say nothing of one.
ASSUME ShippedAssumption ==
  \A f \in DOMAIN ShippedTurns : ShippedTurns[f].body \in Angles \cup {Untold}

Scenes == {"capture", "orientation", "network", "stream"}

VARIABLE scene

stationVars == <<scene, vars, orientationVars, networkVars, streamVars>>

\* What is not in the scene starts in one way only.
StationInit ==
  /\ scene \in Scenes
  /\ Init /\ OrientationInit(ShippedTurns) /\ DiscoveryInit /\ StreamInit
  /\ scene # "capture" => daemon = [s \in Sensor |-> Dead]
  /\ scene # "orientation" => pane.set = CHOOSE set \in Sets : TRUE
  /\ scene # "network" => near = CHOOSE net \in Nets : TRUE
  /\ scene # "stream" => crew = CHOOSE some \in Crews : TRUE

InCapture     == /\ scene = "capture"
                 /\ UNCHANGED <<scene, orientationVars, networkVars, streamVars>>
InOrientation == /\ scene = "orientation"
                 /\ UNCHANGED <<scene, vars, networkVars, streamVars>>
InNetwork     == /\ scene = "network"
                 /\ UNCHANGED <<scene, vars, orientationVars, streamVars>>
InStream      == /\ scene = "stream"
                 /\ UNCHANGED <<scene, vars, orientationVars, networkVars>>

StationNext ==
  \* the capture
  \/ InCapture /\ StartCapture
  \/ InCapture /\ OnTelemetryTick
  \/ InCapture /\ StopCapture
  \/ InCapture /\ Enter
  \/ InCapture /\ Collect
  \/ InCapture /\ Connect
  \/ InCapture /\ Respawn
  \/ InCapture /\ Send
  \/ InCapture /\ ReadAnswer
  \/ InCapture /\ Refused
  \/ InCapture /\ TimeOut
  \/ \E s \in Sensor : InCapture /\ HandleClient(s)
  \/ \E s \in Sensor : InCapture /\ HandleOrphan(s)
  \/ \E s \in Sensor : InCapture /\ SenseScan(s)
  \/ \E s \in Sensor : InCapture /\ RecordScan(s)
  \/ \E s \in Sensor : InCapture /\ Crash(s)
  \* the orientation dialog
  \/ \E d \in Mounted \cup {"FUSED"} : InOrientation /\ ShowSensor(d)
  \/ InOrientation /\ StartTake
  \/ \E some \in SUBSET Mounted : InOrientation /\ TakeTick(some)
  \/ InOrientation /\ StopTake
  \/ \E s \in Mounted : InOrientation /\ RestartDaemon(s)
  \/ \E sample \in BOOLEAN : InOrientation /\ OpenDialog(sample)
  \/ InOrientation /\ CloseDialog
  \/ \E s \in Mounted : InOrientation /\ PickSensor(s)
  \/ \E angle \in Angles : InOrientation /\ SetRotation(angle)
  \/ \E delta \in Angles : InOrientation /\ StepRotation(delta)
  \/ InOrientation /\ ResetRotation
  \/ \E align \in Angles : InOrientation /\ AutoLevel(align)
  \/ InOrientation /\ Accept
  \/ InOrientation /\ AcceptFails
  \/ InOrientation /\ FinishKeeping
  \/ InOrientation /\ Hit
  \* the network
  \/ \E n \in Nodes, at \in Addresses : InNetwork /\ Boot(n, at)
  \/ \E n \in Nodes : InNetwork /\ Rename(n)
  \/ \E n \in Nodes : InNetwork /\ FinishFiling(n)
  \/ \E n \in Nodes : InNetwork /\ Die(n)
  \/ \E n \in Nodes, at \in Addresses : InNetwork /\ AddPeer(n, at)
  \/ \E n \in Nodes : InNetwork /\ Broadcast(n)
  \/ \E n \in Nodes, b \in air : InNetwork /\ Hear(n, b)
  \/ \E n \in Nodes : \E u \in DOMAIN node[n].table : InNetwork /\ Elapse(n, u)
  \/ \E n \in Nodes : InNetwork /\ ListNodes(n)
  \/ \E n \in Nodes : InNetwork /\ CreateSession(n)
  \/ \E n \in Nodes : \E u \in DOMAIN node[n].table : InNetwork /\ Join(n, u)
  \/ \E n \in Nodes : InNetwork /\ LeaveSession(n)
  \/ \E n \in Nodes, on \in BOOLEAN : InNetwork /\ Capture(n, on)
  \* the submaps
  \/ \E n \in crew : InStream /\ Publish(n)
  \/ \E h \in Beaters : InStream /\ Beat(h)
  \/ \E t \in Threads : InStream /\ Lock(t)
  \/ \E h \in All : InStream /\ Unlock(h)
  \/ \E l \in Links : InStream /\ Write(l[1], l[2])
  \/ \E l \in Links : InStream /\ Receive(l[1], l[2])
  \/ \E l \in Links : InStream /\ Handle(l[1], l[2])

\* The capture and the stream are fair; nothing is promised of the others.
StationSpec ==
  StationInit /\ [][StationNext]_stationVars
  /\ Fairness /\ WF_streamVars(scene = "stream" /\ RunOn)

\* Every part's variables have their types.
StationTypeOK == TypeOK /\ OrientationTypes /\ NetworkTypes
=============================================================================
