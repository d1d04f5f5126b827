----------------------------- MODULE CameraBench -----------------------------
(***************************************************************************)
(* Cameras and the choice of a sensor: a capture that a neural engine      *)
(* reconstructs from, the adapter of any standard camera, and the          *)
(* catalogue of device models with its look-ups and its dialog.  As        *)
(* modelled they have no state in common; a scene is one part at work.     *)
(***************************************************************************)
EXTENDS NeuralCapture, UvcSensorAdapter, CompatibilityResolver, CatalogueDialog

Scenes == {"neural", "uvc", "catalogue"}

VARIABLE scene

benchVars == <<scene, vars, uvcVars, resolverVars, tab>>

\* What is not in the scene starts in one way only.
BenchInit ==
  /\ scene \in Scenes
  /\ Init /\ UvcInit /\ ResolverInit /\ DialogInit
  /\ scene # "neural" => kind = CHOOSE k \in Kinds : TRUE
  /\ scene # "uvc" => camera

InNeural    == scene = "neural" /\ UNCHANGED <<scene, uvcVars, resolverVars, tab>>
InUvc       == scene = "uvc" /\ UNCHANGED <<scene, vars, resolverVars, tab>>
InResolver  == scene = "catalogue" /\ tab = Opening /\ UNCHANGED <<scene, vars, uvcVars, tab>>
InCatalogue == scene = "catalogue" /\ asked = Absent /\ UNCHANGED <<scene, vars, uvcVars, resolverVars>>

BenchNext ==
  \/ InNeural /\ Next
  \/ InUvc /\ UvcNext
  \/ InResolver /\ ResolverNext
  \/ InCatalogue /\ DialogNext

\* The threads run, each by itself, and the model's load ends; a network that
\* fails, a wait that times out and the user's buttons are nobody's duty.
NeuralFairness ==
  /\ WF_vars(scene = "neural" /\ BridgeAndServer)
  /\ WF_vars(scene = "neural" /\ LoadModel /\ BridgeWaits)
  /\ \A i \in 1..MaxStarts : /\ WF_vars(scene = "neural" /\ Reconstructing(i))
                             /\ WF_vars(scene = "neural" /\ Filming(i))
                             /\ WF_vars(scene = "neural" /\ Tracking(i))

\* The capture thread runs, callbacks return, and who waits in join goes on
\* when it has ended.
UvcFairness == WF_uvcVars(scene = "uvc" /\ CaptureLoop) /\ WF_uvcVars(scene = "uvc" /\ JoinLoop)

BenchSpec == BenchInit /\ [][BenchNext]_benchVars /\ NeuralFairness /\ UvcFairness

\* Every part's variables have their types.
BenchTypeOK == TypeOK /\ UvcTypes

\* What the catalogue answers, and what its dialog shows.
CatalogueSound == StrangersUnknown /\ BusDecides /\ ShownIsListed

\* Every call returns: of the bridge, though it waits for three threads, and
\* of the adapter, whether or not frames arrive.
CallsReturn == UiReturns /\ StopReturns
=============================================================================
