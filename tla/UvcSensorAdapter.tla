--------------------------- MODULE UvcSensorAdapter ---------------------------
(***************************************************************************)
(* GenericUvcSensorAdapter: the thread that uses the adapter, and the      *)
(* thread with which it reads the frames of a camera and hands them to a   *)
(* callback.  The camera may be unplugged, or be busy, at any time.        *)
(***************************************************************************)
EXTENDS Naturals

CONSTANTS MaxStreams, MaxCallbacks \* bounds: calls of start, callbacks registered
ASSUME UvcBounds == {MaxStreams, MaxCallbacks} \subseteq Nat

VARIABLES
  camera,  \* whether it is plugged in
  adapter, \* connected_, streaming_, whether capture_thread_ is joinable, image_callback_
  loop,    \* captureLoop: where it is, whether it has the camera open, the callback it is in
  user,    \* the user's thread: the call it waits in
  calls    \* starts and callbacks so far

uvcVars == <<camera, adapter, loop, user, calls>>

NoCallback == 0
Callbacks  == 0..MaxCallbacks
LoopAt     == {"gone", "open", "buffers", "on", "test", "select", "frame", "call"}
UserAt     == {"idle", "stop", "disconnect", "destroy", "destroyed", "aborted"}
Joining    == {"stop", "disconnect", "destroy"}

UvcTypes ==
  /\ camera \in BOOLEAN
  /\ adapter \in [connected : BOOLEAN, streaming : BOOLEAN, joinable : BOOLEAN, callback : Callbacks]
  /\ loop \in [at : LoopAt, fd : BOOLEAN, callback : Callbacks]
  /\ user \in UserAt
  /\ calls \in [starts : 0..MaxStreams, callbacks : Callbacks]

UvcInit ==
  /\ camera \in BOOLEAN
  /\ adapter = [connected |-> FALSE, streaming |-> FALSE, joinable |-> FALSE, callback |-> NoCallback]
  /\ loop = [at |-> "gone", fd |-> FALSE, callback |-> NoCallback]
  /\ user = "idle"
  /\ calls = [starts |-> 0, callbacks |-> 0]

PlugOrUnplug == camera' = ~camera /\ UNCHANGED <<adapter, loop, user, calls>>

-----------------------------------------------------------------------------
(* The user's thread *)

\* A failed connect leaves the flag as it was.
ConnectCamera ==
  /\ user = "idle"
  /\ \/ camera /\ adapter' = [adapter EXCEPT !.connected = TRUE]
     \/ UNCHANGED adapter
  /\ UNCHANGED <<camera, loop, user, calls>>

\* To assign to a thread that has not been joined ends the program.
StartLoop ==
  /\ user = "idle" /\ ~adapter.streaming
  /\ calls.starts < MaxStreams /\ calls' = [calls EXCEPT !.starts = @ + 1]
  /\ IF adapter.joinable
     THEN /\ user' = "aborted" /\ UNCHANGED loop
          /\ adapter' = [adapter EXCEPT !.streaming = TRUE]
     ELSE /\ adapter' = [adapter EXCEPT !.streaming = TRUE, !.joinable = TRUE]
          /\ loop' = [loop EXCEPT !.at = "open"]
          /\ UNCHANGED user
  /\ UNCHANGED camera

\* What is left to do of a call when the loop is not running or has ended; to
\* destroy a thread that has not been joined ends the program.
FinishCall(call, joinable) ==
  /\ adapter' = [adapter EXCEPT !.joinable = joinable, !.connected = call = "stop" /\ @]
  /\ user' = IF call # "destroy" THEN "idle" ELSE IF joinable THEN "aborted" ELSE "destroyed"

\* stop, disconnect and the destructor.  When the loop has ended by itself,
\* nobody joins it.
StopLoop(call) ==
  /\ user = "idle"
  /\ IF adapter.streaming
     THEN adapter' = [adapter EXCEPT !.streaming = FALSE] /\ user' = call
     ELSE FinishCall(call, adapter.joinable)
  /\ UNCHANGED <<camera, loop, calls>>

\* Mutant: the loop is not waited for.
JoinDetached ==
  /\ user \in Joining
  /\ FinishCall(user, FALSE)
  /\ UNCHANGED <<camera, loop, calls>>
JoinLoop ==
  /\ user \in Joining /\ loop.at = "gone"
  /\ FinishCall(user, FALSE)
  /\ UNCHANGED <<camera, loop, calls>>

\* registerImageCallback.
Registered(callback) ==
  /\ user = "idle"
  /\ adapter' = [adapter EXCEPT !.callback = callback]
  /\ UNCHANGED <<camera, loop, user>>
\* The loop is in a callback with callback_mutex_ held.
RegisterCallback(new) ==
  /\ loop.at # "call"
  /\ new => calls.callbacks < MaxCallbacks
  /\ calls' = IF new THEN [calls EXCEPT !.callbacks = @ + 1] ELSE calls
  /\ Registered(IF new THEN calls.callbacks + 1 ELSE NoCallback)

-----------------------------------------------------------------------------
(* The capture thread *)

Goes(from, to) == loop.at = from /\ loop' = [loop EXCEPT !.at = to]
LoopGone == [at |-> "gone", fd |-> FALSE, callback |-> NoCallback]
Undisturbed == UNCHANGED <<camera, adapter, user, calls>>

\* The loop closes the camera, if it has it open, and ends.
LoopFails(from) ==
  /\ loop.at = from
  /\ loop' = LoopGone
  /\ adapter' = [adapter EXCEPT !.streaming = FALSE]
  /\ UNCHANGED <<camera, user, calls>>

OpenCamera  == camera /\ loop.at = "open" /\ loop' = [loop EXCEPT !.at = "buffers", !.fd = TRUE] /\ Undisturbed
FailOpen    == LoopFails("open")
GetBuffers  == camera /\ Goes("buffers", "on") /\ Undisturbed
FailBuffers == LoopFails("buffers")
StreamOn    == camera /\ Goes("on", "test") /\ Undisturbed
FailStream  == LoopFails("on")

\* while (streaming_)
TestFlag ==
  /\ loop.at = "test"
  /\ loop' = IF adapter.streaming THEN [loop EXCEPT !.at = "select"] ELSE LoopGone
  /\ Undisturbed

FrameArrives   == camera /\ Goes("select", "frame") /\ Undisturbed
\* 100 ms without a frame, or a frame that cannot be taken.
NoFrame == Goes("select", "test") /\ Undisturbed

\* The callback is called with callback_mutex_ held.
CallBack ==
  /\ loop.at = "frame"
  /\ loop' = IF adapter.callback = NoCallback THEN [loop EXCEPT !.at = "test"]
             ELSE [loop EXCEPT !.at = "call", !.callback = adapter.callback]
  /\ Undisturbed
CallReturns == loop.at = "call" /\ loop' = [loop EXCEPT !.at = "test", !.callback = NoCallback] /\ Undisturbed

CaptureLoop ==
  \/ OpenCamera \/ FailOpen
  \/ GetBuffers \/ FailBuffers
  \/ StreamOn \/ FailStream
  \/ TestFlag \/ FrameArrives \/ NoFrame \/ CallBack \/ CallReturns

UvcNext ==
  \/ PlugOrUnplug
  \/ ConnectCamera
  \/ StartLoop
  \/ \E call \in Joining : StopLoop(call)
  \/ JoinLoop
  \/ \E new \in BOOLEAN : RegisterCallback(new)
  \/ CaptureLoop

UvcSpec == UvcInit /\ [][UvcNext]_uvcVars

-----------------------------------------------------------------------------
(* Properties *)

\* When stop, disconnect or the destructor has returned, no callback runs and
\* nobody has the camera open: what the user frees next is not used any more.
StoppedIsQuiet ==
  (user \in {"idle", "destroyed"} /\ ~adapter.streaming) => loop.at = "gone" /\ ~loop.fd

\* Whoever ended the loop, the user or the camera, a loop that has ended has
\* given the camera back, and one that runs can be stopped and waited for.
CameraReleased ==
  /\ loop.at = "gone" => ~loop.fd
  /\ loop.at # "gone" => adapter.joinable

\* When a callback has been replaced, the one it replaced is not running and
\* will not be called again.
ReplacedIsQuiet == loop.at = "call" => loop.callback = adapter.callback

\* What a user of the adapter may count on, for whatever calls, in whatever
\* order, and however often the camera goes (stop joins the loop, the loop
\* closes the camera on every way out and calls back under callback_mutex_).
UvcQuiet == StoppedIsQuiet /\ CameraReleased /\ ReplacedIsQuiet

\* stop returns within the time-out of select, whether or not frames arrive.
StopReturns == \A call \in Joining : user = call ~> user # call
=============================================================================
