--------------------------- MODULE StreamingBackend ---------------------------
(***************************************************************************)
(* The two neural reconstruction engines.  A worker thread takes the       *)
(* latest camera frame out of a slot that holds one, and adds to a path    *)
(* and to a set of voxels.  LingBot collects a few frames first, to fix    *)
(* the scale; its voxels and its path outlive a stop.  ABot starts afresh. *)
(***************************************************************************)
EXTENDS Integers, SequencesExt, FiniteSetsExt

CONSTANTS
  None,
  Place,          \* what a camera can look at: a place yields one voxel
  NumScaleFrames  \* num_scale_frames

ASSUME ScaleAssumption == NumScaleFrames \in Nat \ {0}

Frame   == [n : Nat \ {0}, place : Place]  \* the n-th frame taken
Backend == [running : BOOLEAN,
            state   : {"IDLE", "ACCUMULATING_SCALE_FRAMES", "STREAMING", "STOPPED"},
            slot    : Frame \cup {None},   \* _latest_frame_bgr
            scale   : Seq(Frame),          \* _scale_frames_bgr and _ts, LingBot's
            path    : Seq(Nat),            \* the frames whose pose is known; 0 is ABot's origin
            voxels  : Seq(Place),          \* a dict, in the order of insertion
            served  : Nat,                 \* _last_served_point_idx, LingBot's
            buffer  : Seq(Place)]          \* new_points_buffer, ABot's
Created == [running |-> FALSE, state |-> "IDLE", slot |-> None, scale |-> <<>>, path |-> <<>>,
            voxels |-> <<>>, served |-> 0, buffer |-> <<>>]

\* start() of an engine that does not run.
LingBotStart(b) ==
  [b EXCEPT !.running = TRUE, !.state = "ACCUMULATING_SCALE_FRAMES", !.scale = <<>>]
ABotStart(b) ==
  [b EXCEPT !.running = TRUE, !.state = "STREAMING", !.path = <<0>>, !.voxels = <<>>, !.buffer = <<>>]

\* Mutant: nothing served is minus one.
LingBotResetMinusOne(b) ==
  [b EXCEPT !.state = "IDLE", !.scale = <<>>, !.path = <<>>, !.voxels = <<>>, !.served = -1]

LingBotReset(b) ==
  [b EXCEPT !.state = "IDLE", !.scale = <<>>, !.path = <<>>, !.voxels = <<>>, !.served = 0]

LingBotFeed(b, f) == IF b.running THEN [b EXCEPT !.slot = f] ELSE b
ABotPush(b, f)    == [b EXCEPT !.slot = f]

\* Mutant: a frame that has been taken stays in the slot.
GrabKeepsSlot(b) == b
Grab(b) == [b EXCEPT !.slot = None]

\* The frames of a prediction: their poses, and the voxels nobody had.
Numbers(frames) == [i \in 1..Len(frames) |-> frames[i].n]
Inserted(voxels, frames) ==
  LET upTo[i \in 0..Len(frames)] ==
        IF i = 0 THEN voxels
        ELSE IF frames[i].place \in ToSet(upTo[i - 1]) THEN upTo[i - 1]
        ELSE Append(upTo[i - 1], frames[i].place)
  IN  upTo[Len(frames)]
Beyond(longer, shorter) == SubSeq(longer, Len(shorter) + 1, Len(longer))

\* The clock of a scale pass is read when the network is done, from a list
\* that another start may have emptied: the thread ends on the first index
\* that is missing.
LingBotProcess(b, frames, stamps) ==
  LET known == Min({Len(frames), Len(stamps)})
  IN  [b EXCEPT !.path   = @ \o Numbers(SubSeq(stamps, 1, known)),
                !.voxels = Inserted(@, SubSeq(frames, 1, known))]
ABotProcess(b, frames) ==
  LET voxels == Inserted(b.voxels, frames)
  IN  [b EXCEPT !.path = @ \o Numbers(frames), !.voxels = voxels,
                !.buffer = @ \o Beyond(voxels, b.voxels)]
===============================================================================
