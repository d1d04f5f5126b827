----------------------------- MODULE SensorDaemon -----------------------------
(***************************************************************************)
(* A sensor daemon (the Airy's): a process that records while it is told   *)
(* to, and answers one request at a time on each connection.  Requests and *)
(* the subscriber's callbacks hold one lock.  A point stands for a scan:   *)
(* the new voxels of its cloud and its pose on the trajectory.             *)
(***************************************************************************)
EXTENDS Integers, FiniteSets

CONSTANT None

Point == Nat \ {0}

Daemon == [alive     : BOOLEAN,         \* the process runs
           capturing : BOOLEAN,         \* is_capturing
           voxels    : SUBSET Point,    \* global_voxels and trajectory
           fresh     : SUBSET Point,    \* new_points_buffer
           flight    : {None} \cup Point] \* a scan in a callback, before it takes the lock

Spawned == [alive |-> TRUE, capturing |-> FALSE, voxels |-> {}, fresh |-> {}, flight |-> None]
Dead    == [Spawned EXCEPT !.alive = FALSE]

\* Starting while recording succeeds and forgets nothing.
StartAcquisition(d) ==
  IF d.capturing THEN d
  ELSE [d EXCEPT !.capturing = TRUE, !.voxels = {}, !.fresh = {}]

\* Mutant: the new points are sent and kept.
ServeKeepsBuffer(d, request) ==
  CASE request = "START" -> StartAcquisition(d)
    [] request = "STOP"  -> [d EXCEPT !.capturing = FALSE]
    [] OTHER             -> d

\* What a request does to the daemon.
Serve(d, request) ==
  CASE request = "START" -> StartAcquisition(d)
    [] request = "STOP"  -> [d EXCEPT !.capturing = FALSE]
    [] request = "NEW"   -> [d EXCEPT !.fresh = {}]
    [] OTHER             -> d

\* The points a request's answer carries; telemetry carries how many they are.
Carried(d, request) ==
  CASE request \in {"TELEMETRY", "TRAJECTORY", "ALL"} -> d.voxels
    [] request = "NEW" -> d.fresh
    [] OTHER -> {}

\* The callback converts the cloud before it takes the lock, and does not ask
\* whether the daemon still records when it has it.
Sense(d, p) == [d EXCEPT !.flight = p]
Record(d)   == [d EXCEPT !.voxels = @ \cup {d.flight}, !.fresh = @ \cup {d.flight}, !.flight = None]
=============================================================================
