----------------------------- MODULE MCStation ------------------------------
(* A station for model checking: one lidar or two that capture, what comes  *)
(* with the application, two nodes in one network or in two, and a session  *)
(* of three of which one captures.                                          *)
EXTENDS Station, TLC

CONSTANTS s1, s2

One == <<s1>>
Two == <<s1, s2>>

CameraOrPair == {{"CAMERA"}, {"AIRY", "GEMINI"}}
FewTurns ==
  (ProfileOf("GEMINI") :> File(1, TRUE)) @@ (TransformOf("GEMINI") :> File(1, TRUE)) @@
  (ProfileOf("CAMERA") :> File(Untold, TRUE)) @@ (TransformOf("CAMERA") :> File(0, TRUE))

OneAtATime == {{"p1"}, {"c"}}

OneNetOrTwo == {{{"a", "b"}}, {{"a"}, {"b"}}}
=============================================================================
