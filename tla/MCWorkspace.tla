---------------------------- MODULE MCWorkspace ----------------------------
(* Rigs of one and of two sensors; two cameras of one model, one of which  *)
(* may not be opened, and a serial board without a number; and what comes  *)
(* with the application.                                                   *)
EXTENDS DataDirectory, TLC

AlonePlusBoth == {{"AIRY"}, {"AIRY", "GEMINI"}}

SomeFacts ==
  [u \in {"cam1", "cam2", "board"} |->
     CASE u = "cam1"  -> [kind |-> "camera", model |-> "32e4:4802", serial |-> "A1"]
       [] u = "cam2"  -> [kind |-> "shut", model |-> "32e4:4802", serial |-> "A2"]
       [] u = "board" -> [kind |-> "serial", model |-> "2341:0043", serial |-> ""]]
OneModel == {[model |-> "mid360", family |-> "LIO"]}
OneTitle == {<<"rig">>}

AiryId == <<"robosense", "airy", "01">>
GeminiId == <<"orbbec", "gemini", "336l", "01">>
Validated(id, family, serial) ==
  File([id |-> id, serial |-> serial, family |-> family, node |-> NoNode, of |-> "shipped", made |-> 0], TRUE)
FewFiles ==
  (ProfileAt("validated", <<"airy", "profile">>) :> Validated(AiryId, "LIO", "99812")) @@
  (ProfileAt("validated", <<"gemini", "profile">>) :> Validated(GeminiId, "RGBD", "CPC")) @@
  (ConfigAt(<<"scanar", "profile">>) :>
     File([id |-> <<"scanar">>, instances |-> TwoParts, calib |-> {TwoParts}], TRUE))
=============================================================================
