------------------------------ MODULE MCCameras ------------------------------
(* Cameras that look at one place, at another, and at the first again; and  *)
(* the catalogue of the application.  Units are known by what they say on   *)
(* the bus, by the address they answer at, by their name and firmware, or   *)
(* by nothing that the catalogue has.                                       *)
EXTENDS CameraBench, VendorCatalogue, TLC

CONSTANTS p1, p2

Twice == <<p1, p2, p1>>

Parts ==
  {<<"192.168.1.10", "192.168.1.100">>, <<"192.168.1.200", "192.168.1.200:6699">>} \cup
  {"RS-Airy", "airy"} \X {"robosense_airy", "robosense_airy_lite"}

AllModels == {Catalogue[i] : i \in 1..Len(Catalogue)}
Buses == UNION {m.usb : m \in AllModels} \cup {<<"9999", "8888">>}
Addresses == ({m.ip : m \in AllModels} \ {""}) \cup {"10.0.0.9", "/dev/video4", "192.168.1.200:6699"}

Silent == [usb |-> NoUsb, vendor |-> "", name |-> "", firmware |-> Absent, serial |-> "", at |-> "",
           uvc |-> FALSE, rgb |-> FALSE, depth |-> FALSE, lidar |-> FALSE]
OnBus   == {[Silent EXCEPT !.usb = b, !.at = a, !.name = n, !.uvc = TRUE, !.rgb = TRUE] :
              b \in Buses, a \in {"/dev/video4", "192.168.1.10"}, n \in {"", "livox_avia"}}
AtAddress == {[Silent EXCEPT !.at = a, !.name = n, !.lidar = TRUE] : a \in Addresses, n \in {"", "hesai_ot128"}}
ByNames == {[Silent EXCEPT !.vendor = m.vendor, !.name = m.id, !.firmware = f, !.lidar = TRUE] :
              m \in AllModels, f \in {Absent, Unreadable} \cup 1..4}
Strange == {[Silent EXCEPT !.usb = b, !.vendor = v, !.name = n, !.uvc = u, !.rgb = r, !.depth = d, !.lidar = l] :
              b \in {NoUsb, <<"9999", "8888">>}, v \in {"", "Acme", "Livox"}, n \in {"", "Watcher"},
              u \in BOOLEAN, r \in BOOLEAN, d \in BOOLEAN, l \in BOOLEAN}
Airy    == [Silent EXCEPT !.vendor = "RoboSense", !.name = "RS-Airy", !.at = "192.168.1.200:6699",
                          !.firmware = 1, !.lidar = TRUE]
Ours    == {[Airy EXCEPT !.at = "", !.serial = s] : s \in {"", "AIRY-2024-99812"}}
SomeUnits == OnBus \cup AtAddress \cup ByNames \cup Strange \cup {Airy} \cup Ours

FewProfiles == {[id |-> "airy_profile", status |-> "VALIDATED", serial |-> "AIRY-2024-99812", backend |-> "AiryLioBackend"],
                [id |-> "camera_32e4_4802", status |-> "EXPERIMENTAL", serial |-> "2023081002", backend |-> "LingBotStreamingBackend"]}
SomeTypes   == {"LiDAR", "Stereo", "RGB Camera"}
SomeQueries == {"airy", "Rev7", "nothing like it"}
=============================================================================
