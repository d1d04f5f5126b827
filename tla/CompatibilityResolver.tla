------------------------ MODULE CompatibilityResolver ------------------------
(***************************************************************************)
(* Which model, adapter and backend a piece of hardware is given:          *)
(* CompatibilityResolver looks among the profiles on disk, then among the  *)
(* models of the catalogue, then for the vendor, then for a camera of the  *)
(* standard kind, and gives up on what can see nothing.                    *)
(***************************************************************************)
EXTENDS VendorEcosystem

CONSTANTS
  Units,     \* what may be known of a piece of hardware
  Profiles,  \* the profiles in profiles/validated and profiles/experimental
  Absent,      \* no firmware version, nothing asked
  Unreadable \* a firmware version that does not start with a number

Firmware == {Absent, Unreadable} \cup Nat
ASSUME UnitsAssumption ==
  \A h \in Units : /\ {h.vendor, h.name, h.serial, h.at} \subseteq STRING
                   /\ {h.uvc, h.rgb, h.depth, h.lidar} \subseteq BOOLEAN
                   /\ h.firmware \in Firmware
ASSUME AbsentAssumption == Absent \notin Nat \cup {Unreadable} /\ Absent \notin Units /\ Unreadable \notin Nat

VARIABLES
  asked, \* the hardware resolved
  answer \* what it was resolved to

resolverVars == <<asked, answer>>

Answer(tier, model, vendor, adapter, backend, legacy, supported) ==
  [tier |-> tier, model |-> model, vendor |-> vendor, adapter |-> adapter, backend |-> backend,
   legacy |-> legacy, supported |-> supported, capturable |-> backend # "NONE"]

ResolverInit == asked = Absent /\ answer = Absent

\* parseFirmwareMajor
Major(firmware) == IF firmware = Unreadable THEN 0 ELSE firmware

\* resolveFirmwareCompatibility.  An adapter is a sequence of words.
Served(adapter, legacy) == [adapter |-> adapter, legacy |-> legacy, supported |-> TRUE]
Ouster(m, major) ==
  IF major >= 4 /\ m.revision = "Rev8" THEN {Served(<<"OusterAdapter">>, FALSE)}
  ELSE IF major = 3 \/ (major < 4 /\ m.revision = "Rev7") THEN {Served(<<"OusterAdapter">>, FALSE)}
  ELSE IF major <= 2 \/ m.status = "LEGACY" THEN {Served(<<"OusterLegacyAdapter">>, TRUE)}
  ELSE {}
FirmwareCompatibility(m, firmware) ==
  LET own   == Served(<<m.adapter>>, m.legacy)
      rules == IF m.vendor = "Ouster" THEN Ouster(m, Major(firmware)) ELSE {} IN
  IF firmware = Absent THEN {own}
  ELSE IF rules # {} THEN rules
  ELSE IF Major(firmware) >= m.minimum THEN {own}
  ELSE IF m.oldSdk THEN {Served(<<m.adapter, "Legacy">>, TRUE)}
  ELSE {[own EXCEPT !.supported = FALSE]}

\* Tier 1 compares a profile's "physical_device_id", which DeviceProfile never
\* writes, with the serial number or the identifiers on the bus.
PhysicalId(p) == ""
Exact(h) ==
  {p \in Profiles :
     \/ h.serial # "" /\ PhysicalId(p) # "" /\ Occurs(h.serial, PhysicalId(p))
     \/ /\ h.usb[1] # "" /\ h.usb[2] # "" /\ PhysicalId(p) # ""
        /\ Occurs(h.usb[1], PhysicalId(p)) /\ Occurs(h.usb[2], PhysicalId(p))}
KnownModel(h) == FindByHardware(h.usb, h.name, h.at)
Siblings(h)   == Firsts(ByVendor(h.vendor))

Verified(h) == h.rgb \/ h.depth \/ h.lidar
Camera(h)   == h.uvc /\ h.rgb

KnownAnswers(h, m) ==
  {Answer(2, m.id, m.vendor, f.adapter, m.backend, f.legacy, f.supported) : f \in FirmwareCompatibility(m, h.firmware)}
SdkAnswer(m) == Answer(3, "sdk", m.vendor, <<m.adapter>>, m.backend, FALSE, TRUE)
OtherAnswer(h) ==
  CASE Camera(h)    -> Answer(4, "uvc", h.vendor, <<"GenericUvcSensorAdapter">>, "LingBotStreamingBackend", FALSE, TRUE)
    [] ~Verified(h) -> Answer(6, "unknown", h.vendor, <<"NONE">>, "NONE", FALSE, TRUE)
    [] OTHER        -> Answer(5, "generic", h.vendor, <<"NONE">>, "NONE", FALSE, TRUE)

\* resolveHardware
Resolutions(h) ==
  IF Exact(h) # {} THEN {Answer(1, p.id, h.vendor, <<>>, p.backend, FALSE, TRUE) : p \in Exact(h)}
  ELSE IF KnownModel(h) # {} THEN UNION {KnownAnswers(h, Models[i]) : i \in KnownModel(h)}
  ELSE IF Siblings(h) # {} THEN {SdkAnswer(Models[i]) : i \in Siblings(h)}
  ELSE {OtherAnswer(h)}

\* A resolution leaves nothing behind that another one reads.
Resolve(h) ==
  /\ asked = Absent
  /\ asked' = h
  /\ answer' \in Resolutions(h)

ResolverNext == \E h \in Units : Resolve(h)
ResolverSpec == ResolverInit /\ [][ResolverNext]_resolverVars

-----------------------------------------------------------------------------
(* Properties *)

Asked == asked # Absent
ModelsNamed(id) == {Models[i] : i \in {j \in Positions : Models[j].id = id}}

\* Hardware of which the catalogue has neither the identifiers nor the
\* address nor the name is never taken for one of its models, and nothing is
\* captured with it unless its vendor is known or it has shown a video picture
\* (findModelByHardware and the tiers of resolveHardware).
Stranger(h) ==
  \A i \in Positions :
    LET m == Models[i] IN
    /\ h.usb # NoUsb => h.usb \notin m.usb
    /\ h.at # "" => m.ip = "" \/ ~Occurs(m.ip, h.at)
    /\ h.name # "" => ~Occurs(m.id, h.name) /\ ~Occurs(h.name, m.id)
OfNoVendor(h) == h.vendor = "" \/ \A i \in Positions : ~Occurs(h.vendor, Models[i].vendor)
StrangersUnknown ==
  (Asked /\ answer.tier # 1 /\ Stranger(asked)) =>
    /\ answer.tier # 2
    /\ OfNoVendor(asked) => (answer.capturable => asked.uvc /\ asked.rgb)

\* Hardware that states the identifiers of a model on the bus is taken for a
\* model with these identifiers, whatever its name and address are like.
BusDecides ==
  (Asked /\ answer.tier # 1 /\ \E i \in Positions : asked.usb # NoUsb /\ asked.usb \in Models[i].usb) =>
    answer.tier = 2 /\ \E m \in ModelsNamed(answer.model) : asked.usb \in m.usb
=============================================================================
