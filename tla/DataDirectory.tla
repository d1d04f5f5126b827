---------------------------- MODULE DataDirectory ----------------------------
(***************************************************************************)
(* What one application keeps on disk: projects with their sessions, and   *)
(* the profiles and configurations of its devices.  The two have no file   *)
(* and, as modelled, no other state in common: a step of one leaves the    *)
(* other alone, and a scene is one of them at work.                        *)
(***************************************************************************)
EXTENDS Workspace, DeviceCatalog

CONSTANT ShippedFiles \* the profiles and configurations that come with the application

\* A profile that comes with the application was written before any device was
\* moved, and it has an identifier.
ShippedProfile(f) ==
  /\ f[1] \in {Folders[i] : i \in DOMAIN Folders}
  /\ ShippedFiles[f].body.made = 0 /\ ShippedFiles[f].body.id # NoId

\* A configuration that comes with it can be read.  The two that are not in a
\* file of their own name (scanar_profile.json, default_orin_dual.json) are of
\* the composite scanner's two parts.
ShippedConfigs == {g \in DOMAIN ShippedFiles : g[1] = "scanner_configs"}
Custom(id)     == id[1] = "cfg"
ShippedConfig(f) ==
  LET c == ShippedFiles[f].body IN
  /\ f = ConfigAt(f[2]) /\ ShippedFiles[f].whole
  /\ c = [id |-> c.id, instances |-> c.instances, calib |-> c.calib]
  /\ IsFiniteSet(c.instances)
  /\ Custom(c.id) /\ c.calib # {} => Cardinality(c.instances) >= 2
  /\ f # ConfigAt(c.id) =>
       /\ ~Custom(c.id) /\ c.instances = TwoParts /\ c.calib \subseteq {TwoParts}
       /\ ~Custom(f[2])
       /\ \A g \in ShippedConfigs : /\ ShippedFiles[g].body.id # f[2]
                                    /\ ShippedFiles[g].body.id = c.id => g = f
ASSUME ShippedFilesAssumption ==
  /\ IsFiniteSet(DOMAIN ShippedFiles)
  /\ \A f \in DOMAIN ShippedFiles : IF f \in ShippedConfigs THEN ShippedConfig(f) ELSE ShippedProfile(f)

Scenes == {"projects", "devices"}

VARIABLE scene

directoryVars == <<scene, vars, catalogVars>>

DirectoryInit == scene \in Scenes /\ Init /\ CatalogInit(ShippedFiles)

InProjects == scene = "projects" /\ UNCHANGED <<scene, catalogVars>>
InDevices  == scene = "devices" /\ UNCHANGED <<scene, vars>>

DirectoryNext ==
  \* the projects
  \/ InProjects /\ CreateProject
  \/ \E p \in Projects : InProjects /\ OpenProject(p)
  \/ \E rig \in Rigs : InProjects /\ SelectScanner(rig)
  \/ \E started \in SUBSET Sensors : InProjects /\ StartCapture(started)
  \/ \E heard \in SUBSET Sensors : InProjects /\ Telemetry(heard)
  \/ InProjects /\ StopCapture
  \/ InProjects /\ SaveCapture
  \/ \E d \in Sensors \cup {"FUSED"} : InProjects /\ SetActiveDisplaySensor(d)
  \/ \E live \in BOOLEAN : InProjects /\ SetLiveCleanup(live)
  \/ InProjects /\ CleanUp
  \/ InProjects /\ ResetCleanup
  \/ InProjects /\ Commit
  \/ InProjects /\ ExportCloud
  \/ InProjects /\ Fuse
  \/ InProjects /\ SaveFused
  \/ \E p, q \in Projects : \E ref \in ProjectClouds(disk, p), mov \in ProjectClouds(disk, q) :
       InProjects /\ RunRegistration(ref, mov)
  \/ \E f \in {g \in DOMAIN disk : g[1] = "reg.json"} : InProjects /\ LoadRegistration(f)
  \/ \E view \in 0..2, tinted \in BOOLEAN : InProjects /\ ViewRegistration(view, tinted)
  \/ InProjects /\ ClearRegistration
  \/ InProjects /\ SaveAsSessionMap
  \/ InProjects /\ SaveAsNewProject
  \/ InProjects /\ FinishWriting
  \/ InProjects /\ Crash
  \* the devices
  \/ \E u \in Units, socket \in Sockets : InDevices /\ Attach(u, socket)
  \/ \E u \in Units : InDevices /\ Detach(u)
  \/ InDevices /\ RefreshDiscovery
  \/ \E shown \in panel.devices : InDevices /\ CreateProfile(shown)
  \/ \E m \in Catalog : InDevices /\ CreateTemplate(m)
  \/ \E id \in panel.scanners.profiles : InDevices /\ SelectProfile(id)
  \/ \E slug \in Titles, instances \in SUBSET panel.scanners.profiles :
       InDevices /\ SaveCustomConfig(slug, instances)
  \/ \E with \in SUBSET panel.sensors : \E ref \in with, done \in SUBSET with :
       InDevices /\ Calibrate(with, ref, done)
  \/ InDevices /\ FinishStoring
  \/ InDevices /\ Fall

DirectorySpec == DirectoryInit /\ [][DirectoryNext]_directoryVars

\* The variables of both have their types.
DirectoryTypeOK == TypeOK /\ CatalogTypes
=============================================================================
