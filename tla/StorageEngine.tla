---------------------------- MODULE StorageEngine ----------------------------
(***************************************************************************)
(* The project tree on disk: where the storage engine and the bridge keep  *)
(* what, how a file is written, and what a crash leaves of a series of     *)
(* writes.  A disk maps the paths that exist to files; a file is whole, or *)
(* torn: a write into it was cut off.                                      *)
(***************************************************************************)
EXTENDS Naturals, Sequences, FiniteSets

\* A cloud is the recordings its points are of (sensor and session), whether
\* an outlier filter has been over it, and whether its colours are the
\* cyan and amber that tell two registered clouds apart.
Cloud(points, clean, tint) == [of |-> points, clean |-> clean, tint |-> tint]
Nothing  == Cloud({}, FALSE, FALSE)
Empty(c) == c.of = {}

\* Several clouds in one.
Together(clouds) == LET of == UNION {c.of : c \in clouds} IN
  IF of = {} THEN Nothing
  ELSE Cloud(of, \E c \in clouds : c.clean, \E c \in clouds : c.tint)

-----------------------------------------------------------------------------
(* Paths *)

ProjectFile(p)      == <<"project.json", p>>
ProjectMap(p)       == <<"map.pcd", p>>
Export(p)           == <<"exports", p>>
SessionDir(p, s)    == <<"session", p, s>>
SessionFile(p, s)   == <<"session.json", p, s>>
SessionNode(p, s)   == <<"scanner_nodes", p, s>>
LegacyNode(p, s)    == <<"scanner_node.json", p, s>>
SessionMap(p, s)    == <<"map.pcd", p, s>>
RawBackup(p, s)     == <<"map_raw_backup.pcd", p, s>>
CaptureMap(p, s, c)  == <<"map.pcd", p, s, c>>
CaptureRaw(p, s, c)  == <<"map_raw_backup.pcd", p, s, c>>
Trajectory(p, s, c)  == <<"trajectory.json", p, s, c>>
CaptureFile(p, s, c) == <<"capture.json", p, s, c>>
Combined(p, s, r)    == <<"combined.pcd", p, s, r>>
Aligned(p, s, r)     == <<"mov_aligned.pcd", p, s, r>>
RegFile(p, s, r)     == <<"reg.json", p, s, r>>

Records == {"project.json", "session.json", "scanner_nodes", "scanner_node.json",
            "capture.json", "reg.json"}
Clouds  == {"map.pcd", "map_raw_backup.pcd", "combined.pcd", "mov_aligned.pcd", "exports"}

-----------------------------------------------------------------------------
(* Writing *)

File(body, whole) == [body |-> body, whole |-> whole]

\* A JSON file the engine writes: to a temporary name, then renamed.
Atomically(path, body) == <<[path |-> path, body |-> body, atomic |-> TRUE]>>
\* A file written in place; of a cloud, a crash leaves what some of the
\* points are, of anything else nothing that can be read.
InPlace(path, body) == <<[path |-> path, body |-> body, atomic |-> FALSE]>>
MakeDir(p, s) == Atomically(SessionDir(p, s), TRUE)

\* The disk after all of these writes.
Applied(d, ws) ==
  [f \in DOMAIN d \cup {ws[i].path : i \in DOMAIN ws} |->
     LET at == {i \in DOMAIN ws : ws[i].path = f} IN
     IF at = {} THEN d[f]
     ELSE File(ws[CHOOSE i \in at : \A j \in at : j <= i].body, TRUE)]

\* What a write that was cut off leaves to be read: of a cloud, nothing or
\* some of its points.
Torn(w) == {File(w.body, FALSE)}
             \cup (IF w.path[1] \in Clouds THEN {File(Nothing, FALSE)} ELSE {})

\* The disks a crash may leave: some of the writes done, and the next one torn
\* unless it is atomic.
Cuts(d, ws) ==
  LET Before(n)     == Applied(d, SubSeq(ws, 1, n - 1))
      With(e, f, x) == [g \in DOMAIN e \cup {f} |-> IF g = f THEN x ELSE e[g]]
  IN {Before(n) : n \in 1..(Len(ws) + 1)} \cup
     UNION {{With(Before(n), ws[n].path, file) : file \in Torn(ws[n])} :
              n \in {m \in DOMAIN ws : ~ws[m].atomic}}

-----------------------------------------------------------------------------
(* Reading *)

Holds(d, f) == f \in DOMAIN d              \* fs::exists
Read(d, f)  == Holds(d, f) /\ d[f].whole   \* readJson succeeds
Json(d, f)  == d[f].body
Pcd(d, f)   == IF Holds(d, f) THEN d[f].body ELSE Nothing \* loadMapPcd

\* listProjects and loadProject: a project is there when its record is.
Listed(d) == {f[2] : f \in {g \in DOMAIN d : g[1] = "project.json" /\ d[g].whole}}
\* The session directories of a project.
SessionsOf(d, p) == {f[3] : f \in {g \in DOMAIN d : g[1] = "session" /\ g[2] = p}}
\* The captures of a session: its directories below captures/.
CapturesOf(d, p, s) ==
  {f[4] : f \in {g \in DOMAIN d : /\ g[1] \in {"map.pcd", "trajectory.json", "capture.json"}
                                  /\ Len(g) = 4 /\ g[2] = p /\ g[3] = s}}
\* loadSession: the projects that hold a readable record of the session.  The
\* first one in directory order answers.
HomesOf(d, s)  == {f[2] : f \in {g \in DOMAIN d : g[1] = "session.json" /\ g[3] = s /\ d[g].whole}}
\* saveCapture: the projects that have a directory of the session.
PlacesOf(d, s) == {f[2] : f \in {g \in DOMAIN d : g[1] = "session" /\ g[3] = s}}
=============================================================================
