--------------------------- MODULE WorkspaceProofs ---------------------------
(* The project tree, for any projects, sensors, calls and crashes: what a   *)
(* crash between or in the writes of a call leaves of it.                   *)
EXTENDS DataDirectory, FirstPositions, SequenceTheorems

-----------------------------------------------------------------------------
(* Sequences of writes.                                                     *)

Series(ws) == ws \in Seq({ws[i] : i \in DOMAIN ws})
Whole(path, body) == [path |-> path, body |-> body, atomic |-> TRUE]
Plain(path, body) == [path |-> path, body |-> body, atomic |-> FALSE]

LEMMA SeqShape ==
  ASSUME NEW s, Series(s)
  PROVE  Len(s) \in Nat /\ DOMAIN s = 1..Len(s) /\ s = [i \in 1..Len(s) |-> s[i]]
<1> DEFINE S == {s[i] : i \in DOMAIN s}
<1>1. s \in Seq(S)
  BY DEF Series
<1> HIDE DEF S
<1> QED
  BY <1>1, LenProperties

LEMMA SeqMaker ==
  ASSUME NEW n \in Nat, NEW s, s = [i \in 1..n |-> s[i]]
  PROVE  Series(s) /\ Len(s) = n
<1> DEFINE S == {s[i] : i \in DOMAIN s}
<1>1. DOMAIN s = 1..n /\ s \in [1..n -> S]
  OBVIOUS
<1>2. s \in Seq(S)
  <2> HIDE DEF S
  <2> QED
    BY <1>1, SeqDef
<1>3. Len(s) = n
  <2> HIDE DEF S
  <2> QED
    BY <1>1, <1>2, LenProperties
<1> QED
  BY <1>2, <1>3 DEF Series

LEMMA SeqIsSeries ==
  ASSUME NEW S, NEW s \in Seq(S)
  PROVE  Series(s)
<1>1. Len(s) \in Nat /\ s = [i \in 1..Len(s) |-> s[i]]
  BY LenProperties
<1> QED
  BY <1>1, SeqMaker

LEMMA OneWrite ==
  ASSUME NEW path, NEW body
  PROVE  /\ Series(Atomically(path, body)) /\ Len(Atomically(path, body)) = 1
         /\ Atomically(path, body)[1] = Whole(path, body)
         /\ Series(InPlace(path, body)) /\ Len(InPlace(path, body)) = 1
         /\ InPlace(path, body)[1] = Plain(path, body)
<1>1. ASSUME NEW w
      PROVE  Series(<<w>>) /\ Len(<<w>>) = 1 /\ <<w>>[1] = w
  <2>1. <<w>> = [i \in 1..1 |-> <<w>>[i]]
    OBVIOUS
  <2> QED
    BY <2>1, SeqMaker
<1> QED
  BY <1>1 DEF Atomically, InPlace, Whole, Plain

LEMMA NoWrite == Series(<<>>) /\ Len(<<>>) = 0
<1>1. <<>> = [i \in 1..0 |-> <<>>[i]]
  OBVIOUS
<1> QED
  BY <1>1, SeqMaker

LEMMA Joined ==
  ASSUME NEW s, NEW t, Series(s), Series(t)
  PROVE  /\ Series(s \o t) /\ Len(s \o t) = Len(s) + Len(t)
         /\ \A i \in 1..Len(s) : (s \o t)[i] = s[i]
         /\ \A i \in 1..Len(t) : (s \o t)[Len(s) + i] = t[i]
<1> DEFINE S == {s[i] : i \in DOMAIN s} \cup {t[i] : i \in DOMAIN t}
<1>1. s \in Seq(S) /\ t \in Seq(S)
  BY DEF Series
<1>2. /\ s \o t \in Seq(S) /\ Len(s \o t) = Len(s) + Len(t)
      /\ \A i \in 1..Len(s) + Len(t) :
           (s \o t)[i] = IF i <= Len(s) THEN s[i] ELSE t[i - Len(s)]
  <2> HIDE DEF S
  <2> QED
    BY <1>1, ConcatProperties
<1>3. Len(s) \in Nat /\ Len(t) \in Nat
  BY SeqShape
<1>4. Series(s \o t)
  <2> HIDE DEF S
  <2> QED
    BY <1>2, SeqIsSeries
<1> HIDE DEF S
<1> QED
  BY <1>2, <1>3, <1>4

LEMMA AllOfJoined ==
  ASSUME NEW s, NEW t, Series(s), Series(t), NEW i \in 1..Len(s \o t)
  PROVE  \/ i \in 1..Len(s) /\ (s \o t)[i] = s[i]
         \/ i - Len(s) \in 1..Len(t) /\ (s \o t)[i] = t[i - Len(s)]
<1>1. Len(s) \in Nat /\ Len(t) \in Nat
  BY SeqShape
<1>2. CASE i <= Len(s)
  BY <1>1, <1>2, Joined
<1>3. CASE i > Len(s)
  <2>1. i - Len(s) \in 1..Len(t) /\ i = Len(s) + (i - Len(s))
    BY <1>1, <1>3, Joined
  <2> QED
    BY <2>1, Joined
<1> QED
  BY <1>1, <1>2, <1>3

\* u is s and then t.
IsJoin(u, s, t) ==
  /\ Series(u) /\ Len(s) \in Nat /\ Len(t) \in Nat /\ Len(u) = Len(s) + Len(t)
  /\ \A i \in 1..Len(s) : u[i] = s[i]
  /\ \A i \in 1..Len(u) : i \in 1..Len(s) \/ (i - Len(s) \in 1..Len(t) /\ u[i] = t[i - Len(s)])

LEMMA JoinIsJoin ==
  ASSUME NEW s, NEW t, Series(s), Series(t)
  PROVE  IsJoin(s \o t, s, t)
<1>1. PICK u : u = s \o t
  OBVIOUS
<1>2. Series(u) /\ Len(s) \in Nat /\ Len(t) \in Nat /\ Len(u) = Len(s) + Len(t)
  BY <1>1, Joined, SeqShape
<1>3. ASSUME NEW i \in 1..Len(s)
      PROVE  u[i] = s[i]
  BY <1>1, Joined
<1>4. ASSUME NEW i \in 1..Len(u), i \notin 1..Len(s)
      PROVE  i - Len(s) \in 1..Len(t) /\ u[i] = t[i - Len(s)]
  BY <1>1, <1>4, AllOfJoined
<1>5. IsJoin(u, s, t)
  BY <1>2, <1>3, <1>4 DEF IsJoin
<1> QED
  BY <1>1, <1>5

LEMMA AtomicIs ==
  ASSUME NEW path, NEW body, NEW w, w = Whole(path, body)
  PROVE  w.path = path /\ w.body = body /\ w.atomic
BY DEF Whole

\* A set of positions has a last one.
LEMMA LastPosition ==
  ASSUME NEW k \in Nat, NEW I \in SUBSET (1..k), I # {}
  PROVE  \E i \in I : \A j \in I : j <= i
<1> DEFINE J == {k + 1 - i : i \in I}
<1>1. J \in SUBSET (1..k) /\ J # {}
  <2>1. \A i \in I : i \in 1..k
    OBVIOUS
  <2>2. \A i \in 1..k : k + 1 - i \in 1..k
    OBVIOUS
  <2> QED
    BY <2>1, <2>2
<1>2. PICK m \in J : \A j \in J : m <= j
  <2> HIDE DEF J
  <2> QED
    BY <1>1, FirstPosition
<1>3. PICK i \in I : m = k + 1 - i
  BY <1>2
<1>4. \A j \in I : j <= i
  BY <1>2, <1>3
<1> QED
  BY <1>4

-----------------------------------------------------------------------------
(* The disk after a series of writes.                                       *)

\* What e has of d, and of the first n of the writes.
Holding(d, ws, n, e) ==
  /\ e = [f \in DOMAIN e |-> e[f]]
  /\ DOMAIN e = DOMAIN d \cup {ws[i].path : i \in 1..n}
  /\ \A f \in DOMAIN e : (\A i \in 1..n : ws[i].path # f) => f \in DOMAIN d /\ e[f] = d[f]
  /\ \A i \in 1..n : \E k \in 1..n :
       ws[k].path = ws[i].path /\ e[ws[i].path] = File(ws[k].body, TRUE)

LEMMA AppliedFiles ==
  ASSUME NEW d, NEW ws, Series(ws)
  PROVE  Holding(d, ws, Len(ws), Applied(d, ws))
<1> DEFINE e == Applied(d, ws)
<1> DEFINE At(f) == {i \in DOMAIN ws : ws[i].path = f}
<1>1. Len(ws) \in Nat /\ DOMAIN ws = 1..Len(ws)
  BY SeqShape
<1>2. /\ e = [f \in DOMAIN e |-> e[f]]
      /\ DOMAIN e = DOMAIN d \cup {ws[i].path : i \in 1..Len(ws)}
      /\ \A f \in DOMAIN e : e[f] = IF At(f) = {} THEN d[f]
                                    ELSE File(ws[CHOOSE i \in At(f) : \A j \in At(f) : j <= i].body, TRUE)
  <2>1. e = [f \in DOMAIN d \cup {ws[i].path : i \in DOMAIN ws} |->
               IF At(f) = {} THEN d[f]
               ELSE File(ws[CHOOSE i \in At(f) : \A j \in At(f) : j <= i].body, TRUE)]
    BY Zenon DEF Applied
  <2>2. /\ e = [f \in DOMAIN e |-> e[f]]
        /\ DOMAIN e = DOMAIN d \cup {ws[i].path : i \in DOMAIN ws}
    BY <2>1
  <2>3. \A f \in DOMAIN e : e[f] = IF At(f) = {} THEN d[f]
                                   ELSE File(ws[CHOOSE i \in At(f) : \A j \in At(f) : j <= i].body, TRUE)
    <3> HIDE DEF At
    <3> QED
      BY <2>1
  <2> HIDE DEF At
  <2> QED
    BY <1>1, <2>2, <2>3
<1>3. ASSUME NEW f \in DOMAIN e, \A i \in 1..Len(ws) : ws[i].path # f
      PROVE  f \in DOMAIN d /\ e[f] = d[f]
  <2>1. At(f) = {} /\ f \in DOMAIN d
    BY <1>1, <1>2, <1>3
  <2> QED
    BY <1>2, <2>1
<1>4. ASSUME NEW i \in 1..Len(ws)
      PROVE  \E k \in 1..Len(ws) : ws[k].path = ws[i].path /\ e[ws[i].path] = File(ws[k].body, TRUE)
  <2> DEFINE f == ws[i].path
             k == CHOOSE j \in At(f) : \A m \in At(f) : m <= j
  <2>1. At(f) \in SUBSET (1..Len(ws)) /\ At(f) # {} /\ f \in DOMAIN e
    BY <1>1, <1>2
  <2>2. \E j \in At(f) : \A m \in At(f) : m <= j
    <3> HIDE DEF At, f
    <3> QED
      BY <1>1, <2>1, LastPosition
  <2>3. k \in At(f)
    <3> HIDE DEF At, f
    <3> QED
      BY <2>2
  <2>4. e[f] = File(ws[k].body, TRUE)
    BY <1>2, <2>1
  <2>5. k \in 1..Len(ws) /\ ws[k].path = f
    BY <1>1, <2>3
  <2> HIDE DEF k
  <2> QED
    BY <2>4, <2>5
<1> HIDE DEF At, e
<1> QED
  BY <1>2, <1>3, <1>4 DEF Holding, e

\* The same of the first of the writes.
LEMMA AppliedFirst ==
  ASSUME NEW d, NEW ws, Series(ws), NEW n \in 1..Len(ws) + 1
  PROVE  Holding(d, ws, n - 1, Applied(d, SubSeq(ws, 1, n - 1)))
<1>1. Len(ws) \in Nat /\ n - 1 \in Nat
  BY SeqShape
<1> DEFINE t == SubSeq(ws, 1, n - 1)
<1>2. t = [i \in 1..(n - 1) |-> ws[i]]
  BY <1>1
<1>3. \A i \in 1..(n - 1) : t[i] = ws[i]
  BY <1>2
<1>4. Series(t) /\ Len(t) = n - 1
  <2>1. t = [i \in 1..(n - 1) |-> t[i]]
    BY <1>2, <1>3
  <2> HIDE DEF t
  <2> QED
    BY <1>1, <2>1, SeqMaker
<1> DEFINE e == Applied(d, t)
<1> HIDE DEF t
<1>5. Holding(d, t, n - 1, e)
  BY <1>4, AppliedFiles
<1> HIDE DEF e
<1>6. DOMAIN e = DOMAIN d \cup {ws[i].path : i \in 1..(n - 1)}
  BY <1>3, <1>5 DEF Holding
<1>7. ASSUME NEW f \in DOMAIN e, \A i \in 1..(n - 1) : ws[i].path # f
      PROVE  f \in DOMAIN d /\ e[f] = d[f]
  BY <1>3, <1>5, <1>7 DEF Holding
<1>8. ASSUME NEW i \in 1..(n - 1)
      PROVE  \E k \in 1..(n - 1) : ws[k].path = ws[i].path /\ e[ws[i].path] = File(ws[k].body, TRUE)
  <2>1. PICK k \in 1..(n - 1) : t[k].path = t[i].path /\ e[t[i].path] = File(t[k].body, TRUE)
    BY <1>5 DEF Holding
  <2> QED
    BY <1>3, <2>1
<1>9. Holding(d, ws, n - 1, e)
  BY <1>5, <1>6, <1>7, <1>8 DEF Holding
<1> QED
  BY <1>9 DEF e, t
-----------------------------------------------------------------------------
(* What holds of every disk that a crash may leave.                         *)

\* The two files that a capture cannot be shown without.
FilesOf(f, c) == {CaptureMap(c.at, f[3], c.id), Trajectory(c.at, f[3], c.id)}

\* Files whose names say the save that made them.
Stamped(f) == Len(f) = 4 /\ f[1] \in {"map.pcd", "map_raw_backup.pcd", "trajectory.json"}

\* Everything belongs to a listed project; what a session's record lists can be
\* read; and no save has a number beyond n.
Sound(d, n) ==
  /\ d = [f \in DOMAIN d |-> d[f]]
  /\ \A f \in DOMAIN d :
       /\ f[2] \in Listed(d)
       /\ Stamped(f) => f[4][2] \in 0..n
       /\ f[1] = "session.json" =>
            /\ f = SessionFile(f[2], f[3])
            /\ d[f].body = [status |-> d[f].body.status, captures |-> d[f].body.captures]
            /\ \A c \in d[f].body.captures :
                 c.id[2] \in 1..n /\ \A g \in FilesOf(f, c) : Read(d, g)

\* What was written once is not written again.
Spares(d, ws) == \A i \in DOMAIN ws : Evidence(ws[i].path) => ws[i].path \notin DOMAIN d

\* What the bridge has open is on disk, or will be when the writing is done.
Bound(u, d) ==
  /\ {"project", "sensors"} \subseteq DOMAIN u
  /\ IsFiniteSet(DOMAIN u.sensors)
  /\ u.project \in Listed(d) \cup {None}

DiskInv ==
  /\ Sound(disk, made.saves)
  /\ made.saves \in 0..MaxSaves /\ DOMAIN made = DOMAIN Spent
  /\ Series(writing)
  /\ \A d \in Cuts(disk, writing) : Sound(d, made.saves)
  /\ Spares(disk, writing)
  /\ Bound(ui, Applied(disk, writing))

-----------------------------------------------------------------------------
(* Writes that a crash may cut off anywhere.                                *)

\* Each write goes to a listed project, or to one whose record is the first
\* thing written; what has to be whole is written atomically; no write touches
\* what a record on disk lists; and a record that lists captures comes after
\* their files.
Harmless(d, first, w, n) ==
  /\ w.path[2] \in Listed(d) \/ (first.path = ProjectFile(w.path[2]) /\ first.atomic)
  /\ w.path[1] \in {"project.json", "session.json"} => w.atomic
  /\ Stamped(w.path) => w.path[4][2] \in 0..n
  /\ \A g \in DOMAIN d : g[1] = "session.json" =>
       \A c \in d[g].body.captures : w.path \notin FilesOf(g, c)

ComesAfter(d, ws, i, n) ==
  /\ ws[i].path = SessionFile(ws[i].path[2], ws[i].path[3])
  /\ ws[i].body = [status |-> ws[i].body.status, captures |-> ws[i].body.captures]
  /\ \A c \in ws[i].body.captures :
       /\ c.id[2] \in 1..n
       /\ \A g \in FilesOf(ws[i].path, c) :
            /\ Read(d, g) \/ \E j \in 1..(i - 1) : ws[j].path = g
            /\ \A j \in (i + 1)..Len(ws) : ws[j].path # g

Orderly(d, ws, n) ==
  /\ Series(ws)
  /\ \A i \in 1..Len(ws) :
       /\ Harmless(d, ws[1], ws[i], n)
       /\ ws[i].path[1] = "session.json" => ComesAfter(d, ws, i, n)

\* The disk e is b with a torn file where w went.
TornAt(b, w, e) == \E file \in Torn(w) :
  ~file.whole /\ e = [g \in DOMAIN b \cup {w.path} |-> IF g = w.path THEN file ELSE b[g]]

CutBefore(d, ws, e) == \E n \in 1..Len(ws) + 1 : Holding(d, ws, n - 1, e)
CutWithin(d, ws, e) == \E n \in 1..Len(ws) : \E b :
  ~ws[n].atomic /\ Holding(d, ws, n - 1, b) /\ TornAt(b, ws[n], e)

LEMMA EachHarmless ==
  ASSUME NEW d, NEW ws, NEW n, Orderly(d, ws, n), NEW i \in 1..Len(ws)
  PROVE  Harmless(d, ws[1], ws[i], n)
BY DEF Orderly

LEMMA RecordsComeAfter ==
  ASSUME NEW d, NEW ws, NEW n, Orderly(d, ws, n), NEW i \in 1..Len(ws), ws[i].path[1] = "session.json"
  PROVE  ComesAfter(d, ws, i, n)
BY DEF Orderly

LEMMA CutIs ==
  ASSUME NEW d, NEW ws, Series(ws), NEW e \in Cuts(d, ws)
  PROVE  CutBefore(d, ws, e) \/ CutWithin(d, ws, e)
<1>1. Len(ws) \in Nat /\ DOMAIN ws = 1..Len(ws)
  BY SeqShape
<1>2. ASSUME NEW n \in 1..Len(ws) + 1, e = Applied(d, SubSeq(ws, 1, n - 1))
      PROVE  CutBefore(d, ws, e)
  <2>1. Holding(d, ws, n - 1, e)
    BY <1>2, AppliedFirst
  <2> QED
    BY <2>1 DEF CutBefore
<1>3. ASSUME NEW n \in {m \in DOMAIN ws : ~ws[m].atomic}, NEW file \in Torn(ws[n]), NEW b,
             b = Applied(d, SubSeq(ws, 1, n - 1)),
             e = [g \in DOMAIN b \cup {ws[n].path} |-> IF g = ws[n].path THEN file ELSE b[g]]
      PROVE  CutWithin(d, ws, e)
  <2>1. n \in 1..Len(ws) /\ n \in 1..Len(ws) + 1 /\ ~ws[n].atomic
    BY <1>1
  <2>2. ~file.whole
    BY <1>3 DEF Torn, File
  <2>3. Holding(d, ws, n - 1, b)
    BY <1>3, <2>1, AppliedFirst
  <2>4. TornAt(b, ws[n], e)
    BY <1>3, <2>2, Zenon DEF TornAt
  <2> QED
    BY <2>1, <2>3, <2>4 DEF CutWithin
<1>4. e \in {Applied(d, SubSeq(ws, 1, n - 1)) : n \in 1..(Len(ws) + 1)} \cup
            UNION {{[g \in DOMAIN Applied(d, SubSeq(ws, 1, n - 1)) \cup {ws[n].path} |->
                      IF g = ws[n].path THEN file ELSE Applied(d, SubSeq(ws, 1, n - 1))[g]] :
                      file \in Torn(ws[n])} : n \in {m \in DOMAIN ws : ~ws[m].atomic}}
  BY Zenon DEF Cuts
<1>5. CASE \E n \in 1..(Len(ws) + 1) : e = Applied(d, SubSeq(ws, 1, n - 1))
  BY <1>2, <1>5
<1>6. CASE \E n \in {m \in DOMAIN ws : ~ws[m].atomic} : \E file \in Torn(ws[n]) :
             e = [g \in DOMAIN Applied(d, SubSeq(ws, 1, n - 1)) \cup {ws[n].path} |->
                    IF g = ws[n].path THEN file ELSE Applied(d, SubSeq(ws, 1, n - 1))[g]]
  BY <1>3, <1>6, Zenon
<1> QED
  <2>1. CASE e \in {Applied(d, SubSeq(ws, 1, n - 1)) : n \in 1..(Len(ws) + 1)}
    BY <1>5, <2>1
  <2>2. CASE e \in UNION {{[g \in DOMAIN Applied(d, SubSeq(ws, 1, n - 1)) \cup {ws[n].path} |->
                      IF g = ws[n].path THEN file ELSE Applied(d, SubSeq(ws, 1, n - 1))[g]] :
                      file \in Torn(ws[n])} : n \in {m \in DOMAIN ws : ~ws[m].atomic}}
    <3>1. PICK n \in {m \in DOMAIN ws : ~ws[m].atomic} :
            e \in {[g \in DOMAIN Applied(d, SubSeq(ws, 1, n - 1)) \cup {ws[n].path} |->
                      IF g = ws[n].path THEN file ELSE Applied(d, SubSeq(ws, 1, n - 1))[g]] :
                      file \in Torn(ws[n])}
      BY <2>2, Zenon
    <3> QED
      BY <1>6, <3>1, Zenon
  <2> QED
    BY <1>4, <2>1, <2>2

\* Whole files stay whole.
LEMMA ListedStays ==
  ASSUME NEW d, NEW ws, NEW n \in Nat, NEW e, Holding(d, ws, n, e)
  PROVE  /\ Listed(d) \subseteq Listed(e)
         /\ \A g : Read(d, g) => Read(e, g)
         /\ \A i \in 1..n : Read(e, ws[i].path)
<1>1. ASSUME NEW i \in 1..n
      PROVE  Read(e, ws[i].path)
  <2>1. ws[i].path \in DOMAIN e /\ \E k \in 1..n : e[ws[i].path] = File(ws[k].body, TRUE)
    BY DEF Holding
  <2> QED
    BY <2>1 DEF Read, Holds, File
<1>2. ASSUME NEW g, Read(d, g)
      PROVE  Read(e, g)
  <2>1. CASE \E i \in 1..n : ws[i].path = g
    BY <1>1, <2>1
  <2>2. CASE \A i \in 1..n : ws[i].path # g
    BY <1>2, <2>2 DEF Holding, Read, Holds
  <2> QED
    BY <2>1, <2>2
<1>3. ASSUME NEW p \in Listed(d)
      PROVE  p \in Listed(e)
  <2>1. PICK f \in DOMAIN d : f[1] = "project.json" /\ d[f].whole /\ p = f[2]
    BY <1>3 DEF Listed
  <2>2. Read(e, f)
    BY <1>2, <2>1 DEF Read, Holds
  <2> QED
    BY <2>1, <2>2 DEF Listed, Read, Holds
<1> QED
  BY <1>1, <1>2, <1>3

LEMMA ProjectListed ==
  ASSUME NEW d, NEW p, Read(d, ProjectFile(p))
  PROVE  p \in Listed(d)
BY DEF Read, Holds, Listed, ProjectFile

WrittenBefore(ws, n, e, f) == \E k \in 1..n : ws[k].path = f /\ e[f] = File(ws[k].body, TRUE)

LEMMA RecordAt ==
  ASSUME NEW d, NEW ws, NEW n \in Nat, NEW e, Holding(d, ws, n, e), NEW f \in DOMAIN e
  PROVE  \/ f \in DOMAIN d /\ e[f] = d[f]
         \/ WrittenBefore(ws, n, e, f)
<1>1. CASE \A i \in 1..n : ws[i].path # f
  BY <1>1 DEF Holding
<1>2. CASE \E i \in 1..n : ws[i].path = f
  <2>1. PICK i \in 1..n : ws[i].path = f
    BY <1>2
  <2>2. PICK k \in 1..n : ws[k].path = ws[i].path /\ e[ws[i].path] = File(ws[k].body, TRUE)
    BY DEF Holding
  <2> QED
    BY <2>1, <2>2 DEF WrittenBefore
<1> QED
  BY <1>1, <1>2

LEMMA OrderlyCuts ==
  ASSUME NEW d, NEW ws, NEW n \in Nat, Sound(d, n), Orderly(d, ws, n), NEW e \in Cuts(d, ws)
  PROVE  Sound(e, n)
<1>1. Series(ws) /\ Len(ws) \in Nat
  BY SeqShape DEF Orderly, Harmless
<1>2. ASSUME NEW m \in 1..Len(ws) + 1, NEW b, Holding(d, ws, m - 1, b)
      PROVE  Sound(b, n)
  <2>1. m - 1 \in Nat /\ \A i \in 1..(m - 1) : i \in 1..Len(ws)
    BY <1>1
  <2>2. ASSUME NEW f \in DOMAIN b
        PROVE  f[2] \in Listed(b) /\ (Stamped(f) => f[4][2] \in 0..n)
    <3>1. CASE f \in DOMAIN d
      <4>1. f[2] \in Listed(d) /\ (Stamped(f) => f[4][2] \in 0..n)
        BY <3>1 DEF Sound
      <4> QED
        BY <1>2, <2>1, <4>1, ListedStays
    <3>2. CASE \E i \in 1..(m - 1) : ws[i].path = f
      <4>1. PICK i \in 1..(m - 1) : ws[i].path = f
        BY <3>2
      <4>2. /\ f[2] \in Listed(d) \/ ws[1].path = ProjectFile(f[2])
            /\ Stamped(f) => f[4][2] \in 0..n
        <5>1. Harmless(d, ws[1], ws[i], n)
          BY <2>1, EachHarmless
        <5> QED
          BY <4>1, <5>1 DEF Harmless
      <4>3. CASE f[2] \in Listed(d)
        BY <1>2, <2>1, <4>2, <4>3, ListedStays
      <4>4. CASE ws[1].path = ProjectFile(f[2])
        <5>1. 1 \in 1..(m - 1)
          BY <2>1
        <5>2. Read(b, ws[1].path)
          BY <1>2, <2>1, <5>1, ListedStays
        <5> QED
          BY <4>2, <4>4, <5>2, ProjectListed
      <4> QED
        BY <4>2, <4>3, <4>4
    <3> QED
      BY <1>2, <3>1, <3>2 DEF Holding
  <2>3. ASSUME NEW f \in DOMAIN b, f[1] = "session.json"
        PROVE  /\ f = SessionFile(f[2], f[3])
               /\ b[f].body = [status |-> b[f].body.status, captures |-> b[f].body.captures]
               /\ \A c \in b[f].body.captures : c.id[2] \in 1..n /\ \A g \in FilesOf(f, c) : Read(b, g)
    <3>1. CASE f \in DOMAIN d /\ b[f] = d[f]
      <4>1. /\ f = SessionFile(f[2], f[3])
            /\ d[f].body = [status |-> d[f].body.status, captures |-> d[f].body.captures]
            /\ \A c \in d[f].body.captures : c.id[2] \in 1..n /\ \A g \in FilesOf(f, c) : Read(d, g)
        BY <2>3, <3>1 DEF Sound
      <4> QED
        BY <1>2, <2>1, <3>1, <4>1, ListedStays
    <3>2. CASE WrittenBefore(ws, m - 1, b, f)
      <4>1. PICK k \in 1..(m - 1) : ws[k].path = f /\ b[f] = File(ws[k].body, TRUE)
        BY <3>2 DEF WrittenBefore
      <4>2. b[f].body = ws[k].body /\ k \in 1..Len(ws)
        BY <2>1, <4>1 DEF File
      <4>3. /\ f = SessionFile(f[2], f[3])
            /\ ws[k].body = [status |-> ws[k].body.status, captures |-> ws[k].body.captures]
            /\ \A c \in ws[k].body.captures :
                 /\ c.id[2] \in 1..n
                 /\ \A g \in FilesOf(f, c) : Read(d, g) \/ \E j \in 1..(k - 1) : ws[j].path = g
        <5>1. ComesAfter(d, ws, k, n)
          BY <2>3, <4>1, <4>2, RecordsComeAfter
        <5> QED
          BY <4>1, <5>1 DEF ComesAfter
      <4>4. ASSUME NEW c \in ws[k].body.captures, NEW g \in FilesOf(f, c)
            PROVE  Read(b, g)
        <5>1. CASE Read(d, g)
          BY <1>2, <2>1, <5>1, ListedStays
        <5>2. CASE \E j \in 1..(k - 1) : ws[j].path = g
          <6>1. PICK j \in 1..(k - 1) : ws[j].path = g
            BY <5>2
          <6>2. j \in 1..(m - 1)
            BY <2>1
          <6> QED
            BY <1>2, <2>1, <6>1, <6>2, ListedStays
        <5> QED
          BY <4>3, <5>1, <5>2
      <4> QED
        BY <4>2, <4>3, <4>4
    <3>3. \/ f \in DOMAIN d /\ b[f] = d[f]
          \/ WrittenBefore(ws, m - 1, b, f)
      BY <1>2, <2>1, <2>3, RecordAt
    <3> QED
      BY <3>1, <3>2, <3>3
  <2> QED
    BY <1>2, <2>2, <2>3 DEF Sound, Holding
<1>3. ASSUME NEW m \in 1..Len(ws), NEW b, NEW file,
             ~ws[m].atomic, Holding(d, ws, m - 1, b), ~file.whole,
             e = [g \in DOMAIN b \cup {ws[m].path} |-> IF g = ws[m].path THEN file ELSE b[g]]
      PROVE  Sound(e, n)
  <2> DEFINE w == ws[m].path
  <2>1. Sound(b, n)
    <3>1. m \in 1..Len(ws) + 1
      BY <1>1
    <3> QED
      BY <1>2, <1>3, <3>1
  <2>2. m - 1 \in Nat /\ \A i \in 1..(m - 1) : i \in 1..Len(ws) /\ m \in (i + 1)..Len(ws)
    BY <1>1
  <2>3. w[1] \notin {"project.json", "session.json"}
    <3>1. Harmless(d, ws[1], ws[m], n)
      BY EachHarmless
    <3> QED
      BY <1>3, <3>1 DEF Harmless
  <2>4. Listed(e) = Listed(b)
    <3>1. \A g : g \in DOMAIN e /\ g[1] = "project.json" <=> g \in DOMAIN b /\ g[1] = "project.json"
      BY <1>3, <2>3
    <3>2. \A g \in DOMAIN b : g[1] = "project.json" => e[g] = b[g]
      BY <1>3, <2>3
    <3> QED
      BY <3>1, <3>2 DEF Listed
  <2>5. ASSUME NEW f \in DOMAIN e
        PROVE  f[2] \in Listed(e) /\ (Stamped(f) => f[4][2] \in 0..n)
    <3>1. CASE f \in DOMAIN b
      BY <2>1, <2>4, <3>1 DEF Sound
    <3>2. CASE f = w
      <4>1. /\ f[2] \in Listed(d) \/ (ws[1].path = ProjectFile(f[2]) /\ ws[1].atomic)
            /\ Stamped(f) => f[4][2] \in 0..n
        <5>1. Harmless(d, ws[1], ws[m], n)
          BY EachHarmless
        <5> QED
          BY <3>2, <5>1 DEF Harmless
      <4>2. CASE f[2] \in Listed(d)
        BY <1>3, <2>2, <2>4, <4>1, <4>2, ListedStays
      <4>3. CASE ws[1].path = ProjectFile(f[2]) /\ ws[1].atomic
        <5>1. 1 \in 1..(m - 1)
          BY <1>1, <1>3, <4>3
        <5>2. Read(b, ws[1].path)
          BY <1>3, <2>2, <5>1, ListedStays
        <5> QED
          BY <2>4, <4>1, <4>3, <5>2, ProjectListed
      <4> QED
        BY <4>1, <4>2, <4>3
    <3> QED
      BY <1>3, <3>1, <3>2
  <2>6. ASSUME NEW f \in DOMAIN e, f[1] = "session.json"
        PROVE  /\ f = SessionFile(f[2], f[3])
               /\ e[f].body = [status |-> e[f].body.status, captures |-> e[f].body.captures]
               /\ \A c \in e[f].body.captures : c.id[2] \in 1..n /\ \A g \in FilesOf(f, c) : Read(e, g)
    <3>1. f \in DOMAIN b /\ e[f] = b[f]
      BY <1>3, <2>3, <2>6
    <3>2. /\ f = SessionFile(f[2], f[3])
          /\ b[f].body = [status |-> b[f].body.status, captures |-> b[f].body.captures]
          /\ \A c \in b[f].body.captures : c.id[2] \in 1..n /\ \A g \in FilesOf(f, c) : Read(b, g)
      BY <2>1, <2>6, <3>1 DEF Sound
    <3>3. ASSUME NEW c \in b[f].body.captures, NEW g \in FilesOf(f, c)
          PROVE  g # w
      <4>1. CASE f \in DOMAIN d /\ b[f] = d[f]
        <5>1. ws[m].path \notin FilesOf(f, c)
          <6>1. Harmless(d, ws[1], ws[m], n)
            BY EachHarmless
          <6> QED
            BY <2>6, <3>3, <4>1, <6>1 DEF Harmless
        <5> QED
          BY <3>3, <5>1
      <4>2. CASE WrittenBefore(ws, m - 1, b, f)
        <5>1. PICK k \in 1..(m - 1) : ws[k].path = f /\ b[f] = File(ws[k].body, TRUE)
          BY <4>2 DEF WrittenBefore
        <5>2. b[f].body = ws[k].body /\ k \in 1..Len(ws)
          BY <2>2, <5>1 DEF File
        <5>3. \A j \in (k + 1)..Len(ws) : ws[j].path # g
          <6>1. \A x \in ws[k].body.captures : \A y \in FilesOf(ws[k].path, x) :
                  \A j \in (k + 1)..Len(ws) : ws[j].path # y
            <7>1. ws[k].path[1] = "session.json"
              BY <2>6, <5>1
            <7> QED
              <8>1. ComesAfter(d, ws, k, n)
                BY <5>2, <7>1, RecordsComeAfter
              <8> QED
                BY <8>1 DEF ComesAfter
          <6>2. c \in ws[k].body.captures /\ g \in FilesOf(ws[k].path, c)
            BY <3>3, <5>1, <5>2
          <6> QED
            BY <6>1, <6>2
        <5> QED
          BY <2>2, <5>3
      <4> QED
        <5>1. \/ f \in DOMAIN d /\ b[f] = d[f]
              \/ WrittenBefore(ws, m - 1, b, f)
          BY <1>3, <2>2, <3>1, RecordAt
        <5> QED
          BY <4>1, <4>2, <5>1
    <3>4. ASSUME NEW g, Read(b, g), g # w
          PROVE  Read(e, g)
      BY <1>3, <3>4 DEF Read, Holds
    <3> QED
      BY <3>1, <3>2, <3>3, <3>4
  <2>7. e = [f \in DOMAIN e |-> e[f]]
    BY <1>3
  <2> QED
    BY <2>5, <2>6, <2>7 DEF Sound
<1> QED
  <2>1. CASE CutBefore(d, ws, e)
    BY <1>2, <2>1 DEF CutBefore
  <2>2. CASE CutWithin(d, ws, e)
    BY <1>3, <2>2, Zenon DEF CutWithin, TornAt
  <2> QED
    BY <1>1, <2>1, <2>2, CutIs

-----------------------------------------------------------------------------
(* The writes of several captures, one after the other.                     *)

\* f has the concatenation of the first of the sequences, up to m of them.
Flattens(f, ss, m) == f = [i \in 1..m |-> IF i = 1 THEN ss[i] ELSE f[i - 1] \o ss[i]]

LEMMA CanFlatten ==
  ASSUME NEW ss, NEW n \in Nat \ {0}
  PROVE  \E f : Flattens(f, ss, n)
<1> DEFINE I == {m \in 1..n : ~\E f : Flattens(f, ss, m)}
<1> SUFFICES ASSUME I # {}
             PROVE  FALSE
  <2>1. n \in 1..n
    OBVIOUS
  <2> QED
    BY <2>1
<1>1. PICK m \in I : \A j \in I : m <= j
  <2> HIDE DEF I
  <2>1. I \in SUBSET (1..n)
    BY DEF I
  <2> QED
    BY <2>1, FirstPosition
<1>2. CASE m = 1
  <2> DEFINE f == [i \in 1..1 |-> ss[i]]
  <2>1. Flattens(f, ss, 1)
    BY DEF Flattens
  <2> QED
    BY <1>2, <2>1
<1>3. CASE m # 1
  <2>1. m - 1 \in 1..n /\ m - 1 \notin I /\ m \in 1..n
    BY <1>1, <1>3
  <2>2. PICK g : Flattens(g, ss, m - 1)
    BY <2>1
  <2> DEFINE f == [i \in 1..m |-> IF i < m THEN g[i] ELSE g[m - 1] \o ss[m]]
  <2>3. ASSUME NEW i \in 1..m
        PROVE  f[i] = IF i = 1 THEN ss[i] ELSE f[i - 1] \o ss[i]
    <3>1. CASE i < m
      <4>1. i \in 1..(m - 1) /\ g[i] = IF i = 1 THEN ss[i] ELSE g[i - 1] \o ss[i]
        <5>1. i \in 1..(m - 1)
          BY <2>1, <3>1
        <5>2. g[i] = IF i = 1 THEN ss[i] ELSE g[i - 1] \o ss[i]
          BY <2>2, <5>1, Zenon DEF Flattens
        <5> QED
          BY <5>1, <5>2
      <4>2. i # 1 => f[i - 1] = g[i - 1]
        BY <2>1, <3>1
      <4> QED
        BY <3>1, <4>1, <4>2
    <3>2. CASE i = m
      <4>1. f[i - 1] = g[m - 1]
        BY <1>3, <2>1, <3>2
      <4>2. f[i] = g[m - 1] \o ss[m]
        <5>1. ~(i < m) /\ i \in 1..m
          BY <2>1, <3>2
        <5> QED
          BY <5>1, Zenon
      <4> HIDE DEF f
      <4> QED
        BY <1>3, <3>2, <4>1, <4>2
    <3> QED
      BY <2>1, <3>1, <3>2
  <2>4. f = [i \in 1..m |-> f[i]]
    OBVIOUS
  <2>5. Flattens(f, ss, m)
    <3> HIDE DEF f
    <3> QED
      BY <2>3, <2>4 DEF Flattens
  <2> HIDE DEF f
  <2> QED
    BY <2>5
<1> QED
  BY <1>2, <1>3

\* What f has at m are the elements of the first m sequences.
HasFirst(f, ss, m) ==
  /\ Series(f[m])
  /\ \A k \in 1..Len(f[m]) : \E i \in 1..m : \E j \in 1..Len(ss[i]) : f[m][k] = ss[i][j]
  /\ \A i \in 1..m : \A j \in 1..Len(ss[i]) : \E k \in 1..Len(f[m]) : f[m][k] = ss[i][j]

LEMMA FlattenedHas ==
  ASSUME NEW ss, NEW n \in Nat \ {0}, NEW f, Flattens(f, ss, n), \A i \in 1..n : Series(ss[i])
  PROVE  HasFirst(f, ss, n)
<1> DEFINE I == {m \in 1..n : ~HasFirst(f, ss, m)}
<1> SUFFICES ASSUME I # {}
             PROVE  FALSE
  <2>1. n \in 1..n
    OBVIOUS
  <2> QED
    BY <2>1
<1>1. PICK m \in I : \A j \in I : m <= j
  <2> HIDE DEF I
  <2>1. I \in SUBSET (1..n)
    BY DEF I
  <2> QED
    BY <2>1, FirstPosition
<1>2. CASE m = 1
  <2>1. f[1] = ss[1] /\ Series(ss[1])
    BY DEF Flattens
  <2>2. HasFirst(f, ss, 1)
    BY <2>1 DEF HasFirst
  <2> QED
    BY <1>2, <2>2
<1>3. CASE m # 1
  <2>1. m - 1 \in 1..n /\ m \in 1..n /\ HasFirst(f, ss, m - 1)
    BY <1>1, <1>3
  <2>2. PICK s : s = f[m - 1]
    OBVIOUS
  <2>3. PICK t : t = ss[m]
    OBVIOUS
  <2>4. f[m] = s \o t
    BY <1>3, <2>1, <2>2, <2>3 DEF Flattens
  <2>5. Series(s) /\ Series(t)
    BY <2>1, <2>2, <2>3 DEF HasFirst
  <2>6. Series(f[m])
    BY <2>4, <2>5, Joined
  <2>7. Len(s) \in Nat /\ Len(t) \in Nat /\ Len(f[m]) = Len(s) + Len(t)
    BY <2>4, <2>5, Joined, SeqShape
  <2>8. ASSUME NEW k \in 1..Len(f[m])
        PROVE  \E i \in 1..m : \E j \in 1..Len(ss[i]) : f[m][k] = ss[i][j]
    <3>1. CASE k \in 1..Len(s) /\ f[m][k] = s[k]
      <4>1. PICK i \in 1..(m - 1) : \E j \in 1..Len(ss[i]) : s[k] = ss[i][j]
        BY <2>1, <2>2, <3>1 DEF HasFirst
      <4>2. i \in 1..m
        BY <2>1
      <4> QED
        BY <3>1, <4>1, <4>2
    <3>2. CASE k - Len(s) \in 1..Len(t) /\ f[m][k] = t[k - Len(s)]
      <4>1. m \in 1..m
        BY <2>1
      <4> QED
        BY <2>3, <3>2, <4>1
    <3> QED
      BY <2>4, <2>5, <3>1, <3>2, AllOfJoined
  <2>9. ASSUME NEW i \in 1..m, NEW j \in 1..Len(ss[i])
        PROVE  \E k \in 1..Len(f[m]) : f[m][k] = ss[i][j]
    <3>1. CASE i = m
      <4>1. f[m][Len(s) + j] = t[j]
        BY <2>3, <2>4, <2>5, <3>1, Joined
      <4>2. Len(s) + j \in 1..Len(f[m])
        BY <2>3, <2>7, <3>1
      <4> QED
        BY <2>3, <3>1, <4>1, <4>2
    <3>2. CASE i # m
      <4>1. i \in 1..(m - 1)
        BY <2>1, <3>2
      <4>2. PICK k \in 1..Len(s) : s[k] = ss[i][j]
        BY <2>1, <2>2, <4>1 DEF HasFirst
      <4>3. f[m][k] = s[k] /\ k \in 1..Len(f[m])
        BY <2>4, <2>5, <2>7, Joined
      <4> QED
        BY <4>2, <4>3
    <3> QED
      BY <3>1, <3>2
  <2>10. HasFirst(f, ss, m)
    BY <2>6, <2>8, <2>9 DEF HasFirst
  <2> QED
    BY <2>10
<1> QED
  BY <1>2, <1>3

\* s has the elements of the sequences in ss, and no other.
HasAll(s, ss) ==
  /\ Series(s)
  /\ \A k \in 1..Len(s) : \E i \in 1..Len(ss) : \E j \in 1..Len(ss[i]) : s[k] = ss[i][j]
  /\ \A i \in 1..Len(ss) : \A j \in 1..Len(ss[i]) : \E k \in 1..Len(s) : s[k] = ss[i][j]

LEMMA Flattened ==
  ASSUME NEW ss, Series(ss), \A i \in 1..Len(ss) : Series(ss[i])
  PROVE  HasAll(FlattenSeq(ss), ss)
<1>1. Len(ss) \in Nat
  BY SeqShape
<1>2. CASE Len(ss) = 0
  <2>1. FlattenSeq(ss) = ss
    BY <1>2 DEF FlattenSeq
  <2> QED
    BY <1>2, <2>1 DEF HasAll
<1>3. CASE Len(ss) # 0
  <2> DEFINE f[i \in 1..Len(ss)] == IF i = 1 THEN ss[i] ELSE f[i - 1] \o ss[i]
  <2>1. FlattenSeq(ss) = f[Len(ss)]
    BY <1>3 DEF FlattenSeq
  <2>2. \E g : Flattens(g, ss, Len(ss))
    BY <1>1, <1>3, CanFlatten
  <2>3. Flattens(f, ss, Len(ss))
    BY <2>2 DEF Flattens
  <2> HIDE DEF f
  <2>4. HasFirst(f, ss, Len(ss))
    BY <1>1, <1>3, <2>3, FlattenedHas
  <2>5. PICK s : s = FlattenSeq(ss)
    OBVIOUS
  <2>6. s = f[Len(ss)]
    BY <2>1, <2>5
  <2>7. HasAll(s, ss)
    BY <2>4, <2>6 DEF HasFirst, HasAll
  <2> QED
    BY <2>5, <2>7
<1> QED
  BY <1>2, <1>3

\* The elements of a finite set in some order.
LEMMA Ordered ==
  ASSUME NEW S, IsFiniteSet(S)
  PROVE  Series(SetToSeq(S)) /\ \A x : x \in S <=> \E i \in 1..Len(SetToSeq(S)) : x = SetToSeq(S)[i]
<1>1. Cardinality(S) \in Nat
  BY FS_CardinalityType
<1>2. PICK f : f \in Bijection(1..Cardinality(S), S)
  BY FS_CardinalityType DEF ExistsBijection
<1>3. f \in [1..Cardinality(S) -> S] /\ IsInjective(f)
  BY <1>2 DEF Bijection, Injection, IsInjective
<1>4. SetToSeq(S) \in [1..Cardinality(S) -> S] /\ IsInjective(SetToSeq(S))
  BY <1>3 DEF SetToSeq
<1>5. PICK q : q = SetToSeq(S)
  OBVIOUS
<1>6. q = [i \in 1..Cardinality(S) |-> q[i]]
  BY <1>4, <1>5
<1>7. Series(q) /\ Len(q) = Cardinality(S)
  BY <1>1, <1>6, SeqMaker
<1>8. ASSUME NEW x \in S
      PROVE  \E i \in 1..Len(q) : x = q[i]
  <2>1. q \in Injection(1..Cardinality(S), S)
    BY <1>4, <1>5 DEF Injection, IsInjective
  <2>2. q \in Surjection(1..Cardinality(S), S)
    BY <1>1, <2>1, FS_Injection, FS_Interval
  <2> QED
    BY <1>7, <2>2 DEF Surjection
<1> QED
  BY <1>4, <1>5, <1>7, <1>8

-----------------------------------------------------------------------------
(* Writes that touch nothing anybody relies on.                             *)

\* A write to a listed project or to p, after m saves and during the n-th, that
\* no record on disk speaks of and that no recording is lost to.
Tame(d, p, m, n, w) ==
  /\ w.path[2] \in Listed(d) \cup {p}
  /\ w.path[1] # "project.json"
  /\ Stamped(w.path) => w.path[4][2] \in (0..n) \ (1..m)
  /\ Evidence(w.path) => w.path \notin DOMAIN d
  /\ w.path[1] = "session.json" =>
       /\ w.atomic /\ w.path = SessionFile(w.path[2], w.path[3])
       /\ \E status : w.body = [status |-> status, captures |-> {}]
AllTame(d, p, m, n, ws) == Series(ws) /\ \A i \in 1..Len(ws) : Tame(d, p, m, n, ws[i])

LEMMA TameJoined ==
  ASSUME NEW d, NEW p, NEW m, NEW n, NEW s, NEW t, AllTame(d, p, m, n, s), AllTame(d, p, m, n, t)
  PROVE  AllTame(d, p, m, n, s \o t)
<1>1. Series(s) /\ Series(t)
  BY DEF AllTame
<1>2. Series(s \o t)
  BY <1>1, Joined
<1>3. ASSUME NEW i \in 1..Len(s \o t)
      PROVE  Tame(d, p, m, n, (s \o t)[i])
  <2>1. \/ i \in 1..Len(s) /\ (s \o t)[i] = s[i]
        \/ i - Len(s) \in 1..Len(t) /\ (s \o t)[i] = t[i - Len(s)]
    BY <1>1, AllOfJoined
  <2>2. PICK x : x = (s \o t)[i]
    OBVIOUS
  <2>3. Tame(d, p, m, n, x)
    BY <2>1, <2>2 DEF AllTame
  <2> QED
    BY <2>2, <2>3
<1> QED
  BY <1>2, <1>3 DEF AllTame

LEMMA TameNone ==
  ASSUME NEW d, NEW p, NEW m, NEW n
  PROVE  AllTame(d, p, m, n, <<>>)
<1>1. PICK s : s = <<>>
  OBVIOUS
<1>2. Series(s) /\ Len(s) = 0
  BY <1>1, NoWrite
<1>3. AllTame(d, p, m, n, s)
  BY <1>2 DEF AllTame
<1> QED
  BY <1>1, <1>3

LEMMA TameOne ==
  ASSUME NEW d, NEW p, NEW m, NEW n, NEW path, NEW body
  PROVE  /\ Tame(d, p, m, n, Whole(path, body)) => AllTame(d, p, m, n, Atomically(path, body))
         /\ Tame(d, p, m, n, Plain(path, body)) => AllTame(d, p, m, n, InPlace(path, body))
<1>1. PICK s : s = Atomically(path, body)
  OBVIOUS
<1>2. PICK t : t = InPlace(path, body)
  OBVIOUS
<1>3. /\ Series(s) /\ Len(s) = 1 /\ s[1] = Whole(path, body)
      /\ Series(t) /\ Len(t) = 1 /\ t[1] = Plain(path, body)
  BY <1>1, <1>2, OneWrite
<1>4. ASSUME NEW q, NEW w, Series(q), Len(q) = 1, q[1] = w, Tame(d, p, m, n, w)
      PROVE  AllTame(d, p, m, n, q)
  <2>1. ASSUME NEW i \in 1..Len(q)
        PROVE  Tame(d, p, m, n, q[i])
    <3>1. i = 1
      BY <1>4
    <3> QED
      BY <1>4, <3>1
  <2> QED
    BY <1>4, <2>1 DEF AllTame
<1>5. /\ Tame(d, p, m, n, Whole(path, body)) => AllTame(d, p, m, n, s)
      /\ Tame(d, p, m, n, Plain(path, body)) => AllTame(d, p, m, n, t)
  BY <1>3, <1>4, Zenon
<1> QED
  BY <1>1, <1>2, <1>5

LEMMA FilesAreStamped ==
  ASSUME NEW g, NEW c, NEW f \in FilesOf(g, c)
  PROVE  Stamped(f) /\ f[4] = c.id /\ f[1] \in {"map.pcd", "trajectory.json"}
BY DEF FilesOf, Stamped, CaptureMap, Trajectory

LEMMA TameSpares ==
  ASSUME NEW d, NEW p, NEW m, NEW n, NEW ws, AllTame(d, p, m, n, ws)
  PROVE  Spares(d, ws)
BY SeqShape DEF AllTame, Tame, Spares

\* A tame write after the record of a project, or for a listed one.
LEMMA TameHarmless ==
  ASSUME NEW d, NEW p, NEW m \in Nat, NEW n \in Nat, Sound(d, m), NEW w, Tame(d, p, m, n, w), NEW first,
         p \in Listed(d) \/ (first.path = ProjectFile(p) /\ first.atomic)
  PROVE  Harmless(d, first, w, n)
<1>1. ASSUME NEW g \in DOMAIN d, g[1] = "session.json", NEW c \in d[g].body.captures
      PROVE  w.path \notin FilesOf(g, c)
  <2>1. c.id[2] \in 1..m
    BY <1>1 DEF Sound
  <2> SUFFICES ASSUME w.path \in FilesOf(g, c)
               PROVE  FALSE
    OBVIOUS
  <2>2. Stamped(w.path) /\ w.path[4] = c.id
    BY FilesAreStamped
  <2> QED
    BY <2>1, <2>2 DEF Tame
<1>2. w.path[2] \in Listed(d) \/ (first.path = ProjectFile(w.path[2]) /\ first.atomic)
  BY DEF Tame
<1>3. w.path[1] \in {"project.json", "session.json"} => w.atomic
  BY DEF Tame
<1>4. Stamped(w.path) => w.path[4][2] \in 0..n
  BY DEF Tame
<1> QED
  BY <1>1, <1>2, <1>3, <1>4 DEF Harmless

LEMMA TameComesAfter ==
  ASSUME NEW d, NEW p, NEW m, NEW n, NEW ws, NEW i, Tame(d, p, m, n, ws[i]), ws[i].path[1] = "session.json"
  PROVE  ComesAfter(d, ws, i, n)
<1>1. PICK status : ws[i].body = [status |-> status, captures |-> {}]
  BY DEF Tame
<1> QED
  BY <1>1 DEF Tame, ComesAfter

LEMMA TameOrderly ==
  ASSUME NEW d, NEW p \in Listed(d), NEW m \in Nat, NEW n \in Nat, Sound(d, m),
         NEW ws, AllTame(d, p, m, n, ws)
  PROVE  Orderly(d, ws, n) /\ Spares(d, ws)
<1>1. Series(ws)
  BY DEF AllTame
<1>2. ASSUME NEW i \in 1..Len(ws)
      PROVE  Harmless(d, ws[1], ws[i], n) /\ (ws[i].path[1] = "session.json" => ComesAfter(d, ws, i, n))
  <2>1. Tame(d, p, m, n, ws[i])
    BY DEF AllTame
  <2> QED
    BY <2>1, TameHarmless, TameComesAfter
<1> QED
  BY <1>1, <1>2, TameSpares DEF Orderly

\* The writes start with the record of the project.
StartsProject(d, p, ws, n) ==
  Orderly(d, ws, n) /\ Spares(d, ws) /\ Len(ws) >= 1 /\ ws[1].path = ProjectFile(p)

\* A project's record, and then its files.
LEMMA ProjectThenTame ==
  ASSUME NEW d, NEW p, NEW m \in Nat, NEW n \in Nat, Sound(d, m),
         NEW files, AllTame(d, p, m, n, files),
         NEW body, NEW ws, ws = Atomically(ProjectFile(p), body) \o files
  PROVE  StartsProject(d, p, ws, n)
<1>1. PICK s : s = Atomically(ProjectFile(p), body)
  OBVIOUS
<1>2. Series(s) /\ Len(s) = 1 /\ s[1] = Whole(ProjectFile(p), body) /\ Series(files)
  BY <1>1, OneWrite DEF AllTame
<1>3. IsJoin(ws, s, files)
  BY <1>1, <1>2, JoinIsJoin, Zenon
<1>4. Series(ws) /\ Len(ws) = 1 + Len(files) /\ Len(files) \in Nat /\ ws[1] = s[1]
  <2>1. 1 \in 1..Len(s)
    BY <1>2
  <2> QED
    BY <1>2, <1>3, <2>1 DEF IsJoin
<1>5. ws[1].path = ProjectFile(p) /\ ws[1].atomic
  BY <1>2, <1>4, AtomicIs
<1>6. ws[1].path[1] = "project.json" /\ ws[1].path[2] = p
  <2>1. ProjectFile(p)[1] = "project.json" /\ ProjectFile(p)[2] = p
    BY DEF ProjectFile
  <2> QED
    BY <1>5, <2>1, Zenon
<1>7. ASSUME NEW i \in 1..Len(ws), i # 1
      PROVE  Tame(d, p, m, n, ws[i])
  <2>1. i - 1 \in 1..Len(files) /\ ws[i] = files[i - 1]
    <3>1. i \notin 1..Len(s) /\ i - Len(s) = i - 1
      BY <1>2, <1>7
    <3> QED
      BY <1>3, <3>1 DEF IsJoin
  <2> QED
    BY <2>1 DEF AllTame
<1>8. Harmless(d, ws[1], ws[1], n)
  <2>1. ~Stamped(ws[1].path)
    BY <1>6 DEF Stamped
  <2>2. \A g, c : ws[1].path \notin FilesOf(g, c)
    BY <2>1, FilesAreStamped
  <2> QED
    BY <1>5, <1>6, <2>1, <2>2 DEF Harmless
<1>9. ASSUME NEW i \in 1..Len(ws)
      PROVE  Harmless(d, ws[1], ws[i], n) /\ (ws[i].path[1] = "session.json" => ComesAfter(d, ws, i, n))
  <2>1. CASE i = 1
    BY <1>6, <1>8, <2>1
  <2>2. CASE i # 1
    BY <1>5, <1>7, <2>2, TameHarmless, TameComesAfter
  <2> QED
    BY <2>1, <2>2
<1>10. Spares(d, ws)
  <2>1. ASSUME NEW i \in 1..Len(ws), Evidence(ws[i].path)
        PROVE  ws[i].path \notin DOMAIN d
    <3>1. i # 1
      BY <1>6, <2>1 DEF Evidence
    <3> QED
      BY <1>7, <2>1, <3>1 DEF Tame
  <2> QED
    BY <1>4, <2>1, SeqShape DEF Spares
<1>11. Orderly(d, ws, n)
  BY <1>4, <1>9, Zenon DEF Orderly
<1> QED
  BY <1>4, <1>5, <1>10, <1>11 DEF StartsProject

\* Files, and then a session's record that lists them and what is there.
LEMMA TameThenRecord ==
  ASSUME NEW d, NEW p \in Listed(d), NEW m \in Nat, NEW n \in Nat, Sound(d, m),
         NEW files, AllTame(d, p, m, n, files),
         NEW home \in Listed(d), NEW s, NEW status, NEW captures,
         \A c \in captures : /\ c.id[2] \in 1..n
                             /\ \A g \in FilesOf(SessionFile(home, s), c) :
                                  Read(d, g) \/ \E j \in 1..Len(files) : files[j].path = g,
         NEW ws, ws = files \o Atomically(SessionFile(home, s), [status |-> status, captures |-> captures])
  PROVE  Orderly(d, ws, n) /\ Spares(d, ws)
<1> DEFINE body == [status |-> status, captures |-> captures]
<1>1. PICK r : r = Atomically(SessionFile(home, s), body)
  OBVIOUS
<1>2. Series(r) /\ Len(r) = 1 /\ r[1] = Whole(SessionFile(home, s), body) /\ Series(files)
  BY <1>1, OneWrite DEF AllTame
<1>3. /\ Series(ws) /\ Len(ws) = Len(files) + 1 /\ Len(files) \in Nat /\ ws[Len(ws)] = r[1]
      /\ \A i \in 1..Len(files) : ws[i] = files[i]
  <2>1. IsJoin(ws, files, r)
    BY <1>1, <1>2, JoinIsJoin, Zenon
  <2>2. Len(ws) = Len(files) + 1 /\ Len(files) \in Nat
    BY <1>2, <2>1 DEF IsJoin
  <2>3. Len(ws) \in 1..Len(ws) /\ Len(ws) \notin 1..Len(files) /\ Len(ws) - Len(files) = 1
    BY <2>2
  <2> QED
    BY <2>1, <2>2, <2>3 DEF IsJoin
<1>4. PICK last : last = ws[Len(ws)]
  OBVIOUS
<1>5. last.path = SessionFile(home, s) /\ last.atomic /\ last.body = body
  BY <1>2, <1>3, <1>4, AtomicIs
<1>6. ASSUME NEW i \in 1..Len(ws), i # Len(ws)
      PROVE  Tame(d, p, m, n, ws[i])
  <2>1. i \in 1..Len(files) /\ ws[i] = files[i]
    BY <1>3, <1>6
  <2> QED
    BY <2>1 DEF AllTame
<1>7. Harmless(d, ws[1], last, n)
  <2>1. last.path[1] = "session.json" /\ last.path[2] = home
    BY <1>5 DEF SessionFile
  <2>2. ~Stamped(last.path)
    BY <2>1 DEF Stamped
  <2>3. \A g, c : last.path \notin FilesOf(g, c)
    BY <2>2, FilesAreStamped
  <2> QED
    BY <1>5, <2>1, <2>2, <2>3 DEF Harmless
<1>8. ComesAfter(d, ws, Len(ws), n)
  <2>1. ASSUME NEW c \in captures, NEW g \in FilesOf(SessionFile(home, s), c)
        PROVE  Read(d, g) \/ \E j \in 1..(Len(ws) - 1) : ws[j].path = g
    BY <1>3
  <2>2. ws[Len(ws)].path = SessionFile(home, s) /\ ws[Len(ws)].body = body
    BY <1>4, <1>5
  <2>3. SessionFile(home, s) = SessionFile(SessionFile(home, s)[2], SessionFile(home, s)[3])
    BY DEF SessionFile
  <2>4. \A j \in (Len(ws) + 1)..Len(ws) : FALSE
    BY <1>3
  <2>5. \A c \in captures : c.id[2] \in 1..n
    OBVIOUS
  <2>6. body.captures = captures /\ body = [status |-> body.status, captures |-> body.captures]
    OBVIOUS
  <2> HIDE DEF body
  <2> QED
    BY <2>1, <2>2, <2>4, <2>5, <2>6, <2>3 DEF ComesAfter
<1>9. ASSUME NEW i \in 1..Len(ws)
      PROVE  Harmless(d, ws[1], ws[i], n) /\ (ws[i].path[1] = "session.json" => ComesAfter(d, ws, i, n))
  <2>1. CASE i = Len(ws)
    BY <1>4, <1>7, <1>8, <2>1
  <2>2. CASE i # Len(ws)
    BY <1>6, <2>2, TameHarmless, TameComesAfter
  <2> QED
    BY <2>1, <2>2
<1>10. Spares(d, ws)
  <2>1. ASSUME NEW i \in 1..Len(ws), Evidence(ws[i].path)
        PROVE  ws[i].path \notin DOMAIN d
    <3>1. last.path[1] = "session.json"
      BY <1>5 DEF SessionFile
    <3>2. i # Len(ws)
      BY <1>4, <2>1, <3>1 DEF Evidence
    <3> QED
      BY <1>6, <2>1, <3>2 DEF Tame
  <2> QED
    BY <1>3, <2>1, SeqShape DEF Spares
<1> QED
  BY <1>3, <1>9, <1>10 DEF Orderly

-----------------------------------------------------------------------------
(* The files that the calls write.                                          *)

\* A file of project p with nothing of a recording in it.
Quiet(path, p) ==
  /\ path[2] = p /\ path[1] \notin {"project.json", "session.json"}
  /\ ~Stamped(path) /\ ~Evidence(path)

LEMMA QuietTame ==
  ASSUME NEW d, NEW p, NEW m, NEW n, NEW q \in Listed(d) \cup {p}, NEW path, Quiet(path, q), NEW body
  PROVE  AllTame(d, p, m, n, Atomically(path, body)) /\ AllTame(d, p, m, n, InPlace(path, body))
<1>1. ASSUME NEW w, w.path = path
      PROVE  Tame(d, p, m, n, w)
  BY <1>1 DEF Quiet, Tame
<1>2. Whole(path, body).path = path /\ Plain(path, body).path = path
  BY DEF Whole, Plain
<1>3. Tame(d, p, m, n, Whole(path, body)) /\ Tame(d, p, m, n, Plain(path, body))
  BY <1>1, <1>2
<1> QED
  BY <1>3, TameOne

LEMMA QuietPaths ==
  ASSUME NEW p, NEW s, NEW c
  PROVE  /\ Quiet(ProjectMap(p), p) /\ Quiet(Export(p), p)
         /\ Quiet(SessionDir(p, s), p) /\ Quiet(SessionNode(p, s), p) /\ Quiet(LegacyNode(p, s), p)
         /\ Quiet(SessionMap(p, s), p) /\ Quiet(CaptureFile(p, s, c), p)
         /\ Quiet(Combined(p, s, c), p) /\ Quiet(Aligned(p, s, c), p) /\ Quiet(RegFile(p, s, c), p)
BY DEF Quiet, Stamped, Evidence, ProjectMap, Export, SessionDir, SessionNode, LegacyNode, SessionMap,
       CaptureFile, Combined, Aligned, RegFile

\* The files of a capture: new, or of a merged cloud.
LEMMA CaptureTame ==
  ASSUME NEW d, NEW p, NEW m \in Nat, NEW n \in Nat, Sound(d, m),
         NEW q \in Listed(d) \cup {p}, NEW s, NEW c,
         (c[2] = n /\ n = m + 1) \/ (c[2] = 0 /\ c[1] \notin Sensors),
         NEW path \in {CaptureMap(q, s, c), Trajectory(q, s, c)}, NEW body
  PROVE  AllTame(d, p, m, n, InPlace(path, body))
<1>1. path[2] = q /\ path[1] \in {"map.pcd", "trajectory.json"} /\ path[4] = c /\ Len(path) = 4
  BY DEF CaptureMap, Trajectory
<1>2. c[2] \in (0..n) \ (1..m)
  OBVIOUS
<1>3. Evidence(path) => path \notin DOMAIN d
  <2>1. CASE c[2] = n /\ n = m + 1
    <3>1. Stamped(path) /\ path[4][2] \notin 0..m
      BY <1>1, <2>1 DEF Stamped
    <3> QED
      BY <3>1 DEF Sound
  <2>2. CASE c[2] = 0 /\ c[1] \notin Sensors
    BY <1>1, <2>2 DEF Evidence
  <2> QED
    BY <2>1, <2>2
<1>4. PICK w : w = Plain(path, body)
  OBVIOUS
<1>5. w.path = path
  BY <1>4 DEF Plain
<1>6. Tame(d, p, m, n, w)
  BY <1>1, <1>2, <1>3, <1>5 DEF Tame
<1> QED
  BY <1>4, <1>6, TameOne

\* A raw backup, where there is none.
LEMMA BackupTame ==
  ASSUME NEW d, NEW p, NEW m \in Nat, NEW n \in Nat, NEW q \in Listed(d) \cup {p},
         NEW path, path[1] = "map_raw_backup.pcd", path[2] = q,
         Stamped(path) => path[4][2] \in (0..n) \ (1..m), path \notin DOMAIN d, NEW body
  PROVE  AllTame(d, p, m, n, InPlace(path, body))
<1>1. PICK w : w = Plain(path, body)
  OBVIOUS
<1>2. w.path = path
  BY <1>1 DEF Plain
<1>3. Tame(d, p, m, n, w)
  BY <1>2 DEF Tame
<1> QED
  BY <1>1, <1>3, TameOne

\* A session's record that lists nothing.
LEMMA NewRecordTame ==
  ASSUME NEW d, NEW p, NEW m, NEW n, NEW q \in Listed(d) \cup {p}, NEW s, NEW status
  PROVE  AllTame(d, p, m, n, Atomically(SessionFile(q, s), [status |-> status, captures |-> {}]))
<1> DEFINE body == [status |-> status, captures |-> {}]
<1>1. PICK w : w = Whole(SessionFile(q, s), body)
  OBVIOUS
<1>2. w.path = SessionFile(q, s) /\ w.atomic /\ w.body = body
  BY <1>1, AtomicIs
<1>3. w.path[1] = "session.json" /\ w.path[2] = q /\ w.path = SessionFile(w.path[2], w.path[3])
      /\ ~Stamped(w.path) /\ ~Evidence(w.path)
  BY <1>2 DEF SessionFile, Stamped, Evidence
<1>4. Tame(d, p, m, n, w)
  BY <1>2, <1>3 DEF Tame
<1> QED
  BY <1>1, <1>4, TameOne

-----------------------------------------------------------------------------
(* What a call may do.                                                      *)

LEMMA SoundStays ==
  ASSUME NEW d, NEW m \in Nat, NEW n \in Nat, m <= n, Sound(d, m)
  PROVE  Sound(d, n)
BY DEF Sound

LEMMA ListedAfterNone ==
  ASSUME NEW d
  PROVE  Listed(d) \subseteq Listed(Applied(d, <<>>))
<1>1. PICK ws : ws = <<>>
  OBVIOUS
<1>2. Series(ws) /\ Len(ws) = 0
  BY <1>1, NoWrite
<1>3. PICK e : e = Applied(d, ws)
  OBVIOUS
<1>4. Holding(d, ws, 0, e)
  BY <1>2, <1>3, AppliedFiles
<1>5. Listed(d) \subseteq Listed(e)
  BY <1>4, ListedStays
<1> QED
  BY <1>1, <1>3, <1>5

LEMMA ListedAfter ==
  ASSUME NEW d, NEW ws, Series(ws)
  PROVE  /\ Listed(d) \subseteq Listed(Applied(d, ws))
         /\ \A i \in 1..Len(ws) : Read(Applied(d, ws), ws[i].path)
<1>1. PICK e : e = Applied(d, ws)
  OBVIOUS
<1>2. Holding(d, ws, Len(ws), e) /\ Len(ws) \in Nat
  BY <1>1, AppliedFiles, SeqShape
<1>3. Listed(d) \subseteq Listed(e) /\ \A i \in 1..Len(ws) : Read(e, ws[i].path)
  BY <1>2, ListedStays
<1> QED
  BY <1>1, <1>3

\* All writes done is the last of the cuts.
LEMMA AppliedIsCut ==
  ASSUME NEW d, NEW ws, Series(ws)
  PROVE  Applied(d, ws) \in Cuts(d, ws)
<1>1. Len(ws) \in Nat /\ ws = [i \in 1..Len(ws) |-> ws[i]]
  BY SeqShape
<1>2. PICK n : n \in 1..(Len(ws) + 1) /\ n - 1 = Len(ws)
  <2>1. Len(ws) + 1 \in 1..(Len(ws) + 1) /\ (Len(ws) + 1) - 1 = Len(ws)
    BY <1>1
  <2> QED
    BY <2>1
<1>3. SubSeq(ws, 1, n - 1) = ws
  <2>1. SubSeq(ws, 1, Len(ws)) = [i \in 1..Len(ws) |-> ws[i]]
    BY <1>1
  <2> QED
    BY <1>1, <1>2, <2>1
<1> DEFINE Before(k) == Applied(d, SubSeq(ws, 1, k - 1))
<1>4. Before(n) = Applied(d, ws)
  BY <1>3, Zenon
<1>5. Applied(d, ws) \in {Before(k) : k \in 1..(Len(ws) + 1)}
  <2> HIDE DEF Before
  <2> QED
    BY <1>2, <1>4
<1> QED
  BY <1>5, Zenon DEF Cuts

\* A bridge with project p.
Shape(u, p) ==
  /\ {"project", "sensors"} \subseteq DOMAIN u
  /\ IsFiniteSet(DOMAIN u.sensors)
  /\ u.project = p

\* A call that writes ws, in order, and leaves the bridge as u.
Called(ws, u) ==
  /\ Ready /\ disk' = disk /\ writing' = ws /\ ui' = u
  /\ made.saves <= made'.saves /\ made'.saves \in 0..MaxSaves /\ DOMAIN made' = DOMAIN Spent
  /\ Orderly(disk, ws, made'.saves) /\ Spares(disk, ws)
  /\ \E p : Shape(u, p) /\ p \in Listed(Applied(disk, ws)) \cup {None}

LEMMA CallKeeps ==
  ASSUME DiskInv, NEW ws, NEW u, Called(ws, u)
  PROVE  DiskInv'
<1>1. made.saves \in Nat /\ made'.saves \in Nat /\ made.saves <= made'.saves
  BY BoundsAssumption DEF DiskInv, Called
<1>2. Sound(disk, made'.saves)
  BY <1>1, SoundStays DEF DiskInv
<1>3. Series(ws)
  BY DEF Called, Orderly
<1>4. \A d \in Cuts(disk, ws) : Sound(d, made'.saves)
  BY <1>1, <1>2, OrderlyCuts DEF Called
<1>5. Bound(u, Applied(disk, ws))
  BY DEF Called, Bound, Shape
<1>6. disk' = disk /\ writing' = ws /\ ui' = u
  BY DEF Called
<1>7. Sound(disk', made'.saves) /\ Series(writing')
  BY <1>2, <1>3, <1>6
<1>8. (\A d \in Cuts(disk, writing) : Sound(d, made.saves))'
  BY <1>4, <1>6
<1>9. Spares(disk, writing)'
  BY <1>6 DEF Called
<1>10. Bound(ui, Applied(disk, writing))'
  BY <1>5, <1>6
<1>11. (made.saves \in 0..MaxSaves /\ DOMAIN made = DOMAIN Spent)'
  BY DEF Called, Spent
<1> QED
  BY <1>7, <1>8, <1>9, <1>10, <1>11 DEF DiskInv

LEMMA NoneIsOrderly ==
  ASSUME NEW d, NEW n
  PROVE  Orderly(d, <<>>, n) /\ Spares(d, <<>>)
<1>1. PICK s : s = <<>>
  OBVIOUS
<1>2. Series(s) /\ Len(s) = 0
  BY <1>1, NoWrite
<1>3. DOMAIN s = {}
  BY <1>2, SeqShape
<1>4. Orderly(d, s, n) /\ Spares(d, s)
  BY <1>2, <1>3 DEF Orderly, Spares
<1> QED
  BY <1>1, <1>4

\* The counters after a call.
Counted(k) == made.saves <= k.saves /\ k.saves \in 0..MaxSaves /\ DOMAIN k = DOMAIN Spent

LEMMA MadeCounts ==
  ASSUME DiskInv, NEW what, NEW max, Made(what, max), what = "saves" => max = MaxSaves
  PROVE  Counted(made')
<1>1. made.saves \in 0..MaxSaves /\ DOMAIN made = DOMAIN Spent /\ "saves" \in DOMAIN made
  BY DEF DiskInv, Spent
<1>2. made' = [made EXCEPT ![what] = made[what] + 1] /\ made[what] < max
  BY DEF Made
<1>3. DOMAIN made' = DOMAIN Spent
  BY <1>1, <1>2
<1>4. made'.saves = IF what = "saves" THEN made.saves + 1 ELSE made.saves
  BY <1>1, <1>2
<1> QED
  BY <1>1, <1>2, <1>3, <1>4, BoundsAssumption DEF Counted

LEMMA SameCounts ==
  ASSUME DiskInv
  PROVE  Counted(made)
BY BoundsAssumption DEF DiskInv, Counted

\* A call that writes nothing, of a bridge that keeps its project or opens one.
LEMMA NothingWritten ==
  ASSUME DiskInv, Ready, disk' = disk, writing' = writing, Counted(made'),
         NEW p, Shape(ui', p), p \in Listed(disk) \cup {None}
  PROVE  DiskInv'
<1>1. Orderly(disk, <<>>, made'.saves) /\ Spares(disk, <<>>)
  BY NoneIsOrderly
<1>2. p \in Listed(Applied(disk, <<>>)) \cup {None}
  BY ListedAfterNone
<1>3. Called(<<>>, ui')
  BY <1>1, <1>2 DEF Called, Counted, Ready
<1> QED
  BY <1>3, CallKeeps

\* A call that writes files of a listed project.
LEMMA SomethingWritten ==
  ASSUME DiskInv, Ready, disk' = disk, Counted(made'),
         Orderly(disk, writing', made'.saves), Spares(disk, writing'),
         NEW p, Shape(ui', p), p \in Listed(disk) \cup {None}
  PROVE  DiskInv'
<1>1. Series(writing')
  BY DEF Orderly
<1>2. p \in Listed(Applied(disk, writing')) \cup {None}
  BY <1>1, ListedAfter
<1>3. Called(writing', ui')
  BY <1>2 DEF Called, Counted
<1> QED
  BY <1>3, CallKeeps

\* What the bridge has, between two calls.
LEMMA BridgeNow ==
  ASSUME DiskInv, Ready
  PROVE  Shape(ui, ui.project) /\ ui.project \in Listed(disk) \cup {None}
<1>1. Bound(ui, Applied(disk, <<>>))
  BY DEF DiskInv, Ready
<1>2. PICK ws : ws = <<>>
  OBVIOUS
<1>3. Series(ws) /\ Len(ws) = 0
  BY <1>2, NoWrite
<1>4. PICK e : e = Applied(disk, ws)
  OBVIOUS
<1>5. Holding(disk, ws, 0, e)
  BY <1>3, <1>4, AppliedFiles
<1>6. Listed(e) \subseteq Listed(disk)
  <2>1. \A i \in 1..0 : FALSE
    OBVIOUS
  <2>2. DOMAIN e = DOMAIN disk /\ \A f \in DOMAIN e : e[f] = disk[f]
    BY <1>5, <2>1 DEF Holding
  <2> QED
    BY <2>2 DEF Listed
<1>7. Bound(ui, e)
  BY <1>1, <1>2, <1>4
<1> QED
  BY <1>6, <1>7 DEF Bound, Shape

-----------------------------------------------------------------------------
(* The bridge through what the calls do to it.                              *)

LEMMA SensorsFinite ==
  ASSUME NEW S \in SUBSET Sensors
  PROVE  IsFiniteSet(S)
BY RigsAssumption, FS_Subset

\* v is u but for fields other than these two.
LEMMA ShapeSame ==
  ASSUME NEW u, NEW p, Shape(u, p), NEW v, DOMAIN v = DOMAIN u, v.project = u.project,
         DOMAIN v.sensors = DOMAIN u.sensors
  PROVE  Shape(v, p)
BY DEF Shape

LEMMA ShapeFused ==
  ASSUME NEW u, NEW p, Shape(u, p)
  PROVE  Shape(Fused(u), p) /\ DOMAIN Fused(u).sensors = DOMAIN u.sensors
<1> DEFINE c == Together(Maps(u))
           x == IF u.display = "FUSED" THEN c ELSE u.shown
<1>1. Fused(u) = u \/ Fused(u) = [[u EXCEPT !.fused = c] EXCEPT !.shown = x]
  BY DEF Fused
<1> HIDE DEF c, x
<1>2. ASSUME NEW v, v = [[u EXCEPT !.fused = c] EXCEPT !.shown = x]
      PROVE  DOMAIN v = DOMAIN u /\ v.project = u.project /\ v.sensors = u.sensors
  BY <1>2 DEF Shape
<1>3. PICK v : v = Fused(u)
  OBVIOUS
<1>4. DOMAIN v = DOMAIN u /\ v.project = u.project /\ v.sensors = u.sensors
  BY <1>1, <1>2, <1>3
<1>5. Shape(v, p) /\ DOMAIN v.sensors = DOMAIN u.sensors
  BY <1>4, ShapeSame
<1> QED
  BY <1>3, <1>5

LEMMA ShapeDisplayed ==
  ASSUME NEW u, NEW p, Shape(u, p)
  PROVE  Shape(Displayed(u), p) /\ DOMAIN Displayed(u).sensors = DOMAIN u.sensors
<1>1. ASSUME NEW x
      PROVE  LET v == [u EXCEPT !.display = x] IN Shape(v, p) /\ DOMAIN v.sensors = DOMAIN u.sensors
  BY DEF Shape
<1>2. CASE Dual(u)
  <2>1. PICK v : v = [u EXCEPT !.display = "FUSED"]
    OBVIOUS
  <2>2. Shape(v, p) /\ DOMAIN v.sensors = DOMAIN u.sensors
    BY <1>1, <2>1
  <2>3. Displayed(u) = Fused(v)
    BY <1>2, <2>1 DEF Displayed
  <2> QED
    BY <2>2, <2>3, ShapeFused
<1>3. CASE ~Dual(u)
  <2>1. PICK v : v = [u EXCEPT !.display = TheOnly(u)]
    OBVIOUS
  <2>2. Shape(v, p) /\ DOMAIN v.sensors = DOMAIN u.sensors
    BY <1>1, <2>1
  <2>3. Displayed(u) = v
    BY <1>3, <2>1 DEF Displayed
  <2> QED
    BY <2>2, <2>3
<1> QED
  BY <1>2, <1>3

LEMMA ShapeRebuilt ==
  ASSUME NEW u, NEW p, Shape(u, p), NEW rig \in SUBSET Sensors
  PROVE  Shape(Rebuilt(u, rig), p)
<1>1. PICK s : s = [id \in rig |-> Sensor(Nothing, u.kept[id])]
  OBVIOUS
<1>2. IsFiniteSet(DOMAIN s)
  BY <1>1, SensorsFinite
<1>3. PICK v : v = [u EXCEPT !.sensors = s, !.able = TRUE]
  OBVIOUS
<1>4. Shape(v, p)
  BY <1>2, <1>3 DEF Shape
<1>5. Rebuilt(u, rig) = Displayed(v)
  BY <1>1, <1>3 DEF Rebuilt
<1> QED
  BY <1>4, <1>5, ShapeDisplayed

LEMMA ShapeFresh == Shape(Fresh(FirstRig), None)
<1>1. FirstRig \in SUBSET Sensors
  BY RigsAssumption
<1> DEFINE u == [project |-> None, session |-> None, state |-> "NO_PROJECT",
                 capturing |-> FALSE, canSave |-> FALSE,
                 sensors |-> NoSensor, able |-> TRUE,
                 kept |-> [id \in Sensors |-> Nothing],
                 fused |-> Nothing, shown |-> Nothing, display |-> None,
                 preview |-> FALSE, backup |-> Nothing, live |-> TRUE,
                 reg |-> NoReg, view |-> 0, tinted |-> FALSE]
<1>2. Shape(u, None)
  <2>1. {"project", "sensors"} \subseteq DOMAIN u /\ u.project = None /\ u.sensors = NoSensor
    OBVIOUS
  <2>2. IsFiniteSet(DOMAIN NoSensor)
    BY FS_EmptySet DEF NoSensor
  <2> QED
    BY <2>1, <2>2 DEF Shape
<1>3. Fresh(FirstRig) = Rebuilt(u, FirstRig)
  BY DEF Fresh
<1> HIDE DEF u
<1> QED
  BY <1>1, <1>2, <1>3, ShapeRebuilt

LEMMA ShapePolled ==
  ASSUME NEW u, NEW p, Shape(u, p), NEW maps
  PROVE  Shape(Polled(u, maps), p)
<1>1. PICK s : s = [id \in DOMAIN u.sensors |->
                      IF id \in Sensors THEN Sensor(maps[id].map, Cleaned(maps[id].map, u.live))
                      ELSE u.sensors[id]]
  OBVIOUS
<1>2. PICK k : k = [id \in Sensors |->
                      IF id \in DOMAIN u.sensors THEN Cleaned(maps[id].map, u.live) ELSE u.kept[id]]
  OBVIOUS
<1>3. Polled(u, maps) = [[u EXCEPT !.sensors = s] EXCEPT !.kept = k]
  BY <1>1, <1>2, Zenon DEF Polled
<1>4. PICK v : v = [[u EXCEPT !.sensors = s] EXCEPT !.kept = k]
  OBVIOUS
<1>5. DOMAIN v = DOMAIN u /\ v.project = u.project /\ v.sensors = s
  BY <1>4 DEF Shape
<1>6. DOMAIN s = DOMAIN u.sensors
  BY <1>1
<1> QED
  BY <1>3, <1>4, <1>5, <1>6 DEF Shape

LEMMA ShapeOverlaid ==
  ASSUME NEW u, NEW p, Shape(u, p)
  PROVE  Shape(Overlaid(u), p)
<1>1. ASSUME NEW x
      PROVE  LET v == [u EXCEPT !.shown = x] IN Shape(v, p)
  BY DEF Shape
<1>2. CASE ~u.reg.on
  BY <1>2 DEF Overlaid
<1>3. CASE u.reg.on
  <2>1. \E x : Overlaid(u) = [u EXCEPT !.shown = x]
    BY <1>3 DEF Overlaid
  <2> QED
    BY <1>1, <2>1
<1> QED
  BY <1>2, <1>3

LEMMA ShapePresented ==
  ASSUME NEW u, NEW p, Shape(u, p)
  PROVE  Shape(Presented(u), p)
<1>1. PICK v : v = Displayed(u)
  OBVIOUS
<1>2. Shape(v, p)
  BY <1>1, ShapeDisplayed
<1>3. PICK x : x = v.sensors[TheOnly(v)].map
  OBVIOUS
<1>4. Presented(u) \in {u, v, [v EXCEPT !.shown = x]}
  BY <1>1, <1>3 DEF Presented
<1>5. LET w == [v EXCEPT !.shown = x] IN Shape(w, p)
  BY <1>2 DEF Shape
<1> QED
  BY <1>2, <1>4, <1>5

LEMMA ShapeLoaded ==
  ASSUME NEW u, NEW q, Shape(u, q), NEW p, NEW s, NEW scan, NEW map
  PROVE  Shape(Loaded(u, p, s, scan, map), p)
<1>1. PICK k : k = [id \in Sensors |-> scan[id]]
  OBVIOUS
<1>2. PICK c : c = Contexts(scan, map)
  OBVIOUS
<1>3. PICK no : no = FALSE
  OBVIOUS
<1>4. IsFiniteSet(DOMAIN c)
  <2>1. DOMAIN c \subseteq Sensors \/ DOMAIN c = {"MERGED"} \/ DOMAIN c = {}
    BY <1>2 DEF Contexts, NoSensor
  <2> QED
    BY <2>1, SensorsFinite, FS_EmptySet, FS_Singleton
<1>5. PICK v : v = [u EXCEPT
    !.project = p, !.session = s, !.state = "READY",
    !.kept = k, !.shown = map,
    !.sensors = c, !.able = no,
    !.reg = NoReg, !.preview = no, !.backup = Nothing, !.fused = Nothing]
  OBVIOUS
<1>6. DOMAIN v = DOMAIN u /\ v.project = p /\ v.sensors = c
  BY <1>5 DEF Shape
<1>7. Shape(v, p)
  BY <1>4, <1>6 DEF Shape
<1>8. Loaded(u, p, s, scan, map) = Presented(v)
  BY <1>1, <1>2, <1>3, <1>5, Zenon DEF Loaded
<1> QED
  BY <1>7, <1>8, ShapePresented

LEMMA ShapeOpened ==
  ASSUME NEW d, NEW u, NEW q, Shape(u, q), NEW p, NEW v \in Opened(d, u, p)
  PROVE  Shape(v, p)
<1>1. \E s, scan, map : v = Loaded(u, p, s, scan, map)
  <2>1. PICK x \in Finds(d, u, p) :
          v \in IF HasData(x.scan) THEN {Loaded(u, p, x.session, x.scan, x.scan["MERGED"])}
                ELSE {Loaded(u, p, y.session, x.scan, y.map) : y \in Fallbacks(d, p, x.session)}
    BY Zenon DEF Opened
  <2>2. CASE HasData(x.scan)
    BY <2>1, <2>2, Zenon
  <2>3. CASE ~HasData(x.scan)
    BY <2>1, <2>3, Zenon
  <2> QED
    BY <2>2, <2>3
<1> QED
  BY <1>1, ShapeLoaded

-----------------------------------------------------------------------------
(* The calls that write nothing.                                            *)

\* The bridge keeps its project and its sensors.
LEMMA EditKeeps ==
  ASSUME DiskInv, Ready, disk' = disk, writing' = writing, Made("edits", MaxEdits) \/ made' = made,
         NEW u, Shape(u, ui.project), ui' = u
  PROVE  DiskInv'
<1>1. Counted(made')
  <2>1. CASE Made("edits", MaxEdits)
    BY <2>1, MadeCounts
  <2>2. CASE made' = made
    BY <2>2, SameCounts
  <2> QED
    BY <2>1, <2>2
<1>2. ui.project \in Listed(disk) \cup {None} /\ Shape(ui', ui.project)
  BY BridgeNow
<1>3. PICK p : p = ui.project
  OBVIOUS
<1> QED
  BY <1>1, <1>2, <1>3, NothingWritten

\* A bridge with another cloud in one of its places.
LEMMA ShapeShown ==
  ASSUME NEW u, NEW p, Shape(u, p), NEW x
  PROVE  Shape([u EXCEPT !.shown = x], p)
BY DEF Shape

LEMMA OpenProjectKeeps ==
  ASSUME DiskInv, NEW p, OpenProject(p)
  PROVE  DiskInv'
<1>1. Ready /\ p \in Listed(disk) /\ ui' \in Opened(disk, ui, p)
      /\ disk' = disk /\ writing' = writing /\ made' = made
  BY DEF OpenProject
<1>2. Shape(ui', p)
  BY <1>1, BridgeNow, ShapeOpened
<1> QED
  BY <1>1, <1>2, SameCounts, NothingWritten

LEMMA SelectScannerKeeps ==
  ASSUME DiskInv, NEW rig \in Rigs, SelectScanner(rig)
  PROVE  DiskInv'
<1>1. rig \in SUBSET Sensors
  BY RigsAssumption
<1>2. Shape(Rebuilt(ui, rig), ui.project)
  BY <1>1, BridgeNow, ShapeRebuilt DEF SelectScanner
<1> QED
  BY <1>2, EditKeeps DEF SelectScanner

LEMMA TelemetryKeeps ==
  ASSUME DiskInv, NEW heard, Telemetry(heard)
  PROVE  DiskInv'
<1>1. Ready /\ disk' = disk /\ writing' = writing /\ made' = made
  BY DEF Telemetry
<1>2. PICK maps : LET u == Polled(ui, maps) IN
        ui' = IF Dual(u) THEN Fused([u EXCEPT !.display = "FUSED"])
              ELSE [u EXCEPT !.shown = u.sensors[TheOnly(u)].map]
  BY Zenon DEF Telemetry
<1>3. PICK u : u = Polled(ui, maps)
  OBVIOUS
<1>4. Shape(u, ui.project)
  BY <1>1, <1>3, BridgeNow, ShapePolled
<1>5. PICK v : v = [u EXCEPT !.display = "FUSED"]
  OBVIOUS
<1>6. Shape(v, ui.project)
  BY <1>4, <1>5 DEF Shape
<1>7. PICK x : x = u.sensors[TheOnly(u)].map
  OBVIOUS
<1>8. ui' = Fused(v) \/ ui' = [u EXCEPT !.shown = x]
  BY <1>2, <1>3, <1>5, <1>7, Zenon
<1>9. Shape(ui', ui.project)
  BY <1>4, <1>6, <1>8, ShapeFused, ShapeShown
<1> QED
  BY <1>1, <1>9, EditKeeps

LEMMA SetActiveDisplaySensorKeeps ==
  ASSUME DiskInv, NEW d, SetActiveDisplaySensor(d)
  PROVE  DiskInv'
<1>1. Ready /\ Made("edits", MaxEdits) /\ disk' = disk /\ writing' = writing
  BY DEF SetActiveDisplaySensor, Edit
<1>2. PICK x, no : ui' = [ui EXCEPT !.display = d, !.shown = x, !.preview = no, !.backup = Nothing]
  BY Zenon DEF SetActiveDisplaySensor
<1>3. Shape(ui', ui.project)
  BY <1>1, <1>2, BridgeNow DEF Shape
<1> QED
  BY <1>1, <1>3, EditKeeps

LEMMA SetLiveCleanupKeeps ==
  ASSUME DiskInv, NEW live, SetLiveCleanup(live)
  PROVE  DiskInv'
<1>1. Ready /\ Made("edits", MaxEdits) /\ disk' = disk /\ writing' = writing
  BY DEF SetLiveCleanup, Edit
<1>2. PICK F : F = [id \in DOMAIN ui.sensors |->
                      IF Empty(ui.sensors[id].raw) THEN ui.sensors[id]
                      ELSE Sensor(ui.sensors[id].raw, Cleaned(ui.sensors[id].raw, live))]
  OBVIOUS
<1>3. PICK x : ui' = [ui EXCEPT !.live = live, !.sensors = F, !.shown = x]
  BY <1>2, Zenon DEF SetLiveCleanup
<1>4. DOMAIN F = DOMAIN ui.sensors
  BY <1>2
<1>5. Shape(ui', ui.project)
  BY <1>1, <1>3, <1>4, BridgeNow DEF Shape
<1> QED
  BY <1>1, <1>5, EditKeeps

LEMMA CleanUpKeeps ==
  ASSUME DiskInv, CleanUp
  PROVE  DiskInv'
<1>1. Ready /\ Made("edits", MaxEdits) /\ disk' = disk /\ writing' = writing
  BY DEF CleanUp, Edit
<1>2. PICK x, y, z : ui' = [ui EXCEPT !.backup = x, !.shown = y, !.preview = z]
  BY Zenon DEF CleanUp
<1>3. Shape(ui', ui.project)
  BY <1>1, <1>2, BridgeNow DEF Shape
<1> QED
  BY <1>1, <1>3, EditKeeps

LEMMA ResetCleanupKeeps ==
  ASSUME DiskInv, ResetCleanup
  PROVE  DiskInv'
<1>1. Ready /\ made' = made /\ disk' = disk /\ writing' = writing
  BY DEF ResetCleanup
<1>2. PICK x, y, z : ui' = [ui EXCEPT !.shown = y, !.backup = x, !.preview = z]
  BY Zenon DEF ResetCleanup
<1>3. Shape(ui', ui.project)
  BY <1>1, <1>2, BridgeNow DEF Shape
<1> QED
  BY <1>1, <1>3, EditKeeps

LEMMA FuseKeeps ==
  ASSUME DiskInv, Fuse
  PROVE  DiskInv'
<1>1. Ready /\ Made("edits", MaxEdits) /\ disk' = disk /\ writing' = writing
  BY DEF Fuse, Edit
<1>2. PICK c : ui' = [ui EXCEPT !.fused = c, !.display = "FUSED", !.shown = c]
  BY Zenon DEF Fuse
<1>3. Shape(ui', ui.project)
  BY <1>1, <1>2, BridgeNow DEF Shape
<1> QED
  BY <1>1, <1>3, EditKeeps

LEMMA LoadRegistrationKeeps ==
  ASSUME DiskInv, NEW f, LoadRegistration(f)
  PROVE  DiskInv'
<1>1. Ready /\ Made("edits", MaxEdits) /\ disk' = disk /\ writing' = writing
  BY DEF LoadRegistration, Edit
<1>2. PICK reg : ui' = Overlaid([ui EXCEPT !.reg = reg])
  BY Zenon DEF LoadRegistration
<1>3. PICK u : u = [ui EXCEPT !.reg = reg]
  OBVIOUS
<1>4. Shape(u, ui.project)
  BY <1>1, <1>3, BridgeNow DEF Shape
<1>5. Shape(ui', ui.project)
  BY <1>2, <1>3, <1>4, ShapeOverlaid
<1> QED
  BY <1>1, <1>5, EditKeeps

LEMMA ViewRegistrationKeeps ==
  ASSUME DiskInv, NEW view, NEW tinted, ViewRegistration(view, tinted)
  PROVE  DiskInv'
<1>1. Ready /\ Made("edits", MaxEdits) /\ disk' = disk /\ writing' = writing
  BY DEF ViewRegistration, Edit
<1>2. PICK u : u = [ui EXCEPT !.view = view, !.tinted = tinted]
  OBVIOUS
<1>3. Shape(u, ui.project)
  BY <1>1, <1>2, BridgeNow DEF Shape
<1>4. Shape(ui', ui.project)
  BY <1>2, <1>3, ShapeOverlaid DEF ViewRegistration
<1> QED
  BY <1>1, <1>4, EditKeeps

LEMMA ClearRegistrationKeeps ==
  ASSUME DiskInv, ClearRegistration
  PROVE  DiskInv'
<1>1. Ready /\ made' = made /\ disk' = disk /\ writing' = writing
  BY DEF ClearRegistration
<1>2. PICK x, reg : ui' = [ui EXCEPT !.reg = reg, !.shown = x]
  BY Zenon DEF ClearRegistration
<1>3. Shape(ui', ui.project)
  BY <1>1, <1>2, BridgeNow DEF Shape
<1> QED
  BY <1>1, <1>3, EditKeeps

-----------------------------------------------------------------------------
(* The calls that write.                                                    *)

LEMMA JoinNone ==
  ASSUME NEW s, Series(s)
  PROVE  s \o <<>> = s /\ <<>> \o s = s
<1> DEFINE S == {s[i] : i \in DOMAIN s}
<1>1. s \in Seq(S)
  BY DEF Series
<1> HIDE DEF S
<1> QED
  BY <1>1, ConcatEmptySeq

\* Calls that write files of the open project, or of another one that is listed.
LEMMA TameWritten ==
  ASSUME DiskInv, Ready, disk' = disk, Counted(made'),
         NEW p \in Listed(disk), AllTame(disk, p, made.saves, made'.saves, writing'),
         NEW u, Shape(u, ui.project), ui' = u
  PROVE  DiskInv'
<1>1. made.saves \in Nat /\ made'.saves \in Nat /\ Sound(disk, made.saves)
  BY BoundsAssumption DEF DiskInv, Counted
<1>2. Orderly(disk, writing', made'.saves) /\ Spares(disk, writing')
  BY <1>1, TameOrderly
<1>3. PICK q : q = ui.project
  OBVIOUS
<1>4. Shape(ui', q) /\ q \in Listed(disk) \cup {None}
  BY <1>3, BridgeNow
<1> QED
  BY <1>2, <1>4, SomethingWritten

LEMMA PlacesListed ==
  ASSUME NEW d, NEW n, Sound(d, n), NEW s
  PROVE  PlacesOf(d, s) \subseteq Listed(d) /\ HomesOf(d, s) \subseteq Listed(d)
BY DEF Sound, PlacesOf, HomesOf

LEMMA CreateProjectKeeps ==
  ASSUME DiskInv, CreateProject
  PROVE  DiskInv'
<1>1. Ready /\ disk' = disk /\ Counted(made')
  BY MadeCounts DEF CreateProject
<1>2. PICK p, b : writing' = Atomically(ProjectFile(p), b)
                  /\ ui' = [ui EXCEPT !.project = p, !.state = "READY", !.shown = Nothing]
  BY Zenon DEF CreateProject
<1>3. made.saves \in Nat /\ made'.saves \in Nat /\ Sound(disk, made.saves)
  BY <1>1, BoundsAssumption DEF DiskInv, Counted
<1>4. PICK none : none = <<>>
  OBVIOUS
<1>5. AllTame(disk, p, made.saves, made'.saves, none)
  BY <1>4, TameNone
<1>6. writing' = Atomically(ProjectFile(p), b) \o none
  <2>1. Series(Atomically(ProjectFile(p), b))
    BY OneWrite
  <2> QED
    BY <1>2, <1>4, <2>1, JoinNone, Zenon
<1>7. /\ Orderly(disk, writing', made'.saves) /\ Spares(disk, writing')
      /\ Len(writing') >= 1 /\ writing'[1].path = ProjectFile(p)
  <2>1. StartsProject(disk, p, writing', made'.saves)
    BY <1>3, <1>5, <1>6, ProjectThenTame, Zenon
  <2> QED
    BY <2>1 DEF StartsProject
<1>8. p \in Listed(Applied(disk, writing'))
  <2>1. Series(writing') /\ Len(writing') \in Nat
    BY <1>7, SeqShape DEF Orderly
  <2>2. Read(Applied(disk, writing'), ProjectFile(p))
    <3>1. 1 \in 1..Len(writing')
      BY <1>7, <2>1
    <3> QED
      BY <1>7, <2>1, <3>1, ListedAfter
  <2> QED
    BY <2>2, ProjectListed
<1>9. Shape(ui', p)
  BY <1>1, <1>2, BridgeNow DEF Shape
<1>10. Called(writing', ui')
  BY <1>1, <1>7, <1>8, <1>9 DEF Called, Counted
<1> QED
  BY <1>10, CallKeeps

LEMMA StartCaptureKeeps ==
  ASSUME DiskInv, NEW started, StartCapture(started)
  PROVE  DiskInv'
<1>1. Ready /\ disk' = disk /\ Counted(made') /\ ui.project # None
  BY MadeCounts DEF StartCapture
<1>2. ui.project \in Listed(disk) /\ Shape(ui, ui.project)
  BY <1>1, BridgeNow
<1>3. PICK s, status : writing' = MakeDir(ui.project, s) \o
                  Atomically(SessionFile(ui.project, s), [status |-> status, captures |-> {}])
  BY Zenon DEF StartCapture
<1>4. AllTame(disk, ui.project, made.saves, made'.saves, writing')
  <2>1. AllTame(disk, ui.project, made.saves, made'.saves, MakeDir(ui.project, s))
    BY <1>2, QuietPaths, QuietTame DEF MakeDir
  <2>2. AllTame(disk, ui.project, made.saves, made'.saves,
                Atomically(SessionFile(ui.project, s), [status |-> status, captures |-> {}]))
    BY <1>2, NewRecordTame
  <2> QED
    BY <1>3, <2>1, <2>2, TameJoined, Zenon
<1>5. PICK u : u = IF DOMAIN ui.sensors = {} THEN Rebuilt(ui, FirstRig) ELSE ui
  OBVIOUS
<1>6. Shape(u, ui.project)
  <2>1. FirstRig \in SUBSET Sensors
    BY RigsAssumption
  <2> QED
    BY <1>2, <1>5, <2>1, ShapeRebuilt
<1>7. PICK x, k, F, t : /\ F = [id \in DOMAIN u.sensors |-> Sensor(Nothing, Nothing)]
        /\ LET v == [u EXCEPT !.session = t, !.shown = x, !.kept = k, !.sensors = F] IN
           \/ ui' = v
           \/ \E y, z : ui' = [v EXCEPT !.capturing = y, !.canSave = z, !.state = "CAPTURING"]
  BY <1>5, Zenon DEF StartCapture
<1>8. PICK v : v = [u EXCEPT !.session = t, !.shown = x, !.kept = k, !.sensors = F]
  OBVIOUS
<1>9. Shape(v, ui.project)
  BY <1>6, <1>7, <1>8 DEF Shape
<1>10. ui' = v \/ \E y, z : ui' = [v EXCEPT !.capturing = y, !.canSave = z, !.state = "CAPTURING"]
  BY <1>7, <1>8, Zenon
<1>11. ASSUME NEW y, NEW z, ui' = [v EXCEPT !.capturing = y, !.canSave = z, !.state = "CAPTURING"]
       PROVE  Shape(ui', ui.project)
  BY <1>9, <1>11 DEF Shape
<1>12. Shape(ui', ui.project)
  <2>1. CASE ui' = v
    BY <1>9, <2>1
  <2> QED
    BY <1>10, <1>11, <2>1
<1> QED
  BY <1>1, <1>2, <1>4, <1>12, TameWritten

LEMMA StopCaptureKeeps ==
  ASSUME DiskInv, StopCapture
  PROVE  DiskInv'
<1>1. Ready /\ disk' = disk /\ made' = made /\ Counted(made') /\ Sound(disk, made.saves)
      /\ made.saves \in Nat
  BY SameCounts, BoundsAssumption DEF StopCapture, DiskInv
<1>2. Shape(ui, ui.project) /\ ui.project \in Listed(disk) \cup {None}
  BY <1>1, BridgeNow
<1>3. Shape(ui', ui.project)
  <2>1. PICK u : u = Polled(ui, lidar)
    OBVIOUS
  <2>2. PICK w : w = [u EXCEPT !.display = "FUSED"]
    OBVIOUS
  <2>3. PICK v : /\ ui' = [v EXCEPT !.capturing = FALSE, !.canSave = TRUE, !.state = "STOPPED"]
                 /\ v = Fused(w) \/ v = u \/ \E x : v = [u EXCEPT !.shown = x]
    BY <2>1, <2>2, Zenon DEF StopCapture
  <2>4. Shape(u, ui.project)
    BY <1>2, <2>1, ShapePolled
  <2>5. Shape(w, ui.project)
    BY <2>2, <2>4 DEF Shape
  <2>6. Shape(v, ui.project)
    BY <2>3, <2>4, <2>5, ShapeFused, ShapeShown
  <2>7. ASSUME NEW y, NEW z
        PROVE  Shape([v EXCEPT !.capturing = y, !.canSave = z, !.state = "STOPPED"], ui.project)
    BY <2>6 DEF Shape
  <2> QED
    BY <2>3, <2>7
<1>4. CASE HomesOf(disk, ui.session) = {}
  <2>1. writing' = writing
    BY <1>4 DEF StopCapture
  <2>2. PICK p : p = ui.project
    OBVIOUS
  <2> QED
    BY <1>1, <1>2, <1>3, <2>1, <2>2, NothingWritten
<1>5. CASE HomesOf(disk, ui.session) # {}
  <2>1. PICK p \in HomesOf(disk, ui.session) :
          writing' = Atomically(SessionFile(p, ui.session),
                                [Json(disk, SessionFile(p, ui.session)) EXCEPT !.status = "STOPPED"])
    BY <1>5, Zenon DEF StopCapture
  <2>2. PICK f : f = SessionFile(p, ui.session)
    OBVIOUS
  <2>3. f[1] = "session.json" /\ f[2] = p /\ f[3] = ui.session
    BY <2>2 DEF SessionFile
  <2>4. f \in DOMAIN disk /\ p \in Listed(disk)
    <3>1. PICK g \in DOMAIN disk : g[1] = "session.json" /\ g[3] = ui.session /\ g[2] = p
      BY <2>1 DEF HomesOf
    <3>2. g = SessionFile(g[2], g[3]) /\ g[2] \in Listed(disk)
      BY <1>1, <3>1 DEF Sound
    <3> QED
      BY <2>2, <3>1, <3>2
  <2>5. PICK captures : captures = disk[f].body.captures
    OBVIOUS
  <2>6. [Json(disk, f) EXCEPT !.status = "STOPPED"] = [status |-> "STOPPED", captures |-> captures]
    <3>1. disk[f].body = [status |-> disk[f].body.status, captures |-> captures]
      BY <1>1, <2>3, <2>4, <2>5 DEF Sound
    <3>2. PICK b : b = disk[f].body
      OBVIOUS
    <3>3. [b EXCEPT !.status = "STOPPED"] = [status |-> "STOPPED", captures |-> captures]
      <4>1. PICK x : b = [status |-> x, captures |-> captures]
        BY <3>1, <3>2, Zenon
      <4> QED
        BY <4>1
    <3> QED
      BY <3>2, <3>3 DEF Json
  <2>7. \A c \in captures : c.id[2] \in 1..made.saves /\ \A g \in FilesOf(f, c) : Read(disk, g)
    BY <1>1, <2>3, <2>4, <2>5 DEF Sound
  <2>8. PICK none : none = <<>>
    OBVIOUS
  <2>9. AllTame(disk, p, made.saves, made.saves, none)
    BY <2>8, TameNone
  <2>10. PICK status : status = "STOPPED"
    OBVIOUS
  <2>11. writing' = none \o Atomically(SessionFile(p, ui.session), [status |-> status, captures |-> captures])
    <3>1. PICK s : s = Atomically(SessionFile(p, ui.session), [status |-> status, captures |-> captures])
      OBVIOUS
    <3>2. Series(s)
      BY <3>1, OneWrite
    <3>3. writing' = s
      BY <2>1, <2>2, <2>6, <2>10, <3>1, Zenon
    <3> QED
      BY <2>8, <3>1, <3>2, <3>3, JoinNone, Zenon
  <2>12. Orderly(disk, writing', made.saves) /\ Spares(disk, writing')
    BY <1>1, <2>2, <2>4, <2>7, <2>9, <2>11, TameThenRecord
  <2>13. PICK q : q = ui.project
    OBVIOUS
  <2> QED
    BY <1>1, <1>2, <1>3, <2>12, <2>13, SomethingWritten
<1> QED
  BY <1>4, <1>5

LEMMA CommitKeeps ==
  ASSUME DiskInv, Commit
  PROVE  DiskInv'
<1>1. Ready /\ disk' = disk /\ Counted(made') /\ Sound(disk, made.saves)
  BY MadeCounts DEF Commit, Put, DiskInv
<1>2. made.saves \in Nat /\ made'.saves \in Nat
  BY <1>1, BoundsAssumption DEF DiskInv, Counted
<1>3. Shape(ui, ui.project) /\ ui.project \in Listed(disk) \cup {None}
  BY <1>1, BridgeNow
<1>4. Shape(ui', ui.project)
  <2>1. PICK F : F = IF ui.display \in DOMAIN ui.sensors
                     THEN [ui.sensors EXCEPT ![ui.display].map = ui.shown] ELSE ui.sensors
    OBVIOUS
  <2>2. DOMAIN F = DOMAIN ui.sensors
    BY <2>1
  <2>3. PICK k, x, no : ui' = [ui EXCEPT !.sensors = F, !.kept = k, !.fused = x, !.backup = Nothing, !.preview = no]
    BY <2>1, Zenon DEF Commit
  <2> QED
    BY <1>3, <2>2, <2>3 DEF Shape
<1>5. writing' = CommitWrites(disk, ui)
  BY DEF Commit
<1>6. CASE ui.project = None
  <2>1. PICK none : none = <<>>
    OBVIOUS
  <2>2. writing' = none
    BY <1>5, <1>6, <2>1, Zenon DEF CommitWrites
  <2>3. Orderly(disk, none, made'.saves) /\ Spares(disk, none)
    BY <2>1, NoneIsOrderly
  <2>4. PICK q : q = ui.project
    OBVIOUS
  <2> QED
    BY <1>1, <1>3, <1>4, <2>2, <2>3, <2>4, SomethingWritten
<1>7. CASE ui.project # None
  <2>1. PICK p : p = ui.project
    OBVIOUS
  <2>2. PICK s : s = ui.session
    OBVIOUS
  <2> DEFINE All(ws) == AllTame(disk, p, made.saves, made'.saves, ws)
  <2>3. ASSUME NEW path, Quiet(path, p), NEW body
        PROVE  All(Atomically(path, body)) /\ All(InPlace(path, body))
    BY <2>3, QuietTame
  <2>4. \A a, b : All(a) /\ All(b) => All(a \o b)
    BY TameJoined, Zenon
  <2>5. All(<<>>)
    BY TameNone
  <2>6. All(MakeDir(p, s))
    BY <2>3, QuietPaths DEF MakeDir
  <2>7. All(InPlace(SessionMap(p, s), ui.shown)) /\ All(InPlace(ProjectMap(p), ui.shown))
    BY <2>3, QuietPaths
  <2>8. All(BackedUp(disk, p, s, ui.backup, ui.shown))
    <3>1. CASE Empty(ui.backup) \/ Holds(disk, RawBackup(p, s))
      <4>1. BackedUp(disk, p, s, ui.backup, ui.shown) = <<>>
        BY <3>1, Zenon DEF BackedUp
      <4> QED
        BY <2>5, <4>1, Zenon
    <3>2. CASE ~(Empty(ui.backup) \/ Holds(disk, RawBackup(p, s)))
      <4>1. PICK path : path = RawBackup(p, s)
        OBVIOUS
      <4>2. path[1] = "map_raw_backup.pcd" /\ path[2] = p /\ ~Stamped(path)
        BY <4>1 DEF RawBackup, Stamped
      <4>3. path \notin DOMAIN disk
        BY <3>2, <4>1 DEF Holds
      <4>4. All(InPlace(path, ui.backup))
        BY <1>2, <4>2, <4>3, BackupTame
      <4>5. BackedUp(disk, p, s, ui.backup, ui.shown) = InPlace(path, ui.backup)
        BY <3>2, <4>1, Zenon DEF BackedUp
      <4> QED
        BY <4>4, <4>5, Zenon
    <3> QED
      BY <3>1, <3>2
  <2>9. All(writing')
    <3> HIDE DEF All
    <3>1. CASE s = None
      <4>1. writing' = <<>> \o InPlace(ProjectMap(p), ui.shown)
        BY <1>5, <1>7, <2>1, <2>2, <3>1, Zenon DEF CommitWrites
      <4> QED
        BY <2>4, <2>5, <2>7, <4>1, Zenon
    <3>2. CASE s # None
      <4>1. writing' = (MakeDir(p, s) \o BackedUp(disk, p, s, ui.backup, ui.shown)
                          \o InPlace(SessionMap(p, s), ui.shown)) \o InPlace(ProjectMap(p), ui.shown)
        BY <1>5, <1>7, <2>1, <2>2, <3>2, Zenon DEF CommitWrites
      <4> QED
        BY <2>4, <2>6, <2>7, <2>8, <4>1, Zenon
    <3> QED
      BY <3>1, <3>2
  <2>10. p \in Listed(disk)
    BY <1>3, <1>7, <2>1
  <2> QED
    BY <1>1, <1>4, <2>9, <2>10, TameWritten
<1> QED
  BY <1>6, <1>7

LEMMA ExportCloudKeeps ==
  ASSUME DiskInv, ExportCloud
  PROVE  DiskInv'
<1>1. Ready /\ disk' = disk /\ Counted(made') /\ ui' = ui /\ ui.project # None
  BY MadeCounts DEF ExportCloud, Put
<1>2. ui.project \in Listed(disk) /\ Shape(ui, ui.project)
  BY <1>1, BridgeNow
<1>3. AllTame(disk, ui.project, made.saves, made'.saves, writing')
  BY <1>2, QuietPaths, QuietTame DEF ExportCloud
<1> QED
  BY <1>1, <1>2, <1>3, TameWritten

LEMMA SaveAsSessionMapKeeps ==
  ASSUME DiskInv, SaveAsSessionMap
  PROVE  DiskInv'
<1>1. Ready /\ disk' = disk /\ Counted(made') /\ ui' = ui /\ ui.project # None
  BY MadeCounts DEF SaveAsSessionMap, Put
<1>2. ui.project \in Listed(disk) /\ Shape(ui, ui.project)
  BY <1>1, BridgeNow
<1>3. AllTame(disk, ui.project, made.saves, made'.saves, writing')
  BY <1>2, QuietPaths, QuietTame DEF SaveAsSessionMap
<1> QED
  BY <1>1, <1>2, <1>3, TameWritten

LEMMA SaveFusedKeeps ==
  ASSUME DiskInv, SaveFused
  PROVE  DiskInv'
<1>1. Ready /\ disk' = disk /\ Counted(made') /\ ui' = ui /\ ui.project # None
      /\ Sound(disk, made.saves) /\ made.saves \in Nat /\ made'.saves \in Nat
  <2>1. Counted(made')
    BY MadeCounts DEF SaveFused
  <2> QED
    BY <2>1, BoundsAssumption DEF SaveFused, DiskInv, Counted
<1>2. ui.project \in Listed(disk) /\ Shape(ui, ui.project)
  BY <1>1, BridgeNow
<1>3. PICK p, s, c, place :
        /\ place \in PlacesOf(disk, s) \cup {p}
        /\ p = ui.project /\ c = <<"MERGED", 0>>
        /\ writing' = MakeDir(p, s)
             \o InPlace(SessionMap(p, s), ui.fused) \o InPlace(ProjectMap(p), ui.fused)
             \o InPlace(CaptureMap(p, s, c), ui.fused)
             \o Atomically(CaptureFile(place, s, c), "MERGED")
             \o InPlace(CaptureFile(p, s, c), "MERGED")
  BY Zenon DEF SaveFused
<1> DEFINE All(ws) == AllTame(disk, p, made.saves, made'.saves, ws)
<1>4. ASSUME NEW q \in Listed(disk) \cup {p}, NEW path, Quiet(path, q), NEW body
      PROVE  All(Atomically(path, body)) /\ All(InPlace(path, body))
  BY <1>4, QuietTame
<1>5. \A a, b : All(a) /\ All(b) => All(a \o b)
  BY TameJoined, Zenon
<1>6. place \in Listed(disk) \cup {p}
  BY <1>1, <1>3, PlacesListed
<1>7. All(MakeDir(p, s))
  BY <1>4, QuietPaths DEF MakeDir
<1>8. All(InPlace(SessionMap(p, s), ui.fused)) /\ All(InPlace(ProjectMap(p), ui.fused))
  BY <1>4, QuietPaths
<1>9. All(Atomically(CaptureFile(place, s, c), "MERGED")) /\ All(InPlace(CaptureFile(p, s, c), "MERGED"))
  <2>1. Quiet(CaptureFile(place, s, c), place) /\ Quiet(CaptureFile(p, s, c), p)
    BY QuietPaths
  <2> QED
    BY <1>4, <1>6, <2>1
<1>10. All(InPlace(CaptureMap(p, s, c), ui.fused))
  <2>1. c[2] = 0 /\ c[1] \notin Sensors
    BY <1>3, NoneAssumption
  <2>2. PICK path : path = CaptureMap(p, s, c)
    OBVIOUS
  <2> QED
    BY <1>1, <2>1, <2>2, CaptureTame
<1>11. All(writing')
  <2> HIDE DEF All
  <2> QED
    BY <1>3, <1>5, <1>7, <1>8, <1>9, <1>10, Zenon
<1> QED
  BY <1>1, <1>2, <1>3, <1>11, TameWritten

LEMMA RunRegistrationKeeps ==
  ASSUME DiskInv, NEW ref \in DOMAIN disk, NEW mov, RunRegistration(ref, mov)
  PROVE  DiskInv'
<1>1. Ready /\ disk' = disk /\ Sound(disk, made.saves)
  BY DEF RunRegistration, DiskInv
<1>2. Shape(ui, ui.project) /\ ui.project \in Listed(disk) \cup {None}
  BY <1>1, BridgeNow
<1> DEFINE home == IF ui.project # None THEN ui.project ELSE ref[2]
           number == made.regs + 1
           a == Pcd(disk, ref)
           b == Pcd(disk, mov)
<1>3. PICK s \in RegSessions(home) \cap Sessions :
        /\ made' = [made EXCEPT !.regs = number, !.sessions = IF s > @ THEN s ELSE @]
        /\ number <= MaxRegs /\ Calls < MaxCalls
        /\ writing' = MakeDir(home, s)
             \o InPlace(Combined(home, s, number), Together({a, b})) \o InPlace(Aligned(home, s, number), b)
             \o Atomically(RegFile(home, s, number), [ref |-> ref, home |-> <<home, s, number>>])
        /\ ui' = Overlaid([ui EXCEPT !.tinted = TRUE,
                   !.reg = [on |-> TRUE, ref |-> a, mov |-> b, orig |-> Together({a, b}), home |-> <<home, s, number>>]])
  BY Zenon DEF RunRegistration
<1>4. PICK p, r, k :
        /\ p = home
        /\ made' = [made EXCEPT !.regs = r, !.sessions = k]
        /\ writing' = MakeDir(p, s)
             \o InPlace(Combined(p, s, r), Together({a, b})) \o InPlace(Aligned(p, s, r), b)
             \o Atomically(RegFile(p, s, r), [ref |-> ref, home |-> <<p, s, r>>])
        /\ \E reg, yes : ui' = Overlaid([ui EXCEPT !.tinted = yes, !.reg = reg])
  <2> HIDE DEF home, number, a, b
  <2> QED
    BY <1>3, Zenon
<1>5. p \in Listed(disk)
  BY <1>1, <1>2, <1>4 DEF Sound
<1> HIDE DEF home, number, a, b
<1>6. Counted(made')
  BY <1>4, BoundsAssumption DEF DiskInv, Counted, Spent
<1>7. Shape(ui', ui.project)
  <2>1. PICK reg, yes : ui' = Overlaid([ui EXCEPT !.tinted = yes, !.reg = reg])
    BY <1>4
  <2>2. PICK u : u = [ui EXCEPT !.tinted = yes, !.reg = reg]
    OBVIOUS
  <2>3. Shape(u, ui.project)
    BY <1>2, <2>2 DEF Shape
  <2> QED
    BY <2>1, <2>2, <2>3, ShapeOverlaid
<1> DEFINE All(ws) == AllTame(disk, p, made.saves, made'.saves, ws)
<1>8. ASSUME NEW path, Quiet(path, p), NEW body
      PROVE  All(Atomically(path, body)) /\ All(InPlace(path, body))
  BY <1>8, QuietTame
<1>9. \A x, y : All(x) /\ All(y) => All(x \o y)
  BY TameJoined, Zenon
<1>10. All(MakeDir(p, s))
  BY <1>8, QuietPaths DEF MakeDir
<1>11. \A body : All(InPlace(Combined(p, s, r), body)) /\ All(InPlace(Aligned(p, s, r), body))
                 /\ All(Atomically(RegFile(p, s, r), body))
  BY <1>8, QuietPaths
<1>12. All(writing')
  <2> HIDE DEF All
  <2> QED
    BY <1>4, <1>9, <1>10, <1>11, Zenon
<1> QED
  BY <1>1, <1>5, <1>6, <1>7, <1>12, TameWritten

-----------------------------------------------------------------------------
(* Saving a capture.                                                        *)

Writes(ws, f) == \E j \in 1..Len(ws) : ws[j].path = f

LEMMA WritesOne ==
  ASSUME NEW path, NEW body
  PROVE  Writes(InPlace(path, body), path)
<1>1. PICK t : t = InPlace(path, body)
  OBVIOUS
<1>2. Len(t) = 1 /\ t[1] = Plain(path, body)
  BY <1>1, OneWrite
<1>3. 1 \in 1..Len(t) /\ t[1].path = path
  BY <1>2 DEF Plain
<1> QED
  BY <1>1, <1>3 DEF Writes

LEMMA WritesJoined ==
  ASSUME NEW s, NEW t, Series(s), Series(t), NEW f, Writes(s, f) \/ Writes(t, f)
  PROVE  Writes(s \o t, f)
<1>1. PICK u : u = s \o t
  OBVIOUS
<1>2. /\ Len(u) = Len(s) + Len(t) /\ Len(s) \in Nat /\ Len(t) \in Nat
      /\ \A i \in 1..Len(s) : u[i] = s[i]
      /\ \A i \in 1..Len(t) : u[Len(s) + i] = t[i]
  BY <1>1, Joined, SeqShape
<1>3. CASE Writes(s, f)
  <2>1. PICK j \in 1..Len(s) : s[j].path = f
    BY <1>3 DEF Writes
  <2>2. j \in 1..Len(u) /\ u[j].path = f
    BY <1>2, <2>1
  <2> QED
    BY <1>1, <2>2 DEF Writes
<1>4. CASE Writes(t, f)
  <2>1. PICK j \in 1..Len(t) : t[j].path = f
    BY <1>4 DEF Writes
  <2>2. PICK k : k = Len(s) + j
    OBVIOUS
  <2>3. k \in 1..Len(u) /\ u[k].path = f
    BY <1>2, <2>1, <2>2
  <2> QED
    BY <1>1, <2>3 DEF Writes
<1> QED
  BY <1>3, <1>4

LEMMA FlattenedTame ==
  ASSUME NEW d, NEW p, NEW m, NEW n, NEW ss, Series(ss), \A i \in 1..Len(ss) : AllTame(d, p, m, n, ss[i])
  PROVE  AllTame(d, p, m, n, FlattenSeq(ss))
<1>1. PICK s : s = FlattenSeq(ss)
  OBVIOUS
<1>2. \A i \in 1..Len(ss) : Series(ss[i])
  BY DEF AllTame
<1>3. HasAll(s, ss)
  BY <1>1, <1>2, Flattened
<1>4. AllTame(d, p, m, n, s)
  BY <1>3 DEF HasAll, AllTame
<1> QED
  BY <1>1, <1>4

LEMMA FlattenedWrites ==
  ASSUME NEW ss, Series(ss), \A i \in 1..Len(ss) : Series(ss[i]),
         NEW i \in 1..Len(ss), NEW f, Writes(ss[i], f)
  PROVE  Writes(FlattenSeq(ss), f)
<1>1. PICK s : s = FlattenSeq(ss)
  OBVIOUS
<1>2. HasAll(s, ss)
  BY <1>1, Flattened
<1>3. PICK j \in 1..Len(ss[i]) : ss[i][j].path = f
  BY DEF Writes
<1>4. PICK k \in 1..Len(s) : s[k] = ss[i][j]
  BY <1>2 DEF HasAll
<1>5. Writes(s, f)
  BY <1>3, <1>4 DEF Writes
<1> QED
  BY <1>1, <1>5

\* The files of one sensor's capture, under a new number.
LEMMA CaptureWritesTame ==
  ASSUME NEW d, NEW p \in Listed(d), NEW m \in Nat, NEW n, n = m + 1, Sound(d, m),
         NEW s, NEW c, c[2] = n, NEW sensor, NEW place \in Listed(d), NEW live
  PROVE  LET ws == CaptureWrites(p, s, c, sensor, place, live) IN
         AllTame(d, p, m, n, ws) /\ Writes(ws, CaptureMap(p, s, c)) /\ Writes(ws, Trajectory(p, s, c))
<1> DEFINE All(ws) == AllTame(d, p, m, n, ws)
<1>1. PICK a : a = InPlace(CaptureMap(p, s, c), sensor.map)
  OBVIOUS
<1>2. PICK b : b = IF live /\ ~Empty(sensor.raw) THEN InPlace(CaptureRaw(p, s, c), sensor.raw) ELSE <<>>
  OBVIOUS
<1>3. PICK e : e = InPlace(Trajectory(p, s, c), TRUE)
  OBVIOUS
<1>4. PICK g : g = Atomically(CaptureFile(place, s, c), c[1])
  OBVIOUS
<1>5. CaptureWrites(p, s, c, sensor, place, live) = ((a \o b) \o e) \o g
  BY <1>1, <1>2, <1>3, <1>4, Zenon DEF CaptureWrites
<1>6. n \in Nat /\ p \in Listed(d) \cup {p}
  OBVIOUS
<1>7. All(a)
  <2>1. PICK path : path = CaptureMap(p, s, c)
    OBVIOUS
  <2> QED
    BY <1>1, <1>6, <2>1, CaptureTame
<1>8. All(e)
  <2>1. PICK path : path = Trajectory(p, s, c)
    OBVIOUS
  <2>2. PICK body : body = TRUE
    OBVIOUS
  <2>3. All(InPlace(path, body))
    BY <1>6, <2>1, CaptureTame
  <2> QED
    BY <1>3, <2>1, <2>2, <2>3, Zenon
<1>9. All(b)
  <2>1. CASE b = <<>>
    BY <2>1, TameNone, Zenon
  <2>2. CASE b = InPlace(CaptureRaw(p, s, c), sensor.raw)
    <3>1. PICK path : path = CaptureRaw(p, s, c)
      OBVIOUS
    <3>2. path[1] = "map_raw_backup.pcd" /\ path[2] = p /\ path[4] = c /\ Stamped(path)
      BY <3>1 DEF CaptureRaw, Stamped
    <3>3. path[4][2] \in (0..n) \ (1..m) /\ path[4][2] \notin 0..m
      BY <3>2
    <3>4. path \notin DOMAIN d
      BY <3>2, <3>3 DEF Sound
    <3> QED
      BY <1>6, <2>2, <3>1, <3>2, <3>3, <3>4, BackupTame
  <2> QED
    BY <1>2, <2>1, <2>2
<1>10. All(g)
  <2>1. Quiet(CaptureFile(place, s, c), place)
    BY QuietPaths
  <2>2. PICK path : path = CaptureFile(place, s, c)
    OBVIOUS
  <2> QED
    BY <1>4, <2>1, <2>2, QuietTame
<1>11. Writes(a, CaptureMap(p, s, c)) /\ Writes(e, Trajectory(p, s, c))
  BY <1>1, <1>3, WritesOne, Zenon
<1>12. \A x, y : All(x) /\ All(y) => All(x \o y)
  BY TameJoined, Zenon
<1>13. \A x, y, f : All(x) /\ All(y) /\ (Writes(x, f) \/ Writes(y, f)) => Writes(x \o y, f)
  <2>1. \A x : All(x) => Series(x)
    BY DEF AllTame
  <2> HIDE DEF All
  <2> QED
    BY <2>1, WritesJoined, Zenon
<1> HIDE DEF All
<1>14. All(a \o b) /\ Writes(a \o b, CaptureMap(p, s, c))
  BY <1>7, <1>9, <1>11, <1>12, <1>13, Zenon
<1>15. All((a \o b) \o e) /\ Writes((a \o b) \o e, CaptureMap(p, s, c)) /\ Writes((a \o b) \o e, Trajectory(p, s, c))
  BY <1>8, <1>11, <1>12, <1>13, <1>14, Zenon
<1>16. PICK ws : ws = ((a \o b) \o e) \o g
  OBVIOUS
<1>17. All(ws) /\ Writes(ws, CaptureMap(p, s, c)) /\ Writes(ws, Trajectory(p, s, c))
  BY <1>10, <1>12, <1>13, <1>15, <1>16, Zenon
<1> QED
  BY <1>5, <1>16, <1>17, Zenon DEF All

\* The files of a save, of every sensor.
LEMMA SavedFilesTame ==
  ASSUME NEW p \in Listed(disk), NEW m \in Nat, NEW n, n = m + 1, Sound(disk, m),
         NEW s, NEW place \in Listed(disk), IsFiniteSet(DOMAIN ui.sensors)
  PROVE  /\ AllTame(disk, p, m, n, SavedFiles(p, s, n, place))
         /\ \A id \in DOMAIN ui.sensors :
              /\ Writes(SavedFiles(p, s, n, place), CaptureMap(p, s, <<id, n>>))
              /\ Writes(SavedFiles(p, s, n, place), Trajectory(p, s, <<id, n>>))
<1> DEFINE All(ws) == AllTame(disk, p, m, n, ws)
           Of(id) == CaptureWrites(p, s, <<id, n>>, ui.sensors[id], place, ui.live)
<1>1. PICK ids : ids = SetToSeq(DOMAIN ui.sensors)
  OBVIOUS
<1>2. Series(ids) /\ \A x : x \in DOMAIN ui.sensors <=> \E i \in 1..Len(ids) : x = ids[i]
  BY <1>1, Ordered
<1>3. Len(ids) \in Nat /\ DOMAIN ids = 1..Len(ids)
  BY <1>2, SeqShape
<1>4. PICK ss : ss = [i \in DOMAIN ids |-> Of(ids[i])]
  OBVIOUS
<1>5. Series(ss) /\ Len(ss) = Len(ids) /\ \A i \in 1..Len(ss) : ss[i] = Of(ids[i])
  <2> HIDE DEF Of
  <2>1. ss = [i \in 1..Len(ids) |-> ss[i]] /\ \A i \in 1..Len(ids) : ss[i] = Of(ids[i])
    BY <1>3, <1>4
  <2> QED
    BY <1>3, <2>1, SeqMaker
<1>6. ASSUME NEW id
      PROVE  /\ All(Of(id)) /\ Writes(Of(id), CaptureMap(p, s, <<id, n>>))
             /\ Writes(Of(id), Trajectory(p, s, <<id, n>>))
  <2>1. PICK c : c = <<id, n>>
    OBVIOUS
  <2>2. c[2] = n
    BY <2>1
  <2>3. PICK sensor, live : sensor = ui.sensors[id] /\ live = ui.live
    OBVIOUS
  <2>4. PICK ws : ws = CaptureWrites(p, s, c, sensor, place, live)
    OBVIOUS
  <2>5. All(ws) /\ Writes(ws, CaptureMap(p, s, c)) /\ Writes(ws, Trajectory(p, s, c))
    BY <2>2, <2>4, CaptureWritesTame
  <2> QED
    BY <2>1, <2>3, <2>4, <2>5, Zenon
<1>7. PICK flat : flat = FlattenSeq(ss)
  OBVIOUS
<1>8. All(flat)
  <2>1. \A i \in 1..Len(ss) : All(ss[i])
    BY <1>5, <1>6, Zenon
  <2> QED
    BY <1>5, <1>7, <2>1, FlattenedTame
<1>9. ASSUME NEW id \in DOMAIN ui.sensors, NEW f, Writes(Of(id), f)
      PROVE  Writes(flat, f)
  <2>1. PICK i \in 1..Len(ss) : id = ids[i] /\ ss[i] = Of(id)
    BY <1>2, <1>5
  <2>2. \A j \in 1..Len(ss) : Series(ss[j])
    <3>1. \A j \in 1..Len(ss) : All(ss[j])
      BY <1>5, <1>6, Zenon
    <3> QED
      BY <3>1 DEF AllTame
  <2>3. Writes(ss[i], f)
    BY <1>9, <2>1, Zenon
  <2> QED
    BY <1>5, <1>7, <2>2, <2>3, FlattenedWrites
<1>10. PICK pre : pre = ((MakeDir(p, s) \o Atomically(SessionNode(p, s), TRUE))
                          \o (IF Holds(disk, LegacyNode(p, s)) THEN <<>> ELSE Atomically(LegacyNode(p, s), TRUE)))
                          \o InPlace(LegacyNode(p, s), TRUE)
  OBVIOUS
<1>11. SavedFiles(p, s, n, place) = pre \o flat
  BY <1>1, <1>4, <1>7, <1>10, Zenon DEF SavedFiles
<1>12. All(pre)
  <2>1. PICK yes : yes = TRUE
    OBVIOUS
  <2>2. \A x, y : All(x) /\ All(y) => All(x \o y)
    BY TameJoined, Zenon
  <2>3. ASSUME NEW path, Quiet(path, p)
        PROVE  All(Atomically(path, yes)) /\ All(InPlace(path, yes))
    BY <2>3, QuietTame
  <2>4. /\ All(Atomically(SessionDir(p, s), yes)) /\ All(Atomically(SessionNode(p, s), yes))
        /\ All(Atomically(LegacyNode(p, s), yes)) /\ All(InPlace(LegacyNode(p, s), yes))
    BY <2>3, QuietPaths
  <2>5. All(<<>>)
    BY TameNone
  <2> HIDE DEF All
  <2>6. All(IF Holds(disk, LegacyNode(p, s)) THEN <<>> ELSE Atomically(LegacyNode(p, s), yes))
    BY <2>4, <2>5, Zenon
  <2>7. All(MakeDir(p, s))
    BY <2>1, <2>4, Zenon DEF MakeDir
  <2> QED
    BY <1>10, <2>1, <2>2, <2>4, <2>6, <2>7, Zenon
<1>13. Series(pre) /\ Series(flat)
  BY <1>8, <1>12 DEF AllTame
<1>14. AllTame(disk, p, m, n, pre \o flat)
  BY <1>8, <1>12, TameJoined, Zenon
<1>15. \A f : Writes(flat, f) => Writes(pre \o flat, f)
  BY <1>13, WritesJoined, Zenon
<1> HIDE DEF Of
<1>16. ASSUME NEW id \in DOMAIN ui.sensors
       PROVE  Writes(pre \o flat, CaptureMap(p, s, <<id, n>>)) /\ Writes(pre \o flat, Trajectory(p, s, <<id, n>>))
  BY <1>6, <1>9, <1>15, Zenon
<1> QED
  BY <1>11, <1>14, <1>16, Zenon

LEMMA SaveCaptureKeeps ==
  ASSUME DiskInv, SaveCapture
  PROVE  DiskInv'
<1>1. Ready /\ disk' = disk /\ Counted(made') /\ ui.project # None
  BY MadeCounts DEF SaveCapture
<1>2. ui.project \in Listed(disk) /\ Shape(ui, ui.project) /\ Sound(disk, made.saves)
  BY <1>1, BridgeNow DEF DiskInv
<1>3. made.saves \in Nat /\ made'.saves = made.saves + 1
  <2>1. made' = [made EXCEPT !["saves"] = made["saves"] + 1]
    BY Zenon DEF SaveCapture, Made
  <2>2. made' = [made EXCEPT !.saves = made.saves + 1]
    BY <2>1
  <2> QED
    BY <2>2, BoundsAssumption DEF DiskInv, Spent
<1>4. PICK p, s, n, place, home :
        /\ p = ui.project /\ s = ui.session /\ n = made.saves + 1
        /\ place \in PlacesOf(disk, s) \cup {p}
        /\ home \in (IF HomesOf(disk, s) = {} THEN {None} ELSE HomesOf(disk, s))
        /\ writing' = SaveWrites(p, s, n, place, home)
  BY Zenon DEF SaveCapture
<1>5. place \in Listed(disk)
  BY <1>2, <1>4, PlacesListed
<1>6. Shape(ui', ui.project)
  <2>1. PICK no : ui' = [ui EXCEPT !.canSave = no, !.state = "SAVED"]
    BY Zenon DEF SaveCapture
  <2> QED
    BY <1>2, <2>1 DEF Shape
<1>7. PICK files : files = SavedFiles(p, s, n, place)
  OBVIOUS
<1>8. /\ AllTame(disk, p, made.saves, n, files)
      /\ \A id \in DOMAIN ui.sensors : Writes(files, CaptureMap(p, s, <<id, n>>))
                                       /\ Writes(files, Trajectory(p, s, <<id, n>>))
  <2>1. IsFiniteSet(DOMAIN ui.sensors) /\ p \in Listed(disk)
    BY <1>2, <1>4 DEF Shape
  <2> QED
    BY <1>2, <1>3, <1>4, <1>5, <1>7, <2>1, SavedFilesTame, Zenon
<1>9. CASE home = None
  <2>1. Series(files)
    BY <1>8 DEF AllTame
  <2>2. writing' = files
    BY <1>4, <1>7, <1>9, <2>1, JoinNone, Zenon DEF SaveWrites, SavedRecord
  <2>3. AllTame(disk, p, made.saves, made'.saves, writing')
    BY <1>3, <1>4, <1>8, <2>2
  <2> QED
    BY <1>1, <1>2, <1>4, <1>6, <2>3, TameWritten
<1>10. CASE home # None
  <2>1. home \in HomesOf(disk, s)
    BY <1>4, <1>10
  <2>2. PICK f : f = SessionFile(home, s)
    OBVIOUS
  <2>3. f[1] = "session.json" /\ f[2] = home /\ f[3] = s
    BY <2>2 DEF SessionFile
  <2>4. f \in DOMAIN disk /\ home \in Listed(disk)
    <3>1. PICK g \in DOMAIN disk : g[1] = "session.json" /\ g[3] = s /\ g[2] = home
      BY <2>1 DEF HomesOf
    <3>2. g = SessionFile(g[2], g[3]) /\ g[2] \in Listed(disk)
      BY <1>2, <3>1 DEF Sound
    <3> QED
      BY <2>2, <3>1, <3>2
  <2>5. PICK captures : captures = disk[f].body.captures \cup
                                   {[id |-> <<id, n>>, at |-> p] : id \in DOMAIN ui.sensors}
    OBVIOUS
  <2>6. ASSUME NEW c \in captures
        PROVE  c.id[2] \in 1..n /\ \A g \in FilesOf(f, c) : Read(disk, g) \/ \E j \in 1..Len(files) : files[j].path = g
    <3>1. CASE c \in disk[f].body.captures
      <4>1. c.id[2] \in 1..made.saves /\ \A g \in FilesOf(f, c) : Read(disk, g)
        BY <1>2, <2>3, <2>4, <3>1 DEF Sound
      <4> QED
        BY <1>3, <1>4, <4>1
    <3>2. CASE \E id \in DOMAIN ui.sensors : c = [id |-> <<id, n>>, at |-> p]
      <4>1. PICK id \in DOMAIN ui.sensors : c = [id |-> <<id, n>>, at |-> p]
        BY <3>2
      <4>2. c.id = <<id, n>> /\ c.at = p /\ c.id[2] = n
        BY <4>1
      <4>3. FilesOf(f, c) = {CaptureMap(p, s, <<id, n>>), Trajectory(p, s, <<id, n>>)}
        BY <2>3, <4>2, Zenon DEF FilesOf
      <4>4. \A g \in FilesOf(f, c) : Writes(files, g)
        BY <1>8, <4>3, Zenon
      <4> QED
        BY <1>3, <1>4, <4>2, <4>4 DEF Writes
    <3> QED
      BY <2>5, <3>1, <3>2
  <2>7. PICK status : status = "SAVED"
    OBVIOUS
  <2>8. writing' = files \o Atomically(SessionFile(home, s), [status |-> status, captures |-> captures])
    <3>1. SavedRecord(p, s, n, home) = Atomically(SessionFile(home, s), [status |-> status, captures |-> captures])
      BY <1>10, <2>2, <2>5, <2>7, Zenon DEF SavedRecord, Json
    <3> QED
      BY <1>4, <1>7, <3>1, Zenon DEF SaveWrites
  <2>9. p \in Listed(disk) /\ n \in Nat
    BY <1>2, <1>3, <1>4
  <2>10. Orderly(disk, writing', n) /\ Spares(disk, writing')
    <3>1. \A c \in captures : /\ c.id[2] \in 1..n
                              /\ \A g \in FilesOf(SessionFile(home, s), c) :
                                   Read(disk, g) \/ \E j \in 1..Len(files) : files[j].path = g
      BY <2>2, <2>6
    <3>2. PICK m : m = made.saves
      OBVIOUS
    <3>3. m \in Nat /\ Sound(disk, m) /\ AllTame(disk, p, m, n, files)
      BY <1>2, <1>3, <1>8, <3>2
    <3> QED
      BY <2>4, <2>8, <2>9, <3>1, <3>3, TameThenRecord, Zenon
  <2>11. Orderly(disk, writing', made'.saves)
    BY <1>3, <1>4, <2>10
  <2>12. PICK q : q = ui.project
    OBVIOUS
  <2> QED
    BY <1>1, <1>2, <1>6, <2>10, <2>11, <2>12, SomethingWritten
<1> QED
  BY <1>9, <1>10

LEMMA SaveAsNewProjectKeeps ==
  ASSUME DiskInv, SaveAsNewProject
  PROVE  DiskInv'
<1>1. Ready /\ disk' = disk
  BY DEF SaveAsNewProject
<1>2. PICK p, s, c :
        /\ c = <<"MERGED", 0>>
        /\ made' = [made EXCEPT !.projects = p, !.sessions = s]
        /\ writing' = NewProjectWrites(p, s, c, ui.reg)
        /\ ui' \in Opened(Applied(disk, writing'), ui, p)
  BY Zenon DEF SaveAsNewProject
<1>3. Counted(made') /\ made'.saves = made.saves /\ made.saves \in Nat /\ Sound(disk, made.saves)
  BY <1>2, BoundsAssumption DEF DiskInv, Counted, Spent
<1> DEFINE All(ws) == AllTame(disk, p, made.saves, made.saves, ws)
<1>4. PICK cloud : cloud = CombinedOf(ui.reg)
  OBVIOUS
<1>5. PICK record : record = [Json(disk, RegFile(ui.reg.home[1], ui.reg.home[2], ui.reg.home[3]))
                                EXCEPT !.home = ui.reg.home]
  OBVIOUS
<1>6. PICK r, status : r = ui.reg.home[3] /\ status = "CREATED"
  OBVIOUS
<1>7. PICK files : files = NewProjectFiles(p, s, c, ui.reg)
  OBVIOUS
<1>8. files = MakeDir(p, s) \o Atomically(SessionFile(p, s), [status |-> status, captures |-> {}])
                \o InPlace(SessionMap(p, s), cloud) \o InPlace(ProjectMap(p), cloud)
                \o InPlace(CaptureMap(p, s, c), cloud)
                \o Atomically(CaptureFile(p, s, c), c[1]) \o InPlace(CaptureFile(p, s, c), c[1])
                \o Atomically(RegFile(p, s, r), record)
  BY <1>4, <1>5, <1>6, <1>7, Zenon DEF NewProjectFiles
<1>9. All(files)
  <2>1. \A x, y : All(x) /\ All(y) => All(x \o y)
    BY TameJoined, Zenon
  <2>2. ASSUME NEW path, Quiet(path, p), NEW body
        PROVE  All(Atomically(path, body)) /\ All(InPlace(path, body))
    BY <2>2, QuietTame
  <2>3. All(MakeDir(p, s))
    BY <2>2, QuietPaths DEF MakeDir
  <2>4. All(Atomically(SessionFile(p, s), [status |-> status, captures |-> {}]))
    BY NewRecordTame
  <2>5. /\ All(InPlace(SessionMap(p, s), cloud)) /\ All(InPlace(ProjectMap(p), cloud))
        /\ All(Atomically(CaptureFile(p, s, c), c[1])) /\ All(InPlace(CaptureFile(p, s, c), c[1]))
        /\ All(Atomically(RegFile(p, s, r), record))
    BY <2>2, QuietPaths
  <2>6. All(InPlace(CaptureMap(p, s, c), cloud))
    <3>1. c[2] = 0 /\ c[1] \notin Sensors
      BY <1>2, NoneAssumption
    <3>2. PICK path : path = CaptureMap(p, s, c)
      OBVIOUS
    <3> QED
      BY <1>3, <3>1, <3>2, CaptureTame
  <2> HIDE DEF All
  <2> QED
    BY <1>8, <2>1, <2>3, <2>4, <2>5, <2>6, Zenon
<1>10. PICK b : b = TRUE
  OBVIOUS
<1>11. writing' = Atomically(ProjectFile(p), b) \o files
  BY <1>2, <1>7, <1>10, Zenon DEF NewProjectWrites
<1>12. StartsProject(disk, p, writing', made.saves)
  BY <1>3, <1>9, <1>11, ProjectThenTame, Zenon
<1>13. Series(writing') /\ Len(writing') \in Nat
  BY <1>12, SeqShape DEF StartsProject, Orderly
<1>14. p \in Listed(Applied(disk, writing'))
  <2>1. 1 \in 1..Len(writing') /\ writing'[1].path = ProjectFile(p)
    BY <1>12, <1>13 DEF StartsProject
  <2>2. Read(Applied(disk, writing'), ProjectFile(p))
    BY <1>13, <2>1, ListedAfter
  <2> QED
    BY <2>2, ProjectListed
<1>15. Shape(ui', p)
  BY <1>1, <1>2, BridgeNow, ShapeOpened
<1>16. Called(writing', ui')
  BY <1>1, <1>3, <1>12, <1>14, <1>15 DEF Called, Counted, StartsProject
<1> QED
  BY <1>16, CallKeeps

-----------------------------------------------------------------------------
(* The end of the writing, and of the application.                          *)

\* A sound disk and nothing to write.
LEMMA AtRest ==
  ASSUME NEW d, NEW n \in Nat, Sound(d, n)
  PROVE  /\ Series(<<>>) /\ Spares(d, <<>>) /\ \A e \in Cuts(d, <<>>) : Sound(e, n)
         /\ Listed(d) \subseteq Listed(Applied(d, <<>>))
<1>1. PICK none : none = <<>>
  OBVIOUS
<1>2. Orderly(d, none, n) /\ Spares(d, none)
  BY <1>1, NoneIsOrderly
<1>3. Series(none) /\ \A e \in Cuts(d, none) : Sound(e, n)
  BY <1>2, OrderlyCuts DEF Orderly
<1> QED
  BY <1>1, <1>2, <1>3, ListedAfterNone

LEMMA FinishWritingKeeps ==
  ASSUME DiskInv, FinishWriting
  PROVE  DiskInv'
<1>1. disk' = Applied(disk, writing) /\ writing' = <<>> /\ ui' = ui /\ made' = made
  BY DEF FinishWriting
<1>2. made.saves \in Nat
  BY BoundsAssumption DEF DiskInv
<1>3. Sound(disk', made.saves)
  <2>1. Applied(disk, writing) \in Cuts(disk, writing)
    BY AppliedIsCut DEF DiskInv
  <2> QED
    BY <1>1, <2>1 DEF DiskInv
<1>4. /\ Series(<<>>) /\ Spares(disk', <<>>) /\ \A e \in Cuts(disk', <<>>) : Sound(e, made.saves)
      /\ Listed(disk') \subseteq Listed(Applied(disk', <<>>))
  BY <1>2, <1>3, AtRest
<1>5. Bound(ui, Applied(disk', <<>>))
  <2>1. Bound(ui, disk')
    BY <1>1 DEF DiskInv
  <2> QED
    BY <1>4, <2>1 DEF Bound
<1>6. (made.saves \in 0..MaxSaves /\ DOMAIN made = DOMAIN Spent)'
  BY <1>1 DEF DiskInv, Spent
<1>7. (Series(writing) /\ Spares(disk, writing) /\ Bound(ui, Applied(disk, writing)))'
  BY <1>1, <1>4, <1>5
<1>8. (Sound(disk, made.saves) /\ \A d \in Cuts(disk, writing) : Sound(d, made.saves))'
  BY <1>1, <1>3, <1>4
<1> QED
  BY <1>6, <1>7, <1>8 DEF DiskInv

LEMMA CrashKeeps ==
  ASSUME DiskInv, Crash
  PROVE  DiskInv'
<1>1. disk' \in Cuts(disk, writing) /\ writing' = <<>> /\ ui' = Fresh(FirstRig)
      /\ made' = [Spent EXCEPT !.crashes = made.crashes + 1]
  BY DEF Crash
<1>2. made'.saves = MaxSaves /\ DOMAIN made' = DOMAIN Spent /\ MaxSaves \in Nat /\ MaxSaves \in 0..MaxSaves
  BY <1>1, BoundsAssumption DEF Spent
<1>3. Sound(disk', MaxSaves)
  <2>1. Sound(disk', made.saves) /\ made.saves \in Nat /\ made.saves <= MaxSaves
    BY <1>1, BoundsAssumption DEF DiskInv
  <2> QED
    BY <1>2, <2>1, SoundStays
<1>4. /\ Series(<<>>) /\ Spares(disk', <<>>) /\ \A e \in Cuts(disk', <<>>) : Sound(e, MaxSaves)
  BY <1>2, <1>3, AtRest
<1>5. Bound(Fresh(FirstRig), Applied(disk', <<>>))
  BY ShapeFresh DEF Bound, Shape
<1>6. (made.saves \in 0..MaxSaves /\ DOMAIN made = DOMAIN Spent)'
  BY <1>2 DEF Spent
<1>7. (Series(writing) /\ Spares(disk, writing) /\ Bound(ui, Applied(disk, writing)))'
  BY <1>1, <1>4, <1>5
<1>8. (Sound(disk, made.saves) /\ \A d \in Cuts(disk, writing) : Sound(d, made.saves))'
  BY <1>1, <1>2, <1>3, <1>4
<1> QED
  BY <1>6, <1>7, <1>8 DEF DiskInv

LEMMA DiskInvInit ==
  ASSUME Init
  PROVE  DiskInv
<1>1. DOMAIN disk = {} /\ disk = [f \in DOMAIN disk |-> disk[f]] /\ writing = <<>> /\ ui = Fresh(FirstRig)
  <2>1. disk = [f \in {} |-> File(Nothing, TRUE)]
    BY DEF Init
  <2> QED
    BY <2>1 DEF Init
<1>2. made.saves = 0 /\ DOMAIN made = DOMAIN Spent
  BY DEF Init, Spent
<1>3. Sound(disk, 0)
  BY <1>1 DEF Sound
<1>4. /\ Series(<<>>) /\ Spares(disk, <<>>) /\ \A e \in Cuts(disk, <<>>) : Sound(e, 0)
  BY <1>3, AtRest
<1>5. Bound(Fresh(FirstRig), Applied(disk, <<>>))
  BY ShapeFresh DEF Bound, Shape
<1>6. made.saves \in 0..MaxSaves
  BY <1>2, BoundsAssumption
<1> QED
  BY <1>1, <1>2, <1>3, <1>4, <1>5, <1>6 DEF DiskInv

LEMMA DiskInvSame ==
  ASSUME DiskInv, UNCHANGED vars
  PROVE  DiskInv'
<1>1. disk' = disk /\ writing' = writing /\ ui' = ui /\ made' = made
  BY DEF vars
<1>2. (Sound(disk, made.saves) /\ Series(writing) /\ Spares(disk, writing))'
  BY <1>1 DEF DiskInv
<1>3. (made.saves \in 0..MaxSaves /\ DOMAIN made = DOMAIN Spent)'
  BY <1>1 DEF DiskInv, Spent
<1>4. (\A d \in Cuts(disk, writing) : Sound(d, made.saves))' /\ Bound(ui, Applied(disk, writing))'
  BY <1>1 DEF DiskInv
<1> QED
  BY <1>2, <1>3, <1>4 DEF DiskInv

-----------------------------------------------------------------------------
(* Every step.                                                              *)

LEMMA DiskInvStep ==
  ASSUME DiskInv, [DirectoryNext]_directoryVars
  PROVE  DiskInv'
<1>1. CASE UNCHANGED vars
  BY <1>1, DiskInvSame
<1>2. ASSUME NEW p, NEW q, NEW ref \in ProjectClouds(disk, p), NEW mov \in ProjectClouds(disk, q),
             RunRegistration(ref, mov)
      PROVE  DiskInv'
  <2>1. ref \in DOMAIN disk
    BY DEF ProjectClouds
  <2> QED
    BY <1>2, <2>1, RunRegistrationKeeps
<1>3. CASE \E rig \in Rigs : SelectScanner(rig)
  BY <1>3, SelectScannerKeeps
<1>4. CASE \/ \E p \in Projects : OpenProject(p)
           \/ \E started \in SUBSET Sensors : StartCapture(started)
           \/ \E heard \in SUBSET Sensors : Telemetry(heard)
           \/ \E d \in Sensors \cup {"FUSED"} : SetActiveDisplaySensor(d)
           \/ \E live \in BOOLEAN : SetLiveCleanup(live)
           \/ \E f \in {g \in DOMAIN disk : g[1] = "reg.json"} : LoadRegistration(f)
           \/ \E view \in 0..2, tinted \in BOOLEAN : ViewRegistration(view, tinted)
  BY <1>4, OpenProjectKeeps, StartCaptureKeeps, TelemetryKeeps, SetActiveDisplaySensorKeeps,
     SetLiveCleanupKeeps, LoadRegistrationKeeps, ViewRegistrationKeeps, Zenon
<1>5. CASE \/ CreateProject \/ StopCapture \/ SaveCapture \/ CleanUp \/ ResetCleanup \/ Commit
           \/ ExportCloud \/ Fuse \/ SaveFused \/ ClearRegistration \/ SaveAsSessionMap
           \/ SaveAsNewProject \/ FinishWriting \/ Crash
  BY <1>5, CreateProjectKeeps, StopCaptureKeeps, SaveCaptureKeeps, CleanUpKeeps, ResetCleanupKeeps,
     CommitKeeps, ExportCloudKeeps, FuseKeeps, SaveFusedKeeps, ClearRegistrationKeeps,
     SaveAsSessionMapKeeps, SaveAsNewProjectKeeps, FinishWritingKeeps, CrashKeeps
<1> QED
  BY <1>1, <1>2, <1>3, <1>4, <1>5, Zenon DEF DirectoryNext, InProjects, InDevices, directoryVars

\* Only the end of the writing and a crash change the disk.
LEMMA DiskSteps ==
  ASSUME [DirectoryNext]_directoryVars
  PROVE  \/ disk' = disk
         \/ disk' = Applied(disk, writing)
         \/ disk' \in Cuts(disk, writing)
<1>1. CASE UNCHANGED vars
  BY <1>1 DEF vars
<1>2. CASE \/ \E p \in Projects : OpenProject(p)
           \/ \E rig \in Rigs : SelectScanner(rig)
           \/ \E started \in SUBSET Sensors : StartCapture(started)
           \/ \E heard \in SUBSET Sensors : Telemetry(heard)
           \/ \E d \in Sensors \cup {"FUSED"} : SetActiveDisplaySensor(d)
           \/ \E live \in BOOLEAN : SetLiveCleanup(live)
           \/ \E f \in {g \in DOMAIN disk : g[1] = "reg.json"} : LoadRegistration(f)
           \/ \E view \in 0..2, tinted \in BOOLEAN : ViewRegistration(view, tinted)
           \/ \E p, q \in Projects : \E ref \in ProjectClouds(disk, p), mov \in ProjectClouds(disk, q) :
                RunRegistration(ref, mov)
  BY <1>2, Zenon DEF OpenProject, SelectScanner, StartCapture, Telemetry, SetActiveDisplaySensor,
     SetLiveCleanup, LoadRegistration, ViewRegistration, RunRegistration
<1>3. CASE \/ CreateProject \/ StopCapture \/ SaveCapture \/ CleanUp \/ ResetCleanup \/ Commit
           \/ ExportCloud \/ Fuse \/ SaveFused \/ ClearRegistration \/ SaveAsSessionMap \/ SaveAsNewProject
  BY <1>3, Zenon DEF CreateProject, StopCapture, SaveCapture, CleanUp, ResetCleanup, Commit,
     ExportCloud, Fuse, SaveFused, ClearRegistration, SaveAsSessionMap, SaveAsNewProject
<1>4. CASE FinishWriting
  BY <1>4 DEF FinishWriting
<1>5. CASE Crash
  BY <1>5 DEF Crash
<1> QED
  BY <1>1, <1>2, <1>3, <1>4, <1>5, Zenon DEF DirectoryNext, InProjects, InDevices, directoryVars

\* What no write touches is as it was, in every disk a crash may leave.
LEMMA Untouched ==
  ASSUME NEW d, NEW ws, Series(ws), NEW f \in DOMAIN d, \A i \in 1..Len(ws) : ws[i].path # f,
         NEW e, e \in Cuts(d, ws) \/ e = Applied(d, ws)
  PROVE  f \in DOMAIN e /\ e[f] = d[f]
<1>1. Len(ws) \in Nat
  BY SeqShape
<1>2. ASSUME NEW n \in 1..Len(ws) + 1, NEW b, Holding(d, ws, n - 1, b)
      PROVE  f \in DOMAIN b /\ b[f] = d[f]
  <2>1. \A i \in 1..(n - 1) : i \in 1..Len(ws)
    BY <1>1
  <2> QED
    BY <1>2, <2>1 DEF Holding
<1>3. CASE CutBefore(d, ws, e)
  BY <1>2, <1>3 DEF CutBefore
<1>4. CASE CutWithin(d, ws, e)
  <2>1. PICK n \in 1..Len(ws) : \E b : Holding(d, ws, n - 1, b) /\ TornAt(b, ws[n], e)
    BY <1>4 DEF CutWithin
  <2>2. PICK b : Holding(d, ws, n - 1, b) /\ TornAt(b, ws[n], e)
    BY <2>1
  <2>3. n \in 1..Len(ws) + 1
    BY <1>1
  <2>4. f \in DOMAIN b /\ b[f] = d[f] /\ f # ws[n].path
    BY <1>2, <2>2, <2>3
  <2> QED
    BY <2>2, <2>4 DEF TornAt
<1> QED
  BY <1>3, <1>4, CutIs, AppliedIsCut

-----------------------------------------------------------------------------
(* The theorems.                                                            *)

\* Every disk that the calls, or a crash in any of them, can leave is sound.
THEOREM DirectoryDisk == DirectorySpec => []DiskInv
<1>1. DirectoryInit => DiskInv
  BY DiskInvInit DEF DirectoryInit
<1>2. DiskInv /\ [DirectoryNext]_directoryVars => DiskInv'
  BY DiskInvStep
<1> QED
  BY <1>1, <1>2, PTL DEF DirectorySpec

\* A session that says it was saved has every capture it lists, map and
\* trajectory, whole, wherever saveCapture or any other call was interrupted.
THEOREM SavedSessionsAreWhole == DirectorySpec => []SavedIsWhole
<1>1. DiskInv => SavedIsWhole
  <2> SUFFICES ASSUME DiskInv, NEW f \in DOMAIN disk, f[1] = "session.json",
                      NEW c \in disk[f].body.captures
               PROVE  Read(disk, CaptureMap(c.at, f[3], c.id)) /\ Read(disk, Trajectory(c.at, f[3], c.id))
    BY DEF SavedIsWhole
  <2>1. \A g \in FilesOf(f, c) : Read(disk, g)
    BY DEF DiskInv, Sound
  <2> QED
    BY <2>1 DEF FilesOf
<1> QED
  BY <1>1, DirectoryDisk, PTL

\* Nothing on disk is without a project that the application lists.
THEOREM NothingIsOrphaned == DirectorySpec => []NothingOrphaned
<1>1. DiskInv => NothingOrphaned
  BY DEF DiskInv, Sound, NothingOrphaned
<1> QED
  BY <1>1, DirectoryDisk, PTL

\* No call, and no crash in one, changes a recording or a raw backup that is
\* on disk and whole.
THEOREM RecordingsStay == DirectorySpec => EvidenceKept
<1>1. ASSUME DiskInv, [DirectoryNext]_directoryVars, NEW f \in DOMAIN disk, Evidence(f)
      PROVE  f \in DOMAIN disk' /\ disk'[f] = disk[f]
  <2>1. Series(writing) /\ DOMAIN writing = 1..Len(writing)
    BY <1>1, SeqShape DEF DiskInv
  <2>2. \A i \in 1..Len(writing) : writing[i].path # f
    BY <1>1, <2>1 DEF DiskInv, Spares
  <2>3. CASE disk' = disk
    BY <1>1, <2>3
  <2>4. CASE disk' \in Cuts(disk, writing) \/ disk' = Applied(disk, writing)
    BY <1>1, <2>1, <2>2, <2>4, Untouched
  <2> QED
    BY <1>1, <2>3, <2>4, DiskSteps
<1>2. DiskInv /\ [DirectoryNext]_directoryVars =>
        [\A f \in DOMAIN disk : disk[f].whole /\ Evidence(f) => f \in DOMAIN disk' /\ disk'[f] = disk[f]]_vars
  BY <1>1
<1> QED
  BY <1>2, DirectoryDisk, PTL DEF DirectorySpec, EvidenceKept

-----------------------------------------------------------------------------
(* The devices: what holds of the profiles, the configurations and the      *)
(* selection, on the disk d, for the attached devices h, after "now" moves.  *)

FolderNames == {Folders[i] : i \in DOMAIN Folders}

\* What x says of a camera's node is so, unless a device moved since.
Fixed(h, now, x) ==
  /\ x.made \in 0..now
  /\ x.made = now /\ x.node # NoNode /\ now # 0 => x.of \in DOMAIN h.node /\ h.node[x.of] = x.node

\* A configuration c in a file f is one that came with the application, or in
\* the file of its own name.
GoodConfig(f, c) ==
  /\ f = ConfigAt(f[2])
  /\ c = [id |-> c.id, instances |-> c.instances, calib |-> c.calib] /\ IsFiniteSet(c.instances)
  /\ Custom(c.id) /\ c.calib # {} => Cardinality(c.instances) >= 2
  /\ f = ConfigAt(c.id) \/ (f \in ShippedConfigs /\ c = ShippedFiles[f].body)
  /\ Custom(c.id) \/ \E g \in ShippedConfigs : ShippedFiles[g].body.id = c.id
  /\ \A g \in ShippedConfigs : ShippedFiles[g].body.id = c.id /\ g # ConfigAt(c.id) =>
       c.instances = TwoParts /\ c.calib \subseteq {TwoParts}

GoodBody(h, now, f, x) ==
  IF f[1] = "scanner_configs" THEN GoodConfig(f, x) ELSE f[1] \in FolderNames /\ Fixed(h, now, x) /\ x.id # NoId

GoodShelf(d, h, now) ==
  /\ IsFiniteSet(DOMAIN d)
  /\ \A f \in DOMAIN d : GoodBody(h, now, f, d[f].body) /\ (f[1] = "scanner_configs" => d[f].whole)

\* What is being written is a profile, or a configuration that has all that
\* the one it replaces has, or is not calibrated.
Replaces(d, w) == \A f \in DOMAIN d : f = w.path /\ f[1] = "scanner_configs" =>
  /\ d[f].body.id = w.body.id
  /\ d[f].body.calib \subseteq w.body.calib \/ w.body.calib = {}
GoodWrite(d, h, now, w) ==
  /\ GoodBody(h, now, w.path, w.body)
  /\ w.path[1] = "scanner_configs" => w.atomic
  /\ Replaces(d, w)
GoodWrites(d, h, now, ws) ==
  /\ Series(ws) /\ Len(ws) \in 0..1
  /\ \A i \in 1..Len(ws) : GoodWrite(d, h, now, ws[i])

\* A sensor the bridge may capture from.
Settled(h, now, s) ==
  /\ s.made \in 0..now
  /\ s.role \in {"AIRY", "GEMINI", "VITURE", "CAMERA", "UNSUPPORTED"}
  /\ s.role = "CAMERA" /\ s.able /\ s.made = now => s.of \in DOMAIN h.node /\ h.node[s.of] = s.node

\* The sensors are some of the parts of what is selected, each once.
GoodSensors(d, h, now, id, sensors) ==
  /\ \A s \in sensors : Settled(h, now, s) /\ s.id \in Parts(d, id)
  /\ \A s, t \in sensors : s.id = t.id => s = t

\* What a device is shown with is the identifier it had somewhere.
Identified(x) == \E socket \in Sockets : x.id = DeviceId(x.unit, socket)
GoodLists(p) ==
  /\ p = [devices |-> p.devices, scanners |-> p.scanners, pick |-> p.pick, sensors |-> p.sensors]
  /\ \A x \in p.devices : x.unit \in Units /\ (x.status = "PROFILED") = (x.profile # NoId) /\ Identified(x)
  /\ IsFiniteSet(p.scanners.profiles)
GoodPanel(d, h, now, p) == GoodLists(p) /\ GoodSensors(d, h, now, p.pick, p.sensors)

GoodHost(h, now) ==
  /\ now \in Nat
  /\ h = [at |-> h.at, node |-> h.node] /\ DOMAIN h.at = DOMAIN h.node /\ DOMAIN h.at \subseteq Units
  /\ \A u \in DOMAIN h.at : h.at[u] \in Sockets /\ h.node[u] \in 0..Cardinality(Units)
  /\ now = 0 => DOMAIN h.node = {}

GoodTally(t) == t = [moves |-> t.moves, orders |-> t.orders, falls |-> t.falls]

CatalogInv ==
  /\ GoodHost(host, tally.moves) /\ GoodTally(tally)
  /\ GoodShelf(shelf, host, tally.moves)
  /\ GoodWrites(shelf, host, tally.moves, storing)
  /\ GoodPanel(Applied(shelf, storing), host, tally.moves, panel)

LEMMA FirstOfIs ==
  ASSUME NEW S \in SUBSET (1..4), S # {}
  PROVE  FirstOf(S) \in S
<1>1. \E i \in S : \A j \in S : i <= j
  BY FirstPosition
<1> QED
  BY <1>1 DEF FirstOf

LEMMA FolderIs ==
  ASSUME NEW i \in 1..4
  PROVE  Folders[i] \in FolderNames /\ Folders[i] # "scanner_configs"
BY DEF Folders, FolderNames

LEMMA FoldersApart == "scanner_configs" \notin FolderNames
BY DEF Folders, FolderNames

LEMMA ProfileIsFixed ==
  ASSUME NEW d, NEW h, NEW now, GoodShelf(d, h, now), NEW f \in DOMAIN d, f[1] # "scanner_configs"
  PROVE  Fixed(h, now, d[f].body)
BY DEF GoodShelf, GoodBody

\* What is loaded as a profile is the body of a profile's file.
LEMMA LoadableIs ==
  ASSUME NEW d, NEW key, NEW p \in Loadable(d, key)
  PROVE  \E f \in DOMAIN d : f[1] # "scanner_configs" /\ p = d[f].body
<1> DEFINE inside(i) == {q \in ProfilesIn(d, Folders[i]) : q.id = key}
           named  == {i \in 1..4 : Read(d, ProfileAt(Folders[i], key))}
           within == {i \in 1..4 : inside(i) # {}}
<1>1. p \in (IF named # {} THEN {Json(d, ProfileAt(Folders[FirstOf(named)], key))}
             ELSE IF within # {} THEN inside(FirstOf(within)) ELSE {})
  BY Zenon DEF Loadable
<1>2. CASE named # {}
  <2>1. p = Json(d, ProfileAt(Folders[FirstOf(named)], key))
    <3> HIDE DEF named, within, inside
    <3> QED
      BY <1>1, <1>2
  <2>2. FirstOf(named) \in named
    BY <1>2, FirstOfIs
  <2>3. PICK i \in 1..4 : i = FirstOf(named) /\ Read(d, ProfileAt(Folders[i], key))
    <3> HIDE DEF inside
    <3> QED
      BY <2>2
  <2>4. p = d[ProfileAt(Folders[i], key)].body /\ ProfileAt(Folders[i], key) \in DOMAIN d
    BY <2>1, <2>3, Zenon DEF Json, Read, Holds
  <2>5. ProfileAt(Folders[i], key)[1] = Folders[i]
    BY DEF ProfileAt
  <2> QED
    BY <2>4, <2>5, FolderIs
<1>3. CASE named = {}
  <2>1. within # {} /\ p \in inside(FirstOf(within))
    <3> HIDE DEF named, within, inside
    <3> QED
      BY <1>1, <1>3
  <2>2. FirstOf(within) \in within
    <3> HIDE DEF inside
    <3> QED
      BY <2>1, FirstOfIs
  <2>3. PICK i : i \in 1..4 /\ p \in inside(i)
    <3> HIDE DEF inside
    <3> QED
      BY <2>1, <2>2
  <2>4. p \in ProfilesIn(d, Folders[i])
    BY <2>3
  <2>5. PICK f \in DOMAIN d : f[1] = Folders[i] /\ p = d[f].body
    BY <2>4 DEF ProfilesIn
  <2> QED
    BY <2>3, <2>5, FolderIs
<1> QED
  BY <1>2, <1>3

\* A sensor that is resolved has its camera at the node, or none.
LEMMA ResolvedSettles ==
  ASSUME NEW h, NEW now, GoodHost(h, now), NEW id, NEW p, Fixed(h, now, p)
  PROVE  Settled(h, now, Resolved(h, id, p)) /\ Resolved(h, id, p).id = id
<1> DEFINE role == Role(p.family, p.node)
<1>1. role \in {"AIRY", "GEMINI", "VITURE", "CAMERA", "UNSUPPORTED"} /\ (role = "CAMERA" => p.node # NoNode)
  BY DEF Role
<1> HIDE DEF role
<1>2. PICK able : able = (role # "UNSUPPORTED" /\ (role = "CAMERA" => \E u \in DOMAIN h.node : h.node[u] = p.node))
  OBVIOUS
<1>3. PICK x : x = [id |-> id, role |-> role, node |-> p.node, of |-> p.of, made |-> p.made, able |-> able]
  OBVIOUS
<1>4. x = Resolved(h, id, p)
  BY <1>2, <1>3, Zenon DEF Resolved, role
<1>5. /\ x.id = id /\ x.role = role /\ x.node = p.node /\ x.of = p.of /\ x.made = p.made
      /\ x.able = able
  BY <1>3
<1>6. ASSUME x.role = "CAMERA", x.able, x.made = now
      PROVE  x.of \in DOMAIN h.node /\ h.node[x.of] = x.node
  <2>1. able
    BY <1>5, <1>6
  <2>2. \E u \in DOMAIN h.node : h.node[u] = p.node
    BY <1>2, <1>5, <1>6, <2>1
  <2>3. now # 0
    BY <2>2 DEF GoodHost
  <2> QED
    BY <1>1, <1>5, <1>6, <2>3 DEF Fixed
<1> QED
  BY <1>1, <1>4, <1>5, <1>6 DEF Settled, Fixed

LEMMA GuessedIsNone ==
  ASSUME NEW h, NEW now, GoodHost(h, now), NEW id, NEW p,
         p = [family |-> Guessed(id), node |-> NoNode, of |-> "nobody", made |-> 0]
  PROVE  Fixed(h, now, p)
<1>1. p.node = NoNode /\ p.made = 0
  BY Zenon
<1>2. now \in Nat
  BY DEF GoodHost
<1> QED
  BY <1>1, <1>2 DEF Fixed

LEMMA ContextsGood ==
  ASSUME NEW d, NEW h, NEW now, GoodHost(h, now), GoodShelf(d, h, now), NEW id, NEW x \in Contexts1(d, h, id)
  PROVE  Settled(h, now, x) /\ x.id = id
<1>1. CASE Loadable(d, id) # {}
  <2>1. PICK p \in Loadable(d, id) : x = Resolved(h, id, p)
    BY <1>1, Zenon DEF Contexts1
  <2>2. Fixed(h, now, p)
    BY LoadableIs, ProfileIsFixed
  <2> QED
    BY <2>1, <2>2, ResolvedSettles
<1>2. CASE Loadable(d, id) = {}
  <2>1. PICK p : p = [family |-> Guessed(id), node |-> NoNode, of |-> "nobody", made |-> 0]
    OBVIOUS
  <2>2. x = Resolved(h, id, p)
    BY <1>2, <2>1, Zenon DEF Contexts1
  <2> QED
    BY <2>1, <2>2, GuessedIsNone, ResolvedSettles
<1> QED
  BY <1>1, <1>2

LEMMA InUseGood ==
  ASSUME NEW d, NEW h, NEW now, GoodHost(h, now), GoodShelf(d, h, now), NEW id, NEW sensors \in InUse(d, h, id)
  PROVE  GoodSensors(d, h, now, id, sensors)
<1>1. PICK f : /\ \A part \in Parts(d, id) : f[part] \in Contexts1(d, h, part)
               /\ sensors = {f[part] : part \in Parts(d, id)}
  BY Zenon DEF InUse
<1>2. ASSUME NEW part \in Parts(d, id)
      PROVE  Settled(h, now, f[part]) /\ f[part].id = part
  BY <1>1, ContextsGood
<1>3. ASSUME NEW s \in sensors
      PROVE  \E part \in Parts(d, id) : s = f[part] /\ s.id = part /\ Settled(h, now, s)
  BY <1>1, <1>2
<1> QED
  BY <1>3 DEF GoodSensors

LEMMA ImageFinite ==
  ASSUME NEW f, IsFiniteSet(DOMAIN f)
  PROVE  IsFiniteSet({f[x] : x \in DOMAIN f})
<1> DEFINE T == {f[x] : x \in DOMAIN f}
           g == [x \in DOMAIN f |-> f[x]]
<1>1. g \in Surjection(DOMAIN f, T)
  BY DEF Surjection
<1> QED
  BY <1>1, FS_Surjection

\* The identifiers of the profiles on a disk are finitely many.
LEMMA ListingFinite ==
  ASSUME NEW d, IsFiniteSet(DOMAIN d)
  PROVE  IsFiniteSet(Listing(d).profiles)
<1> DEFINE ids == [f \in DOMAIN d |-> d[f].body.id]
<1>1. IsFiniteSet({ids[f] : f \in DOMAIN ids})
  BY ImageFinite
<1>2. Listing(d).profiles \in SUBSET {ids[f] : f \in DOMAIN ids}
  <2> SUFFICES ASSUME NEW id \in Listing(d).profiles
               PROVE  id \in {ids[f] : f \in DOMAIN ids}
    OBVIOUS
  <2>1. Listing(d).profiles = {p.id : p \in UNION {Loadable(d, stem) : stem \in Stems(d)}}
    BY Zenon DEF Listing
  <2>2. PICK stem \in Stems(d) : \E p \in Loadable(d, stem) : id = p.id
    BY <2>1
  <2>3. PICK p \in Loadable(d, stem) : id = p.id
    BY <2>2
  <2>4. PICK f \in DOMAIN d : p = d[f].body
    BY LoadableIs
  <2> QED
    BY <2>3, <2>4
<1> QED
  BY <1>1, <1>2, FS_Subset

LEMMA PanelParts ==
  ASSUME NEW a, NEW b, NEW c, NEW e, NEW p,
         p = [devices |-> a, scanners |-> b, pick |-> c, sensors |-> e], NEW x, NEW y
  PROVE  /\ [p EXCEPT !.scanners = x] = [devices |-> a, scanners |-> x, pick |-> c, sensors |-> e]
         /\ [p EXCEPT !.devices = x] = [devices |-> x, scanners |-> b, pick |-> c, sensors |-> e]
         /\ [p EXCEPT !.pick = x, !.sensors = y] = [devices |-> a, scanners |-> b, pick |-> x, sensors |-> y]
<1>1. PICK q : q = [p EXCEPT !.pick = x]
  OBVIOUS
<1>2. q = [devices |-> a, scanners |-> b, pick |-> x, sensors |-> e]
  BY <1>1
<1>3. [q EXCEPT !.sensors = y] = [devices |-> a, scanners |-> b, pick |-> x, sensors |-> y]
  BY <1>2
<1>4. [p EXCEPT !.pick = x, !.sensors = y] = [q EXCEPT !.sensors = y]
  BY <1>1, Zenon
<1>5. [p EXCEPT !.scanners = x] = [devices |-> a, scanners |-> x, pick |-> c, sensors |-> e]
  OBVIOUS
<1>6. [p EXCEPT !.devices = x] = [devices |-> x, scanners |-> b, pick |-> c, sensors |-> e]
  OBVIOUS
<1> QED
  BY <1>3, <1>4, <1>5, <1>6, Zenon

LEMMA PickedGood ==
  ASSUME NEW d, NEW h, NEW now, GoodHost(h, now), GoodShelf(d, h, now),
         NEW p, GoodLists(p), NEW id, NEW q \in Picked(d, h, p, id)
  PROVE  GoodPanel(d, h, now, q) /\ q.pick = id /\ q.scanners = p.scanners /\ q.devices = p.devices
<1>1. PICK s \in InUse(d, h, id) : q = [p EXCEPT !.pick = id, !.sensors = s]
  BY DEF Picked
<1>2. q = [devices |-> p.devices, scanners |-> p.scanners, pick |-> id, sensors |-> s]
  BY <1>1, PanelParts, Zenon DEF GoodLists
<1>3. GoodSensors(d, h, now, id, s)
  BY InUseGood
<1>4. GoodLists(q)
  BY <1>2 DEF GoodLists
<1> QED
  BY <1>2, <1>3, <1>4 DEF GoodPanel

\* refreshData keeps what is selected, or selects anew.
LEMMA RefreshedLists ==
  ASSUME NEW d, NEW h, NEW now, GoodHost(h, now), GoodShelf(d, h, now),
         NEW p, GoodLists(p), NEW q \in Refreshed(d, h, p)
  PROVE  /\ GoodLists(q) /\ q.scanners = Listing(d) /\ q.devices = p.devices
         /\ (q.pick = p.pick /\ q.sensors = p.sensors) \/ GoodSensors(d, h, now, q.pick, q.sensors)
<1>1. PICK l : l = [p EXCEPT !.scanners = Listing(d)]
  OBVIOUS
<1>2. l = [devices |-> p.devices, scanners |-> Listing(d), pick |-> p.pick, sensors |-> p.sensors]
  BY <1>1, PanelParts, Zenon DEF GoodLists
<1>3. IsFiniteSet(Listing(d).profiles)
  BY ListingFinite DEF GoodShelf
<1>4. GoodLists(l) /\ l.scanners = Listing(d) /\ l.devices = p.devices /\ l.pick = p.pick /\ l.sensors = p.sensors
  BY <1>2, <1>3 DEF GoodLists
<1>5. q \in (IF p.pick # NoId \/ HeadsOf(Listing(d)) = {} THEN {l}
             ELSE UNION {Picked(d, h, l, id) : id \in HeadsOf(Listing(d))})
  BY <1>1, Zenon DEF Refreshed
<1>6. CASE q = l
  BY <1>4, <1>6
<1>7. CASE \E id : q \in Picked(d, h, l, id)
  <2>1. PICK id : q \in Picked(d, h, l, id)
    BY <1>7
  <2>2. GoodPanel(d, h, now, q) /\ q.pick = id /\ q.scanners = l.scanners /\ q.devices = l.devices
    BY <1>4, <2>1, PickedGood
  <2> QED
    BY <1>4, <2>2 DEF GoodPanel
<1> QED
  <2>1. q = l \/ \E id : q \in Picked(d, h, l, id)
    BY <1>5
  <2> QED
    BY <1>6, <1>7, <2>1

LEMMA RefreshedGood ==
  ASSUME NEW d, NEW h, NEW now, GoodHost(h, now), GoodShelf(d, h, now),
         NEW p, GoodPanel(d, h, now, p), NEW q \in Refreshed(d, h, p)
  PROVE  GoodPanel(d, h, now, q)
<1>1. /\ GoodLists(q)
      /\ (q.pick = p.pick /\ q.sensors = p.sensors) \/ GoodSensors(d, h, now, q.pick, q.sensors)
  BY RefreshedLists DEF GoodPanel
<1> QED
  BY <1>1 DEF GoodPanel

\* A device is shown as profiled if a profile is.
LEMMA ShownIs ==
  ASSUME NEW dev, NEW id, NEW x, x = ShownDevice(dev, id)
  PROVE  x.unit = dev.unit /\ x.id = dev.id /\ x.profile = id /\ (x.status = "PROFILED") = (x.profile # NoId)
<1>1. PICK status : status = IF id = NoId THEN "UNPROFILED" ELSE "PROFILED"
  OBVIOUS
<1>2. x = [unit |-> dev.unit, id |-> dev.id, node |-> dev.node, profile |-> id, status |-> status]
  BY <1>1, Zenon DEF ShownDevice
<1> QED
  BY <1>1, <1>2

LEMMA DeviceIs ==
  ASSUME NEW h, NEW dev \in Devices(h)
  PROVE  /\ dev.unit \in DOMAIN h.at /\ dev.node = h.node[dev.unit]
         /\ dev = Device(h, dev.unit) /\ dev.id = DeviceId(dev.unit, h.at[dev.unit])
<1>1. PICK u \in DOMAIN h.at : dev = Device(h, u)
  BY DEF Devices
<1>2. dev.unit = u /\ dev.node = h.node[u] /\ dev.id = DeviceId(u, h.at[u])
  BY <1>1 DEF Device
<1> QED
  BY <1>1, <1>2

LEMMA DiscoveredIs ==
  ASSUME NEW d, NEW h, NEW found \in Discovered(d, h)
  PROVE  \E m : /\ found = {ShownDevice(dev, m[dev]) : dev \in Devices(h)}
                /\ \A dev \in Devices(h) : m[dev] \in Matches(d, dev)
BY Zenon DEF Discovered

LEMMA ScannedGood ==
  ASSUME NEW d, NEW h, NEW now, GoodHost(h, now), NEW e,
         NEW p, GoodPanel(e, h, now, p), NEW q \in Scanned(d, h, p)
  PROVE  GoodPanel(e, h, now, q) /\ q.pick = p.pick /\ q.scanners = p.scanners
<1>1. PICK found \in Discovered(d, h) : q = [p EXCEPT !.devices = found]
  BY DEF Scanned
<1>2. GoodLists(p)
  BY DEF GoodPanel
<1>3. q = [devices |-> found, scanners |-> p.scanners, pick |-> p.pick, sensors |-> p.sensors]
  BY <1>1, <1>2, PanelParts, Zenon DEF GoodLists
<1>4. ASSUME NEW x \in found
      PROVE  x.unit \in Units /\ (x.status = "PROFILED") = (x.profile # NoId) /\ Identified(x)
  <2>1. PICK dev, id : dev \in Devices(h) /\ x = ShownDevice(dev, id)
    BY DiscoveredIs
  <2>2. dev.unit \in Units /\ h.at[dev.unit] \in Sockets /\ dev.id = DeviceId(dev.unit, h.at[dev.unit])
    BY <2>1, DeviceIs DEF GoodHost
  <2>3. /\ x.unit = dev.unit /\ x.id = dev.id /\ x.profile = id
        /\ (x.status = "PROFILED") = (x.profile # NoId)
    BY <2>1, ShownIs
  <2>4. Identified(x)
    BY <2>2, <2>3 DEF Identified
  <2> QED
    BY <2>2, <2>3, <2>4
<1>5. GoodLists(q)
  BY <1>2, <1>3, <1>4 DEF GoodLists
<1> QED
  BY <1>3, <1>5 DEF GoodPanel

LEMMA BothGood ==
  ASSUME NEW d, NEW h, NEW now, GoodHost(h, now), GoodShelf(d, h, now),
         NEW p, GoodPanel(d, h, now, p), NEW q \in Both(d, h, p)
  PROVE  GoodPanel(d, h, now, q)
<1>1. PICK r \in Refreshed(d, h, p) : q \in Scanned(d, h, r)
  BY DEF Both
<1> QED
  BY <1>1, RefreshedGood, ScannedGood

LEMMA OpeningGood ==
  ASSUME NEW d, NEW h, NEW now
  PROVE  GoodPanel(d, h, now, Opening)
<1>1. /\ Opening = [devices |-> {}, scanners |-> [configs |-> {}, profiles |-> {}], pick |-> NoId, sensors |-> {}]
      /\ IsFiniteSet({})
  BY FS_EmptySet DEF Opening
<1>2. /\ Opening.devices = {} /\ Opening.scanners = [configs |-> {}, profiles |-> {}]
      /\ Opening.pick = NoId /\ Opening.sensors = {}
  BY <1>1
<1>3. Opening = [devices |-> Opening.devices, scanners |-> Opening.scanners, pick |-> Opening.pick,
                 sensors |-> Opening.sensors]
  BY <1>1, <1>2
<1> QED
  BY <1>1, <1>2, <1>3 DEF GoodPanel, GoodLists, GoodSensors

\* After n of the writes, every file is from before or what was written.
LEMMA HoldsEither ==
  ASSUME NEW d, NEW ws, NEW n \in Nat, NEW e, Holding(d, ws, n, e), NEW f \in DOMAIN e
  PROVE  \/ f \in DOMAIN d /\ e[f] = d[f]
         \/ \E k \in 1..n : ws[k].path = f /\ e[f].body = ws[k].body /\ e[f].whole
<1>1. CASE \A i \in 1..n : ws[i].path # f
  BY <1>1 DEF Holding
<1>2. CASE \E i \in 1..n : ws[i].path = f
  <2>1. PICK i \in 1..n : ws[i].path = f
    BY <1>2
  <2>2. PICK k \in 1..n : ws[k].path = f /\ e[f] = File(ws[k].body, TRUE)
    BY <2>1 DEF Holding
  <2>3. e[f].body = ws[k].body /\ e[f].whole
    BY <2>2 DEF File
  <2> QED
    BY <2>2, <2>3
<1> QED
  BY <1>1, <1>2

\* Writing some of what may be written keeps the shelf good.
LEMMA HoldingGood ==
  ASSUME NEW d, NEW h, NEW now, GoodShelf(d, h, now), NEW ws, GoodWrites(d, h, now, ws),
         NEW n \in 0..Len(ws), NEW e, Holding(d, ws, n, e)
  PROVE  GoodShelf(e, h, now)
<1>1. Len(ws) \in Nat /\ n \in Nat /\ \A i \in 1..n : i \in 1..Len(ws)
  BY DEF GoodWrites
<1>2. IsFiniteSet(DOMAIN e)
  <2> DEFINE paths == {ws[i].path : i \in 1..n}
  <2>1. IsFiniteSet(paths)
    <3> DEFINE at == [i \in 1..n |-> ws[i].path]
    <3>1. IsFiniteSet(DOMAIN at)
      BY <1>1, FS_Interval
    <3>2. IsFiniteSet({at[i] : i \in DOMAIN at})
      BY <3>1, ImageFinite
    <3>3. {at[i] : i \in DOMAIN at} = paths
      OBVIOUS
    <3> QED
      BY <3>2, <3>3
  <2>2. DOMAIN e = DOMAIN d \cup paths
    BY DEF Holding
  <2> HIDE DEF paths
  <2> QED
    BY <2>1, <2>2, FS_Union DEF GoodShelf
<1>3. ASSUME NEW f \in DOMAIN e
      PROVE  GoodBody(h, now, f, e[f].body) /\ (f[1] = "scanner_configs" => e[f].whole)
  <2>1. CASE f \in DOMAIN d /\ e[f] = d[f]
    BY <2>1 DEF GoodShelf
  <2>2. CASE \E k \in 1..n : ws[k].path = f /\ e[f].body = ws[k].body /\ e[f].whole
    <3>1. PICK k \in 1..n : ws[k].path = f /\ e[f].body = ws[k].body /\ e[f].whole
      BY <2>2
    <3>2. GoodBody(h, now, ws[k].path, ws[k].body)
      BY <1>1 DEF GoodWrites, GoodWrite
    <3> QED
      BY <3>1, <3>2
  <2> QED
    BY <1>1, <2>1, <2>2, HoldsEither
<1> QED
  BY <1>2, <1>3 DEF GoodShelf

LEMMA AppliedGood ==
  ASSUME NEW d, NEW h, NEW now, GoodShelf(d, h, now), NEW ws, GoodWrites(d, h, now, ws)
  PROVE  GoodShelf(Applied(d, ws), h, now)
<1>1. Series(ws) /\ Len(ws) \in 0..Len(ws)
  BY DEF GoodWrites
<1>2. Holding(d, ws, Len(ws), Applied(d, ws))
  BY <1>1, AppliedFiles
<1> QED
  BY <1>1, <1>2, HoldingGood

\* A folder of profiles holds no clouds.
LEMMA NoClouds == "scanner_configs" \notin Clouds /\ FolderNames \cap Clouds = {}
BY DEF Folders, FolderNames, Clouds

\* A write that is cut off keeps it good as well: a profile that cannot be
\* read is not loaded.
LEMMA CutGood ==
  ASSUME NEW d, NEW h, NEW now, GoodShelf(d, h, now), NEW ws, GoodWrites(d, h, now, ws), NEW e \in Cuts(d, ws)
  PROVE  GoodShelf(e, h, now)
<1>1. Series(ws) /\ Len(ws) \in Nat
  BY DEF GoodWrites
<1>2. CASE CutBefore(d, ws, e)
  <2>1. PICK n \in 1..Len(ws) + 1 : Holding(d, ws, n - 1, e)
    BY <1>2 DEF CutBefore
  <2>2. n - 1 \in 0..Len(ws)
    BY <1>1
  <2> QED
    BY <2>1, <2>2, HoldingGood
<1>3. CASE CutWithin(d, ws, e)
  <2>1. PICK n \in 1..Len(ws) : \E b : ~ws[n].atomic /\ Holding(d, ws, n - 1, b) /\ TornAt(b, ws[n], e)
    BY <1>3 DEF CutWithin
  <2>2. PICK b : ~ws[n].atomic /\ Holding(d, ws, n - 1, b) /\ TornAt(b, ws[n], e)
    BY <2>1
  <2> DEFINE w == ws[n]
  <2>3. GoodWrite(d, h, now, w) /\ n - 1 \in 0..Len(ws)
    BY <1>1 DEF GoodWrites
  <2>4. GoodShelf(b, h, now)
    BY <2>2, <2>3, HoldingGood
  <2>5. w.path[1] \in FolderNames /\ Fixed(h, now, w.body) /\ w.body.id # NoId
    BY <2>2, <2>3 DEF GoodWrite, GoodBody
  <2> HIDE DEF w
  <2>6. PICK file : file \in Torn(w) /\ e = [g \in DOMAIN b \cup {w.path} |-> IF g = w.path THEN file ELSE b[g]]
    BY <2>2 DEF TornAt, w
  <2>7. file = File(w.body, FALSE)
    BY <2>5, <2>6, NoClouds DEF Torn
  <2>8. file.body = w.body
    BY <2>7 DEF File
  <2>9. IsFiniteSet(DOMAIN e)
    <3>1. IsFiniteSet(DOMAIN b \cup {w.path})
      BY <2>4, FS_AddElement DEF GoodShelf
    <3> QED
      BY <2>6, <3>1
  <2>10. w.path[1] # "scanner_configs"
    BY <2>5, FoldersApart
  <2>11. ASSUME NEW f \in DOMAIN e
         PROVE  GoodBody(h, now, f, e[f].body) /\ (f[1] = "scanner_configs" => e[f].whole)
    <3>1. CASE f = w.path
      <4>1. e[f] = file
        BY <2>6, <3>1
      <4> QED
        BY <2>5, <2>8, <2>10, <3>1, <4>1 DEF GoodBody
    <3>2. CASE f # w.path
      <4>1. f \in DOMAIN b /\ e[f] = b[f]
        BY <2>6, <3>2
      <4> QED
        BY <2>4, <4>1 DEF GoodShelf
    <3> QED
      BY <3>1, <3>2
  <2> QED
    BY <2>9, <2>11 DEF GoodShelf
<1> QED
  BY <1>1, <1>2, <1>3, CutIs

\* The two disks have the same configurations.
SameConfigs(d, e) == \A f \in DOMAIN d \cup DOMAIN e : f[1] = "scanner_configs" =>
  f \in DOMAIN d /\ f \in DOMAIN e /\ d[f] = e[f]

LEMMA ConfigPath ==
  ASSUME NEW id
  PROVE  /\ ConfigAt(id)[1] = "scanner_configs" /\ ConfigAt(id)[2] = id
         /\ \A k : ConfigAt(id) = ConfigAt(k) => id = k
<1>1. ConfigAt(id)[1] = "scanner_configs" /\ ConfigAt(id)[2] = id
  BY DEF ConfigAt
<1>2. ASSUME NEW k, ConfigAt(id) = ConfigAt(k)
      PROVE  id = k
  <2>1. ConfigAt(k)[2] = k
    BY DEF ConfigAt
  <2> QED
    BY <1>1, <1>2, <2>1
<1> QED
  BY <1>1, <1>2

LEMMA SamePartsIf ==
  ASSUME NEW d, NEW e, SameConfigs(d, e), NEW id
  PROVE  Configs(d) = Configs(e) /\ Parts(d, id) = Parts(e, id)
<1>1. Configs(d) = Configs(e)
  <2>1. ASSUME NEW a, NEW b, SameConfigs(a, b)
        PROVE  Configs(a) \subseteq Configs(b)
    <3> SUFFICES ASSUME NEW c \in Configs(a)
                 PROVE  c \in Configs(b)
      OBVIOUS
    <3>1. PICK f \in DOMAIN a : f[1] = "scanner_configs" /\ a[f].whole /\ c = a[f].body
      BY DEF Configs
    <3>2. f \in DOMAIN b /\ b[f] = a[f]
      BY <2>1, <3>1 DEF SameConfigs
    <3> QED
      BY <3>1, <3>2 DEF Configs
  <2>2. SameConfigs(e, d)
    BY DEF SameConfigs
  <2> QED
    BY <2>1, <2>2
<1>2. Read(d, ConfigAt(id)) <=> Read(e, ConfigAt(id))
  <2>1. ConfigAt(id) \in DOMAIN d \/ ConfigAt(id) \in DOMAIN e =>
          ConfigAt(id) \in DOMAIN d /\ ConfigAt(id) \in DOMAIN e /\ d[ConfigAt(id)] = e[ConfigAt(id)]
    BY ConfigPath DEF SameConfigs
  <2> QED
    BY <2>1, Zenon DEF Read, Holds
<1>3. Read(d, ConfigAt(id)) => Json(d, ConfigAt(id)) = Json(e, ConfigAt(id))
  BY ConfigPath DEF SameConfigs, Json, Read, Holds
<1>4. IsConfig(d, id) <=> IsConfig(e, id)
  BY <1>1, <1>2, Zenon DEF IsConfig
<1>5. ConfigOf(d, id) = ConfigOf(e, id)
  <2>1. CASE Read(d, ConfigAt(id))
    BY <1>2, <1>3, <2>1, Zenon DEF ConfigOf
  <2>2. CASE ~Read(d, ConfigAt(id))
    <3> DEFINE First(C) == CHOOSE c \in C : c.id = id
    <3>1. ConfigOf(d, id) = First(Configs(d)) /\ ConfigOf(e, id) = First(Configs(e))
      BY <1>2, <2>2, Zenon DEF ConfigOf
    <3> HIDE DEF First
    <3> QED
      BY <1>1, <3>1
  <2> QED
    BY <2>1, <2>2
<1>6. Parts(d, id) = Parts(e, id)
  <2>1. CASE id \in Composite
    BY <2>1, Zenon DEF Parts
  <2>2. CASE id \notin Composite /\ IsConfig(d, id)
    BY <1>4, <1>5, <2>2, Zenon DEF Parts
  <2>3. CASE id \notin Composite /\ ~IsConfig(d, id)
    BY <1>4, <2>3, Zenon DEF Parts
  <2> QED
    BY <2>1, <2>2, <2>3
<1> QED
  BY <1>1, <1>6

LEMMA SensorsStay ==
  ASSUME NEW d, NEW e, NEW h, NEW now, NEW id, NEW sensors, GoodSensors(d, h, now, id, sensors),
         Parts(d, id) \subseteq Parts(e, id)
  PROVE  GoodSensors(e, h, now, id, sensors)
BY DEF GoodSensors

\* A configuration that is loaded is one that is listed.
LEMMA ConfigOfIs ==
  ASSUME NEW d, NEW id, IsConfig(d, id)
  PROVE  /\ ConfigOf(d, id) \in Configs(d)
         /\ Read(d, ConfigAt(id)) => ConfigOf(d, id) = d[ConfigAt(id)].body
         /\ ~Read(d, ConfigAt(id)) => ConfigOf(d, id).id = id
<1>1. CASE Read(d, ConfigAt(id))
  <2>1. ConfigOf(d, id) = d[ConfigAt(id)].body
    BY <1>1, Zenon DEF ConfigOf, Json
  <2>2. d[ConfigAt(id)].body \in Configs(d)
    BY <1>1, ConfigPath DEF Configs, Read, Holds
  <2> QED
    BY <1>1, <2>1, <2>2
<1>2. CASE ~Read(d, ConfigAt(id))
  <2>1. ConfigOf(d, id) = CHOOSE c \in Configs(d) : c.id = id
    BY <1>2, Zenon DEF ConfigOf
  <2>2. \E c \in Configs(d) : c.id = id
    BY <1>2, Zenon DEF IsConfig
  <2> QED
    BY <1>2, <2>1, <2>2
<1> QED
  BY <1>1, <1>2

LEMMA ConfigFile ==
  ASSUME NEW d, NEW h, NEW now, GoodShelf(d, h, now), NEW c \in Configs(d)
  PROVE  \E f \in DOMAIN d : f[1] = "scanner_configs" /\ c = d[f].body /\ GoodConfig(f, c)
<1>1. PICK f \in DOMAIN d : f[1] = "scanner_configs" /\ c = d[f].body
  BY DEF Configs
<1> QED
  BY <1>1 DEF GoodShelf, GoodBody

\* The file of a configuration's own name has that configuration or none.
LEMMA OwnFile ==
  ASSUME NEW d, NEW h, NEW now, GoodShelf(d, h, now), NEW id,
         Custom(id) \/ \E g \in ShippedConfigs : ShippedFiles[g].body.id = id,
         ConfigAt(id) \in DOMAIN d
  PROVE  d[ConfigAt(id)].body.id = id /\ GoodConfig(ConfigAt(id), d[ConfigAt(id)].body)
         /\ d[ConfigAt(id)].body \in Configs(d)
<1> DEFINE f == ConfigAt(id)
           b == d[f].body
<1>1. f[1] = "scanner_configs" /\ f[2] = id
  BY ConfigPath
<1>2. GoodConfig(f, b) /\ d[f].whole
  BY <1>1 DEF GoodShelf, GoodBody
<1>3. b \in Configs(d)
  BY <1>1, <1>2 DEF Configs
<1>4. CASE f = ConfigAt(b.id)
  BY <1>2, <1>3, <1>4, ConfigPath
<1>5. CASE f # ConfigAt(b.id)
  <2>1. f \in ShippedConfigs /\ b = ShippedFiles[f].body
    BY <1>2, <1>5 DEF GoodConfig
  <2>2. ShippedConfig(f)
    BY <2>1, ShippedFilesAssumption DEF ShippedConfigs
  <2>3. ~Custom(f[2]) /\ \A g \in ShippedConfigs : ShippedFiles[g].body.id # f[2]
    BY <1>5, <2>1, <2>2 DEF ShippedConfig
  <2> QED
    BY <1>1, <2>3
<1> QED
  BY <1>4, <1>5

\* A configuration in another file than that of its own name is of the
\* composite scanner's parts, and came with the application.
LEMMA OtherFile ==
  ASSUME NEW f, NEW c, GoodConfig(f, c), f # ConfigAt(c.id)
  PROVE  /\ ~Custom(c.id) /\ f \in ShippedConfigs /\ ShippedFiles[f].body.id = c.id
         /\ c.instances = TwoParts
<1>1. f \in ShippedConfigs /\ c = ShippedFiles[f].body
  BY DEF GoodConfig
<1>2. ShippedConfig(f)
  BY <1>1, ShippedFilesAssumption DEF ShippedConfigs
<1> QED
  BY <1>1, <1>2 DEF ShippedConfig

\* A custom configuration has no copy that came under another name.
LEMMA CustomOwn ==
  ASSUME NEW id, Custom(id), NEW g \in ShippedConfigs, ShippedFiles[g].body.id = id
  PROVE  g = ConfigAt(id)
<1>1. ShippedConfig(g)
  BY ShippedFilesAssumption DEF ShippedConfigs
<1> QED
  BY <1>1 DEF ShippedConfig

\* What one write of a configuration leaves.
LEMMA ConfigWritten ==
  ASSUME NEW d, NEW c
  PROVE  LET e == Applied(d, SaveConfig(c)) IN
         /\ ConfigAt(c.id) \in DOMAIN e /\ e[ConfigAt(c.id)].body = c /\ Read(e, ConfigAt(c.id))
         /\ \A f \in DOMAIN d : f # ConfigAt(c.id) => f \in DOMAIN e /\ e[f] = d[f]
<1> DEFINE ws == SaveConfig(c)
           e == Applied(d, ws)
           w == Whole(ConfigAt(c.id), c)
<1>1. Series(ws) /\ Len(ws) = 1 /\ ws[1] = w
  BY OneWrite DEF SaveConfig
<1>2. Holding(d, ws, 1, e)
  BY <1>1, AppliedFiles
<1>3. w.path = ConfigAt(c.id) /\ w.body = c
  BY AtomicIs
<1> HIDE DEF ws, e, w
<1>4. ws[1].path = ConfigAt(c.id) /\ ws[1].body = c
  BY <1>1, <1>3
<1>5. e[ConfigAt(c.id)] = File(c, TRUE)
  <2>1. PICK n : n = 1
    OBVIOUS
  <2>2. n \in 1..n
    BY <2>1
  <2>3. Holding(d, ws, n, e)
    BY <1>2, <2>1
  <2>4. PICK k \in 1..n : e[ws[n].path] = File(ws[k].body, TRUE)
    BY <2>2, <2>3 DEF Holding
  <2>5. k = 1
    BY <2>1
  <2> QED
    BY <1>4, <2>1, <2>4, <2>5
<1>6. DOMAIN e = DOMAIN d \cup {ws[i].path : i \in 1..1}
  BY <1>2 DEF Holding
<1>7. e[ConfigAt(c.id)].body = c /\ e[ConfigAt(c.id)].whole
  BY <1>5 DEF File
<1>8. ConfigAt(c.id) \in DOMAIN e
  BY <1>4, <1>6
<1>9. ASSUME NEW f \in DOMAIN d, f # ConfigAt(c.id)
       PROVE  f \in DOMAIN e /\ e[f] = d[f]
  <2>1. f \in DOMAIN e /\ \A i \in 1..1 : ws[i].path # f
    BY <1>4, <1>6, <1>9
  <2> QED
    BY <1>2, <2>1 DEF Holding
<1>10. Read(e, ConfigAt(c.id))
  BY <1>7, <1>8 DEF Read, Holds
<1> QED
  BY <1>7, <1>8, <1>9, <1>10 DEF e, ws

\* A configuration with more pairs.
Extended(c, added) == [c EXCEPT !.calib = @ \cup added]

LEMMA ExtendedIs ==
  ASSUME NEW i, NEW s, NEW k, NEW c, c = [id |-> i, instances |-> s, calib |-> k],
         NEW added, NEW x, x = Extended(c, added)
  PROVE  /\ x = [id |-> x.id, instances |-> x.instances, calib |-> x.calib]
         /\ x.id = c.id /\ x.instances = c.instances /\ x.calib = c.calib \cup added
<1>1. PICK both : both = c.calib \cup added
  OBVIOUS
<1>2. x = [c EXCEPT !.calib = both]
  BY <1>1, Zenon DEF Extended
<1>3. x = [id |-> i, instances |-> s, calib |-> both]
  BY <1>2
<1>4. x.id = i /\ x.instances = s /\ x.calib = both /\ c.id = i /\ c.instances = s
  BY <1>3
<1> QED
  BY <1>1, <1>3, <1>4

LEMMA WholeIs ==
  ASSUME NEW path, NEW body
  PROVE  Whole(path, body).path = path /\ Whole(path, body).body = body /\ Whole(path, body).atomic
BY DEF Whole

\* A configuration that is on disk, with more pairs.
LEMMA ExtendedGood ==
  ASSUME NEW d, NEW h, NEW now, GoodShelf(d, h, now), NEW c \in Configs(d), NEW added,
         NEW x, x = Extended(c, added),
         Custom(c.id) => Cardinality(c.instances) >= 2,
         c.instances = TwoParts => added = {TwoParts}
  PROVE  GoodWrite(d, h, now, Whole(ConfigAt(c.id), x)) /\ x.id = c.id /\ x.instances = c.instances
<1>1. PICK f \in DOMAIN d : f[1] = "scanner_configs" /\ c = d[f].body /\ GoodConfig(f, c)
  BY ConfigFile
<1>2. /\ x = [id |-> x.id, instances |-> x.instances, calib |-> x.calib]
      /\ x.id = c.id /\ x.instances = c.instances /\ x.calib = c.calib \cup added
  <2>1. PICK i, s, k : c = [id |-> i, instances |-> s, calib |-> k]
    BY <1>1 DEF GoodConfig
  <2> QED
    BY <2>1, ExtendedIs
<1>3. Custom(c.id) \/ \E g \in ShippedConfigs : ShippedFiles[g].body.id = c.id
  <2>1. CASE f = ConfigAt(c.id)
    BY <1>1 DEF GoodConfig
  <2>2. CASE f # ConfigAt(c.id)
    BY <1>1, <2>2, OtherFile
  <2> QED
    BY <2>1, <2>2
<1>4. ASSUME NEW g \in ShippedConfigs, ShippedFiles[g].body.id = c.id, g # ConfigAt(c.id)
      PROVE  c.instances = TwoParts /\ c.calib \subseteq {TwoParts} /\ added = {TwoParts}
  BY <1>1, <1>4 DEF GoodConfig
<1>5. GoodConfig(ConfigAt(c.id), x)
  <2>1. ConfigAt(c.id) = ConfigAt(ConfigAt(c.id)[2]) /\ ConfigAt(c.id) = ConfigAt(x.id)
    BY <1>2, ConfigPath
  <2>2. IsFiniteSet(x.instances) /\ (Custom(x.id) => Cardinality(x.instances) >= 2)
    BY <1>1, <1>2 DEF GoodConfig
  <2>3. \A g \in ShippedConfigs : ShippedFiles[g].body.id = x.id /\ g # ConfigAt(x.id) =>
          x.instances = TwoParts /\ x.calib \subseteq {TwoParts}
    <3> SUFFICES ASSUME NEW g \in ShippedConfigs, ShippedFiles[g].body.id = x.id, g # ConfigAt(x.id)
                 PROVE  x.instances = TwoParts /\ x.calib \subseteq {TwoParts}
      OBVIOUS
    <3>1. c.instances = TwoParts /\ c.calib \subseteq {TwoParts} /\ added = {TwoParts}
      BY <1>2, <1>4
    <3> QED
      BY <1>2, <3>1
  <2>4. Custom(x.id) \/ \E g \in ShippedConfigs : ShippedFiles[g].body.id = x.id
    BY <1>2, <1>3
  <2>5. x = [id |-> x.id, instances |-> x.instances, calib |-> x.calib]
    BY <1>2
  <2> QED
    BY <2>1, <2>2, <2>3, <2>4, <2>5 DEF GoodConfig
<1>6. ASSUME ConfigAt(c.id) \in DOMAIN d
      PROVE  /\ d[ConfigAt(c.id)].body.id = x.id
             /\ d[ConfigAt(c.id)].body.calib \subseteq x.calib
  <2> DEFINE b == d[ConfigAt(c.id)].body
  <2>1. b.id = c.id /\ GoodConfig(ConfigAt(c.id), b)
    BY <1>3, <1>6, OwnFile
  <2>2. CASE f = ConfigAt(c.id)
    BY <1>1, <1>2, <2>1, <2>2
  <2>3. CASE f # ConfigAt(c.id)
    <3>1. f \in ShippedConfigs /\ ShippedFiles[f].body.id = c.id
      BY <1>1, <2>3, OtherFile
    <3>2. b.calib \subseteq {TwoParts} /\ added = {TwoParts}
      BY <1>4, <2>1, <2>3, <3>1 DEF GoodConfig
    <3> QED
      BY <1>2, <2>1, <3>2
  <2> QED
    BY <2>2, <2>3
<1> DEFINE w == Whole(ConfigAt(c.id), x)
<1>7. w.path = ConfigAt(c.id) /\ w.body = x /\ w.atomic
  BY WholeIs
<1> HIDE DEF w
<1>8. GoodBody(h, now, w.path, w.body)
  BY <1>5, <1>7, ConfigPath DEF GoodBody
<1>9. Replaces(d, w)
  BY <1>6, <1>7 DEF Replaces
<1>10. GoodWrite(d, h, now, w)
  BY <1>7, <1>8, <1>9 DEF GoodWrite
<1> QED
  BY <1>2, <1>10 DEF w

\* A new custom configuration takes the place of one that is not calibrated, or
\* is not calibrated itself.
LEMMA CustomGood ==
  ASSUME NEW d, NEW h, NEW now, GoodShelf(d, h, now),
         NEW c, c = [id |-> c.id, instances |-> c.instances, calib |-> c.calib],
         IsFiniteSet(c.instances), Custom(c.id), c.calib # {} => Cardinality(c.instances) >= 2,
         c.calib # {} /\ ConfigAt(c.id) \in DOMAIN d => d[ConfigAt(c.id)].body.calib = {}
  PROVE  GoodWrite(d, h, now, Whole(ConfigAt(c.id), c))
<1>1. GoodConfig(ConfigAt(c.id), c)
  <2>1. ConfigAt(c.id) = ConfigAt(ConfigAt(c.id)[2])
    BY ConfigPath
  <2>2. \A g \in ShippedConfigs : ShippedFiles[g].body.id = c.id => g = ConfigAt(c.id)
    BY CustomOwn
  <2> QED
    BY <2>1, <2>2 DEF GoodConfig
<1>2. ASSUME ConfigAt(c.id) \in DOMAIN d
      PROVE  d[ConfigAt(c.id)].body.id = c.id
  BY <1>2, OwnFile
<1> DEFINE w == Whole(ConfigAt(c.id), c)
<1>3. w.path = ConfigAt(c.id) /\ w.body = c /\ w.atomic
  BY WholeIs
<1> HIDE DEF w
<1>4. GoodBody(h, now, w.path, w.body)
  BY <1>1, <1>3, ConfigPath DEF GoodBody
<1>5. Replaces(d, w)
  BY <1>2, <1>3 DEF Replaces
<1>6. GoodWrite(d, h, now, w)
  BY <1>3, <1>4, <1>5 DEF GoodWrite
<1> QED
  BY <1>6 DEF w

LEMMA TwoPartsPair ==
  ASSUME NEW a \in TwoParts, NEW b \in TwoParts, a # b
  PROVE  {a, b} = TwoParts
BY DEF TwoParts

LEMMA PairCard ==
  ASSUME NEW a, NEW b, a # b
  PROVE  IsFiniteSet({a, b}) /\ Cardinality({a, b}) = 2
<1>1. IsFiniteSet({a}) /\ Cardinality({a}) = 1
  BY FS_Singleton
<1>2. IsFiniteSet({a} \cup {b}) /\ Cardinality({a} \cup {b}) = 2
  BY <1>1, FS_AddElement
<1>3. {a} \cup {b} = {a, b}
  OBVIOUS
<1> QED
  BY <1>2, <1>3

LEMMA AtLeastTwo ==
  ASSUME NEW S, IsFiniteSet(S), NEW a \in S, NEW b \in S, a # b
  PROVE  Cardinality(S) >= 2
<1>1. {a, b} \in SUBSET S /\ Cardinality({a, b}) = 2
  BY PairCard
<1>2. Cardinality({a, b}) <= Cardinality(S) /\ Cardinality(S) \in Nat
  BY <1>1, FS_Subset, FS_CardinalityType
<1> QED
  BY <1>1, <1>2

LEMMA NothingApplied ==
  ASSUME NEW d
  PROVE  SameConfigs(d, Applied(d, <<>>))
<1>1. PICK ws : ws = <<>>
  OBVIOUS
<1>2. PICK n : n = 0
  OBVIOUS
<1>3. Holding(d, ws, n, Applied(d, ws))
  BY <1>1, <1>2, NoWrite, AppliedFiles
<1>4. 1..n = {}
  BY <1>2
<1>5. DOMAIN Applied(d, ws) = DOMAIN d
  BY <1>3, <1>4 DEF Holding
<1>6. \A f \in DOMAIN d : Applied(d, ws)[f] = d[f]
  BY <1>3, <1>4, <1>5 DEF Holding
<1> QED
  BY <1>1, <1>5, <1>6 DEF SameConfigs

LEMMA PanelSame ==
  ASSUME NEW d, NEW e, SameConfigs(d, e), NEW h, NEW now, NEW p, GoodPanel(d, h, now, p)
  PROVE  GoodPanel(e, h, now, p)
<1>1. Parts(d, p.pick) = Parts(e, p.pick)
  BY SamePartsIf
<1> QED
  BY <1>1, SensorsStay DEF GoodPanel

LEMMA PanelAtRest ==
  ASSUME CatalogInv, storing = <<>>
  PROVE  GoodPanel(shelf, host, tally.moves, panel)
<1>1. SameConfigs(Applied(shelf, storing), shelf)
  BY NothingApplied DEF SameConfigs
<1> QED
  BY <1>1, PanelSame DEF CatalogInv

LEMMA OneGoodWrite ==
  ASSUME NEW d, NEW h, NEW now, NEW w, GoodWrite(d, h, now, w), NEW ws, Series(ws), Len(ws) = 1, ws[1] = w
  PROVE  GoodWrites(d, h, now, ws)
<1>1. \A i \in 1..Len(ws) : i = 1
  OBVIOUS
<1> QED
  BY <1>1 DEF GoodWrites

LEMMA TallyNext ==
  ASSUME GoodTally(tally), NEW n, NEW t
  PROVE  /\ t = [tally EXCEPT !.orders = n] \/ t = [tally EXCEPT !.falls = n] =>
              GoodTally(t) /\ t.moves = tally.moves
         /\ t = [tally EXCEPT !.moves = n] => GoodTally(t) /\ t.moves = n
<1>1. PICK a, b, c : tally = [moves |-> a, orders |-> b, falls |-> c]
  BY DEF GoodTally
<1>2. /\ [tally EXCEPT !.orders = n] = [moves |-> a, orders |-> n, falls |-> c]
      /\ [tally EXCEPT !.falls = n] = [moves |-> a, orders |-> b, falls |-> n]
      /\ [tally EXCEPT !.moves = n] = [moves |-> n, orders |-> b, falls |-> c]
  BY <1>1
<1>3. tally.moves = a
  BY <1>1
<1>4. ASSUME NEW x, NEW y, NEW z, t = [moves |-> x, orders |-> y, falls |-> z]
      PROVE  GoodTally(t) /\ t.moves = x
  BY <1>4 DEF GoodTally
<1>5. CASE t = [tally EXCEPT !.orders = n]
  <2>1. t = [moves |-> a, orders |-> n, falls |-> c]
    BY <1>2, <1>5, Zenon
  <2> QED
    BY <1>3, <1>4, <2>1
<1>6. CASE t = [tally EXCEPT !.falls = n]
  <2>1. t = [moves |-> a, orders |-> b, falls |-> n]
    BY <1>2, <1>6, Zenon
  <2> QED
    BY <1>3, <1>4, <2>1
<1>7. t = [tally EXCEPT !.moves = n] => GoodTally(t) /\ t.moves = n
  <2> SUFFICES ASSUME t = [tally EXCEPT !.moves = n]
               PROVE  GoodTally(t) /\ t.moves = n
    OBVIOUS
  <2>1. t = [moves |-> n, orders |-> b, falls |-> c]
    BY <1>2, Zenon
  <2> QED
    BY <1>4, <2>1
<1> QED
  BY <1>5, <1>6, <1>7, Zenon

\* A call that writes w and leaves a good panel.
LEMMA OrderKeeps ==
  ASSUME CatalogInv, NEW w, GoodWrite(shelf, host, tally.moves, w),
         NEW ws, Series(ws), Len(ws) = 1, ws[1] = w, NEW next, Order(ws, next),
         \A q \in next : GoodPanel(Applied(shelf, ws), host, tally.moves, q)
  PROVE  CatalogInv'
<1>1. PICK n : tally' = [tally EXCEPT !.orders = n]
  BY DEF Order
<1>2. GoodTally(tally') /\ tally'.moves = tally.moves
  BY <1>1, TallyNext DEF CatalogInv
<1>3. storing' = ws /\ panel' \in next /\ host' = host /\ shelf' = shelf
  BY DEF Order
<1>4. GoodWrites(shelf, host, tally.moves, ws)
  BY OneGoodWrite
<1>5. GoodPanel(Applied(shelf', storing'), host', tally'.moves, panel')
  BY <1>2, <1>3, Zenon
<1>6. GoodWrites(shelf', host', tally'.moves, storing') /\ GoodShelf(shelf', host', tally'.moves) /\ GoodHost(host', tally'.moves)
  BY <1>2, <1>3, <1>4, Zenon DEF CatalogInv
<1> QED
  BY <1>2, <1>5, <1>6, Zenon DEF CatalogInv

\* Two of the sensors, and what their pair is.
LEMMA SensorPair ==
  ASSUME NEW d, NEW h, NEW now, NEW p, GoodPanel(d, h, now, p),
         NEW s \in p.sensors, NEW t \in p.sensors, s # t
  PROVE  /\ s.id \in Parts(d, p.pick) /\ t.id \in Parts(d, p.pick) /\ s.id # t.id
         /\ Parts(d, p.pick) = TwoParts => {s.id, t.id} = TwoParts
         /\ p.pick \in Composite \/ IsConfig(d, p.pick)
<1>1. s.id \in Parts(d, p.pick) /\ t.id \in Parts(d, p.pick) /\ s.id # t.id
  BY DEF GoodPanel, GoodSensors
<1>2. Parts(d, p.pick) = TwoParts => {s.id, t.id} = TwoParts
  BY <1>1, TwoPartsPair
<1>3. ASSUME p.pick \notin Composite, ~IsConfig(d, p.pick)
      PROVE  FALSE
  <2>1. Parts(d, p.pick) = {p.pick}
    BY <1>3, Zenon DEF Parts
  <2> QED
    BY <1>1, <2>1
<1> QED
  BY <1>1, <1>2, <1>3

\* What the parts are.
LEMMA PartsAre ==
  ASSUME NEW d, NEW id
  PROVE  /\ id \in Composite => Parts(d, id) = TwoParts
         /\ id \notin Composite /\ IsConfig(d, id) => Parts(d, id) = ConfigOf(d, id).instances
BY Zenon DEF Parts

\* The parts of what is selected are the same after a configuration is written
\* that has the same instances, if it is the selected one.
LEMMA PartsStay ==
  ASSUME NEW d, NEW id, id \in Composite \/ IsConfig(d, id), NEW x,
         id \notin Composite => x.id = ConfigOf(d, id).id /\ x.instances = ConfigOf(d, id).instances
  PROVE  Parts(Applied(d, SaveConfig(x)), id) = Parts(d, id)
<1> DEFINE e == Applied(d, SaveConfig(x))
<1>1. /\ ConfigAt(x.id) \in DOMAIN e /\ e[ConfigAt(x.id)].body = x /\ Read(e, ConfigAt(x.id))
      /\ \A f \in DOMAIN d : f # ConfigAt(x.id) => f \in DOMAIN e /\ e[f] = d[f]
  BY ConfigWritten
<1> HIDE DEF e
<1>2. CASE id \in Composite
  BY <1>2, PartsAre DEF e
<1>3. CASE id \notin Composite /\ ConfigAt(id) = ConfigAt(x.id)
  <2>1. Read(e, ConfigAt(id)) /\ e[ConfigAt(id)].body = x
    BY <1>1, <1>3
  <2>2. IsConfig(e, id)
    BY <2>1, Zenon DEF IsConfig
  <2>3. ConfigOf(e, id) = x
    BY <2>1, <2>2, ConfigOfIs
  <2> QED
    BY <1>3, <2>2, <2>3, PartsAre DEF e
<1>4. CASE id \notin Composite /\ ConfigAt(id) # ConfigAt(x.id)
  <2>1. Read(d, ConfigAt(id))
    BY <1>4, ConfigOfIs
  <2>2. ConfigAt(id) \in DOMAIN e /\ e[ConfigAt(id)] = d[ConfigAt(id)]
    BY <1>1, <1>4, <2>1 DEF Read, Holds
  <2>3. Read(e, ConfigAt(id))
    BY <2>1, <2>2 DEF Read, Holds
  <2>4. IsConfig(e, id)
    BY <2>3, Zenon DEF IsConfig
  <2>5. ConfigOf(e, id) = ConfigOf(d, id)
    BY <1>4, <2>1, <2>2, <2>3, <2>4, ConfigOfIs
  <2> QED
    BY <1>4, <2>4, <2>5, PartsAre DEF e
<1> QED
  BY <1>2, <1>3, <1>4

\* The configuration a calibration is written to.
LEMMA CalibratedIs ==
  ASSUME NEW with, NEW c \in Calibrated(with)
  PROVE  \/ IsConfig(shelf, panel.pick) /\ c = ConfigOf(shelf, panel.pick)
         \/ /\ ~IsConfig(shelf, panel.pick) /\ c \in Configs(shelf)
            /\ Cardinality(c.instances) >= Cardinality(with)
         \/ /\ c = [id |-> <<"cfg", "calibrated", "multisensor">>, instances |-> {s.id : s \in with}, calib |-> {}]
            /\ ~IsConfig(shelf, panel.pick)
            /\ \A b \in Configs(shelf) : ~(Cardinality(b.instances) >= Cardinality(with))
<1> DEFINE big == {b \in Configs(shelf) : Cardinality(b.instances) >= Cardinality(with)}
<1>1. c \in (IF IsConfig(shelf, panel.pick) THEN {ConfigOf(shelf, panel.pick)}
             ELSE IF big # {} THEN big
             ELSE {[id |-> <<"cfg", "calibrated", "multisensor">>, instances |-> {s.id : s \in with}, calib |-> {}]})
  BY Zenon DEF Calibrated
<1>2. CASE IsConfig(shelf, panel.pick)
  <2> HIDE DEF big
  <2> QED
    BY <1>1, <1>2
<1>3. CASE ~IsConfig(shelf, panel.pick) /\ big # {}
  <2>1. c \in big
    <3> HIDE DEF big
    <3> QED
      BY <1>1, <1>3
  <2> QED
    BY <1>3, <2>1
<1>4. CASE ~IsConfig(shelf, panel.pick) /\ big = {}
  <2>1. c = [id |-> <<"cfg", "calibrated", "multisensor">>, instances |-> {s.id : s \in with}, calib |-> {}]
    <3> HIDE DEF big
    <3> QED
      BY <1>1, <1>4
  <2> QED
    BY <1>4, <2>1
<1> QED
  BY <1>2, <1>3, <1>4

LEMMA CompositeNotCustom ==
  ASSUME NEW id \in Composite
  PROVE  ~Custom(id)
BY DEF Composite, Custom

\* What is loaded for the composite scanner is not a custom configuration.
LEMMA CompositeConfig ==
  ASSUME NEW d, NEW h, NEW now, GoodShelf(d, h, now), NEW id \in Composite, IsConfig(d, id)
  PROVE  ~Custom(ConfigOf(d, id).id)
<1>1. CASE ~Read(d, ConfigAt(id))
  BY <1>1, ConfigOfIs, CompositeNotCustom
<1>2. CASE Read(d, ConfigAt(id))
  <2> DEFINE f == ConfigAt(id)
             c == d[f].body
  <2>1. f \in DOMAIN d /\ ConfigOf(d, id) = c /\ f[1] = "scanner_configs"
    BY <1>2, ConfigOfIs, ConfigPath DEF Read, Holds
  <2>2. GoodConfig(f, c)
    BY <2>1 DEF GoodShelf, GoodBody
  <2>3. CASE f = ConfigAt(c.id)
    <3>1. c.id = id
      BY <2>3, ConfigPath
    <3> QED
      BY <2>1, <3>1, CompositeNotCustom
  <2>4. CASE f # ConfigAt(c.id)
    BY <2>1, <2>2, <2>4, OtherFile
  <2> QED
    BY <2>3, <2>4
<1> QED
  BY <1>1, <1>2

LEMMA TwoPartsCard == IsFiniteSet(TwoParts) /\ Cardinality(TwoParts) = 2
<1>1. PICK a, b : a # b /\ TwoParts = {a, b}
  BY DEF TwoParts
<1> QED
  BY <1>1, PairCard

LEMMA CalibrateKeeps ==
  ASSUME CatalogInv, NEW with, NEW ref, NEW done, Calibrate(with, ref, done)
  PROVE  CatalogInv'
<1> DEFINE now == tally.moves
           added == {{ref.id, s.id} : s \in done}
<1>1. with \subseteq panel.sensors /\ ref \in with /\ done # {} /\ done \subseteq with \ {ref}
  BY DEF Calibrate
<1>2. PICK c \in Calibrated(with) :
        Order(SaveConfig([c EXCEPT !.calib = @ \cup added]),
              Refreshed(Applied(shelf, SaveConfig([c EXCEPT !.calib = @ \cup added])), host, panel))
  BY Zenon DEF Calibrate
<1>3. PICK x : x = Extended(c, added)
  OBVIOUS
<1>4. Order(SaveConfig(x), Refreshed(Applied(shelf, SaveConfig(x)), host, panel))
  BY <1>2, <1>3, Zenon DEF Extended
<1>5. storing = <<>> /\ GoodShelf(shelf, host, now) /\ GoodHost(host, now)
  BY <1>4 DEF Order, CatalogInv
<1>6. GoodPanel(shelf, host, now, panel)
  BY <1>5, PanelAtRest
<1>7. PICK s \in done : s # ref /\ s \in with
  BY <1>1
<1>8. /\ s.id \in Parts(shelf, panel.pick) /\ ref.id \in Parts(shelf, panel.pick) /\ s.id # ref.id
      /\ panel.pick \in Composite \/ IsConfig(shelf, panel.pick)
  <2> HIDE DEF now
  <2> QED
    BY <1>1, <1>6, <1>7, SensorPair
<1>9. ASSUME Parts(shelf, panel.pick) = TwoParts
      PROVE  added = {TwoParts}
  <2>1. ASSUME NEW t \in done
        PROVE  {ref.id, t.id} = TwoParts
    <3>1. ref # t /\ t \in panel.sensors /\ ref \in panel.sensors
      BY <1>1
    <3> HIDE DEF now
    <3> QED
      BY <1>6, <1>9, <3>1, SensorPair
  <2> QED
    BY <1>1, <2>1
<1>10. ASSUME ~IsConfig(shelf, panel.pick)
       PROVE  /\ panel.pick \in Composite /\ Parts(shelf, panel.pick) = TwoParts
              /\ Cardinality(with) = 2 /\ {t.id : t \in with} = TwoParts
  <2>1. panel.pick \in Composite /\ Parts(shelf, panel.pick) = TwoParts
    BY <1>8, <1>10, PartsAre
  <2>2. {ref.id, s.id} = TwoParts
    BY <1>8, <2>1, TwoPartsPair
  <2>3. ASSUME NEW t \in with
        PROVE  t = ref \/ t = s
    <3>1. t.id \in {ref.id, s.id}
      BY <1>1, <1>6, <2>1, <2>2 DEF GoodPanel, GoodSensors
    <3> QED
      BY <1>1, <1>6, <1>7, <3>1 DEF GoodPanel, GoodSensors
  <2>4. with = {ref, s}
    BY <1>1, <1>7, <2>3
  <2>5. Cardinality(with) = 2
    BY <1>7, <2>4, PairCard
  <2>6. {t.id : t \in with} = {ref.id, s.id}
    BY <2>4
  <2> QED
    BY <2>1, <2>2, <2>5, <2>6
<1> DEFINE w == Whole(ConfigAt(x.id), x)
<1> HIDE DEF added, w, now
<1>11. ASSUME c \in Configs(shelf), Custom(c.id) => Cardinality(c.instances) >= 2,
              c.instances = TwoParts => added = {TwoParts}
       PROVE  GoodWrite(shelf, host, now, w) /\ x.id = c.id /\ x.instances = c.instances
  <2>1. GoodWrite(shelf, host, now, Whole(ConfigAt(c.id), x)) /\ x.id = c.id /\ x.instances = c.instances
    BY <1>3, <1>5, <1>11, ExtendedGood
  <2> QED
    BY <2>1 DEF w
<1> DEFINE Goal == /\ GoodWrite(shelf, host, now, w)
                   /\ Parts(Applied(shelf, SaveConfig(x)), panel.pick) = Parts(shelf, panel.pick)
<1>12. ASSUME IsConfig(shelf, panel.pick), c = ConfigOf(shelf, panel.pick)
       PROVE  Goal
  <2>1. c \in Configs(shelf)
    BY <1>12, ConfigOfIs
  <2>2. CASE panel.pick \in Composite
    <3>1. ~Custom(c.id) /\ Parts(shelf, panel.pick) = TwoParts
      BY <1>5, <1>12, <2>2, CompositeConfig, PartsAre
    <3>2. GoodWrite(shelf, host, now, w)
      BY <1>9, <1>11, <2>1, <3>1
    <3>3. Parts(Applied(shelf, SaveConfig(x)), panel.pick) = Parts(shelf, panel.pick)
      BY <2>2, PartsStay
    <3> QED
      BY <3>2, <3>3
  <2>3. CASE panel.pick \notin Composite
    <3>1. Parts(shelf, panel.pick) = c.instances
      BY <1>12, <2>3, PartsAre
    <3>2. IsFiniteSet(c.instances)
      BY <1>5, <2>1, ConfigFile DEF GoodConfig
    <3>3. Cardinality(c.instances) >= 2
      BY <1>8, <3>1, <3>2, AtLeastTwo
    <3>4. GoodWrite(shelf, host, now, w) /\ x.id = c.id /\ x.instances = c.instances
      BY <1>9, <1>11, <2>1, <3>1, <3>3
    <3>5. Parts(Applied(shelf, SaveConfig(x)), panel.pick) = Parts(shelf, panel.pick)
      BY <1>8, <1>12, <3>4, PartsStay
    <3> QED
      BY <3>4, <3>5
  <2> QED
    BY <2>2, <2>3
<1>13. ASSUME ~IsConfig(shelf, panel.pick), c \in Configs(shelf), Cardinality(c.instances) >= Cardinality(with)
       PROVE  Goal
  <2>1. Parts(Applied(shelf, SaveConfig(x)), panel.pick) = Parts(shelf, panel.pick)
    BY <1>10, <1>13, PartsStay
  <2>2. GoodWrite(shelf, host, now, w)
    BY <1>9, <1>10, <1>11, <1>13
  <2> QED
    BY <2>1, <2>2
<1>14. ASSUME ~IsConfig(shelf, panel.pick),
              c = [id |-> <<"cfg", "calibrated", "multisensor">>, instances |-> {t.id : t \in with}, calib |-> {}],
              \A b \in Configs(shelf) : ~(Cardinality(b.instances) >= Cardinality(with))
       PROVE  Goal
  <2>1. Parts(Applied(shelf, SaveConfig(x)), panel.pick) = Parts(shelf, panel.pick)
    BY <1>10, <1>14, PartsStay
  <2>2. c.id = <<"cfg", "calibrated", "multisensor">> /\ c.instances = TwoParts /\ c.calib = {}
    BY <1>10, <1>14
  <2>3. /\ x = [id |-> x.id, instances |-> x.instances, calib |-> x.calib]
        /\ x.id = c.id /\ x.instances = TwoParts
    <3>1. PICK i, t, k : c = [id |-> i, instances |-> t, calib |-> k]
      BY <1>14
    <3> QED
      BY <1>3, <2>2, <3>1, ExtendedIs
  <2>4. Custom(x.id)
    BY <2>2, <2>3 DEF Custom
  <2>5. IsFiniteSet(x.instances) /\ Cardinality(x.instances) = 2
    BY <2>3, TwoPartsCard
  <2>6. ASSUME ConfigAt(x.id) \in DOMAIN shelf
        PROVE  shelf[ConfigAt(x.id)].body.calib = {}
    <3>1. /\ GoodConfig(ConfigAt(x.id), shelf[ConfigAt(x.id)].body)
          /\ shelf[ConfigAt(x.id)].body \in Configs(shelf) /\ shelf[ConfigAt(x.id)].body.id = x.id
      BY <1>5, <2>4, <2>6, OwnFile
    <3>2. ~(Cardinality(shelf[ConfigAt(x.id)].body.instances) >= 2)
      BY <1>10, <1>14, <3>1
    <3> QED
      BY <2>4, <3>1, <3>2 DEF GoodConfig
  <2>7. GoodWrite(shelf, host, now, w)
    BY <1>5, <2>3, <2>4, <2>5, <2>6, CustomGood DEF w
  <2> QED
    BY <2>1, <2>7
<1>15. Goal
  <2> HIDE DEF Goal
  <2> QED
    BY <1>12, <1>13, <1>14, CalibratedIs
<1>16. Series(SaveConfig(x)) /\ Len(SaveConfig(x)) = 1 /\ SaveConfig(x)[1] = w
  BY OneWrite DEF SaveConfig, w
<1>17. PICK e : e = Applied(shelf, SaveConfig(x))
  OBVIOUS
<1>18. GoodShelf(e, host, now)
  BY <1>5, <1>15, <1>16, <1>17, OneGoodWrite, AppliedGood
<1>19. GoodPanel(e, host, now, panel)
  BY <1>6, <1>15, <1>17, SensorsStay DEF GoodPanel
<1>20. \A q \in Refreshed(e, host, panel) : GoodPanel(e, host, now, q)
  BY <1>5, <1>18, <1>19, RefreshedGood
<1> QED
  BY <1>4, <1>15, <1>16, <1>17, <1>20, OrderKeeps DEF now

LEMMA HostNow ==
  ASSUME CatalogInv
  PROVE  GoodHost(host, tally.moves) /\ GoodShelf(shelf, host, tally.moves) /\ GoodTally(tally)
         /\ tally.moves \in Nat /\ GoodLists(panel)
BY DEF CatalogInv, GoodHost, GoodPanel

\* A step that writes nothing and leaves the files alone.
LEMMA RestKeeps ==
  ASSUME CatalogInv, storing = <<>>, storing' = <<>>, shelf' = shelf, host' = host, tally' = tally,
         GoodPanel(shelf, host, tally.moves, panel')
  PROVE  CatalogInv'
<1>1. GoodPanel(Applied(shelf, <<>>), host, tally.moves, panel')
  BY NothingApplied, PanelSame
<1>2. storing' = storing
  OBVIOUS
<1>3. GoodPanel(Applied(shelf', storing'), host', tally'.moves, panel')
  BY <1>1, Zenon
<1> QED
  BY <1>2, <1>3, Zenon DEF CatalogInv

LEMMA RefreshDiscoveryKeeps == CatalogInv /\ RefreshDiscovery => CatalogInv'
<1> SUFFICES ASSUME CatalogInv, RefreshDiscovery
             PROVE  CatalogInv'
  OBVIOUS
<1>1. /\ storing = <<>> /\ panel' \in Scanned(shelf, host, panel)
      /\ storing' = storing /\ shelf' = shelf /\ host' = host /\ tally' = tally
  BY DEF RefreshDiscovery
<1>2. GoodPanel(shelf, host, tally.moves, panel')
  BY <1>1, HostNow, PanelAtRest, ScannedGood
<1> QED
  BY <1>1, <1>2, RestKeeps

LEMMA SelectProfileKeeps ==
  ASSUME CatalogInv, NEW id, SelectProfile(id)
  PROVE  CatalogInv'
<1>1. /\ storing = <<>> /\ storing' = storing /\ shelf' = shelf /\ host' = host /\ tally' = tally
      /\ \E pan \in Refreshed(shelf, host, panel) : \E x : panel' \in Picked(shelf, host, pan, x)
  BY Zenon DEF SelectProfile
<1>2. PICK pan \in Refreshed(shelf, host, panel) : \E x : panel' \in Picked(shelf, host, pan, x)
  BY <1>1
<1>3. GoodLists(pan)
  BY HostNow, RefreshedLists
<1>4. GoodPanel(shelf, host, tally.moves, panel')
  BY <1>2, <1>3, HostNow, PickedGood
<1> QED
  BY <1>1, <1>4, RestKeeps

\* A profile goes to the experimental ones, and touches no configuration.
LEMMA ProfileWritten ==
  ASSUME NEW d, NEW h, NEW now, NEW p, Fixed(h, now, p), p.id # NoId
  PROVE  /\ GoodWrite(d, h, now, Plain(ProfileAt("experimental", p.id), p))
         /\ Series(SaveProfile(p)) /\ Len(SaveProfile(p)) = 1
         /\ SaveProfile(p)[1] = Plain(ProfileAt("experimental", p.id), p)
         /\ SameConfigs(d, Applied(d, SaveProfile(p)))
<1> DEFINE w == Plain(ProfileAt("experimental", p.id), p)
           ws == SaveProfile(p)
           e == Applied(d, ws)
<1>1. w.path = ProfileAt("experimental", p.id) /\ w.body = p
  BY DEF Plain
<1>2. w.path[1] = "experimental" /\ "experimental" \in FolderNames
  BY <1>1 DEF ProfileAt, FolderNames, Folders
<1>3. Series(ws) /\ Len(ws) = 1 /\ ws[1] = w
  BY OneWrite DEF SaveProfile
<1> HIDE DEF w, ws, e
<1>4. GoodWrite(d, h, now, w)
  BY <1>1, <1>2 DEF GoodWrite, GoodBody, Replaces
<1>5. PICK n : n = 1
  OBVIOUS
<1>6. Holding(d, ws, n, e)
  BY <1>3, <1>5, AppliedFiles DEF e
<1>7. \A i \in 1..n : i = 1
  BY <1>5
<1>8. DOMAIN e = DOMAIN d \cup {ws[i].path : i \in 1..n}
  BY <1>6 DEF Holding
<1>9. ASSUME NEW f \in DOMAIN d \cup DOMAIN e, f[1] = "scanner_configs"
      PROVE  f \in DOMAIN d /\ f \in DOMAIN e /\ d[f] = e[f]
  <2>1. \A i \in 1..n : ws[i].path # f
    BY <1>2, <1>3, <1>7, <1>9
  <2>2. f \in DOMAIN e
    BY <1>8
  <2> QED
    BY <1>6, <2>1, <2>2 DEF Holding
<1>10. SameConfigs(d, e)
  BY <1>9 DEF SameConfigs
<1> QED
  BY <1>3, <1>4, <1>10 DEF w, ws, e

LEMMA ProfileKeeps ==
  ASSUME CatalogInv, storing = <<>>, NEW p, Fixed(host, tally.moves, p), p.id # NoId,
         Order(SaveProfile(p), Both(Applied(shelf, SaveProfile(p)), host, panel))
  PROVE  CatalogInv'
<1> DEFINE now == tally.moves
           w == Plain(ProfileAt("experimental", p.id), p)
           e == Applied(shelf, SaveProfile(p))
<1>1. /\ GoodWrite(shelf, host, now, w) /\ Series(SaveProfile(p)) /\ Len(SaveProfile(p)) = 1
      /\ SaveProfile(p)[1] = w /\ SameConfigs(shelf, e)
  BY ProfileWritten
<1> HIDE DEF now, w, e
<1>2. GoodHost(host, now) /\ GoodShelf(shelf, host, now)
  BY HostNow DEF now
<1>3. GoodShelf(e, host, now)
  BY <1>1, <1>2, OneGoodWrite, AppliedGood DEF e
<1>4. GoodPanel(e, host, now, panel)
  BY <1>1, PanelAtRest, PanelSame DEF now
<1>5. \A q \in Both(e, host, panel) : GoodPanel(e, host, now, q)
  BY <1>2, <1>3, <1>4, BothGood
<1> QED
  BY <1>1, <1>5, OrderKeeps DEF now, e

LEMMA CreateTemplateKeeps ==
  ASSUME CatalogInv, NEW m, CreateTemplate(m)
  PROVE  CatalogInv'
<1>1. PICK p : p = Template(m)
  OBVIOUS
<1>2. Order(SaveProfile(p), Both(Applied(shelf, SaveProfile(p)), host, panel))
  BY <1>1, Zenon DEF CreateTemplate, RefreshedAfter
<1>3. p.made = 0 /\ p.node = NoNode /\ p.id # NoId
  <2>1. PICK serial : p = [id |-> <<m.model, "template">>, serial |-> serial, family |-> m.family, node |-> NoNode,
                           of |-> "nobody", made |-> 0]
    BY <1>1, Zenon DEF Template
  <2> QED
    BY <2>1 DEF NoId
<1>4. Fixed(host, tally.moves, p)
  BY <1>3, HostNow DEF Fixed
<1>5. storing = <<>>
  BY <1>2 DEF Order
<1> QED
  BY <1>2, <1>3, <1>4, <1>5, ProfileKeeps

LEMMA FirstsAre ==
  ASSUME NEW devs
  PROVE  Firsts(devs) \subseteq devs
<1> DEFINE Of(kinds) == {x \in devs : KindOf(x) \in kinds}
<1>1. Firsts(devs) = IF Of(Video) # {} THEN {x \in Of(Video) : \A y \in Of(Video) : x.node <= y.node}
                     ELSE IF Of({"serial", "usb"}) # {} THEN Of({"serial", "usb"}) ELSE devs
  BY Zenon DEF Firsts
<1>2. Of(Video) \subseteq devs /\ Of({"serial", "usb"}) \subseteq devs
  OBVIOUS
<1> HIDE DEF Of
<1> QED
  BY <1>1, <1>2

\* The profile of an attached device has the node it is at.
LEMMA NewProfileFixed ==
  ASSUME NEW h, NEW now, GoodHost(h, now), NEW dev \in Devices(h), NEW p, p = NewProfile(dev, now)
  PROVE  Fixed(h, now, p)
<1>1. p.node = Endpoint(dev) /\ p.of = dev.unit /\ p.made = now
  <2>1. PICK id, serial, family :
          p = [id |-> id, serial |-> serial, family |-> family, node |-> Endpoint(dev), of |-> dev.unit, made |-> now]
    BY Zenon DEF NewProfile
  <2> QED
    BY <2>1
<1>2. dev.unit \in DOMAIN h.at /\ dev.node = h.node[dev.unit]
  BY DeviceIs
<1>3. Endpoint(dev) # NoNode => Endpoint(dev) = dev.node
  BY DEF Endpoint
<1> QED
  BY <1>1, <1>2, <1>3 DEF Fixed, GoodHost

\* What identifies a unit: for lidars all the same, for others its model and
\* its serial number or its place.
LEMMA DeviceIdIs ==
  ASSUME NEW u \in Units, NEW socket
  PROVE  \/ Facts[u].kind = "lidar" /\ DeviceId(u, socket) = LidarId
         \/ \E bus \in {"camera", "usb"}, tail \in {Facts[u].serial, socket} :
              Facts[u].kind # "lidar" /\ DeviceId(u, socket) = <<bus, Facts[u].model, tail>>
<1> DEFINE tail == IF HasSerial(u) THEN Facts[u].serial ELSE socket
<1>1. DeviceId(u, socket) = CASE Facts[u].kind = "lidar" -> LidarId
                              [] Facts[u].kind \in Video -> CameraId(u, tail)
                              [] OTHER                   -> UsbId(u, tail)
  BY Zenon DEF DeviceId
<1>2. tail \in {Facts[u].serial, socket}
  OBVIOUS
<1> HIDE DEF tail
<1>3. CASE Facts[u].kind = "lidar"
  <2>1. Facts[u].kind \notin Video
    BY <1>3 DEF Video
  <2>2. DeviceId(u, socket) = LidarId
    BY <1>1, <1>3, <2>1, Zenon
  <2> QED
    BY <1>3, <2>2
<1>4. CASE Facts[u].kind \in Video
  <2>1. Facts[u].kind # "lidar"
    BY <1>4 DEF Video
  <2>2. DeviceId(u, socket) = CameraId(u, tail)
    BY <1>1, <1>4, <2>1, Zenon
  <2> QED
    BY <1>2, <2>1, <2>2 DEF CameraId
<1>5. CASE Facts[u].kind # "lidar" /\ Facts[u].kind \notin Video
  <2>1. DeviceId(u, socket) = UsbId(u, tail)
    BY <1>1, <1>5, Zenon
  <2> QED
    BY <1>2, <1>5, <2>1 DEF UsbId
<1> QED
  BY <1>3, <1>4, <1>5

LEMMA NewProfileNamed ==
  ASSUME NEW h, NEW now, GoodHost(h, now), NEW dev \in Devices(h), NEW p, p = NewProfile(dev, now)
  PROVE  p.id # NoId
<1>1. dev.unit \in Units /\ dev.id = DeviceId(dev.unit, h.at[dev.unit])
  BY DeviceIs DEF GoodHost
<1>2. dev.id # NoId
  BY <1>1, DeviceIdIs DEF NoId, LidarId
<1>3. PICK last : last = IF Facts[dev.unit].serial = "" THEN "01" ELSE Facts[dev.unit].serial
  BY Zenon
<1>4. PICK id : id = IF KindOf(dev) = "serial" THEN <<"seeed", "sensecap", "watcher", last>> ELSE dev.id
  OBVIOUS
<1>5. id # NoId
  BY <1>2, <1>4 DEF NoId
<1>6. \E serial, family, node, of :
        p = [id |-> id, serial |-> serial, family |-> family, node |-> node, of |-> of, made |-> now]
  BY <1>3, <1>4, Zenon DEF NewProfile
<1> QED
  BY <1>5, <1>6

LEMMA CreateProfileKeeps ==
  ASSUME CatalogInv, NEW shown, CreateProfile(shown)
  PROVE  CatalogInv'
<1>1. PICK dev \in Targets(shown.id) :
        Order(SaveProfile(NewProfile(dev, tally.moves)),
              Both(Applied(shelf, SaveProfile(NewProfile(dev, tally.moves))), host, panel))
  BY Zenon DEF CreateProfile, RefreshedAfter
<1>2. PICK p : p = NewProfile(dev, tally.moves)
  OBVIOUS
<1>3. Order(SaveProfile(p), Both(Applied(shelf, SaveProfile(p)), host, panel))
  BY <1>1, <1>2, Zenon
<1>4. dev \in Devices(host)
  BY FirstsAre DEF Targets
<1>5. Fixed(host, tally.moves, p)
  BY <1>2, <1>4, HostNow, NewProfileFixed
<1>6. p.id # NoId
  BY <1>2, <1>4, HostNow, NewProfileNamed
<1>7. storing = <<>>
  BY <1>3 DEF Order
<1> QED
  BY <1>3, <1>5, <1>6, <1>7, ProfileKeeps

LEMMA SaveCustomConfigKeeps ==
  ASSUME CatalogInv, NEW slug \in Titles, NEW instances, SaveCustomConfig(slug, instances)
  PROVE  CatalogInv'
<1> DEFINE now == tally.moves
<1>1. PICK c : c = [id |-> <<"cfg">> \o slug, instances |-> instances, calib |-> {}]
  OBVIOUS
<1>2. /\ instances \subseteq panel.scanners.profiles
      /\ Order(SaveConfig(c), UNION {Picked(Applied(shelf, SaveConfig(c)), host, pan, c.id) :
                                       pan \in Refreshed(Applied(shelf, SaveConfig(c)), host, panel)})
  BY <1>1, Zenon DEF SaveCustomConfig
<1>3. PICK e : e = Applied(shelf, SaveConfig(c))
  OBVIOUS
<1>4. GoodHost(host, now) /\ GoodShelf(shelf, host, now) /\ GoodLists(panel)
  BY HostNow
<1>5. c = [id |-> c.id, instances |-> c.instances, calib |-> c.calib] /\ c.instances = instances /\ c.calib = {}
  BY <1>1
<1>6. IsFiniteSet(c.instances)
  BY <1>2, <1>4, <1>5, FS_Subset DEF GoodLists
<1>7. Custom(c.id)
  <2>1. PICK title : title = <<"cfg">> \o slug
    OBVIOUS
  <2>2. PICK word : word = <<"cfg">>
    OBVIOUS
  <2>3. word = [i \in 1..1 |-> word[i]] /\ word[1] = "cfg"
    BY <2>2
  <2>4. Series(word) /\ Len(word) = 1 /\ Series(slug)
    BY <2>3, SeqMaker, SeqIsSeries, TitlesAssumption
  <2>5. PICK one : one = 1
    OBVIOUS
  <2>6. one \in 1..Len(word) /\ word[one] = "cfg"
    BY <2>3, <2>4, <2>5
  <2>7. (word \o slug)[one] = word[one]
    BY <2>4, <2>6, Joined
  <2>8. title[one] = "cfg"
    BY <2>1, <2>2, <2>6, <2>7, Zenon
  <2>9. c.id = title
    BY <1>1, <2>1, Zenon
  <2> QED
    BY <2>9, <2>5, <2>8 DEF Custom
<1> DEFINE w == Whole(ConfigAt(c.id), c)
<1>8. GoodWrite(shelf, host, now, w)
  BY <1>4, <1>5, <1>6, <1>7, CustomGood
<1>9. Series(SaveConfig(c)) /\ Len(SaveConfig(c)) = 1 /\ SaveConfig(c)[1] = w
  BY OneWrite DEF SaveConfig
<1> HIDE DEF w, now
<1>10. GoodShelf(e, host, now)
  BY <1>3, <1>4, <1>8, <1>9, OneGoodWrite, AppliedGood
<1> DEFINE next == UNION {Picked(e, host, pan, c.id) : pan \in Refreshed(e, host, panel)}
<1>11. ASSUME NEW q \in next
       PROVE  GoodPanel(e, host, now, q)
  <2>1. PICK pan \in Refreshed(e, host, panel) : q \in Picked(e, host, pan, c.id)
    OBVIOUS
  <2>2. GoodLists(pan)
    BY <1>4, <1>10, RefreshedLists
  <2> QED
    BY <1>4, <1>10, <2>1, <2>2, PickedGood
<1>12. Order(SaveConfig(c), next)
  BY <1>2, <1>3, Zenon
<1> HIDE DEF next
<1> QED
  BY <1>3, <1>8, <1>9, <1>11, <1>12, OrderKeeps DEF now

LEMMA ImageCard ==
  ASSUME NEW f, IsFiniteSet(DOMAIN f), NEW T, T = {f[x] : x \in DOMAIN f}
  PROVE  IsFiniteSet(T) /\ Cardinality(T) <= Cardinality(DOMAIN f)
<1> DEFINE g == [x \in DOMAIN f |-> f[x]]
<1>1. g \in Surjection(DOMAIN f, T)
  BY DEF Surjection
<1> QED
  BY <1>1, FS_Surjection

\* There is a node for one more camera than is attached.
LEMMA FreeNodeIs ==
  ASSUME NEW h, DOMAIN h.node \subseteq Units, NEW u \in Units \ DOMAIN h.node
  PROVE  FreeNode(h) \in 1..Cardinality(Units)
<1> DEFINE max == Cardinality(Units)
           used == {h.node[v] : v \in DOMAIN h.node}
           I == (1..max) \ used
           Free(n) == /\ \A v \in DOMAIN h.node : h.node[v] # n
                      /\ \A m \in 1..(n - 1) : \E v \in DOMAIN h.node : h.node[v] = m
<1>1. max \in Nat /\ IsFiniteSet(DOMAIN h.node) /\ IsFiniteSet(Units \ {u})
  BY UnitsAssumption, FS_CardinalityType, FS_Subset
<1>2. Cardinality(DOMAIN h.node) <= max - 1
  <2>1. Cardinality(Units \ {u}) = max - 1
    BY UnitsAssumption, FS_RemoveElement
  <2>2. DOMAIN h.node \in SUBSET (Units \ {u})
    OBVIOUS
  <2> QED
    BY <1>1, <2>1, <2>2, FS_Subset
<1>3. IsFiniteSet(used) /\ Cardinality(used) <= Cardinality(DOMAIN h.node)
  BY <1>1, ImageCard
<1>4. I # {}
  <2> SUFFICES ASSUME I = {}
               PROVE  FALSE
    OBVIOUS
  <2>1. 1..max \in SUBSET used
    OBVIOUS
  <2>2. Cardinality(1..max) = max
    BY <1>1, FS_Interval
  <2>3. Cardinality(1..max) <= Cardinality(used)
    BY <1>3, <2>1, FS_Subset
  <2>4. Cardinality(used) \in Nat /\ Cardinality(DOMAIN h.node) \in Nat
    BY <1>1, <1>3, FS_CardinalityType
  <2> HIDE DEF max, used
  <2> QED
    BY <1>1, <1>2, <1>3, <2>2, <2>3, <2>4
<1>5. PICK n \in I : \A m \in I : n <= m
  <2> HIDE DEF max, used
  <2> QED
    BY <1>1, <1>4, FirstPosition
<1>6. n \in 1..max /\ n \in 1..(max + 1) /\ Free(n)
  <2>1. n \in 1..max /\ n \notin used /\ n \in 1..(max + 1)
    BY <1>1
  <2>2. ASSUME NEW m \in 1..(n - 1)
        PROVE  m \in used
    <3>1. m \in 1..max /\ ~(n <= m)
      BY <1>1, <2>1
    <3> QED
      BY <1>5, <3>1
  <2> QED
    BY <2>1, <2>2
<1>7. ASSUME NEW k \in 1..(max + 1), Free(k)
      PROVE  k = n
  <2>1. ~(k < n) /\ ~(n < k)
    <3>1. k < n => k \in 1..(n - 1)
      BY <1>1, <1>6
    <3>2. n < k => n \in 1..(k - 1)
      BY <1>1, <1>6
    <3> QED
      BY <1>6, <1>7, <3>1, <3>2
  <2> QED
    BY <1>1, <1>6, <2>1
<1>8. FreeNode(h) = CHOOSE k \in 1..(max + 1) : Free(k)
  BY DEF FreeNode
<1> HIDE DEF Free, max
<1>9. FreeNode(h) = n
  BY <1>6, <1>7, <1>8
<1> QED
  BY <1>6, <1>9 DEF max

\* A device that moves makes what is known of the nodes a thing of the past.
LEMMA MovedFixed ==
  ASSUME NEW h, NEW g, NEW now \in Nat, NEW x, x.made \in 0..now, NEW then, then = now + 1
  PROVE  x.made \in 0..then /\ x.made # then
OBVIOUS

LEMMA MovedShelf ==
  ASSUME NEW d, NEW h, NEW g, NEW now \in Nat, GoodShelf(d, h, now), NEW then, then = now + 1
  PROVE  GoodShelf(d, g, then)
<1>1. ASSUME NEW f \in DOMAIN d
      PROVE  GoodBody(g, then, f, d[f].body)
  <2>1. GoodBody(h, now, f, d[f].body)
    BY DEF GoodShelf
  <2>2. CASE f[1] = "scanner_configs"
    BY <2>1, <2>2 DEF GoodBody
  <2>3. CASE f[1] # "scanner_configs"
    <3>1. f[1] \in FolderNames /\ Fixed(h, now, d[f].body) /\ d[f].body.id # NoId
      BY <2>1, <2>3 DEF GoodBody
    <3>2. d[f].body.made \in 0..then /\ d[f].body.made # then
      BY <3>1, MovedFixed DEF Fixed
    <3>3. Fixed(g, then, d[f].body)
      BY <3>2 DEF Fixed
    <3> QED
      BY <2>3, <3>1, <3>3 DEF GoodBody
  <2> QED
    BY <2>2, <2>3
<1> QED
  BY <1>1 DEF GoodShelf

LEMMA MovedPanel ==
  ASSUME NEW d, NEW h, NEW g, NEW now \in Nat, NEW p, GoodPanel(d, h, now, p), NEW then, then = now + 1
  PROVE  GoodPanel(d, g, then, p)
<1>1. ASSUME NEW s \in p.sensors
      PROVE  Settled(g, then, s)
  <2>1. Settled(h, now, s)
    BY DEF GoodPanel, GoodSensors
  <2>2. s.made \in 0..then /\ s.made # then
    BY <2>1, MovedFixed DEF Settled
  <2> QED
    BY <2>1, <2>2 DEF Settled
<1> QED
  BY <1>1 DEF GoodPanel, GoodSensors

LEMMA NoWrites ==
  ASSUME NEW d, NEW h, NEW now
  PROVE  GoodWrites(d, h, now, <<>>)
<1>1. PICK ws : ws = <<>>
  OBVIOUS
<1>2. Series(ws) /\ Len(ws) = 0
  BY <1>1, NoWrite
<1>3. GoodWrites(d, h, now, ws)
  BY <1>2 DEF GoodWrites
<1> QED
  BY <1>1, <1>3, Zenon

LEMMA MoveKeeps ==
  ASSUME CatalogInv, Moved, storing = <<>>, shelf' = shelf, storing' = storing, panel' = panel,
         GoodHost(host', tally.moves + 1)
  PROVE  CatalogInv'
<1>1. PICK n : n = tally.moves + 1 /\ tally' = [tally EXCEPT !.moves = n]
  BY DEF Moved
<1>2. GoodTally(tally') /\ tally'.moves = n /\ tally.moves \in Nat
  BY <1>1, TallyNext, HostNow
<1>3. GoodShelf(shelf, host', n)
  BY <1>1, <1>2, MovedShelf DEF CatalogInv
<1>4. GoodPanel(Applied(shelf, storing), host', n, panel)
  BY <1>1, <1>2, MovedPanel DEF CatalogInv
<1>5. GoodWrites(shelf, host', n, storing)
  BY NoWrites
<1>6. GoodShelf(shelf', host', tally'.moves) /\ GoodPanel(Applied(shelf', storing'), host', tally'.moves, panel')
      /\ GoodWrites(shelf', host', tally'.moves, storing')
  BY <1>2, <1>3, <1>4, <1>5, Zenon
<1>7. GoodHost(host', tally'.moves)
  BY <1>1, <1>2
<1> QED
  BY <1>2, <1>6, <1>7, Zenon DEF CatalogInv

LEMMA AttachKeeps ==
  ASSUME CatalogInv, NEW u \in Units, NEW socket \in Sockets, Attach(u, socket)
  PROVE  CatalogInv'
<1> DEFINE now == tally.moves
           dom == DOMAIN host.at \cup {u}
<1>1. /\ now \in Nat /\ DOMAIN host.at = DOMAIN host.node /\ DOMAIN host.at \subseteq Units
      /\ \A v \in DOMAIN host.at : host.at[v] \in Sockets /\ host.node[v] \in 0..Cardinality(Units)
  BY HostNow DEF GoodHost
<1>2. /\ u \notin DOMAIN host.at /\ Moved /\ storing = <<>>
      /\ shelf' = shelf /\ storing' = storing /\ panel' = panel
  BY DEF Attach
<1>3. PICK a : a = [v \in dom |-> IF v = u THEN socket ELSE host.at[v]]
  OBVIOUS
<1>4. PICK b : b = [v \in dom |-> IF v # u THEN host.node[v]
                                  ELSE IF Facts[u].kind \in Video THEN FreeNode(host) ELSE NoNode]
  OBVIOUS
<1>5. host' = [at |-> a, node |-> b]
  BY <1>3, <1>4, Zenon DEF Attach
<1>6. DOMAIN a = dom /\ DOMAIN b = dom /\ dom \subseteq Units
  BY <1>1, <1>3, <1>4
<1>7. FreeNode(host) \in 0..Cardinality(Units) /\ NoNode \in 0..Cardinality(Units)
  <2>1. FreeNode(host) \in 1..Cardinality(Units)
    BY <1>1, <1>2, FreeNodeIs
  <2> QED
    BY <2>1, UnitsAssumption, FS_CardinalityType DEF NoNode
<1>8. ASSUME NEW v \in dom
      PROVE  a[v] \in Sockets /\ b[v] \in 0..Cardinality(Units)
  <2>1. CASE v = u
    BY <1>3, <1>4, <1>7, <2>1
  <2>2. CASE v # u
    BY <1>1, <1>3, <1>4, <2>2
  <2> QED
    BY <2>1, <2>2
<1>9. now + 1 \in Nat /\ now + 1 # 0
  BY <1>1
<1> HIDE DEF dom, now
<1>10. GoodHost(host', now + 1)
  BY <1>5, <1>6, <1>8, <1>9 DEF GoodHost
<1> QED
  BY <1>2, <1>10, MoveKeeps DEF now

LEMMA DetachKeeps ==
  ASSUME CatalogInv, NEW u \in Units, Detach(u)
  PROVE  CatalogInv'
<1> DEFINE now == tally.moves
           dom == DOMAIN host.at \ {u}
<1>1. /\ now \in Nat /\ DOMAIN host.at = DOMAIN host.node /\ DOMAIN host.at \subseteq Units
      /\ \A v \in DOMAIN host.at : host.at[v] \in Sockets /\ host.node[v] \in 0..Cardinality(Units)
  BY HostNow DEF GoodHost
<1>2. /\ Moved /\ storing = <<>> /\ shelf' = shelf /\ storing' = storing /\ panel' = panel
  BY DEF Detach
<1>3. PICK a : a = [v \in dom |-> host.at[v]]
  OBVIOUS
<1>4. PICK b : b = [v \in dom |-> host.node[v]]
  OBVIOUS
<1>5. host' = [at |-> a, node |-> b]
  BY <1>3, <1>4, Zenon DEF Detach
<1>6. /\ DOMAIN a = dom /\ DOMAIN b = dom /\ dom \subseteq Units
      /\ \A v \in dom : a[v] \in Sockets /\ b[v] \in 0..Cardinality(Units)
  BY <1>1, <1>3, <1>4
<1>7. now + 1 \in Nat /\ now + 1 # 0
  BY <1>1
<1> HIDE DEF dom, now
<1>8. GoodHost(host', now + 1)
  BY <1>5, <1>6, <1>7 DEF GoodHost
<1> QED
  BY <1>2, <1>8, MoveKeeps DEF now

\* The calls' writing done, or cut off.
LEMMA LaidDown ==
  ASSUME GoodHost(host, tally.moves), GoodTally(tally'), tally'.moves = tally.moves, host' = host,
         GoodShelf(shelf', host, tally.moves), storing' = <<>>,
         GoodPanel(shelf', host, tally.moves, panel')
  PROVE  CatalogInv'
<1> DEFINE now == tally.moves
<1>1. SameConfigs(shelf', Applied(shelf', <<>>))
  BY NothingApplied
<1>2. GoodPanel(Applied(shelf', <<>>), host, now, panel')
  BY <1>1, PanelSame
<1>3. GoodWrites(shelf', host, now, <<>>)
  BY NoWrites
<1>4. GoodPanel(Applied(shelf', storing'), host', tally'.moves, panel')
      /\ GoodWrites(shelf', host', tally'.moves, storing')
      /\ GoodShelf(shelf', host', tally'.moves) /\ GoodHost(host', tally'.moves)
  BY <1>2, <1>3, Zenon
<1> QED
  BY <1>4, Zenon DEF CatalogInv

LEMMA FinishStoringKeeps ==
  ASSUME CatalogInv, FinishStoring
  PROVE  CatalogInv'
<1>1. shelf' = Applied(shelf, storing) /\ storing' = <<>> /\ host' = host /\ panel' = panel /\ tally' = tally
  BY DEF FinishStoring
<1>2. GoodShelf(shelf', host, tally.moves)
  BY <1>1, AppliedGood DEF CatalogInv
<1>3. GoodPanel(shelf', host, tally.moves, panel')
  BY <1>1, Zenon DEF CatalogInv
<1>4. GoodTally(tally') /\ tally'.moves = tally.moves
  BY <1>1, Zenon DEF CatalogInv
<1> QED
  BY <1>1, <1>2, <1>3, <1>4, HostNow, LaidDown

LEMMA FallKeeps ==
  ASSUME CatalogInv, Fall
  PROVE  CatalogInv'
<1>1. /\ shelf' \in Cuts(shelf, storing) /\ storing' = <<>> /\ host' = host
      /\ panel' \in Both(shelf', host, Opening)
  BY DEF Fall
<1>2. PICK n : tally' = [tally EXCEPT !.falls = n]
  BY DEF Fall
<1>3. GoodTally(tally') /\ tally'.moves = tally.moves
  BY <1>2, TallyNext, HostNow
<1>4. GoodShelf(shelf', host, tally.moves)
  BY <1>1, CutGood DEF CatalogInv
<1>5. GoodPanel(shelf', host, tally.moves, panel')
  BY <1>1, <1>4, HostNow, OpeningGood, BothGood
<1> QED
  BY <1>1, <1>3, <1>4, <1>5, HostNow, LaidDown

LEMMA CatalogInvInit ==
  ASSUME CatalogInit(ShippedFiles)
  PROVE  CatalogInv
<1>1. PICK none : none = [u \in {} |-> ""] /\ DOMAIN none = {}
  OBVIOUS
<1>2. PICK nodes : nodes = [u \in {} |-> NoNode] /\ DOMAIN nodes = {}
  OBVIOUS
<1>3. host = [at |-> none, node |-> nodes]
  BY <1>1, <1>2, Zenon DEF CatalogInit
<1>4. tally = [moves |-> 0, orders |-> 0, falls |-> 0]
  BY DEF CatalogInit
<1>5. GoodTally(tally) /\ tally.moves = 0
  BY <1>4 DEF GoodTally
<1>6. GoodHost(host, 0)
  BY <1>1, <1>2, <1>3 DEF GoodHost
<1>7. shelf = ShippedFiles /\ storing = <<>> /\ panel \in Both(shelf, host, Opening)
  BY Zenon DEF CatalogInit
<1>8. GoodShelf(ShippedFiles, host, 0)
  <2>1. ASSUME NEW f \in DOMAIN ShippedFiles
        PROVE  GoodBody(host, 0, f, ShippedFiles[f].body) /\ (f[1] = "scanner_configs" => ShippedFiles[f].whole)
    <3>1. CASE f \in ShippedConfigs
      <4> DEFINE c == ShippedFiles[f].body
      <4>1. ShippedConfig(f) /\ f[1] = "scanner_configs"
        BY <3>1, ShippedFilesAssumption DEF ShippedConfigs
      <4>2. /\ f = ConfigAt(f[2]) /\ ShippedFiles[f].whole
            /\ c = [id |-> c.id, instances |-> c.instances, calib |-> c.calib]
            /\ IsFiniteSet(c.instances)
            /\ Custom(c.id) /\ c.calib # {} => Cardinality(c.instances) >= 2
        BY <4>1, Zenon DEF ShippedConfig
      <4>3. ASSUME NEW g \in ShippedConfigs, ShippedFiles[g].body.id = c.id, g # ConfigAt(c.id)
            PROVE  c.instances = TwoParts /\ c.calib \subseteq {TwoParts}
        <5>1. ShippedConfig(g)
          BY ShippedFilesAssumption DEF ShippedConfigs
        <5>2. g # ConfigAt(ShippedFiles[g].body.id)
          BY <4>3
        <5>3. /\ \A k \in ShippedConfigs : ShippedFiles[k].body.id = ShippedFiles[g].body.id => k = g
              /\ ShippedFiles[g].body.instances = TwoParts /\ ShippedFiles[g].body.calib \subseteq {TwoParts}
          BY <5>1, <5>2, Zenon DEF ShippedConfig
        <5>4. f = g
          BY <3>1, <4>3, <5>3
        <5> QED
          BY <5>3, <5>4
      <4> HIDE DEF c
      <4>4. GoodConfig(f, c)
        BY <3>1, <4>2, <4>3 DEF GoodConfig, c
      <4> QED
        BY <4>1, <4>2, <4>4 DEF GoodBody, c
    <3>2. CASE f \notin ShippedConfigs
      <4>1. f[1] # "scanner_configs" /\ ShippedProfile(f)
        BY <3>2, ShippedFilesAssumption DEF ShippedConfigs
      <4>2. f[1] \in FolderNames /\ ShippedFiles[f].body.made = 0 /\ ShippedFiles[f].body.id # NoId
        BY <4>1 DEF ShippedProfile, FolderNames
      <4>3. Fixed(host, 0, ShippedFiles[f].body)
        BY <4>2 DEF Fixed
      <4> QED
        BY <4>1, <4>2, <4>3 DEF GoodBody
    <3> QED
      BY <3>1, <3>2
  <2> QED
    BY <2>1, ShippedFilesAssumption DEF GoodShelf
<1>9. GoodPanel(shelf, host, 0, panel)
  BY <1>6, <1>7, <1>8, OpeningGood, BothGood
<1>10. GoodPanel(Applied(shelf, <<>>), host, 0, panel)
  BY <1>9, NothingApplied, PanelSame
<1>11. GoodWrites(shelf, host, 0, <<>>)
  BY NoWrites
<1>12. GoodPanel(Applied(shelf, storing), host, tally.moves, panel) /\ GoodWrites(shelf, host, tally.moves, storing)
       /\ GoodHost(host, tally.moves) /\ GoodShelf(shelf, host, tally.moves)
  BY <1>5, <1>6, <1>7, <1>8, <1>10, <1>11, Zenon
<1> QED
  BY <1>5, <1>12, Zenon DEF CatalogInv

LEMMA CatalogInvSame ==
  ASSUME CatalogInv, UNCHANGED catalogVars
  PROVE  CatalogInv'
<1>1. host' = host /\ shelf' = shelf /\ storing' = storing /\ panel' = panel /\ tally' = tally
  BY DEF catalogVars
<1> QED
  BY <1>1, Zenon DEF CatalogInv

\* A step of the devices.
DeviceStep ==
  \/ \E u \in Units, socket \in Sockets : Attach(u, socket)
  \/ \E u \in Units : Detach(u)
  \/ RefreshDiscovery
  \/ \E shown \in panel.devices : CreateProfile(shown)
  \/ \E m \in Catalog : CreateTemplate(m)
  \/ \E id \in panel.scanners.profiles : SelectProfile(id)
  \/ \E slug \in Titles, instances \in SUBSET panel.scanners.profiles : SaveCustomConfig(slug, instances)
  \/ \E with \in SUBSET panel.sensors : \E ref \in with, done \in SUBSET with : Calibrate(with, ref, done)
  \/ FinishStoring
  \/ Fall

LEMMA DeviceSteps ==
  ASSUME [DirectoryNext]_directoryVars
  PROVE  UNCHANGED catalogVars \/ DeviceStep
<1>1. CASE UNCHANGED directoryVars
  BY <1>1 DEF directoryVars
<1>2. CASE DirectoryNext
  <2>1. InProjects => UNCHANGED catalogVars
    BY DEF InProjects
  <2> QED
    BY <1>2, <2>1, Zenon DEF DirectoryNext, DeviceStep
<1> QED
  BY <1>1, <1>2

LEMMA CatalogInvStep ==
  ASSUME CatalogInv, [DirectoryNext]_directoryVars
  PROVE  CatalogInv'
<1>1. CASE UNCHANGED catalogVars
  BY <1>1, CatalogInvSame
<1>2. CASE \E u \in Units, socket \in Sockets : Attach(u, socket)
  BY <1>2, AttachKeeps
<1>3. CASE \E u \in Units : Detach(u)
  BY <1>3, DetachKeeps
<1>4. CASE RefreshDiscovery
  BY <1>4, RefreshDiscoveryKeeps
<1>5. CASE \E shown \in panel.devices : CreateProfile(shown)
  BY <1>5, CreateProfileKeeps
<1>6. CASE \E m \in Catalog : CreateTemplate(m)
  BY <1>6, CreateTemplateKeeps
<1>7. CASE \E id \in panel.scanners.profiles : SelectProfile(id)
  BY <1>7, SelectProfileKeeps
<1>8. CASE \E slug \in Titles, instances \in SUBSET panel.scanners.profiles : SaveCustomConfig(slug, instances)
  BY <1>8, SaveCustomConfigKeeps
<1>9. CASE \E with \in SUBSET panel.sensors : \E ref \in with, done \in SUBSET with : Calibrate(with, ref, done)
  BY <1>9, CalibrateKeeps
<1>10. CASE FinishStoring
  BY <1>10, FinishStoringKeeps
<1>11. CASE Fall
  BY <1>11, FallKeeps
<1> QED
  BY <1>1, <1>2, <1>3, <1>4, <1>5, <1>6, <1>7, <1>8, <1>9, <1>10, <1>11, DeviceSteps, Zenon DEF DeviceStep

\* What holds of the devices, their profiles and configurations always does.
THEOREM DirectoryCatalog == DirectorySpec => []CatalogInv
<1>1. DirectoryInit => CatalogInv
  BY CatalogInvInit DEF DirectoryInit
<1>2. CatalogInv /\ [DirectoryNext]_directoryVars => CatalogInv'
  BY CatalogInvStep
<1> QED
  BY <1>1, <1>2, PTL DEF DirectorySpec

\* The camera a sensor captures from is the one its profile was written for,
\* for any devices, unless one has been moved since (RightCamera).
THEOREM CameraIsRight == DirectorySpec => []RightCamera
<1>1. CatalogInv => RightCamera
  BY DEF CatalogInv, GoodPanel, GoodSensors, Settled, RightCamera
<1> QED
  BY <1>1, DirectoryCatalog, PTL


\* Whatever a profile is created for, it is the device that was asked for, if
\* no other of its model is attached; or both are lidars, and have one profile.
LEMMA TargetIs ==
  ASSUME CatalogInv, NEW dev \in panel.devices, dev.unit \in DOMAIN host.at, Alone(dev.unit),
         NEW t \in Targets(dev.id)
  PROVE  /\ t \in Devices(host)
         /\ t.unit = dev.unit \/ (Facts[t.unit].kind = "lidar" /\ Facts[dev.unit].kind = "lidar")
<1> DEFINE u == dev.unit
           v == t.unit
<1>1. t \in Devices(host) /\ (t.id = dev.id \/ Facts[v].model \in Words(dev.id))
  BY FirstsAre DEF Targets
<1>2. u \in Units /\ v \in Units /\ v \in DOMAIN host.at /\ t.id = DeviceId(v, host.at[v]) /\ host.at[v] \in Sockets
  BY <1>1, HostNow, DeviceIs DEF GoodHost
<1>3. PICK at, id : at = host.at[v] /\ id = t.id
  OBVIOUS
<1>4. \/ Facts[v].kind = "lidar" /\ id = LidarId
      \/ \E bus \in {"camera", "usb"}, tail \in {Facts[v].serial, at} :
            Facts[v].kind # "lidar" /\ id = <<bus, Facts[v].model, tail>>
  <2>1. id = DeviceId(v, at)
    BY <1>2, <1>3
  <2> QED
    BY <1>2, <2>1, DeviceIdIs
<1>5. PICK socket \in Sockets : dev.id = DeviceId(u, socket)
  BY HostNow DEF GoodLists, Identified
<1>6. v # u => Facts[v].model # Facts[u].model
  BY <1>2 DEF Alone
<1>7. Facts[v].model \notin {"camera", "usb", "robosense", "airy", "01", Facts[u].serial, socket}
  BY <1>2, ModelsAssumption
<1> HIDE DEF u, v
<1>8. CASE Facts[u].kind = "lidar" /\ dev.id = LidarId
  <2>1. Words(dev.id) \subseteq {"robosense", "airy", "01"}
    BY <1>8 DEF Words, LidarId
  <2>2. t.id = LidarId
    BY <1>1, <1>7, <1>8, <2>1
  <2>3. Facts[v].kind = "lidar"
    BY <1>3, <1>4, <2>2 DEF LidarId
  <2> QED
    BY <1>1, <1>8, <2>3 DEF u, v
<1>9. ASSUME NEW bus \in {"camera", "usb"}, NEW tail \in {Facts[u].serial, socket},
             dev.id = <<bus, Facts[u].model, tail>>
      PROVE  v = u
  <2>1. Words(dev.id) \subseteq {bus, Facts[u].model, tail}
    BY <1>9 DEF Words
  <2>2. CASE Facts[v].model \in Words(dev.id)
    BY <1>6, <1>7, <2>1, <2>2
  <2>3. CASE t.id = dev.id
    <3>1. PICK b, e : t.id = <<b, Facts[v].model, e>>
      BY <1>9, <1>3, <1>4, <2>3 DEF LidarId
    <3>2. Facts[v].model = Facts[u].model
      BY <1>9, <2>3, <3>1
    <3> QED
      BY <1>6, <3>2
  <2> QED
    BY <1>1, <2>2, <2>3
<1> QED
  BY <1>1, <1>2, <1>5, <1>8, <1>9, DeviceIdIs DEF u, v

\* A profile that has just been created fits it.
LEMMA NewProfileFits ==
  ASSUME NEW h, NEW now, GoodHost(h, now), NEW u \in DOMAIN h.at, ~Nameless(u), NEW t \in Devices(h),
         t.unit = u \/ (Facts[t.unit].kind = "lidar" /\ Facts[u].kind = "lidar"),
         NEW p, p = NewProfile(t, now)
  PROVE  Fits(p, Device(h, u))
<1> DEFINE own == Device(h, u)
<1>1. own.unit = u /\ own.id = DeviceId(u, h.at[u])
  BY DEF Device
<1>2. PICK last : last = IF Facts[t.unit].serial = "" THEN "01" ELSE Facts[t.unit].serial
  BY Zenon
<1>3. PICK id : id = IF KindOf(t) = "serial" THEN <<"seeed", "sensecap", "watcher", last>> ELSE t.id
  OBVIOUS
<1>4. p.id = id
  <2>1. \E serial, family, node, of :
          p = [id |-> id, serial |-> serial, family |-> family, node |-> node, of |-> of, made |-> now]
    BY <1>2, <1>3, Zenon DEF NewProfile
  <2> QED
    BY <2>1
<1>5. t = Device(h, t.unit) /\ t.id = DeviceId(t.unit, h.at[t.unit]) /\ t.unit \in Units /\ u \in Units
  BY DeviceIs DEF GoodHost
<1> HIDE DEF own
<1>6. CASE t.unit = u /\ KindOf(t) = "serial"
  <2>1. HasSerial(u)
    BY <1>6 DEF Nameless, KindOf
  <2>2. last = Facts[u].serial
    BY <1>2, <1>6, <2>1, Zenon DEF HasSerial
  <2>3. p.id = <<"seeed", "sensecap", "watcher", last>>
    BY <1>3, <1>4, <1>6
  <2>4. last \in Words(p.id)
    BY <2>3 DEF Words
  <2> QED
    BY <1>1, <2>1, <2>2, <2>4 DEF Fits, own
<1>7. CASE t.unit = u /\ KindOf(t) # "serial"
  BY <1>1, <1>3, <1>4, <1>5, <1>7 DEF Fits, own
<1>8. CASE t.unit # u
  <2>1. t.id = LidarId /\ own.id = LidarId /\ KindOf(t) # "serial"
    BY <1>1, <1>5, <1>8, DeviceIdIs DEF KindOf
  <2> QED
    BY <1>3, <1>4, <2>1 DEF Fits, own
<1> QED
  BY <1>6, <1>7, <1>8

\* And so the device is shown as profiled.
LEMMA CreatedMatches ==
  ASSUME NEW d, NEW h, NEW now, GoodShelf(d, h, now), NEW p, Fixed(h, now, p), p.id # NoId,
         NEW own, Fits(p, own), NEW id \in Matches(Applied(d, SaveProfile(p)), own)
  PROVE  id # NoId
<1> DEFINE w == Plain(ProfileAt("experimental", p.id), p)
           ws == SaveProfile(p)
           e == Applied(d, ws)
           f == ProfileAt("experimental", p.id)
           In(folder) == {q.id : q \in {r \in ProfilesIn(e, folder) : Fits(r, own)}}
<1>1. GoodWrite(d, h, now, w) /\ Series(ws) /\ Len(ws) = 1 /\ ws[1] = w
  BY ProfileWritten
<1>2. w.path = f /\ w.body = p /\ f[1] = "experimental"
  BY DEF Plain, ProfileAt
<1> HIDE DEF w, ws, e, f
<1>3. GoodShelf(e, h, now)
  BY <1>1, OneGoodWrite, AppliedGood DEF e
<1>4. PICK n : n = 1
  OBVIOUS
<1>5. Holding(d, ws, n, e)
  BY <1>1, <1>4, AppliedFiles DEF e
<1>6. f \in DOMAIN e /\ \E k \in 1..n : e[f] = File(ws[k].body, TRUE)
  <2>1. 1 \in 1..n /\ ws[1].path = f
    BY <1>1, <1>2, <1>4
  <2> QED
    BY <1>5, <2>1 DEF Holding
<1>7. e[f] = File(p, TRUE)
  <2>1. PICK k \in 1..n : e[f] = File(ws[k].body, TRUE)
    BY <1>6
  <2>2. k = 1
    BY <1>4
  <2>3. ws[k].body = p
    BY <1>1, <1>2, <2>2, Zenon
  <2> QED
    BY <2>1, <2>3, Zenon
<1>8. e[f].body = p /\ e[f].whole
  BY <1>7 DEF File
<1>9. p \in ProfilesIn(e, "experimental")
  BY <1>2, <1>6, <1>8 DEF ProfilesIn
<1>10. p.id \in In("experimental")
  BY <1>9
<1>11. \A x \in In("experimental") : x # NoId
  <2>1. ASSUME NEW q \in ProfilesIn(e, "experimental")
        PROVE  q.id # NoId
    <3>1. PICK g \in DOMAIN e : g[1] = "experimental" /\ q = e[g].body
      BY DEF ProfilesIn
    <3>2. GoodBody(h, now, g, e[g].body) /\ g[1] # "scanner_configs"
      BY <1>3, <3>1 DEF GoodShelf
    <3> QED
      BY <3>1, <3>2 DEF GoodBody
  <2> QED
    BY <2>1
<1>12. Matches(e, own) = IF In("experimental") # {} THEN In("experimental")
                         ELSE IF In("validated") # {} THEN In("validated") ELSE {NoId}
  BY Zenon DEF Matches
<1> HIDE DEF In
<1>13. id \in In("experimental")
  BY <1>10, <1>12 DEF e, ws
<1> QED
  BY <1>11, <1>13

\* A scan changes the devices of the panel only.
LEMMA ScannedIs ==
  ASSUME NEW d, NEW h, NEW r, NEW q \in Scanned(d, h, r)
  PROVE  \E found \in Discovered(d, h) : q = [r EXCEPT !.devices = found]
BY DEF Scanned

LEMMA ScannedDevices ==
  ASSUME NEW r, GoodLists(r), NEW found, NEW q, q = [r EXCEPT !.devices = found]
  PROVE  q.devices = found
<1>1. q = [devices |-> found, scanners |-> r.scanners, pick |-> r.pick, sensors |-> r.sensors]
  BY PanelParts, Zenon DEF GoodLists
<1> QED
  BY <1>1

\* The shelf stays good when a profile is saved in it.
LEMMA ProfileShelf ==
  ASSUME NEW d, NEW h, NEW now, GoodShelf(d, h, now), NEW p, Fixed(h, now, p), p.id # NoId
  PROVE  GoodShelf(Applied(d, SaveProfile(p)), h, now)
<1>1. /\ GoodWrite(d, h, now, Plain(ProfileAt("experimental", p.id), p))
      /\ Series(SaveProfile(p)) /\ Len(SaveProfile(p)) = 1
      /\ SaveProfile(p)[1] = Plain(ProfileAt("experimental", p.id), p)
  BY ProfileWritten
<1> QED
  BY <1>1, OneGoodWrite, AppliedGood

\* A device is shown as profiled as soon as its profile is created, if no other
\* of its model is attached, whatever devices there are (ProfiledAtOnce).
THEOREM CreatedIsProfiled == DirectorySpec => ProfiledAtOnce
<1>1. ASSUME CatalogInv, NEW dev \in panel.devices, dev.unit \in DOMAIN host.at, Alone(dev.unit), ~Nameless(dev.unit),
             NEW x \in panel'.devices, x.unit = dev.unit, x.status = "UNPROFILED", CreateProfile(dev)
      PROVE  FALSE
  <2> DEFINE now == tally.moves
             u == dev.unit
             own == Device(host, u)
  <2>1. PICK t \in Targets(dev.id) :
          Order(SaveProfile(NewProfile(t, tally.moves)),
                Both(Applied(shelf, SaveProfile(NewProfile(t, tally.moves))), host, panel))
    BY <1>1, Zenon DEF CreateProfile, RefreshedAfter
  <2>2. PICK p : p = NewProfile(t, tally.moves)
    OBVIOUS
  <2>3. panel' \in Both(Applied(shelf, SaveProfile(p)), host, panel)
    BY <2>1, <2>2, Zenon DEF Order
  <2>4. PICK r \in Refreshed(Applied(shelf, SaveProfile(p)), host, panel) :
          panel' \in Scanned(Applied(shelf, SaveProfile(p)), host, r)
    BY <2>3 DEF Both
  <2>5. GoodHost(host, now) /\ GoodShelf(shelf, host, now)
    BY <1>1, HostNow
  <2>6. t \in Devices(host) /\ (t.unit = u \/ (Facts[t.unit].kind = "lidar" /\ Facts[u].kind = "lidar"))
    BY <1>1, TargetIs
  <2>7. Fixed(host, now, p) /\ p.id # NoId
    BY <2>2, <2>5, <2>6, NewProfileFixed, NewProfileNamed
  <2>8. Fits(p, own)
    BY <1>1, <2>2, <2>5, <2>6, NewProfileFits
  <2> HIDE DEF now, own
  <2>9. PICK e : e = Applied(shelf, SaveProfile(p))
    OBVIOUS
  <2>10. PICK found \in Discovered(e, host) : x \in found
    <3>1. PICK q : q = panel'
      OBVIOUS
    <3>2. PICK some \in Discovered(e, host) : q = [r EXCEPT !.devices = some]
      BY <2>4, <2>9, <3>1, ScannedIs
    <3>3. GoodLists(r)
      <4>1. GoodShelf(e, host, now)
        BY <2>5, <2>7, <2>9, ProfileShelf
      <4>2. GoodLists(panel)
        BY <1>1, HostNow
      <4> QED
        BY <2>4, <2>5, <2>9, <4>1, <4>2, RefreshedLists
    <3>4. q.devices = some
      BY <3>2, <3>3, ScannedDevices
    <3> QED
      BY <1>1, <3>1, <3>4
  <2>11. PICK m : /\ found = {ShownDevice(y, m[y]) : y \in Devices(host)}
                  /\ \A y \in Devices(host) : m[y] \in Matches(e, y)
    BY DiscoveredIs
  <2>12. PICK y \in Devices(host) : x = ShownDevice(y, m[y])
    BY <2>10, <2>11
  <2>13. x.unit = y.unit /\ (x.status = "PROFILED") = (m[y] # NoId)
    <3>1. PICK id : id = m[y]
      OBVIOUS
    <3>2. x = ShownDevice(y, id)
      BY <2>12, <3>1
    <3>3. x.unit = y.unit /\ x.profile = id /\ (x.status = "PROFILED") = (x.profile # NoId)
      BY <3>2, ShownIs
    <3> QED
      BY <3>1, <3>3
  <2>14. y = own
    BY <1>1, <2>12, <2>13, DeviceIs DEF own
  <2>15. m[y] \in Matches(Applied(shelf, SaveProfile(p)), own)
    BY <2>9, <2>11, <2>14
  <2>16. m[y] # NoId
    BY <2>5, <2>7, <2>8, <2>15, CreatedMatches
  <2> QED
    BY <1>1, <2>13, <2>16
<1>2. CatalogInv /\ [DirectoryNext]_directoryVars =>
        [\A dev \in panel.devices :
           /\ dev.unit \in DOMAIN host.at /\ Alone(dev.unit) /\ ~Nameless(dev.unit)
           /\ \E x \in panel'.devices : x.unit = dev.unit /\ x.status = "UNPROFILED"
           => ~CreateProfile(dev)]_catalogVars
  BY <1>1
<1> QED
  BY <1>2, DirectoryCatalog, PTL DEF DirectorySpec, ProfiledAtOnce

-----------------------------------------------------------------------------
(* What a step leaves of the configurations.                                *)

\* e has what d has of the configurations.
Keeps(d, e) == \A c \in Configs(d) : \E n \in Configs(e) :
  n.id = c.id /\ (c.calib \subseteq n.calib \/ n.calib = {})

LEMMA HoldingConfigs ==
  ASSUME NEW d, NEW h, NEW now, GoodShelf(d, h, now), NEW ws, GoodWrites(d, h, now, ws),
         NEW n \in 0..Len(ws), NEW e, Holding(d, ws, n, e)
  PROVE  Keeps(d, e)
<1> SUFFICES ASSUME NEW c \in Configs(d)
             PROVE  \E x \in Configs(e) : x.id = c.id /\ (c.calib \subseteq x.calib \/ x.calib = {})
  BY DEF Keeps
<1>1. PICK f \in DOMAIN d : f[1] = "scanner_configs" /\ c = d[f].body /\ d[f].whole
  BY DEF Configs
<1>2. f \in DOMAIN e
  BY DEF Holding
<1>3. n \in Nat /\ Len(ws) \in Nat
  BY DEF GoodWrites
<1>4. CASE f \in DOMAIN d /\ e[f] = d[f]
  BY <1>1, <1>2, <1>4 DEF Configs
<1>5. CASE \E k \in 1..n : ws[k].path = f /\ e[f].body = ws[k].body /\ e[f].whole
  <2>1. PICK k \in 1..n : ws[k].path = f /\ e[f].body = ws[k].body /\ e[f].whole
    BY <1>5
  <2>2. k \in 1..Len(ws)
    BY <1>3, <2>1
  <2>3. Replaces(d, ws[k])
    BY <2>2 DEF GoodWrites, GoodWrite
  <2>4. /\ d[f].body.id = ws[k].body.id
        /\ d[f].body.calib \subseteq ws[k].body.calib \/ ws[k].body.calib = {}
    BY <1>1, <2>1, <2>3 DEF Replaces
  <2>5. e[f].body \in Configs(e)
    BY <1>1, <1>2, <2>1 DEF Configs
  <2> QED
    BY <1>1, <2>1, <2>4, <2>5
<1> QED
  BY <1>2, <1>3, <1>4, <1>5, HoldsEither

LEMMA AppliedConfigs ==
  ASSUME NEW d, NEW h, NEW now, GoodShelf(d, h, now), NEW ws, GoodWrites(d, h, now, ws)
  PROVE  Keeps(d, Applied(d, ws))
<1>1. Series(ws) /\ Len(ws) \in 0..Len(ws)
  BY DEF GoodWrites
<1> QED
  BY <1>1, AppliedFiles, HoldingConfigs

LEMMA CutConfigs ==
  ASSUME NEW d, NEW h, NEW now, GoodShelf(d, h, now), NEW ws, GoodWrites(d, h, now, ws), NEW e \in Cuts(d, ws)
  PROVE  Keeps(d, e)
<1>1. Series(ws) /\ Len(ws) \in Nat
  BY DEF GoodWrites
<1>2. CASE CutBefore(d, ws, e)
  <2>1. PICK n \in 1..Len(ws) + 1 : Holding(d, ws, n - 1, e)
    BY <1>2 DEF CutBefore
  <2>2. n - 1 \in 0..Len(ws)
    BY <1>1
  <2> QED
    BY <2>1, <2>2, HoldingConfigs
<1>3. CASE CutWithin(d, ws, e)
  <2>1. PICK n \in 1..Len(ws) : \E b : ~ws[n].atomic /\ Holding(d, ws, n - 1, b) /\ TornAt(b, ws[n], e)
    BY <1>3 DEF CutWithin
  <2>2. PICK b : ~ws[n].atomic /\ Holding(d, ws, n - 1, b) /\ TornAt(b, ws[n], e)
    BY <2>1
  <2> DEFINE w == ws[n]
  <2>3. GoodWrite(d, h, now, w) /\ n - 1 \in 0..Len(ws)
    BY <1>1 DEF GoodWrites
  <2>4. Keeps(d, b)
    BY <2>2, <2>3, HoldingConfigs
  <2>5. w.path[1] # "scanner_configs"
    BY <2>2, <2>3 DEF GoodWrite
  <2> HIDE DEF w
  <2>6. PICK file : e = [g \in DOMAIN b \cup {w.path} |-> IF g = w.path THEN file ELSE b[g]]
    BY <2>2 DEF TornAt, w
  <2>7. Configs(b) \subseteq Configs(e)
    <3> SUFFICES ASSUME NEW c \in Configs(b)
                 PROVE  c \in Configs(e)
      OBVIOUS
    <3>1. PICK f \in DOMAIN b : f[1] = "scanner_configs" /\ c = b[f].body /\ b[f].whole
      BY DEF Configs
    <3>2. f \in DOMAIN e /\ e[f] = b[f]
      BY <2>5, <2>6, <3>1
    <3> QED
      BY <3>1, <3>2 DEF Configs
  <2> QED
    BY <2>4, <2>7 DEF Keeps
<1> QED
  BY <1>1, <1>2, <1>3, CutIs

LEMMA KeepsItself ==
  ASSUME NEW d
  PROVE  Keeps(d, d)
BY DEF Keeps

\* A step of the devices writes what a call has begun to, or none of it.
LEMMA ShelfSteps ==
  ASSUME [DirectoryNext]_directoryVars
  PROVE  \/ shelf' = shelf
         \/ shelf' = Applied(shelf, storing)
         \/ shelf' \in Cuts(shelf, storing)
<1>1. CASE UNCHANGED catalogVars
  BY <1>1 DEF catalogVars
<1>2. CASE DeviceStep
  <2>1. ASSUME NEW ws, NEW next, Order(ws, next)
        PROVE  shelf' = shelf
    BY <2>1 DEF Order
  <2>2. CASE \E u \in Units, socket \in Sockets : Attach(u, socket)
    BY <2>2 DEF Attach
  <2>3. CASE \E u \in Units : Detach(u)
    BY <2>3 DEF Detach
  <2>4. CASE RefreshDiscovery
    BY <2>4 DEF RefreshDiscovery
  <2>5. CASE \E shown \in panel.devices : CreateProfile(shown)
    BY <2>1, <2>5, Zenon DEF CreateProfile
  <2>6. CASE \E m \in Catalog : CreateTemplate(m)
    BY <2>1, <2>6, Zenon DEF CreateTemplate
  <2>7. CASE \E id \in panel.scanners.profiles : SelectProfile(id)
    BY <2>7, Zenon DEF SelectProfile
  <2>8. CASE \E slug \in Titles, instances \in SUBSET panel.scanners.profiles : SaveCustomConfig(slug, instances)
    BY <2>1, <2>8, Zenon DEF SaveCustomConfig
  <2>9. CASE \E with \in SUBSET panel.sensors : \E ref \in with, done \in SUBSET with : Calibrate(with, ref, done)
    BY <2>1, <2>9, Zenon DEF Calibrate
  <2>10. CASE FinishStoring
    BY <2>10 DEF FinishStoring
  <2>11. CASE Fall
    BY <2>11 DEF Fall
  <2> QED
    BY <1>2, <2>2, <2>3, <2>4, <2>5, <2>6, <2>7, <2>8, <2>9, <2>10, <2>11, Zenon DEF DeviceStep
<1> QED
  BY <1>1, <1>2, DeviceSteps

\* A configuration is never lost, for any devices, calls and crashes, and its
\* calibration only when one is saved under its name: a profile that is
\* written in place may be torn, a configuration is renamed into place, and
\* what goes to its file has its identifier (ConfigsKept).
THEOREM ConfigurationsStay == DirectorySpec => ConfigsKept
<1>1. CatalogInv /\ [DirectoryNext]_directoryVars => Keeps(shelf, shelf')
  BY ShelfSteps, AppliedConfigs, CutConfigs, KeepsItself DEF CatalogInv
<1>2. CatalogInv /\ [DirectoryNext]_directoryVars =>
        [\A c \in Configs(shelf) : \E n \in Configs(shelf') :
           n.id = c.id /\ (c.calib \subseteq n.calib \/ n.calib = {})]_catalogVars
  BY <1>1 DEF Keeps
<1> QED
  BY <1>2, DirectoryCatalog, PTL DEF DirectorySpec, ConfigsKept

-----------------------------------------------------------------------------
(* What the bridge's members and the files are.                             *)

LEMMA CloudTyped ==
  ASSUME NEW of \in SUBSET Recordings, NEW clean \in BOOLEAN, NEW tint \in BOOLEAN
  PROVE  Cloud(of, clean, tint) \in AnyCloud
BY DEF Cloud, AnyCloud

LEMMA NothingTyped == Nothing \in AnyCloud
<1>1. {} \in SUBSET Recordings /\ FALSE \in BOOLEAN
  OBVIOUS
<1> QED
  BY <1>1, CloudTyped DEF Nothing

LEMMA TogetherTyped ==
  ASSUME NEW clouds \in SUBSET AnyCloud
  PROVE  Together(clouds) \in AnyCloud
<1>1. PICK of : of = UNION {c.of : c \in clouds}
  OBVIOUS
<1>2. of \in SUBSET Recordings
  BY <1>1 DEF AnyCloud
<1>3. PICK clean, tint : clean = (\E c \in clouds : c.clean) /\ tint = (\E c \in clouds : c.tint)
  BY Zenon
<1>4. clean \in BOOLEAN /\ tint \in BOOLEAN
  BY <1>3, Zenon
<1>5. Together(clouds) = Nothing \/ Together(clouds) = Cloud(of, clean, tint)
  BY <1>1, <1>3, Zenon DEF Together
<1> QED
  BY <1>2, <1>4, <1>5, CloudTyped, NothingTyped

LEMMA CleanedTyped ==
  ASSUME NEW c \in AnyCloud, NEW live
  PROVE  Cleaned(c, live) \in AnyCloud
<1>1. [c EXCEPT !.clean = TRUE] \in AnyCloud
  BY DEF AnyCloud
<1> QED
  BY <1>1 DEF Cleaned

\* What a file holds is of the kind that its name says.
Fitting(f, x) ==
  /\ f[1] \in Clouds => x \in AnyCloud
  /\ f[1] = "session" => f[3] \in Sessions
  /\ f[1] = "reg.json" => x = [ref |-> x.ref, home |-> x.home] /\ x.ref[1] \in Clouds

\* The record that a registration, or a copy of it, goes by.
RecordOf(x) == RegFile(x.home[1], x.home[2], x.home[3])

TypedDisk(d) == \A f \in DOMAIN d :
  /\ d[f].whole \in BOOLEAN /\ Fitting(f, d[f].body)
  /\ f[1] = "reg.json" => RecordOf(d[f].body) \in DOMAIN d

TypedWrite(d, w) ==
  /\ Fitting(w.path, w.body)
  /\ w.path[1] = "reg.json" => RecordOf(w.body) \in DOMAIN d \cup {w.path}
TypedWrites(d, ws) == Series(ws) /\ \A i \in 1..Len(ws) : TypedWrite(d, ws[i])

LEMMA TypedHolding ==
  ASSUME NEW d, TypedDisk(d), NEW ws, TypedWrites(d, ws), NEW n \in 0..Len(ws), NEW e, Holding(d, ws, n, e)
  PROVE  TypedDisk(e) /\ DOMAIN d \subseteq DOMAIN e
<1>1. Len(ws) \in Nat /\ \A i \in 1..n : i \in 1..Len(ws)
  BY SeqShape DEF TypedWrites
<1>2. DOMAIN d \subseteq DOMAIN e
  BY DEF Holding
<1>3. ASSUME NEW f \in DOMAIN e
      PROVE  /\ e[f].whole \in BOOLEAN /\ Fitting(f, e[f].body)
             /\ f[1] = "reg.json" => RecordOf(e[f].body) \in DOMAIN e
  <2>1. CASE \A i \in 1..n : ws[i].path # f
    <3>1. f \in DOMAIN d /\ e[f] = d[f]
      BY <2>1 DEF Holding
    <3> QED
      BY <1>2, <3>1 DEF TypedDisk
  <2>2. CASE \E i \in 1..n : ws[i].path = f
    <3>1. PICK i \in 1..n : ws[i].path = f
      BY <2>2
    <3>2. PICK k \in 1..n : ws[k].path = ws[i].path /\ e[ws[i].path] = File(ws[k].body, TRUE)
      BY DEF Holding
    <3>3. ws[k].path = f /\ e[f] = File(ws[k].body, TRUE)
      BY <3>1, <3>2
    <3>4. TypedWrite(d, ws[k])
      BY <1>1, <3>3 DEF TypedWrites
    <3>5. e[f].body = ws[k].body /\ e[f].whole = TRUE
      BY <3>3 DEF File
    <3> QED
      BY <1>2, <3>3, <3>4, <3>5 DEF TypedWrite
  <2> QED
    BY <2>1, <2>2
<1> QED
  BY <1>2, <1>3 DEF TypedDisk

LEMMA TypedCut ==
  ASSUME NEW d, TypedDisk(d), NEW ws, TypedWrites(d, ws), NEW e \in Cuts(d, ws)
  PROVE  TypedDisk(e)
<1>1. Series(ws) /\ Len(ws) \in Nat
  BY SeqShape DEF TypedWrites
<1>2. CASE CutBefore(d, ws, e)
  <2>1. PICK n \in 1..Len(ws) + 1 : Holding(d, ws, n - 1, e)
    BY <1>2 DEF CutBefore
  <2>2. n - 1 \in 0..Len(ws)
    BY <1>1
  <2> QED
    BY <2>1, <2>2, TypedHolding
<1>3. CASE CutWithin(d, ws, e)
  <2>1. PICK n \in 1..Len(ws) : \E b : Holding(d, ws, n - 1, b) /\ TornAt(b, ws[n], e)
    BY <1>3 DEF CutWithin
  <2>2. PICK b : Holding(d, ws, n - 1, b) /\ TornAt(b, ws[n], e)
    BY <2>1
  <2>3. n - 1 \in 0..Len(ws)
    BY <1>1
  <2>4. TypedDisk(b) /\ DOMAIN d \subseteq DOMAIN b
    BY <2>2, <2>3, TypedHolding
  <2>5. PICK w : w = ws[n]
    OBVIOUS
  <2>6. TypedWrite(d, w)
    BY <2>5 DEF TypedWrites
  <2>7. PICK file \in Torn(w) : e = [g \in DOMAIN b \cup {w.path} |-> IF g = w.path THEN file ELSE b[g]]
    BY <2>2, <2>5 DEF TornAt
  <2>8. DOMAIN e = DOMAIN b \cup {w.path} /\ e[w.path] = file /\ \A g \in DOMAIN b : g # w.path => e[g] = b[g]
    BY <2>7
  <2>9. file.whole = FALSE /\ (file.body = w.body \/ (w.path[1] \in Clouds /\ file.body = Nothing))
    BY DEF Torn, File
  <2>10. Fitting(w.path, file.body) /\ (w.path[1] = "reg.json" => RecordOf(file.body) \in DOMAIN d \cup {w.path})
    <3>1. CASE file.body = w.body
      BY <2>6, <3>1 DEF TypedWrite
    <3>2. CASE w.path[1] \in Clouds /\ file.body = Nothing
      <4>1. w.path[1] \notin {"session", "reg.json"}
        BY <3>2 DEF Clouds
      <4> QED
        BY <3>2, <4>1, NothingTyped DEF Fitting
    <3> QED
      BY <2>9, <3>1, <3>2
  <2>11. ASSUME NEW f \in DOMAIN e
         PROVE  /\ e[f].whole \in BOOLEAN /\ Fitting(f, e[f].body)
                /\ f[1] = "reg.json" => RecordOf(e[f].body) \in DOMAIN e
    <3>1. CASE f = w.path
      BY <2>4, <2>8, <2>9, <2>10, <3>1
    <3>2. CASE f # w.path
      <4>1. f \in DOMAIN b /\ e[f] = b[f]
        BY <2>8, <3>2
      <4> QED
        BY <2>4, <2>8, <4>1 DEF TypedDisk
    <3> QED
      BY <3>1, <3>2
  <2> QED
    BY <2>11 DEF TypedDisk
<1> QED
  BY <1>1, <1>2, <1>3, CutIs

LEMMA TypedApplied ==
  ASSUME NEW d, TypedDisk(d), NEW ws, TypedWrites(d, ws)
  PROVE  /\ TypedDisk(Applied(d, ws)) /\ DOMAIN d \subseteq DOMAIN Applied(d, ws)
         /\ DOMAIN Applied(d, ws) = DOMAIN d \cup {ws[i].path : i \in 1..Len(ws)}
<1>1. PICK e, n : e = Applied(d, ws) /\ n = Len(ws)
  OBVIOUS
<1>2. n \in 0..Len(ws)
  BY <1>1, SeqShape DEF TypedWrites
<1>3. Holding(d, ws, n, e)
  BY <1>1, AppliedFiles DEF TypedWrites
<1>4. TypedDisk(e) /\ DOMAIN d \subseteq DOMAIN e
  BY <1>2, <1>3, TypedHolding
<1> QED
  BY <1>1, <1>3, <1>4 DEF Holding

LEMMA TypedJoined ==
  ASSUME NEW d, NEW s, NEW t, TypedWrites(d, s), TypedWrites(d, t)
  PROVE  TypedWrites(d, s \o t)
<1>1. Series(s) /\ Series(t)
  BY DEF TypedWrites
<1>2. PICK u : u = s \o t
  OBVIOUS
<1>3. IsJoin(u, s, t)
  BY <1>1, <1>2, JoinIsJoin
<1>4. ASSUME NEW i \in 1..Len(u)
      PROVE  TypedWrite(d, u[i])
  BY <1>3 DEF IsJoin, TypedWrites
<1>5. TypedWrites(d, u)
  BY <1>3, <1>4 DEF TypedWrites, IsJoin
<1> QED
  BY <1>2, <1>5

LEMMA TypedNone ==
  ASSUME NEW d
  PROVE  TypedWrites(d, <<>>)
<1>1. PICK s : s = <<>>
  OBVIOUS
<1>2. Series(s) /\ Len(s) = 0
  BY <1>1, NoWrite
<1>3. TypedWrites(d, s)
  BY <1>2 DEF TypedWrites
<1> QED
  BY <1>1, <1>3

LEMMA TypedOne ==
  ASSUME NEW d, NEW path, NEW body, Fitting(path, body),
         path[1] = "reg.json" => RecordOf(body) \in DOMAIN d \cup {path}
  PROVE  TypedWrites(d, Atomically(path, body)) /\ TypedWrites(d, InPlace(path, body))
<1>1. PICK s, t : s = Atomically(path, body) /\ t = InPlace(path, body)
  OBVIOUS
<1>2. /\ Series(s) /\ Len(s) = 1 /\ s[1] = Whole(path, body)
      /\ Series(t) /\ Len(t) = 1 /\ t[1] = Plain(path, body)
  BY <1>1, OneWrite
<1>3. TypedWrite(d, s[1]) /\ TypedWrite(d, t[1])
  <2>1. \A w : w.path = path /\ w.body = body => TypedWrite(d, w)
    BY DEF TypedWrite
  <2> QED
    BY <1>2, <2>1 DEF Whole, Plain
<1>4. \A i \in 1..1 : i = 1
  OBVIOUS
<1>5. TypedWrites(d, s) /\ TypedWrites(d, t)
  BY <1>2, <1>3, <1>4 DEF TypedWrites
<1> QED
  BY <1>1, <1>5

\* A file of no kind that matters, and a cloud.
Free(path) == path[1] \notin Clouds \cup {"session", "reg.json"}

LEMMA TypedFree ==
  ASSUME NEW d, NEW path, Free(path), NEW body
  PROVE  TypedWrites(d, Atomically(path, body)) /\ TypedWrites(d, InPlace(path, body))
<1>1. Fitting(path, body) /\ path[1] # "reg.json"
  BY DEF Free, Fitting
<1> QED
  BY <1>1, TypedOne

LEMMA TypedCloud ==
  ASSUME NEW d, NEW path, path[1] \in Clouds, NEW c \in AnyCloud
  PROVE  TypedWrites(d, InPlace(path, c))
<1>1. Fitting(path, c) /\ path[1] # "reg.json"
  BY DEF Fitting, Clouds
<1> QED
  BY <1>1, TypedOne

LEMMA TypedDir ==
  ASSUME NEW d, NEW p, NEW s \in Sessions
  PROVE  TypedWrites(d, MakeDir(p, s))
<1>1. PICK path, yes : path = SessionDir(p, s) /\ yes = TRUE
  OBVIOUS
<1>2. path[1] = "session" /\ path[3] = s
  BY <1>1 DEF SessionDir
<1>3. Fitting(path, yes) /\ path[1] # "reg.json"
  BY <1>2 DEF Fitting, Clouds
<1>4. TypedWrites(d, Atomically(path, yes))
  BY <1>3, TypedOne
<1> QED
  BY <1>1, <1>4, Zenon DEF MakeDir

LEMMA TypedFlattened ==
  ASSUME NEW d, NEW ss, Series(ss), \A i \in 1..Len(ss) : TypedWrites(d, ss[i])
  PROVE  TypedWrites(d, FlattenSeq(ss))
<1>1. PICK s : s = FlattenSeq(ss)
  OBVIOUS
<1>2. \A i \in 1..Len(ss) : Series(ss[i])
  BY DEF TypedWrites
<1>3. HasAll(s, ss)
  BY <1>1, <1>2, Flattened
<1>4. TypedWrites(d, s)
  BY <1>3 DEF HasAll, TypedWrites
<1> QED
  BY <1>1, <1>4

LEMMA PathKinds ==
  ASSUME NEW p, NEW s, NEW c
  PROVE  /\ Free(ProjectFile(p)) /\ Free(SessionFile(p, s)) /\ Free(SessionNode(p, s)) /\ Free(LegacyNode(p, s))
         /\ Free(Trajectory(p, s, c)) /\ Free(CaptureFile(p, s, c))
         /\ ProjectMap(p)[1] \in Clouds /\ Export(p)[1] \in Clouds /\ SessionMap(p, s)[1] \in Clouds
         /\ RawBackup(p, s)[1] \in Clouds /\ CaptureMap(p, s, c)[1] \in Clouds /\ CaptureRaw(p, s, c)[1] \in Clouds
         /\ Combined(p, s, c)[1] \in Clouds /\ Aligned(p, s, c)[1] \in Clouds
BY DEF Free, Clouds, ProjectFile, SessionFile, SessionNode, LegacyNode, Trajectory, CaptureFile, ProjectMap, Export,
       SessionMap, RawBackup, CaptureMap, CaptureRaw, Combined, Aligned

\* What is read of a cloud's file is a cloud.
LEMMA PcdTyped ==
  ASSUME NEW d, TypedDisk(d), NEW f, f[1] \in Clouds
  PROVE  Pcd(d, f) \in AnyCloud
BY NothingTyped DEF TypedDisk, Fitting, Pcd, Holds

-----------------------------------------------------------------------------
(* The bridge's members, through what the calls do to them.                 *)

Members == {"project", "session", "state", "sensors", "kept", "fused", "shown", "display", "backup",
            "reg", "view", "tinted"}
Context == [raw : AnyCloud, map : AnyCloud]
States  == {"NO_PROJECT", "READY", "CAPTURING", "STOPPED", "SAVED"}
Shown   == Ids \cup {"FUSED", None}

Bridge(u) ==
  /\ Members \subseteq DOMAIN u
  /\ u.project \in Projects \cup {None} /\ u.session \in Sessions \cup {None}
  /\ u.state \in States /\ u.display \in Shown
  /\ DOMAIN u.sensors \subseteq Ids /\ \A id \in DOMAIN u.sensors : u.sensors[id] \in Context
  /\ u.kept \in [Sensors -> AnyCloud]
  /\ u.fused \in AnyCloud /\ u.shown \in AnyCloud /\ u.backup \in AnyCloud
  /\ u.reg.ref \in AnyCloud /\ u.reg.mov \in AnyCloud /\ u.reg.orig \in AnyCloud
  /\ u.view \in 0..2 /\ u.tinted \in BOOLEAN

\* v is a typed bridge with u's registration.
Becomes(u, v) == Bridge(v) /\ v.reg = u.reg

LEMMA MapsTyped ==
  ASSUME NEW u, Bridge(u)
  PROVE  Together(Maps(u)) \in AnyCloud
<1>1. Maps(u) \subseteq AnyCloud
  BY DEF Maps, Bridge, Context
<1> QED
  BY <1>1, TogetherTyped

LEMMA ShownTyped ==
  ASSUME NEW u, Bridge(u), NEW x \in AnyCloud
  PROVE  Becomes(u, [u EXCEPT !.shown = x])
BY DEF Bridge, Becomes, Members

LEMMA FusedTyped ==
  ASSUME NEW u, Bridge(u)
  PROVE  Becomes(u, Fused(u)) /\ Fused(u).sensors = u.sensors
<1> DEFINE c == Together(Maps(u))
           x == IF u.display = "FUSED" THEN c ELSE u.shown
<1>1. Fused(u) = u \/ Fused(u) = [[u EXCEPT !.fused = c] EXCEPT !.shown = x]
  BY DEF Fused
<1>2. c \in AnyCloud /\ x \in AnyCloud
  BY MapsTyped DEF Bridge
<1> HIDE DEF c, x
<1>3. ASSUME NEW v, v = [[u EXCEPT !.fused = c] EXCEPT !.shown = x]
      PROVE  Becomes(u, v) /\ v.sensors = u.sensors
  BY <1>2, <1>3 DEF Bridge, Becomes, Members
<1>4. PICK v : v = Fused(u)
  OBVIOUS
<1>5. Becomes(u, v) /\ v.sensors = u.sensors
  BY <1>1, <1>3, <1>4 DEF Becomes
<1> QED
  BY <1>4, <1>5

LEMMA DisplayTyped ==
  ASSUME NEW u, Bridge(u), NEW x \in Shown
  PROVE  Becomes(u, [u EXCEPT !.display = x]) /\ [u EXCEPT !.display = x].sensors = u.sensors
BY DEF Bridge, Becomes, Members

LEMMA DisplayedTyped ==
  ASSUME NEW u, Bridge(u), DOMAIN u.sensors # {}
  PROVE  Becomes(u, Displayed(u)) /\ Displayed(u).sensors = u.sensors
<1>1. CASE Dual(u)
  <2>1. PICK v : v = [u EXCEPT !.display = "FUSED"]
    OBVIOUS
  <2>2. Becomes(u, v) /\ v.sensors = u.sensors
    BY <2>1, DisplayTyped DEF Shown
  <2>3. Displayed(u) = Fused(v)
    BY <1>1, <2>1 DEF Displayed
  <2>4. Becomes(v, Fused(v)) /\ Fused(v).sensors = v.sensors
    BY <2>2, FusedTyped DEF Becomes
  <2> QED
    BY <2>2, <2>3, <2>4 DEF Becomes
<1>2. CASE ~Dual(u)
  <2>1. PICK x : x = TheOnly(u)
    OBVIOUS
  <2>2. x \in DOMAIN u.sensors
    BY <2>1 DEF TheOnly
  <2>3. x \in Shown
    BY <2>2 DEF Bridge, Shown
  <2>4. Displayed(u) = [u EXCEPT !.display = x]
    BY <1>2, <2>1 DEF Displayed
  <2> QED
    BY <2>3, <2>4, DisplayTyped
<1> QED
  BY <1>1, <1>2

LEMMA RebuiltTyped ==
  ASSUME NEW u, Bridge(u), NEW rig \in SUBSET Sensors, rig # {}
  PROVE  Becomes(u, Rebuilt(u, rig)) /\ DOMAIN Rebuilt(u, rig).sensors = rig
<1>1. PICK s : s = [id \in rig |-> Sensor(Nothing, u.kept[id])]
  OBVIOUS
<1>2. DOMAIN s = rig /\ rig \subseteq Ids /\ \A id \in rig : s[id] \in Context
  BY <1>1, NothingTyped DEF Bridge, Sensor, Context, Ids
<1>3. PICK v : v = [u EXCEPT !.sensors = s, !.able = TRUE]
  OBVIOUS
<1>4. Becomes(u, v) /\ v.sensors = s
  BY <1>2, <1>3 DEF Bridge, Becomes, Members
<1>5. Rebuilt(u, rig) = Displayed(v)
  BY <1>1, <1>3 DEF Rebuilt
<1>6. Becomes(v, Displayed(v)) /\ Displayed(v).sensors = v.sensors
  BY <1>2, <1>4, DisplayedTyped DEF Becomes
<1> QED
  BY <1>2, <1>4, <1>5, <1>6 DEF Becomes

LEMMA RigsAre == \A rig \in Rigs : rig \in SUBSET Sensors /\ rig # {}
BY RigsAssumption

LEMMA FreshTyped == Bridge(Fresh(FirstRig)) /\ ~Fresh(FirstRig).reg.on
<1>1. FirstRig \in SUBSET Sensors /\ FirstRig # {}
  BY RigsAssumption
<1> DEFINE u == [project |-> None, session |-> None, state |-> "NO_PROJECT",
                 capturing |-> FALSE, canSave |-> FALSE,
                 sensors |-> NoSensor, able |-> TRUE,
                 kept |-> [id \in Sensors |-> Nothing],
                 fused |-> Nothing, shown |-> Nothing, display |-> None,
                 preview |-> FALSE, backup |-> Nothing, live |-> TRUE,
                 reg |-> NoReg, view |-> 0, tinted |-> FALSE]
<1>2. Bridge(u) /\ ~u.reg.on
  <2>1. /\ Members \subseteq DOMAIN u
        /\ u.project = None /\ u.session = None /\ u.state \in States /\ u.display = None
        /\ u.sensors = NoSensor /\ u.kept = [id \in Sensors |-> Nothing]
        /\ u.fused = Nothing /\ u.shown = Nothing /\ u.backup = Nothing
        /\ u.reg = NoReg /\ u.view = 0 /\ u.tinted \in BOOLEAN
    BY DEF Members, States
  <2> HIDE DEF u
  <2>2. NoReg.ref = Nothing /\ NoReg.mov = Nothing /\ NoReg.orig = Nothing /\ ~NoReg.on
    BY DEF NoReg
  <2>3. DOMAIN NoSensor = {}
    BY DEF NoSensor
  <2>4. u.kept \in [Sensors -> AnyCloud]
    BY <2>1, NothingTyped
  <2>5. u.view \in 0..2 /\ u.tinted \in BOOLEAN
    BY <2>1
  <2>6. DOMAIN u.sensors = {}
    BY <2>1, <2>3
  <2>7. u.reg.ref \in AnyCloud /\ u.reg.mov \in AnyCloud /\ u.reg.orig \in AnyCloud /\ ~u.reg.on
    BY <2>1, <2>2, NothingTyped
  <2>8. u.fused \in AnyCloud /\ u.shown \in AnyCloud /\ u.backup \in AnyCloud
    BY <2>1, NothingTyped
  <2>9. u.project \in Projects \cup {None} /\ u.session \in Sessions \cup {None} /\ u.display \in Shown
    BY <2>1 DEF Shown
  <2> QED
    BY <2>1, <2>4, <2>5, <2>6, <2>7, <2>8, <2>9 DEF Bridge
<1>3. Fresh(FirstRig) = Rebuilt(u, FirstRig)
  BY DEF Fresh
<1> HIDE DEF u
<1> QED
  BY <1>1, <1>2, <1>3, RebuiltTyped DEF Becomes

Backends == [Sensors -> [take : Sessions \cup {None}, map : AnyCloud]]

LEMMA PolledTyped ==
  ASSUME NEW u, Bridge(u), NEW maps \in Backends
  PROVE  Becomes(u, Polled(u, maps)) /\ DOMAIN Polled(u, maps).sensors = DOMAIN u.sensors
<1>1. PICK s : s = [id \in DOMAIN u.sensors |->
                      IF id \in Sensors THEN Sensor(maps[id].map, Cleaned(maps[id].map, u.live))
                      ELSE u.sensors[id]]
  OBVIOUS
<1>2. PICK k : k = [id \in Sensors |->
                      IF id \in DOMAIN u.sensors THEN Cleaned(maps[id].map, u.live) ELSE u.kept[id]]
  OBVIOUS
<1>3. \A id \in Sensors : maps[id].map \in AnyCloud /\ Cleaned(maps[id].map, u.live) \in AnyCloud
  BY CleanedTyped DEF Backends
<1>4. DOMAIN s = DOMAIN u.sensors /\ \A id \in DOMAIN s : s[id] \in Context
  BY <1>1, <1>3 DEF Bridge, Sensor, Context
<1>5. k \in [Sensors -> AnyCloud]
  BY <1>2, <1>3 DEF Bridge
<1>6. Polled(u, maps) = [[u EXCEPT !.sensors = s] EXCEPT !.kept = k]
  BY <1>1, <1>2, Zenon DEF Polled
<1>7. PICK v : v = [[u EXCEPT !.sensors = s] EXCEPT !.kept = k]
  OBVIOUS
<1>8. Becomes(u, v) /\ v.sensors = s
  BY <1>4, <1>5, <1>7 DEF Bridge, Becomes, Members
<1> QED
  BY <1>4, <1>6, <1>7, <1>8

LEMMA OverlaidTyped ==
  ASSUME NEW u, Bridge(u)
  PROVE  Becomes(u, Overlaid(u))
<1>1. CASE ~u.reg.on
  BY <1>1 DEF Overlaid, Becomes
<1>2. CASE u.reg.on
  <2>1. PICK c : c = [Together({u.reg.ref, u.reg.mov}) EXCEPT !.tint = TRUE]
    OBVIOUS
  <2>2. c \in AnyCloud
    <3>1. PICK t : t = Together({u.reg.ref, u.reg.mov})
      OBVIOUS
    <3>2. t \in AnyCloud
      BY <3>1, TogetherTyped DEF Bridge
    <3> QED
      BY <2>1, <3>1, <3>2 DEF AnyCloud
  <2>3. PICK x : x = CASE u.view = 1 -> u.reg.ref
                       [] u.view = 2 -> u.reg.mov
                       [] u.view = 0 /\ u.tinted -> c
                       [] u.view = 0 /\ ~u.tinted -> u.reg.orig
    OBVIOUS
  <2>4. x \in {u.reg.ref, u.reg.mov, c, u.reg.orig}
    <3>1. u.view \in 0..2 /\ u.tinted \in BOOLEAN
      BY DEF Bridge
    <3> QED
      BY <2>3, <3>1
  <2>5. Overlaid(u) = [u EXCEPT !.shown = x]
    BY <1>2, <2>1, <2>3, Zenon DEF Overlaid
  <2>6. x \in AnyCloud
    BY <2>2, <2>4 DEF Bridge
  <2> QED
    BY <2>5, <2>6, ShownTyped
<1> QED
  BY <1>1, <1>2

LEMMA PresentedTyped ==
  ASSUME NEW u, Bridge(u)
  PROVE  Becomes(u, Presented(u))
<1>1. CASE DOMAIN u.sensors = {}
  BY <1>1 DEF Presented, Becomes
<1>2. CASE DOMAIN u.sensors # {}
  <2>1. PICK v : v = Displayed(u)
    OBVIOUS
  <2>2. Becomes(u, v) /\ v.sensors = u.sensors
    BY <1>2, <2>1, DisplayedTyped
  <2>3. PICK x : x = v.sensors[TheOnly(v)].map
    OBVIOUS
  <2>4. Presented(u) = v \/ Presented(u) = [v EXCEPT !.shown = x]
    BY <1>2, <2>1, <2>3, Zenon DEF Presented
  <2>5. TheOnly(v) \in DOMAIN v.sensors
    BY <1>2, <2>2 DEF TheOnly
  <2>6. x \in AnyCloud
    BY <2>2, <2>3, <2>5 DEF Becomes, Bridge, Context
  <2>7. Becomes(v, [v EXCEPT !.shown = x])
    BY <2>2, <2>6, ShownTyped DEF Becomes
  <2> QED
    BY <2>2, <2>4, <2>7 DEF Becomes
<1> QED
  BY <1>1, <1>2

LEMMA LoadedTyped ==
  ASSUME NEW u, Bridge(u), NEW p \in Projects, NEW s \in Sessions \cup {None},
         NEW scan \in [Ids -> AnyCloud], NEW map \in AnyCloud
  PROVE  Bridge(Loaded(u, p, s, scan, map)) /\ ~Loaded(u, p, s, scan, map).reg.on
<1>1. PICK k : k = [id \in Sensors |-> scan[id]]
  OBVIOUS
<1>2. PICK c : c = Contexts(scan, map)
  OBVIOUS
<1>3. PICK no : no = FALSE
  OBVIOUS
<1>4. DOMAIN c \subseteq Ids /\ \A id \in DOMAIN c : c[id] \in Context
  <2> DEFINE named == {id \in Sensors : ~Empty(scan[id])}
  <2>1. c = [id \in named |-> Sensor(Nothing, scan[id])] \/ c = [id \in {"MERGED"} |-> Sensor(Nothing, map)]
        \/ c = NoSensor
    BY <1>2, Zenon DEF Contexts
  <2>2. CASE c = [id \in named |-> Sensor(Nothing, scan[id])]
    <3>1. named \subseteq Ids
      BY DEF Ids
    <3> HIDE DEF named
    <3> QED
      BY <2>2, <3>1, NothingTyped DEF Sensor, Context
  <2>3. CASE c = [id \in {"MERGED"} |-> Sensor(Nothing, map)]
    BY <2>3, NothingTyped DEF Sensor, Context, Ids
  <2>4. CASE c = NoSensor
    BY <2>4 DEF NoSensor
  <2> QED
    BY <2>1, <2>2, <2>3, <2>4
<1>5. k \in [Sensors -> AnyCloud]
  BY <1>1 DEF Ids
<1>6. PICK v : v = [u EXCEPT
    !.project = p, !.session = s, !.state = "READY",
    !.kept = k, !.shown = map,
    !.sensors = c, !.able = no,
    !.reg = NoReg, !.preview = no, !.backup = Nothing, !.fused = Nothing]
  OBVIOUS
<1>7. NoReg.ref = Nothing /\ NoReg.mov = Nothing /\ NoReg.orig = Nothing /\ ~NoReg.on
  BY DEF NoReg
<1>8. PICK none, ready : none = NoReg /\ ready = "READY"
  OBVIOUS
<1>9. /\ Members \subseteq DOMAIN v /\ v.project = p /\ v.session = s /\ v.state = ready /\ v.kept = k /\ v.shown = map
      /\ v.sensors = c /\ v.reg = none /\ v.backup = Nothing /\ v.fused = Nothing
      /\ v.display = u.display /\ v.view = u.view /\ v.tinted = u.tinted
  BY <1>6, <1>8 DEF Bridge, Members
<1>10. ready \in States
  BY <1>8 DEF States
<1>11. Bridge(v) /\ ~v.reg.on
  <2>1. v.view \in 0..2 /\ v.tinted \in BOOLEAN /\ v.display \in Shown
    <3>1. u.view \in 0..2 /\ u.tinted \in BOOLEAN /\ u.display \in Shown
      BY DEF Bridge
    <3> QED
      BY <1>9, <3>1, Zenon
  <2>2. v.reg.ref \in AnyCloud /\ v.reg.mov \in AnyCloud /\ v.reg.orig \in AnyCloud /\ ~v.reg.on
    BY <1>7, <1>8, <1>9, NothingTyped
  <2> QED
    BY <1>4, <1>5, <1>9, <1>10, <2>1, <2>2, NothingTyped DEF Bridge
<1>12. Loaded(u, p, s, scan, map) = Presented(v)
  BY <1>1, <1>2, <1>3, <1>6, Zenon DEF Loaded
<1> QED
  BY <1>11, <1>12, PresentedTyped DEF Becomes

LEMMA ScansTyped ==
  ASSUME NEW d, TypedDisk(d), NEW p, NEW s, NEW m \in Scans(d, p, s)
  PROVE  m \in [Ids -> AnyCloud]
<1> DEFINE Of(id) == {c \in CapturesOf(d, p, s) : c[1] = id}
           Maps1(id) == IF Of(id) = {} THEN {Nothing} ELSE {Pcd(d, CaptureMap(p, s, c)) : c \in Of(id)}
<1>1. m \in [Ids -> UNION {Maps1(id) : id \in Ids}] /\ \A id \in Ids : m[id] \in Maps1(id)
  BY Zenon DEF Scans
<1>2. ASSUME NEW id \in Ids, NEW x \in Maps1(id)
      PROVE  x \in AnyCloud
  <2>1. \A c : Pcd(d, CaptureMap(p, s, c)) \in AnyCloud
    BY PathKinds, PcdTyped
  <2> HIDE DEF Of
  <2> QED
    BY <1>2, <2>1, NothingTyped
<1> HIDE DEF Maps1
<1> QED
  BY <1>1, <1>2

LEMMA SessionsTyped ==
  ASSUME NEW d, TypedDisk(d), NEW p
  PROVE  SessionsOf(d, p) \subseteq Sessions
BY DEF TypedDisk, Fitting, SessionsOf

LEMMA FindsTyped ==
  ASSUME NEW d, TypedDisk(d), NEW u, Bridge(u), NEW p, NEW x \in Finds(d, u, p)
  PROVE  x.session \in Sessions \cup {None} /\ x.scan \in [Ids -> AnyCloud]
<1> DEFINE sessions == SessionsOf(d, p)
           found    == UNION {{[session |-> s, scan |-> m] : m \in {y \in Scans(d, p, s) : HasData(y)}} : s \in sessions}
           none(s)  == [session |-> s, scan |-> [id \in Ids |-> Nothing]]
<1>1. x \in found \/ (\E s \in sessions : x = none(s)) \/ x = none(u.session)
  <2> HIDE DEF none, found
  <2>1. Finds(d, u, p) = IF sessions = {} THEN {none(u.session)}
                         ELSE IF \A s \in sessions : \E m \in Scans(d, p, s) : ~HasData(m)
                         THEN found \cup {none(s) : s \in sessions}
                         ELSE found
    BY Zenon DEF Finds, found, none
  <2> QED
    BY <2>1
<1>2. CASE x \in found
  <2>1. PICK s \in sessions : \E m \in Scans(d, p, s) : x = [session |-> s, scan |-> m]
    BY <1>2
  <2>2. PICK m \in Scans(d, p, s) : x = [session |-> s, scan |-> m]
    BY <2>1
  <2> QED
    BY <2>2, ScansTyped, SessionsTyped
<1>3. CASE \E s \in Sessions \cup {None} : x = none(s)
  BY <1>3, NothingTyped
<1> HIDE DEF none
<1> QED
  BY <1>1, <1>2, <1>3, SessionsTyped DEF Bridge

LEMMA FallbacksTyped ==
  ASSUME NEW d, TypedDisk(d), NEW p, NEW s \in Sessions \cup {None}, NEW y \in Fallbacks(d, p, s)
  PROVE  y.session \in Sessions \cup {None} /\ y.map \in AnyCloud
<1>1. \A t : Pcd(d, SessionMap(p, t)) \in AnyCloud /\ Pcd(d, ProjectMap(p)) \in AnyCloud
  BY PathKinds, PcdTyped
<1>2. (\E t \in SessionsOf(d, p) : y = [session |-> t, map |-> Pcd(d, SessionMap(p, t))])
      \/ y = [session |-> s, map |-> Pcd(d, ProjectMap(p))]
  BY DEF Fallbacks
<1> QED
  BY <1>1, <1>2, SessionsTyped

LEMMA OpenedTyped ==
  ASSUME NEW d, TypedDisk(d), NEW u, Bridge(u), NEW p \in Projects, NEW v \in Opened(d, u, p)
  PROVE  Bridge(v) /\ ~v.reg.on
<1>1. PICK x \in Finds(d, u, p) :
        v \in IF HasData(x.scan) THEN {Loaded(u, p, x.session, x.scan, x.scan["MERGED"])}
              ELSE {Loaded(u, p, y.session, x.scan, y.map) : y \in Fallbacks(d, p, x.session)}
  BY Zenon DEF Opened
<1>2. x.session \in Sessions \cup {None} /\ x.scan \in [Ids -> AnyCloud]
  BY FindsTyped
<1>3. PICK s, scan : s = x.session /\ scan = x.scan
  OBVIOUS
<1>4. s \in Sessions \cup {None} /\ scan \in [Ids -> AnyCloud]
  BY <1>2, <1>3
<1>5. CASE v = Loaded(u, p, x.session, x.scan, x.scan["MERGED"])
  <2>1. PICK map : map = scan["MERGED"]
    OBVIOUS
  <2>2. map \in AnyCloud
    BY <1>4, <2>1 DEF Ids
  <2>3. v = Loaded(u, p, s, scan, map)
    BY <1>3, <1>5, <2>1, Zenon
  <2> QED
    BY <1>4, <2>2, <2>3, LoadedTyped
<1>6. CASE \E y \in Fallbacks(d, p, x.session) : v = Loaded(u, p, y.session, x.scan, y.map)
  <2>1. PICK y \in Fallbacks(d, p, s) : v = Loaded(u, p, y.session, scan, y.map)
    BY <1>3, <1>6, Zenon
  <2>2. PICK t, map : t = y.session /\ map = y.map
    OBVIOUS
  <2>3. t \in Sessions \cup {None} /\ map \in AnyCloud
    BY <1>4, <2>2, FallbacksTyped
  <2>4. v = Loaded(u, p, t, scan, map)
    BY <2>1, <2>2, Zenon
  <2> QED
    BY <1>4, <2>3, <2>4, LoadedTyped
<1>7. v = Loaded(u, p, x.session, x.scan, x.scan["MERGED"])
      \/ \E y \in Fallbacks(d, p, x.session) : v = Loaded(u, p, y.session, x.scan, y.map)
  <2>1. CASE HasData(x.scan)
    BY <1>1, <2>1, Zenon
  <2>2. CASE ~HasData(x.scan)
    BY <1>1, <2>2, Zenon
  <2> QED
    BY <2>1, <2>2
<1> QED
  BY <1>5, <1>6, <1>7

-----------------------------------------------------------------------------
(* The calls.                                                               *)

\* How many projects and sessions there are so far.
Numbers(m) == /\ m.projects \in 0..MaxProjects /\ m.sessions \in 0..MaxSessions
              /\ DOMAIN m = DOMAIN Spent

\* The record of a registration on display is on disk, or will be.
OnRecord(u, d, ws) == u.reg.on => RecordOf(u.reg) \in DOMAIN d \cup {ws[i].path : i \in 1..Len(ws)}

TypeInv ==
  /\ TypedDisk(disk) /\ TypedWrites(disk, writing)
  /\ Bridge(ui) /\ OnRecord(ui, disk, writing)
  /\ lidar \in Backends
  /\ Numbers(made)

\* What every call leaves.
CallTyped(u, ws) ==
  /\ disk' = disk /\ writing' = ws /\ ui' = u
  /\ TypedWrites(disk, ws) /\ Bridge(u) /\ OnRecord(u, disk, ws)
  /\ lidar' \in Backends /\ Numbers(made')

LEMMA CallTypes ==
  ASSUME TypeInv, NEW u, NEW ws, CallTyped(u, ws)
  PROVE  TypeInv'
<1>1. TypedDisk(disk') /\ TypedWrites(disk', writing') /\ Bridge(ui') /\ OnRecord(ui', disk', writing')
  BY DEF CallTyped, TypeInv
<1>2. lidar' \in Backends /\ Numbers(made')
  BY DEF CallTyped
<1> QED
  BY <1>1, <1>2 DEF TypeInv

LEMMA RestTyped ==
  ASSUME TypeInv, Ready
  PROVE  TypedWrites(disk, <<>>) /\ (ui.reg.on => RecordOf(ui.reg) \in DOMAIN disk)
<1>1. PICK none : none = <<>>
  OBVIOUS
<1>2. Series(none) /\ Len(none) = 0
  BY <1>1, NoWrite
<1>3. writing = none
  BY <1>1 DEF Ready
<1>4. {none[i].path : i \in 1..Len(none)} = {}
  BY <1>2
<1>5. TypedWrites(disk, none) /\ OnRecord(ui, disk, none)
  BY <1>3 DEF TypeInv
<1> QED
  BY <1>1, <1>4, <1>5 DEF OnRecord

\* A call that keeps the registration, or has none.
LEMMA KeepsTyped ==
  ASSUME TypeInv, Ready, disk' = disk, TypedWrites(disk, writing'),
         NEW u, Bridge(u), u.reg = ui.reg \/ ~u.reg.on, ui' = u,
         lidar' \in Backends, Numbers(made')
  PROVE  TypeInv'
<1>1. OnRecord(u, disk, writing')
  BY RestTyped DEF OnRecord
<1>2. PICK ws : ws = writing'
  OBVIOUS
<1>3. CallTyped(u, ws)
  BY <1>1, <1>2 DEF CallTyped
<1> QED
  BY <1>3, CallTypes

LEMMA MadeTyped ==
  ASSUME TypeInv, NEW what, NEW max, Made(what, max),
         what = "projects" => max = MaxProjects, what = "sessions" => max = MaxSessions
  PROVE  Numbers(made')
<1>1. Numbers(made) /\ made' = [made EXCEPT ![what] = made[what] + 1] /\ made[what] < max
  BY DEF Made, TypeInv
<1>2. "projects" \in DOMAIN made /\ "sessions" \in DOMAIN made
  BY <1>1 DEF Numbers, Spent
<1>3. DOMAIN made' = DOMAIN Spent
  BY <1>1 DEF Numbers
<1>4. made'.projects = (IF what = "projects" THEN made.projects + 1 ELSE made.projects)
      /\ made'.sessions = (IF what = "sessions" THEN made.sessions + 1 ELSE made.sessions)
  BY <1>1, <1>2
<1> QED
  BY <1>1, <1>3, <1>4, BoundsAssumption DEF Numbers

\* A call that writes nothing and moves no backend.
LEMMA EditTyped ==
  ASSUME TypeInv, Ready, disk' = disk, writing' = writing, lidar' = lidar,
         Made("edits", MaxEdits) \/ made' = made,
         NEW u, Bridge(u), u.reg = ui.reg \/ ~u.reg.on, ui' = u
  PROVE  TypeInv'
<1>1. Numbers(made')
  <2>1. CASE Made("edits", MaxEdits)
    BY <2>1, MadeTyped
  <2>2. CASE made' = made
    BY <2>2 DEF TypeInv
  <2> QED
    BY <2>1, <2>2
<1>2. TypedWrites(disk, writing') /\ lidar' \in Backends
  BY DEF TypeInv
<1> QED
  BY <1>1, <1>2, KeepsTyped

LEMMA CreateProjectTyped ==
  ASSUME TypeInv, CreateProject
  PROVE  TypeInv'
<1>1. Ready /\ Made("projects", MaxProjects) /\ disk' = disk /\ lidar' = lidar
  BY DEF CreateProject
<1>2. Numbers(made') /\ lidar' \in Backends
  BY <1>1, MadeTyped DEF TypeInv
<1>3. PICK p, ready : p = made.projects + 1 /\ ready = "READY"
  OBVIOUS
<1>4. p \in Projects /\ ready \in States
  BY <1>1, <1>3, BoundsAssumption DEF TypeInv, Numbers, Projects, Made, States
<1>5. PICK u : u = [ui EXCEPT !.project = p, !.state = ready, !.shown = Nothing]
  OBVIOUS
<1>6. Bridge(u) /\ u.reg = ui.reg
  BY <1>4, <1>5, NothingTyped DEF TypeInv, Bridge, Members
<1>7. ui' = u
  BY <1>3, <1>5, Zenon DEF CreateProject
<1>8. TypedWrites(disk, writing')
  BY PathKinds, TypedFree DEF CreateProject
<1> QED
  BY <1>1, <1>2, <1>6, <1>7, <1>8, KeepsTyped

LEMMA OpenProjectTyped ==
  ASSUME TypeInv, NEW p \in Projects, OpenProject(p)
  PROVE  TypeInv'
<1>1. Ready /\ ui' \in Opened(disk, ui, p) /\ disk' = disk /\ writing' = writing /\ lidar' = lidar /\ made' = made
  BY DEF OpenProject
<1>2. PICK u : u = ui'
  OBVIOUS
<1>3. Bridge(u) /\ ~u.reg.on
  BY <1>1, <1>2, OpenedTyped DEF TypeInv
<1> QED
  BY <1>1, <1>2, <1>3, EditTyped

LEMMA SelectScannerTyped ==
  ASSUME TypeInv, NEW rig \in Rigs, SelectScanner(rig)
  PROVE  TypeInv'
<1>1. PICK u : u = Rebuilt(ui, rig)
  OBVIOUS
<1>2. Becomes(ui, u)
  BY <1>1, RigsAre, RebuiltTyped DEF TypeInv
<1> QED
  BY <1>1, <1>2, EditTyped DEF SelectScanner, Becomes

LEMMA StartCaptureTyped ==
  ASSUME TypeInv, NEW started, StartCapture(started)
  PROVE  TypeInv'
<1> DEFINE s == made.sessions + 1
           u == IF DOMAIN ui.sensors = {} THEN Rebuilt(ui, FirstRig) ELSE ui
           all == DOMAIN u.sensors
           v == [u EXCEPT !.session = s, !.shown = Nothing,
                          !.kept = [id \in Sensors |-> Nothing],
                          !.sensors = [id \in all |-> Sensor(Nothing, Nothing)]]
<1>1. /\ Ready /\ Made("sessions", MaxSessions) /\ disk' = disk
      /\ writing' = MakeDir(ui.project, s) \o
                    Atomically(SessionFile(ui.project, s), [status |-> "ACTIVE", captures |-> {}])
      /\ ui' = IF started # all THEN v
               ELSE [v EXCEPT !.capturing = TRUE, !.canSave = FALSE, !.state = "CAPTURING"]
      /\ lidar' = [id \in Sensors |->
                     IF id \notin started THEN lidar[id]
                     ELSE [take |-> IF started = all THEN s ELSE None, map |-> Nothing]]
  BY Zenon DEF StartCapture
<1>2. Numbers(made')
  BY <1>1, MadeTyped
<1>3. s \in Sessions
  BY <1>1, BoundsAssumption DEF TypeInv, Numbers, Sessions, Made
<1>4. Becomes(ui, u)
  <2>1. Becomes(ui, Rebuilt(ui, FirstRig))
    BY RigsAre, RigsAssumption, RebuiltTyped DEF TypeInv
  <2> QED
    BY <2>1 DEF Becomes, TypeInv
<1>5. PICK session : session = s
  OBVIOUS
<1>6. PICK b : b = u
  OBVIOUS
<1>7. PICK kept, sensors : /\ kept = [id \in Sensors |-> Nothing]
                           /\ sensors = [id \in DOMAIN b.sensors |-> Sensor(Nothing, Nothing)]
  OBVIOUS
<1>8. PICK w : w = [b EXCEPT !.session = session, !.shown = Nothing, !.kept = kept, !.sensors = sensors]
  OBVIOUS
<1>9. v = w
  BY <1>5, <1>6, <1>7, <1>8, Zenon
<1>10. Becomes(b, w)
  <2>1. kept \in [Sensors -> AnyCloud] /\ \A id \in DOMAIN sensors : sensors[id] \in Context
    BY <1>7, NothingTyped DEF Sensor, Context
  <2>2. Bridge(b) /\ DOMAIN sensors = DOMAIN b.sensors
    BY <1>4, <1>6, <1>7 DEF Becomes
  <2> QED
    BY <1>3, <1>5, <1>8, <2>1, <2>2, NothingTyped DEF Bridge, Becomes, Members
<1>11. PICK yes, no, capturing : yes = TRUE /\ no = FALSE /\ capturing = "CAPTURING"
  OBVIOUS
<1>12. PICK x : x = [w EXCEPT !.capturing = yes, !.canSave = no, !.state = capturing]
  OBVIOUS
<1>13. Becomes(w, x)
  <2>1. capturing \in States
    BY <1>11 DEF States
  <2> QED
    BY <1>10, <1>12, <2>1 DEF Bridge, Becomes, Members
<1>14. ui' = w \/ ui' = x
  BY <1>1, <1>9, <1>11, <1>12, Zenon
<1>15. PICK z : z = ui'
  OBVIOUS
<1>16. Bridge(z) /\ z.reg = ui.reg
  BY <1>4, <1>6, <1>10, <1>13, <1>14, <1>15 DEF Becomes
<1>17. lidar' \in Backends
  <2>1. PICK take : take = IF started = all THEN s ELSE None
    OBVIOUS
  <2>2. lidar' = [id \in Sensors |-> IF id \notin started THEN lidar[id] ELSE [take |-> take, map |-> Nothing]]
    BY <1>1, <2>1, Zenon
  <2>3. take \in Sessions \cup {None}
    BY <1>3, <2>1
  <2> QED
    BY <2>2, <2>3, NothingTyped DEF TypeInv, Backends
<1>18. TypedWrites(disk, writing')
  <2>1. TypedWrites(disk, MakeDir(ui.project, s))
    BY <1>3, TypedDir
  <2>2. TypedWrites(disk, Atomically(SessionFile(ui.project, s), [status |-> "ACTIVE", captures |-> {}]))
    BY PathKinds, TypedFree
  <2> QED
    BY <1>1, <2>1, <2>2, TypedJoined
<1> QED
  BY <1>1, <1>2, <1>15, <1>16, <1>17, <1>18, KeepsTyped

LEMMA TelemetryTyped ==
  ASSUME TypeInv, NEW heard \in SUBSET Sensors, Telemetry(heard)
  PROVE  TypeInv'
<1>1. PICK maps :
        /\ maps = [id \in Sensors |->
                     IF id \in heard THEN [lidar[id] EXCEPT !.map = Cloud({<<id, lidar[id].take>>}, FALSE, FALSE)]
                     ELSE lidar[id]]
        /\ lidar' = maps
        /\ ui' = IF Dual(Polled(ui, maps)) THEN Fused([Polled(ui, maps) EXCEPT !.display = "FUSED"])
                 ELSE [Polled(ui, maps) EXCEPT !.shown = Polled(ui, maps).sensors[TheOnly(Polled(ui, maps))].map]
  BY Zenon DEF Telemetry
<1>2. /\ Ready /\ disk' = disk /\ writing' = writing /\ made' = made /\ DOMAIN ui.sensors # {}
      /\ \A id \in heard : lidar[id].take # None
  BY DEF Telemetry
<1>3. maps \in Backends
  <2>1. lidar \in Backends
    BY DEF TypeInv
  <2>2. ASSUME NEW id \in heard
        PROVE  Cloud({<<id, lidar[id].take>>}, FALSE, FALSE) \in AnyCloud
    <3>1. lidar[id].take \in Sessions
      BY <1>2, <2>1 DEF Backends
    <3>2. {<<id, lidar[id].take>>} \in SUBSET Recordings
      BY <3>1 DEF Recordings
    <3>3. FALSE \in BOOLEAN
      OBVIOUS
    <3> QED
      BY <3>2, <3>3, CloudTyped
  <2>3. ASSUME NEW id \in heard
        PROVE  [lidar[id] EXCEPT !.map = Cloud({<<id, lidar[id].take>>}, FALSE, FALSE)]
                 \in [take : Sessions \cup {None}, map : AnyCloud]
    BY <2>1, <2>2 DEF Backends
  <2> QED
    BY <1>1, <2>1, <2>3 DEF Backends
<1>4. PICK u : u = Polled(ui, maps)
  OBVIOUS
<1>5. Becomes(ui, u) /\ DOMAIN u.sensors # {}
  BY <1>2, <1>3, <1>4, PolledTyped DEF TypeInv
<1>6. PICK v : v = [u EXCEPT !.display = "FUSED"]
  OBVIOUS
<1>7. Becomes(u, v) /\ Becomes(v, Fused(v))
  BY <1>5, <1>6, DisplayTyped, FusedTyped DEF Becomes, Shown
<1>8. PICK x : x = u.sensors[TheOnly(u)].map
  OBVIOUS
<1>9. x \in AnyCloud
  <2>1. TheOnly(u) \in DOMAIN u.sensors
    BY <1>5 DEF TheOnly
  <2> QED
    BY <1>5, <1>8, <2>1 DEF Becomes, Bridge, Context
<1>10. Becomes(u, [u EXCEPT !.shown = x])
  BY <1>5, <1>9, ShownTyped DEF Becomes
<1>11. ui' = Fused(v) \/ ui' = [u EXCEPT !.shown = x]
  BY <1>1, <1>4, <1>6, <1>8, Zenon
<1>12. PICK z : z = ui'
  OBVIOUS
<1>13. Bridge(z) /\ z.reg = ui.reg
  BY <1>5, <1>7, <1>10, <1>11, <1>12 DEF Becomes
<1>14. TypedWrites(disk, writing') /\ Numbers(made') /\ lidar' \in Backends
  BY <1>1, <1>2, <1>3 DEF TypeInv
<1> QED
  BY <1>2, <1>12, <1>13, <1>14, KeepsTyped

LEMMA StopCaptureTyped ==
  ASSUME TypeInv, StopCapture
  PROVE  TypeInv'
<1>1. Ready /\ disk' = disk /\ made' = made
  BY DEF StopCapture
<1>2. PICK u : u = Polled(ui, lidar)
  OBVIOUS
<1>3. PICK v : v = IF Dual(u) THEN Fused([u EXCEPT !.display = "FUSED"])
                   ELSE IF u.display \in DOMAIN u.sensors THEN [u EXCEPT !.shown = u.sensors[u.display].map]
                   ELSE u
  OBVIOUS
<1>4. PICK no, yes, stopped : no = FALSE /\ yes = TRUE /\ stopped = "STOPPED"
  OBVIOUS
<1>5. /\ ui' = [v EXCEPT !.capturing = no, !.canSave = yes, !.state = stopped]
      /\ lidar' = [id \in Sensors |-> IF id \in DOMAIN u.sensors THEN [lidar[id] EXCEPT !.take = None] ELSE lidar[id]]
  BY <1>2, <1>3, <1>4, Zenon DEF StopCapture
<1>6. Becomes(ui, u)
  BY <1>2, PolledTyped DEF TypeInv
<1>7. Becomes(u, v)
  <2>1. PICK w : w = [u EXCEPT !.display = "FUSED"]
    OBVIOUS
  <2>2. Becomes(u, w) /\ Becomes(w, Fused(w))
    BY <1>6, <2>1, DisplayTyped, FusedTyped DEF Becomes, Shown
  <2>3. PICK x : x = u.sensors[u.display].map
    OBVIOUS
  <2>4. u.display \in DOMAIN u.sensors => x \in AnyCloud
    BY <1>6, <2>3 DEF Becomes, Bridge, Context
  <2>5. u.display \in DOMAIN u.sensors => Becomes(u, [u EXCEPT !.shown = x])
    BY <1>6, <2>4, ShownTyped DEF Becomes
  <2>6. Becomes(u, u)
    BY <1>6 DEF Becomes
  <2>7. v = Fused(w) \/ (u.display \in DOMAIN u.sensors /\ v = [u EXCEPT !.shown = x]) \/ v = u
    BY <1>3, <2>1, <2>3, Zenon
  <2> QED
    BY <2>2, <2>5, <2>6, <2>7 DEF Becomes
<1>8. PICK z : z = ui'
  OBVIOUS
<1>9. Bridge(z) /\ z.reg = ui.reg
  <2>1. stopped \in States
    BY <1>4 DEF States
  <2>2. Bridge(v) /\ v.reg = ui.reg
    BY <1>6, <1>7 DEF Becomes
  <2> QED
    BY <1>5, <1>8, <2>1, <2>2 DEF Bridge, Members
<1>10. lidar' \in Backends
  <2>1. lidar \in Backends
    BY DEF TypeInv
  <2>2. \A id \in Sensors : [lidar[id] EXCEPT !.take = None] \in [take : Sessions \cup {None}, map : AnyCloud]
    BY <2>1 DEF Backends
  <2> QED
    BY <1>5, <2>1, <2>2 DEF Backends
<1>11. TypedWrites(disk, writing')
  <2>1. CASE writing' = writing
    BY <2>1 DEF TypeInv
  <2>2. CASE \E p, body : writing' = Atomically(SessionFile(p, ui.session), body)
    BY <2>2, PathKinds, TypedFree
  <2>3. writing' = writing \/ \E p, body : writing' = Atomically(SessionFile(p, ui.session), body)
    BY Zenon DEF StopCapture
  <2> QED
    BY <2>1, <2>2, <2>3
<1>12. Numbers(made')
  BY <1>1 DEF TypeInv
<1> QED
  BY <1>1, <1>8, <1>9, <1>10, <1>11, <1>12, KeepsTyped

LEMMA SetActiveDisplaySensorTyped ==
  ASSUME TypeInv, NEW d \in Sensors \cup {"FUSED"}, SetActiveDisplaySensor(d)
  PROVE  TypeInv'
<1>1. Ready /\ Made("edits", MaxEdits) /\ disk' = disk /\ writing' = writing /\ lidar' = lidar
  BY DEF SetActiveDisplaySensor, Edit
<1>2. PICK x, no : x = Selected(ui, d) /\ no = FALSE
  OBVIOUS
<1>3. x \in AnyCloud
  BY <1>2 DEF Selected, TypeInv, Bridge, Context
<1>4. PICK u : u = [ui EXCEPT !.display = d, !.shown = x, !.preview = no, !.backup = Nothing]
  OBVIOUS
<1>5. ui' = u
  BY <1>2, <1>4, Zenon DEF SetActiveDisplaySensor
<1>6. Bridge(u) /\ u.reg = ui.reg
  BY <1>3, <1>4, NothingTyped DEF TypeInv, Bridge, Members, Shown, Ids
<1> QED
  BY <1>1, <1>5, <1>6, EditTyped

LEMMA SetLiveCleanupTyped ==
  ASSUME TypeInv, NEW live, SetLiveCleanup(live)
  PROVE  TypeInv'
<1>1. Ready /\ Made("edits", MaxEdits) /\ disk' = disk /\ writing' = writing /\ lidar' = lidar
  BY DEF SetLiveCleanup, Edit
<1>2. PICK F : F = [id \in DOMAIN ui.sensors |->
                      IF Empty(ui.sensors[id].raw) THEN ui.sensors[id]
                      ELSE Sensor(ui.sensors[id].raw, Cleaned(ui.sensors[id].raw, live))]
  OBVIOUS
<1>3. PICK x : x = IF ui.display \in DOMAIN F /\ ~Empty(F[ui.display].raw) THEN F[ui.display].map ELSE ui.shown
  OBVIOUS
<1>4. PICK u : u = [ui EXCEPT !.live = live, !.sensors = F, !.shown = x]
  OBVIOUS
<1>5. ui' = u
  BY <1>2, <1>3, <1>4, Zenon DEF SetLiveCleanup
<1>6. DOMAIN F = DOMAIN ui.sensors /\ \A id \in DOMAIN F : F[id] \in Context
  BY <1>2, CleanedTyped DEF TypeInv, Bridge, Context, Sensor
<1>7. x \in AnyCloud
  BY <1>3, <1>6 DEF TypeInv, Bridge, Context
<1>8. Bridge(u) /\ u.reg = ui.reg
  BY <1>4, <1>6, <1>7 DEF TypeInv, Bridge, Members
<1> QED
  BY <1>1, <1>5, <1>8, EditTyped

LEMMA CleanUpTyped ==
  ASSUME TypeInv, CleanUp
  PROVE  TypeInv'
<1>1. Ready /\ Made("edits", MaxEdits) /\ disk' = disk /\ writing' = writing /\ lidar' = lidar
  BY DEF CleanUp, Edit
<1>2. PICK source : source = IF ~ui.preview \/ Empty(ui.backup) THEN ui.shown ELSE ui.backup
  OBVIOUS
<1>3. PICK x, yes : x = Cleaned(source, TRUE) /\ yes = TRUE
  OBVIOUS
<1>4. PICK u : u = [ui EXCEPT !.backup = source, !.shown = x, !.preview = yes]
  OBVIOUS
<1>5. ui' = u
  BY <1>2, <1>3, <1>4, Zenon DEF CleanUp
<1>6. source \in AnyCloud /\ x \in AnyCloud
  BY <1>2, <1>3, CleanedTyped DEF TypeInv, Bridge
<1>7. Bridge(u) /\ u.reg = ui.reg
  BY <1>4, <1>6 DEF TypeInv, Bridge, Members
<1> QED
  BY <1>1, <1>5, <1>7, EditTyped

LEMMA ResetCleanupTyped ==
  ASSUME TypeInv, ResetCleanup
  PROVE  TypeInv'
<1>1. Ready /\ disk' = disk /\ writing' = writing /\ lidar' = lidar /\ made' = made
  BY DEF ResetCleanup
<1>2. PICK no : no = FALSE
  OBVIOUS
<1>3. PICK u : u = [ui EXCEPT !.shown = ui.backup, !.backup = Nothing, !.preview = no]
  OBVIOUS
<1>4. ui' = u
  BY <1>2, <1>3, Zenon DEF ResetCleanup
<1>5. Bridge(u) /\ u.reg = ui.reg
  BY <1>3, NothingTyped DEF TypeInv, Bridge, Members
<1> QED
  BY <1>1, <1>4, <1>5, EditTyped

LEMMA FuseTyped ==
  ASSUME TypeInv, Fuse
  PROVE  TypeInv'
<1>1. Ready /\ Made("edits", MaxEdits) /\ disk' = disk /\ writing' = writing /\ lidar' = lidar
  BY DEF Fuse, Edit
<1>2. PICK c, d : c = Together(Maps(ui)) /\ d = "FUSED"
  OBVIOUS
<1>3. c \in AnyCloud /\ d \in Shown
  BY <1>2, MapsTyped DEF TypeInv, Shown
<1>4. PICK u : u = [ui EXCEPT !.fused = c, !.display = d, !.shown = c]
  OBVIOUS
<1>5. ui' = u
  BY <1>2, <1>4, Zenon DEF Fuse
<1>6. Bridge(u) /\ u.reg = ui.reg
  BY <1>3, <1>4 DEF TypeInv, Bridge, Members
<1> QED
  BY <1>1, <1>5, <1>6, EditTyped

LEMMA ViewRegistrationTyped ==
  ASSUME TypeInv, NEW view \in 0..2, NEW tinted \in BOOLEAN, ViewRegistration(view, tinted)
  PROVE  TypeInv'
<1>1. Ready /\ Made("edits", MaxEdits) /\ disk' = disk /\ writing' = writing /\ lidar' = lidar
  BY DEF ViewRegistration, Edit
<1>2. PICK v : v = [ui EXCEPT !.view = view, !.tinted = tinted]
  OBVIOUS
<1>3. Bridge(v) /\ v.reg = ui.reg
  BY <1>2 DEF TypeInv, Bridge, Members
<1>4. PICK u : u = Overlaid(v)
  OBVIOUS
<1>5. ui' = u
  BY <1>2, <1>4 DEF ViewRegistration
<1>6. Bridge(u) /\ u.reg = ui.reg
  BY <1>3, <1>4, OverlaidTyped DEF Becomes
<1> QED
  BY <1>1, <1>5, <1>6, EditTyped

LEMMA ClearRegistrationTyped ==
  ASSUME TypeInv, ClearRegistration
  PROVE  TypeInv'
<1>1. Ready /\ disk' = disk /\ writing' = writing /\ lidar' = lidar /\ made' = made
  BY DEF ClearRegistration
<1>2. PICK x, none : x = (IF ui.display \in DOMAIN ui.sensors THEN ui.sensors[ui.display].map ELSE ui.shown) /\ none = NoReg
  OBVIOUS
<1>3. PICK u : u = [ui EXCEPT !.reg = none, !.shown = x]
  OBVIOUS
<1>4. ui' = u
  BY <1>2, <1>3, Zenon DEF ClearRegistration
<1>5. x \in AnyCloud
  BY <1>2 DEF TypeInv, Bridge, Context
<1>6. none.ref \in AnyCloud /\ none.mov \in AnyCloud /\ none.orig \in AnyCloud /\ ~none.on
  BY <1>2, NothingTyped DEF NoReg
<1>7. Bridge(u) /\ ~u.reg.on
  BY <1>3, <1>5, <1>6 DEF TypeInv, Bridge, Members
<1> QED
  BY <1>1, <1>4, <1>7, EditTyped

\* A call that writes, and keeps the registration.
LEMMA WrittenTyped ==
  ASSUME TypeInv, Ready, disk' = disk, lidar' = lidar, TypedWrites(disk, writing'), Numbers(made'),
         NEW u, Bridge(u), u.reg = ui.reg, ui' = u
  PROVE  TypeInv'
<1>1. lidar' \in Backends
  BY DEF TypeInv
<1> QED
  BY <1>1, KeepsTyped

\* The files of one sensor's capture.
LEMMA CaptureWritesTyped ==
  ASSUME NEW d, NEW p, NEW s, NEW c, NEW sensor \in Context, NEW place, NEW live
  PROVE  TypedWrites(d, CaptureWrites(p, s, c, sensor, place, live))
<1>1. PICK a : a = InPlace(CaptureMap(p, s, c), sensor.map)
  OBVIOUS
<1>2. PICK b : b = IF live /\ ~Empty(sensor.raw) THEN InPlace(CaptureRaw(p, s, c), sensor.raw) ELSE <<>>
  OBVIOUS
<1>3. PICK e : e = InPlace(Trajectory(p, s, c), TRUE)
  OBVIOUS
<1>4. PICK g : g = Atomically(CaptureFile(place, s, c), c[1])
  OBVIOUS
<1>5. CaptureWrites(p, s, c, sensor, place, live) = ((a \o b) \o e) \o g
  BY <1>1, <1>2, <1>3, <1>4, Zenon DEF CaptureWrites
<1>6. sensor.map \in AnyCloud /\ sensor.raw \in AnyCloud
  BY DEF Context
<1>7. TypedWrites(d, a)
  BY <1>1, <1>6, PathKinds, TypedCloud
<1>8. TypedWrites(d, b)
  <2>1. TypedWrites(d, InPlace(CaptureRaw(p, s, c), sensor.raw)) /\ TypedWrites(d, <<>>)
    BY <1>6, PathKinds, TypedCloud, TypedNone
  <2> QED
    BY <1>2, <2>1, Zenon
<1>9. TypedWrites(d, e) /\ TypedWrites(d, g)
  BY <1>3, <1>4, PathKinds, TypedFree
<1> QED
  BY <1>5, <1>7, <1>8, <1>9, TypedJoined, Zenon

\* The files of a save.
LEMMA SavedFilesTyped ==
  ASSUME Bridge(ui), NEW p, NEW s \in Sessions, NEW n, NEW place
  PROVE  TypedWrites(disk, SavedFiles(p, s, n, place))
<1> DEFINE Of(id) == CaptureWrites(p, s, <<id, n>>, ui.sensors[id], place, ui.live)
<1>1. PICK ids : ids = SetToSeq(DOMAIN ui.sensors)
  OBVIOUS
<1>2. IsFiniteSet(DOMAIN ui.sensors)
  <2>1. IsFiniteSet(Ids)
    BY RigsAssumption, FS_Singleton, FS_Union DEF Ids
  <2> QED
    BY <2>1, FS_Subset DEF Bridge
<1>3. Series(ids) /\ \A x : x \in DOMAIN ui.sensors <=> \E i \in 1..Len(ids) : x = ids[i]
  BY <1>1, <1>2, Ordered
<1>4. Len(ids) \in Nat /\ DOMAIN ids = 1..Len(ids)
  BY <1>3, SeqShape
<1>5. PICK ss : ss = [i \in DOMAIN ids |-> Of(ids[i])]
  OBVIOUS
<1>6. Series(ss) /\ Len(ss) = Len(ids) /\ \A i \in 1..Len(ss) : ss[i] = Of(ids[i])
  <2> HIDE DEF Of
  <2>1. ss = [i \in 1..Len(ids) |-> ss[i]] /\ \A i \in 1..Len(ids) : ss[i] = Of(ids[i])
    BY <1>4, <1>5
  <2> QED
    BY <1>4, <2>1, SeqMaker
<1>7. ASSUME NEW id \in DOMAIN ui.sensors
      PROVE  TypedWrites(disk, Of(id))
  <2>1. PICK sensor, live, c : sensor = ui.sensors[id] /\ live = ui.live /\ c = <<id, n>>
    OBVIOUS
  <2>2. TypedWrites(disk, CaptureWrites(p, s, c, sensor, place, live))
    BY <2>1, CaptureWritesTyped DEF Bridge
  <2> QED
    BY <2>1, <2>2, Zenon
<1>8. PICK flat : flat = FlattenSeq(ss)
  OBVIOUS
<1>9. TypedWrites(disk, flat)
  <2> HIDE DEF Of
  <2>1. \A i \in 1..Len(ss) : TypedWrites(disk, ss[i])
    BY <1>3, <1>6, <1>7
  <2> QED
    BY <1>6, <1>8, <2>1, TypedFlattened
<1>10. PICK pre : pre = ((MakeDir(p, s) \o Atomically(SessionNode(p, s), TRUE))
                          \o (IF Holds(disk, LegacyNode(p, s)) THEN <<>> ELSE Atomically(LegacyNode(p, s), TRUE)))
                          \o InPlace(LegacyNode(p, s), TRUE)
  OBVIOUS
<1>11. SavedFiles(p, s, n, place) = pre \o flat
  BY <1>1, <1>5, <1>8, <1>10, Zenon DEF SavedFiles
<1>12. TypedWrites(disk, pre)
  <2>1. TypedWrites(disk, MakeDir(p, s)) /\ TypedWrites(disk, <<>>)
    BY TypedDir, TypedNone
  <2>2. /\ TypedWrites(disk, Atomically(SessionNode(p, s), TRUE))
        /\ TypedWrites(disk, Atomically(LegacyNode(p, s), TRUE))
        /\ TypedWrites(disk, InPlace(LegacyNode(p, s), TRUE))
    BY PathKinds, TypedFree
  <2>3. TypedWrites(disk, IF Holds(disk, LegacyNode(p, s)) THEN <<>> ELSE Atomically(LegacyNode(p, s), TRUE))
    BY <2>1, <2>2, Zenon
  <2> QED
    BY <1>10, <2>1, <2>2, <2>3, TypedJoined, Zenon
<1> QED
  BY <1>9, <1>11, <1>12, TypedJoined, Zenon

LEMMA SaveCaptureTyped ==
  ASSUME TypeInv, SaveCapture
  PROVE  TypeInv'
<1>1. Ready /\ disk' = disk /\ lidar' = lidar /\ Made("saves", MaxSaves) /\ ui.session # None
  BY DEF SaveCapture
<1>2. Numbers(made')
  BY <1>1, MadeTyped
<1>3. PICK p, s, n, place, home :
        s = ui.session /\ writing' = SaveWrites(p, s, n, place, home)
  BY Zenon DEF SaveCapture
<1>4. s \in Sessions
  BY <1>1, <1>3 DEF TypeInv, Bridge
<1>5. TypedWrites(disk, SavedFiles(p, s, n, place))
  BY <1>4, SavedFilesTyped DEF TypeInv
<1>6. TypedWrites(disk, SavedRecord(p, s, n, home))
  <2>1. \A body : TypedWrites(disk, Atomically(SessionFile(home, s), body))
    BY PathKinds, TypedFree
  <2>2. TypedWrites(disk, <<>>)
    BY TypedNone
  <2> QED
    BY <2>1, <2>2, Zenon DEF SavedRecord
<1>7. TypedWrites(disk, writing')
  BY <1>3, <1>5, <1>6, TypedJoined, Zenon DEF SaveWrites
<1>8. PICK no, saved : no = FALSE /\ saved = "SAVED"
  OBVIOUS
<1>9. PICK u : u = [ui EXCEPT !.canSave = no, !.state = saved]
  OBVIOUS
<1>10. ui' = u
  BY <1>8, <1>9, Zenon DEF SaveCapture
<1>11. saved \in States
  BY <1>8 DEF States
<1>12. Bridge(u) /\ u.reg = ui.reg
  BY <1>9, <1>11 DEF TypeInv, Bridge, Members
<1> QED
  BY <1>1, <1>2, <1>7, <1>10, <1>12, WrittenTyped

LEMMA CommitTyped ==
  ASSUME TypeInv, Commit
  PROVE  TypeInv'
<1>1. Ready /\ disk' = disk /\ lidar' = lidar /\ Made("saves", MaxSaves) /\ writing' = CommitWrites(disk, ui)
  BY DEF Commit, Put
<1>2. Numbers(made')
  BY <1>1, MadeTyped
<1>3. PICK p, s, shown, backup : p = ui.project /\ s = ui.session /\ shown = ui.shown /\ backup = ui.backup
  OBVIOUS
<1>4. shown \in AnyCloud /\ backup \in AnyCloud /\ (s # None => s \in Sessions)
  BY <1>3 DEF TypeInv, Bridge
<1>5. TypedWrites(disk, writing')
  <2>1. TypedWrites(disk, InPlace(ProjectMap(p), shown)) /\ TypedWrites(disk, InPlace(SessionMap(p, s), shown))
        /\ TypedWrites(disk, InPlace(RawBackup(p, s), backup)) /\ TypedWrites(disk, <<>>)
    BY <1>4, PathKinds, TypedCloud, TypedNone
  <2>2. TypedWrites(disk, BackedUp(disk, p, s, backup, shown))
    BY <2>1, Zenon DEF BackedUp
  <2>3. CASE p = None
    <3>1. writing' = <<>>
      BY <1>1, <1>3, <2>3, Zenon DEF CommitWrites
    <3> QED
      BY <2>1, <3>1, Zenon
  <2>4. CASE p # None /\ s = None
    <3>1. writing' = <<>> \o InPlace(ProjectMap(p), shown)
      BY <1>1, <1>3, <2>4, Zenon DEF CommitWrites
    <3> QED
      BY <2>1, <3>1, TypedJoined, Zenon
  <2>5. CASE p # None /\ s # None
    <3>1. writing' = (MakeDir(p, s) \o BackedUp(disk, p, s, backup, shown)
                        \o InPlace(SessionMap(p, s), shown)) \o InPlace(ProjectMap(p), shown)
      BY <1>1, <1>3, <2>5, Zenon DEF CommitWrites
    <3>2. TypedWrites(disk, MakeDir(p, s))
      BY <1>4, <2>5, TypedDir
    <3> QED
      BY <2>1, <2>2, <3>1, <3>2, TypedJoined, Zenon
  <2> QED
    BY <2>3, <2>4, <2>5
<1>6. PICK d : d = ui.display
  OBVIOUS
<1>7. PICK F, K, x, no :
        /\ F = (IF d \in DOMAIN ui.sensors THEN [ui.sensors EXCEPT ![d].map = shown] ELSE ui.sensors)
        /\ K = (IF d \in Sensors THEN [ui.kept EXCEPT ![d] = shown] ELSE ui.kept)
        /\ x = (IF d = "FUSED" THEN shown ELSE ui.fused)
        /\ no = FALSE
  OBVIOUS
<1>8. PICK u : u = [ui EXCEPT !.sensors = F, !.kept = K, !.fused = x, !.backup = Nothing, !.preview = no]
  OBVIOUS
<1>9. ui' = u
  BY <1>3, <1>6, <1>7, <1>8, Zenon DEF Commit
<1>10. DOMAIN F = DOMAIN ui.sensors /\ \A id \in DOMAIN F : F[id] \in Context
  <2>1. DOMAIN F = DOMAIN ui.sensors
    BY <1>7
  <2>2. ASSUME NEW id \in DOMAIN ui.sensors
        PROVE  F[id] \in Context
    <3>1. ui.sensors[id] \in Context /\ [ui.sensors[id] EXCEPT !.map = shown] \in Context
      BY <1>4 DEF TypeInv, Bridge, Context
    <3>2. F[id] = ui.sensors[id] \/ F[id] = [ui.sensors[id] EXCEPT !.map = shown]
      BY <1>7
    <3> QED
      BY <3>1, <3>2
  <2> QED
    BY <2>1, <2>2
<1>11. K \in [Sensors -> AnyCloud] /\ x \in AnyCloud
  BY <1>4, <1>7 DEF TypeInv, Bridge
<1>12. Bridge(u) /\ u.reg = ui.reg
  BY <1>8, <1>10, <1>11, NothingTyped DEF TypeInv, Bridge, Members
<1> QED
  BY <1>1, <1>2, <1>5, <1>9, <1>12, WrittenTyped

LEMMA ExportCloudTyped ==
  ASSUME TypeInv, ExportCloud
  PROVE  TypeInv'
<1>1. /\ Ready /\ disk' = disk /\ lidar' = lidar /\ Made("saves", MaxSaves) /\ ui' = ui
      /\ writing' = InPlace(Export(ui.project), ui.shown)
  BY DEF ExportCloud, Put
<1>2. Numbers(made')
  BY <1>1, MadeTyped
<1>3. Bridge(ui)
  BY DEF TypeInv
<1>4. TypedWrites(disk, writing')
  BY <1>1, <1>3, PathKinds, TypedCloud DEF Bridge
<1> QED
  BY <1>1, <1>2, <1>3, <1>4, WrittenTyped

LEMMA SaveFusedTyped ==
  ASSUME TypeInv, SaveFused
  PROVE  TypeInv'
<1>1. Ready /\ disk' = disk /\ lidar' = lidar /\ ui' = ui
      /\ IF ui.session = None THEN Made("sessions", MaxSessions) ELSE Made("saves", MaxSaves)
  BY Zenon DEF SaveFused
<1>2. Numbers(made')
  BY <1>1, MadeTyped
<1>3. PICK p, s, c, place :
        /\ s = IF ui.session = None THEN made.sessions + 1 ELSE ui.session
        /\ writing' = MakeDir(p, s)
             \o InPlace(SessionMap(p, s), ui.fused) \o InPlace(ProjectMap(p), ui.fused)
             \o InPlace(CaptureMap(p, s, c), ui.fused)
             \o Atomically(CaptureFile(place, s, c), "MERGED")
             \o InPlace(CaptureFile(p, s, c), "MERGED")
  BY Zenon DEF SaveFused
<1>4. Bridge(ui)
  BY DEF TypeInv
<1>5. s \in Sessions
  <2>1. CASE ui.session = None
    BY <1>1, <1>3, <2>1, BoundsAssumption DEF TypeInv, Numbers, Sessions, Made
  <2>2. CASE ui.session # None
    BY <1>3, <1>4, <2>2 DEF Bridge
  <2> QED
    BY <2>1, <2>2
<1>6. TypedWrites(disk, MakeDir(p, s))
  BY <1>5, TypedDir
<1>7. /\ TypedWrites(disk, InPlace(SessionMap(p, s), ui.fused)) /\ TypedWrites(disk, InPlace(ProjectMap(p), ui.fused))
      /\ TypedWrites(disk, InPlace(CaptureMap(p, s, c), ui.fused))
  BY <1>4, PathKinds, TypedCloud DEF Bridge
<1>8. /\ TypedWrites(disk, Atomically(CaptureFile(place, s, c), "MERGED"))
      /\ TypedWrites(disk, InPlace(CaptureFile(p, s, c), "MERGED"))
  BY PathKinds, TypedFree
<1>9. TypedWrites(disk, writing')
  BY <1>3, <1>6, <1>7, <1>8, TypedJoined, Zenon
<1> QED
  BY <1>1, <1>2, <1>4, <1>9, WrittenTyped

\* What a bridge with another registration on display becomes.
LEMMA RegisteredTyped ==
  ASSUME NEW u, Bridge(u), NEW reg, reg.ref \in AnyCloud, reg.mov \in AnyCloud, reg.orig \in AnyCloud,
         NEW tinted \in BOOLEAN, NEW v, v = [u EXCEPT !.tinted = tinted, !.reg = reg]
  PROVE  Bridge(v) /\ v.reg = reg
BY DEF Bridge, Members

\* What was written last is there.
LEMMA LastJoined ==
  ASSUME NEW s, NEW t, Series(s), Series(t), Len(t) = 1
  PROVE  \E i \in 1..Len(s \o t) : (s \o t)[i] = t[1]
<1>1. Len(s \o t) = Len(s) + Len(t)
  BY Joined
<1>2. \A i \in 1..Len(t) : (s \o t)[Len(s) + i] = t[i]
  BY Joined
<1>3. Len(s) \in Nat
  BY SeqShape
<1>4. (s \o t)[Len(s) + 1] = t[1]
  BY <1>2
<1>5. Len(s) + 1 \in 1..Len(s \o t)
  BY <1>1, <1>3
<1> QED
  BY <1>4, <1>5, Zenon

LEMMA RunRegistrationTyped ==
  ASSUME TypeInv, NEW p0, NEW ref \in ProjectClouds(disk, p0), NEW p1, NEW mov \in ProjectClouds(disk, p1),
         RunRegistration(ref, mov)
  PROVE  TypeInv'
<1> DEFINE home == IF ui.project # None THEN ui.project ELSE ref[2]
           number == made.regs + 1
<1>1. PICK a, b : a = Pcd(disk, ref) /\ b = Pcd(disk, mov)
  OBVIOUS
<1>2. PICK c : c = Together({a, b})
  OBVIOUS
<1>3. PICK s \in RegSessions(home) \cap Sessions :
        /\ made' = [made EXCEPT !.regs = number, !.sessions = IF s > @ THEN s ELSE @]
        /\ writing' = MakeDir(home, s)
             \o InPlace(Combined(home, s, number), c) \o InPlace(Aligned(home, s, number), b)
             \o Atomically(RegFile(home, s, number), [ref |-> ref, home |-> <<home, s, number>>])
        /\ ui' = Overlaid([ui EXCEPT !.tinted = TRUE,
                   !.reg = [on |-> TRUE, ref |-> a, mov |-> b, orig |-> c, home |-> <<home, s, number>>]])
  BY <1>1, <1>2, Zenon DEF RunRegistration
<1>4. PICK p, r, where : p = home /\ r = number /\ where = <<p, s, r>>
  OBVIOUS
<1>5. PICK x, f : x = [ref |-> ref, home |-> where] /\ f = RegFile(p, s, r)
  OBVIOUS
<1>6. PICK reg, yes : reg = [on |-> TRUE, ref |-> a, mov |-> b, orig |-> c, home |-> where] /\ yes = TRUE
  OBVIOUS
<1>7. PICK v : v = [ui EXCEPT !.tinted = yes, !.reg = reg]
  OBVIOUS
<1>8. PICK u : u = Overlaid(v)
  OBVIOUS
<1>9. /\ writing' = MakeDir(p, s) \o InPlace(Combined(p, s, r), c) \o InPlace(Aligned(p, s, r), b) \o Atomically(f, x)
      /\ ui' = u
  <2> HIDE DEF home, number
  <2> QED
    BY <1>3, <1>4, <1>5, <1>6, <1>7, <1>8, Zenon
<1>10. ref[1] \in Clouds /\ mov[1] \in Clouds
  BY DEF ProjectClouds, Clouds
<1>11. a \in AnyCloud /\ b \in AnyCloud /\ c \in AnyCloud
  <2>1. a \in AnyCloud /\ b \in AnyCloud
    BY <1>1, <1>10, PcdTyped DEF TypeInv
  <2> QED
    BY <1>2, <2>1, TogetherTyped
<1>12. f[1] = "reg.json" /\ RecordOf(x) = f /\ Fitting(f, x)
  <2>1. f[1] = "reg.json" /\ x.ref = ref /\ x.home = where
    BY <1>5 DEF RegFile
  <2>2. where[1] = p /\ where[2] = s /\ where[3] = r
    BY <1>4
  <2>3. RecordOf(x) = f
    BY <1>5, <2>1, <2>2 DEF RecordOf
  <2> QED
    BY <1>5, <1>10, <2>1, <2>3 DEF Fitting, Clouds
<1>13. TypedWrites(disk, Atomically(f, x))
  BY <1>12, TypedOne
<1>14. PICK w : w = (MakeDir(p, s) \o InPlace(Combined(p, s, r), c)) \o InPlace(Aligned(p, s, r), b)
  OBVIOUS
<1>15. TypedWrites(disk, w)
  <2>1. TypedWrites(disk, MakeDir(p, s))
    BY TypedDir
  <2>2. TypedWrites(disk, InPlace(Combined(p, s, r), c)) /\ TypedWrites(disk, InPlace(Aligned(p, s, r), b))
    BY <1>11, PathKinds, TypedCloud
  <2> QED
    BY <1>14, <2>1, <2>2, TypedJoined, Zenon
<1>16. PICK t : t = Atomically(f, x)
  OBVIOUS
<1>17. PICK ws : ws = w \o t
  OBVIOUS
<1>18. writing' = ws
  BY <1>9, <1>14, <1>16, <1>17, Zenon
<1>19. TypedWrites(disk, ws)
  BY <1>13, <1>15, <1>16, <1>17, TypedJoined, Zenon
<1>20. \E i \in 1..Len(ws) : ws[i].path = f
  <2>1. Series(w) /\ Series(t) /\ Len(t) = 1 /\ t[1] = Whole(f, x)
    BY <1>15, <1>16, OneWrite DEF TypedWrites
  <2>2. \E i \in 1..Len(ws) : ws[i] = t[1]
    BY <1>17, <2>1, LastJoined, Zenon
  <2> QED
    BY <2>1, <2>2 DEF Whole
<1>21. reg.ref = a /\ reg.mov = b /\ reg.orig = c /\ reg.home = where
  BY <1>6
<1>22. Bridge(u) /\ u.reg = reg
  <2>1. yes \in BOOLEAN /\ Bridge(ui)
    BY <1>6 DEF TypeInv
  <2>2. Bridge(v) /\ v.reg = reg
    BY <1>7, <1>11, <1>21, <2>1, RegisteredTyped
  <2> QED
    BY <1>8, <2>2, OverlaidTyped DEF Becomes
<1>23. OnRecord(u, disk, ws)
  <2>1. RecordOf(u.reg) = f
    <3>1. where[1] = p /\ where[2] = s /\ where[3] = r
      BY <1>4
    <3> QED
      BY <1>5, <1>21, <1>22, <3>1 DEF RecordOf
  <2> QED
    BY <1>20, <2>1 DEF OnRecord
<1>24. Numbers(made')
  <2>1. Numbers(made)
    BY DEF TypeInv
  <2>2. made' = [made EXCEPT !.regs = number, !.sessions = IF s > made.sessions THEN s ELSE made.sessions]
    BY <1>3
  <2>3. PICK k : k = IF s > made.sessions THEN s ELSE made.sessions
    OBVIOUS
  <2>4. k \in 0..MaxSessions
    BY <2>1, <2>3, BoundsAssumption DEF Numbers, Sessions
  <2>5. made' = [made EXCEPT !.regs = r, !.sessions = k]
    BY <1>4, <2>2, <2>3
  <2> QED
    BY <2>1, <2>4, <2>5 DEF Numbers, Spent
<1>25. disk' = disk /\ lidar' \in Backends
  BY DEF RunRegistration, TypeInv
<1>26. CallTyped(u, ws)
  BY <1>9, <1>18, <1>19, <1>22, <1>23, <1>24, <1>25 DEF CallTyped
<1> QED
  BY <1>26, CallTypes

LEMMA LoadRegistrationTyped ==
  ASSUME TypeInv, NEW f \in DOMAIN disk, f[1] = "reg.json", LoadRegistration(f)
  PROVE  TypeInv'
<1>1. Ready /\ Made("edits", MaxEdits) /\ disk' = disk /\ writing' = writing /\ lidar' = lidar
  BY DEF LoadRegistration, Edit
<1>2. PICK x, a, b, c : /\ x = disk[f].body /\ a = Pcd(disk, x.ref)
                        /\ b = Pcd(disk, Aligned(x.home[1], x.home[2], x.home[3]))
                        /\ c = Pcd(disk, Combined(x.home[1], x.home[2], x.home[3]))
  OBVIOUS
<1>3. x = [ref |-> x.ref, home |-> x.home] /\ x.ref[1] \in Clouds /\ RecordOf(x) \in DOMAIN disk
  BY <1>2 DEF TypeInv, TypedDisk, Fitting
<1>4. a \in AnyCloud /\ b \in AnyCloud /\ c \in AnyCloud
  BY <1>2, <1>3, PathKinds, PcdTyped DEF TypeInv
<1>5. PICK where : where = x.home
  OBVIOUS
<1>6. PICK reg : reg = [on |-> TRUE, ref |-> a, home |-> where, mov |-> b, orig |-> c]
  OBVIOUS
<1>7. PICK v : v = [ui EXCEPT !.reg = reg]
  OBVIOUS
<1>8. PICK u : u = Overlaid(v)
  OBVIOUS
<1>9. ui' = u
  BY <1>2, <1>5, <1>6, <1>7, <1>8, Zenon DEF LoadRegistration, Json
<1>10. reg.ref = a /\ reg.mov = b /\ reg.orig = c /\ reg.home = where
  BY <1>6
<1>11. Bridge(v) /\ v.reg = reg
  BY <1>4, <1>7, <1>10 DEF TypeInv, Bridge, Members
<1>12. Bridge(u) /\ u.reg = reg
  BY <1>8, <1>11, OverlaidTyped DEF Becomes
<1>13. RecordOf(u.reg) \in DOMAIN disk
  BY <1>3, <1>5, <1>10, <1>12 DEF RecordOf
<1>14. TypedWrites(disk, writing) /\ OnRecord(u, disk, writing)
  BY <1>13 DEF TypeInv, OnRecord
<1>15. Numbers(made') /\ lidar' \in Backends
  BY <1>1, MadeTyped DEF TypeInv
<1>16. PICK ws : ws = writing
  OBVIOUS
<1>17. CallTyped(u, ws)
  BY <1>1, <1>9, <1>12, <1>14, <1>15, <1>16 DEF CallTyped
<1> QED
  BY <1>17, CallTypes

LEMMA SaveAsSessionMapTyped ==
  ASSUME TypeInv, SaveAsSessionMap
  PROVE  TypeInv'
<1>1. Ready /\ disk' = disk /\ lidar' = lidar /\ Made("saves", MaxSaves) /\ ui' = ui
      /\ writing' = InPlace(SessionMap(ui.project, ui.session), CombinedOf(ui.reg))
  BY DEF SaveAsSessionMap, Put
<1>2. Numbers(made')
  BY <1>1, MadeTyped
<1>3. Bridge(ui)
  BY DEF TypeInv
<1>4. CombinedOf(ui.reg) \in AnyCloud
  BY PathKinds, PcdTyped DEF CombinedOf, TypeInv
<1>5. TypedWrites(disk, writing')
  BY <1>1, <1>4, PathKinds, TypedCloud
<1> QED
  BY <1>1, <1>2, <1>3, <1>5, WrittenTyped

LEMMA SaveAsNewProjectTyped ==
  ASSUME TypeInv, SaveAsNewProject
  PROVE  TypeInv'
<1>1. PICK p, s, c :
        /\ p = made.projects + 1 /\ s = made.sessions + 1
        /\ p <= MaxProjects /\ s <= MaxSessions
        /\ made' = [made EXCEPT !.projects = p, !.sessions = s]
        /\ writing' = NewProjectWrites(p, s, c, ui.reg)
        /\ ui' \in Opened(Applied(disk, writing'), ui, p)
  BY Zenon DEF SaveAsNewProject
<1>2. Ready /\ disk' = disk /\ lidar' = lidar /\ ui.reg.on
  BY DEF SaveAsNewProject
<1>3. p \in Projects /\ s \in Sessions /\ Numbers(made')
  <2>1. Numbers(made)
    BY DEF TypeInv
  <2>2. p \in Projects /\ s \in Sessions /\ p \in 0..MaxProjects /\ s \in 0..MaxSessions
    BY <1>1, <2>1, BoundsAssumption DEF Numbers, Projects, Sessions
  <2> QED
    BY <1>1, <2>1, <2>2 DEF Numbers, Spent
<1>4. PICK cloud : cloud = CombinedOf(ui.reg)
  OBVIOUS
<1>5. cloud \in AnyCloud
  BY <1>4, PathKinds, PcdTyped DEF CombinedOf, TypeInv
<1>6. PICK old : old = RecordOf(ui.reg)
  OBVIOUS
<1>7. old \in DOMAIN disk /\ old[1] = "reg.json"
  BY <1>2, <1>6, RestTyped DEF RecordOf, RegFile
<1>8. PICK x : x = disk[old].body
  OBVIOUS
<1>9. x = [ref |-> x.ref, home |-> x.home] /\ x.ref[1] \in Clouds
  BY <1>7, <1>8 DEF TypeInv, TypedDisk, Fitting
<1>10. PICK home, r, f : home = ui.reg.home /\ r = ui.reg.home[3] /\ f = RegFile(p, s, r)
  OBVIOUS
<1>11. PICK record : record = [x EXCEPT !.home = home]
  OBVIOUS
<1>12. record = [ref |-> x.ref, home |-> home]
  BY <1>9, <1>11
<1>13. f[1] = "reg.json" /\ Fitting(f, record) /\ RecordOf(record) = old
  <2>1. f[1] = "reg.json" /\ record.ref = x.ref /\ record.home = home
    BY <1>10, <1>12 DEF RegFile
  <2>2. RecordOf(record) = old
    BY <1>6, <1>10, <2>1 DEF RecordOf
  <2> QED
    BY <1>9, <1>12, <2>1, <2>2 DEF Fitting, Clouds
<1>14. TypedWrites(disk, Atomically(f, record))
  BY <1>7, <1>13, TypedOne
<1>15. PICK empty, b : empty = [status |-> "CREATED", captures |-> {}] /\ b = TRUE
  OBVIOUS
<1>16. writing' = Atomically(ProjectFile(p), b) \o
         (MakeDir(p, s) \o Atomically(SessionFile(p, s), empty)
            \o InPlace(SessionMap(p, s), cloud) \o InPlace(ProjectMap(p), cloud)
            \o InPlace(CaptureMap(p, s, c), cloud)
            \o Atomically(CaptureFile(p, s, c), c[1]) \o InPlace(CaptureFile(p, s, c), c[1])
            \o Atomically(f, record))
  <2>1. Json(disk, RegFile(ui.reg.home[1], ui.reg.home[2], ui.reg.home[3])) = x
    BY <1>6, <1>8 DEF Json, RecordOf
  <2> QED
    BY <1>1, <1>4, <1>10, <1>11, <1>15, <2>1, Zenon DEF NewProjectWrites, NewProjectFiles
<1>17. TypedWrites(disk, writing')
  <2>1. TypedWrites(disk, MakeDir(p, s))
    BY <1>3, TypedDir
  <2>2. /\ TypedWrites(disk, InPlace(SessionMap(p, s), cloud)) /\ TypedWrites(disk, InPlace(ProjectMap(p), cloud))
        /\ TypedWrites(disk, InPlace(CaptureMap(p, s, c), cloud))
    BY <1>5, PathKinds, TypedCloud
  <2>3. /\ TypedWrites(disk, Atomically(ProjectFile(p), b)) /\ TypedWrites(disk, Atomically(SessionFile(p, s), empty))
        /\ TypedWrites(disk, Atomically(CaptureFile(p, s, c), c[1]))
        /\ TypedWrites(disk, InPlace(CaptureFile(p, s, c), c[1]))
    BY PathKinds, TypedFree
  <2> QED
    BY <1>14, <1>16, <2>1, <2>2, <2>3, TypedJoined, Zenon
<1>18. PICK e, u : e = Applied(disk, writing') /\ u = ui'
  OBVIOUS
<1>19. TypedDisk(e)
  BY <1>17, <1>18, TypedApplied DEF TypeInv
<1>20. Bridge(u) /\ ~u.reg.on
  BY <1>1, <1>3, <1>18, <1>19, OpenedTyped DEF TypeInv
<1>21. lidar' \in Backends
  BY <1>2 DEF TypeInv
<1> QED
  BY <1>2, <1>3, <1>17, <1>18, <1>20, <1>21, KeepsTyped

\* A disk at rest, and a bridge whose registration is on it.
LEMMA RestIsTyped ==
  ASSUME NEW u, NEW d, u.reg.on => RecordOf(u.reg) \in DOMAIN d
  PROVE  TypedWrites(d, <<>>) /\ OnRecord(u, d, <<>>)
BY TypedNone DEF OnRecord

\* A disk after its writes holds what it held and what was written.
LEMMA AfterWriting ==
  ASSUME NEW d, TypedDisk(d), NEW ws, TypedWrites(d, ws), NEW f \in DOMAIN d \cup {ws[i].path : i \in 1..Len(ws)}
  PROVE  f \in DOMAIN Applied(d, ws)
BY TypedApplied

LEMMA FinishWritingTyped ==
  ASSUME TypeInv, FinishWriting
  PROVE  TypeInv'
<1>1. disk' = Applied(disk, writing) /\ writing' = <<>> /\ ui' = ui /\ lidar' = lidar /\ made' = made
  BY DEF FinishWriting
<1>2. TypedDisk(disk) /\ TypedWrites(disk, writing) /\ OnRecord(ui, disk, writing)
  BY DEF TypeInv
<1>3. TypedDisk(Applied(disk, writing)) /\ (ui.reg.on => RecordOf(ui.reg) \in DOMAIN Applied(disk, writing))
  BY <1>2, TypedApplied, AfterWriting DEF OnRecord
<1>3a. TypedDisk(disk') /\ (ui.reg.on => RecordOf(ui.reg) \in DOMAIN disk')
  BY <1>1, <1>3, Zenon
<1>4. TypedWrites(disk', <<>>) /\ OnRecord(ui, disk', <<>>)
  BY <1>3a, RestIsTyped
<1>5. TypedWrites(disk', writing') /\ OnRecord(ui', disk', writing')
  BY <1>1, <1>4
<1>6. Bridge(ui') /\ lidar' \in Backends /\ Numbers(made')
  BY <1>1 DEF TypeInv
<1> QED
  BY <1>3a, <1>5, <1>6 DEF TypeInv

LEMMA IdleTyped == [id \in Sensors |-> Idle] \in Backends
BY NothingTyped DEF Backends, Idle

LEMMA CrashTyped ==
  ASSUME TypeInv, Crash
  PROVE  TypeInv'
<1>1. /\ disk' \in Cuts(disk, writing) /\ writing' = <<>> /\ ui' = Fresh(FirstRig)
      /\ made' = [Spent EXCEPT !.crashes = made.crashes + 1] /\ lidar' = [id \in Sensors |-> Idle]
  BY DEF Crash
<1>2. TypedDisk(disk')
  BY <1>1, TypedCut DEF TypeInv
<1>3. Bridge(ui') /\ ~ui'.reg.on
  BY <1>1, FreshTyped
<1>4. TypedWrites(disk', writing') /\ OnRecord(ui', disk', writing')
  BY <1>1, <1>3, TypedNone DEF OnRecord
<1>5. Numbers(made') /\ lidar' \in Backends
  BY <1>1, IdleTyped, BoundsAssumption DEF Numbers, Spent
<1> QED
  BY <1>2, <1>3, <1>4, <1>5 DEF TypeInv

LEMMA TypeInvInit ==
  ASSUME Init
  PROVE  TypeInv
<1>1. DOMAIN disk = {} /\ writing = <<>> /\ ui = Fresh(FirstRig) /\ lidar = [id \in Sensors |-> Idle]
  <2>1. disk = [f \in {} |-> File(Nothing, TRUE)]
    BY DEF Init
  <2> QED
    BY <2>1 DEF Init
<1>2. TypedDisk(disk)
  BY <1>1 DEF TypedDisk
<1>3. Bridge(ui) /\ ~ui.reg.on
  BY <1>1, FreshTyped
<1>4. TypedWrites(disk, writing) /\ OnRecord(ui, disk, writing)
  BY <1>1, <1>3, TypedNone DEF OnRecord
<1>5. Numbers(made) /\ lidar \in Backends
  <2>1. made = [projects |-> 0, sessions |-> 0, saves |-> 0, regs |-> 0, edits |-> 0, crashes |-> 0]
    BY DEF Init
  <2> QED
    BY <1>1, <2>1, IdleTyped, BoundsAssumption DEF Numbers, Spent
<1> QED
  BY <1>2, <1>3, <1>4, <1>5 DEF TypeInv

LEMMA TypeInvSame ==
  ASSUME TypeInv, UNCHANGED vars
  PROVE  TypeInv'
<1>1. disk' = disk /\ writing' = writing /\ ui' = ui /\ lidar' = lidar /\ made' = made
  BY DEF vars
<1>2. PICK u, ws : u = ui /\ ws = writing
  OBVIOUS
<1>3. CallTyped(u, ws)
  BY <1>1, <1>2 DEF CallTyped, TypeInv
<1> QED
  BY <1>3, CallTypes

LEMMA TypeInvStep ==
  ASSUME TypeInv, [DirectoryNext]_directoryVars
  PROVE  TypeInv'
<1>1. CASE UNCHANGED vars
  BY <1>1, TypeInvSame
<1>2. CASE \E p, q \in Projects : \E ref \in ProjectClouds(disk, p), mov \in ProjectClouds(disk, q) :
             RunRegistration(ref, mov)
  BY <1>2, RunRegistrationTyped
<1>3. CASE \/ \E p \in Projects : OpenProject(p)
           \/ \E rig \in Rigs : SelectScanner(rig)
           \/ \E started \in SUBSET Sensors : StartCapture(started)
           \/ \E heard \in SUBSET Sensors : Telemetry(heard)
           \/ \E d \in Sensors \cup {"FUSED"} : SetActiveDisplaySensor(d)
           \/ \E live \in BOOLEAN : SetLiveCleanup(live)
           \/ \E view \in 0..2, tinted \in BOOLEAN : ViewRegistration(view, tinted)
  BY <1>3, OpenProjectTyped, SelectScannerTyped, StartCaptureTyped, TelemetryTyped, SetActiveDisplaySensorTyped,
     SetLiveCleanupTyped, ViewRegistrationTyped, Zenon
<1>4. CASE \E f \in {g \in DOMAIN disk : g[1] = "reg.json"} : LoadRegistration(f)
  BY <1>4, LoadRegistrationTyped
<1>5. CASE \/ CreateProject \/ StopCapture \/ SaveCapture \/ CleanUp \/ ResetCleanup \/ Commit
           \/ ExportCloud \/ Fuse \/ SaveFused \/ ClearRegistration \/ SaveAsSessionMap
           \/ SaveAsNewProject \/ FinishWriting \/ Crash
  BY <1>5, CreateProjectTyped, StopCaptureTyped, SaveCaptureTyped, CleanUpTyped, ResetCleanupTyped,
     CommitTyped, ExportCloudTyped, FuseTyped, SaveFusedTyped, ClearRegistrationTyped,
     SaveAsSessionMapTyped, SaveAsNewProjectTyped, FinishWritingTyped, CrashTyped
<1> QED
  BY <1>1, <1>2, <1>3, <1>4, <1>5, Zenon DEF DirectoryNext, InProjects, InDevices, directoryVars

-----------------------------------------------------------------------------
(* The types.                                                               *)

LEMMA TypesOfProjects ==
  ASSUME TypeInv
  PROVE  TypeOK
<1>1. \A f \in DOMAIN disk : disk[f].whole \in BOOLEAN /\ (f[1] \in Clouds => disk[f].body \in AnyCloud)
  BY DEF TypeInv, TypedDisk, Fitting
<1> QED
  BY <1>1 DEF TypeInv, Bridge, Shown, States, Context, Backends, TypeOK

LEMMA TypesOfDevices ==
  ASSUME CatalogInv
  PROVE  CatalogTypes
<1>1. GoodHost(host, tally.moves) /\ GoodShelf(shelf, host, tally.moves) /\ GoodLists(panel)
  BY HostNow
<1>2. /\ DOMAIN host.at = DOMAIN host.node /\ DOMAIN host.at \subseteq Units
      /\ \A u \in DOMAIN host.at : host.at[u] \in Sockets /\ host.node[u] \in 0..Cardinality(Units)
  BY <1>1 DEF GoodHost
<1>3. \A f \in DOMAIN shelf : f[1] \in {"scanner_configs"} \cup {Folders[i] : i \in DOMAIN Folders}
  BY <1>1 DEF GoodShelf, GoodBody, FolderNames
<1>4. \A x \in panel.devices : x.unit \in Units /\ (x.status = "PROFILED") = (x.profile # NoId)
  BY <1>1 DEF GoodLists
<1>5. \A s \in panel.sensors : s.role \in {"AIRY", "GEMINI", "VITURE", "CAMERA", "UNSUPPORTED"}
  BY DEF CatalogInv, GoodPanel, GoodSensors, Settled
<1> QED
  BY <1>2, <1>3, <1>4, <1>5 DEF CatalogTypes

\* Every file keeps the kind of content its name promises, every saved point
\* cloud is made of scans of known sensors, and what the bridge holds - project,
\* session, clouds, registration, the backends' state - stays among the values
\* the rest of qml_bridge.cpp takes for granted, through any order of calls,
\* saves cut short, crashes and restarts: the inductive invariant behind
\* DirectoryTypeOK.
THEOREM DirectoryTypes == DirectorySpec => []TypeInv
<1>1. DirectoryInit => TypeInv
  BY TypeInvInit DEF DirectoryInit
<1>2. TypeInv /\ [DirectoryNext]_directoryVars => TypeInv'
  BY TypeInvStep
<1> QED
  BY <1>1, <1>2, PTL DEF DirectorySpec

\* One data directory shared by the bridge's projects and the device profiler
\* stays well typed: the projects' side (TypeOK) and the profiles' side
\* (CatalogTypes) at once, for any number of sensors, projects and devices.
THEOREM DirectoryIsTyped == DirectorySpec => []DirectoryTypeOK
<1>1. TypeInv /\ CatalogInv => DirectoryTypeOK
  BY TypesOfProjects, TypesOfDevices DEF DirectoryTypeOK
<1> QED
  BY <1>1, DirectoryTypes, DirectoryCatalog, PTL

-----------------------------------------------------------------------------
(* Where the maps are: below a directory that openProject lists.            *)

MapName(f)  == \/ f = ProjectMap(f[2]) \/ f = SessionMap(f[2], f[3])
               \/ f = CaptureMap(f[2], f[3], f[4]) /\ f[4][1] \in Ids
Homed(f, D) == f = ProjectMap(f[2]) \/ SessionDir(f[2], f[3]) \in D
IsMap(f)    == f[1] = "map.pcd"

SitedDisk(d) == \A f \in DOMAIN d : IsMap(f) => MapName(f) /\ Homed(f, DOMAIN d)

\* Writes that find their directories in E, and writes that find them in D or
\* make them first.
SitedIn(E, ws) == Series(ws) /\ \A i \in 1..Len(ws) : IsMap(ws[i].path) => MapName(ws[i].path) /\ Homed(ws[i].path, E)
MadeBefore(ws, i) == \E j \in 1..(i - 1) : ws[j].path = SessionDir(ws[i].path[2], ws[i].path[3])
SitedWrites(D, ws) ==
  Series(ws) /\ \A i \in 1..Len(ws) :
    IsMap(ws[i].path) => MapName(ws[i].path) /\ (Homed(ws[i].path, D) \/ MadeBefore(ws, i))

LEMMA SitedHolding ==
  ASSUME NEW d, SitedDisk(d), NEW ws, SitedWrites(DOMAIN d, ws), NEW n \in 0..Len(ws), NEW e, Holding(d, ws, n, e)
  PROVE  SitedDisk(e)
<1>1. Len(ws) \in Nat /\ \A i \in 1..n : i \in 1..Len(ws)
  BY SeqShape DEF SitedWrites
<1>2. DOMAIN d \subseteq DOMAIN e /\ \A i \in 1..n : ws[i].path \in DOMAIN e
  BY DEF Holding
<1>3. ASSUME NEW f \in DOMAIN e, IsMap(f)
      PROVE  MapName(f) /\ Homed(f, DOMAIN e)
  <2>1. CASE f \in DOMAIN d
    BY <1>2, <1>3, <2>1 DEF SitedDisk, Homed
  <2>2. CASE \E i \in 1..n : ws[i].path = f
    <3>1. PICK i \in 1..n : ws[i].path = f
      BY <2>2
    <3>2. MapName(f) /\ (Homed(f, DOMAIN d) \/ \E j \in 1..(i - 1) : ws[j].path = SessionDir(f[2], f[3]))
      BY <1>1, <1>3, <3>1 DEF SitedWrites, MadeBefore
    <3>3. \A j \in 1..(i - 1) : j \in 1..n
      OBVIOUS
    <3> QED
      BY <1>2, <3>2, <3>3 DEF Homed
  <2> QED
    BY <2>1, <2>2 DEF Holding
<1> QED
  BY <1>3 DEF SitedDisk

LEMMA SitedCut ==
  ASSUME NEW d, SitedDisk(d), NEW ws, SitedWrites(DOMAIN d, ws), NEW e \in Cuts(d, ws)
  PROVE  SitedDisk(e)
<1>1. Series(ws) /\ Len(ws) \in Nat
  BY SeqShape DEF SitedWrites
<1>2. CASE CutBefore(d, ws, e)
  <2>1. PICK n \in 1..Len(ws) + 1 : Holding(d, ws, n - 1, e)
    BY <1>2 DEF CutBefore
  <2>2. n - 1 \in 0..Len(ws)
    BY <1>1
  <2> QED
    BY <2>1, <2>2, SitedHolding
<1>3. CASE CutWithin(d, ws, e)
  <2>1. PICK n \in 1..Len(ws) : \E b : Holding(d, ws, n - 1, b) /\ TornAt(b, ws[n], e)
    BY <1>3 DEF CutWithin
  <2>2. PICK b : Holding(d, ws, n - 1, b) /\ TornAt(b, ws[n], e)
    BY <2>1
  <2>3. n - 1 \in 0..Len(ws)
    BY <1>1
  <2>4. SitedDisk(b)
    BY <2>2, <2>3, SitedHolding
  <2>5. PICK f : f = ws[n].path
    OBVIOUS
  <2>6. DOMAIN e = DOMAIN b \cup {f}
    BY <2>2, <2>5 DEF TornAt
  <2>7. DOMAIN d \subseteq DOMAIN b /\ \A j \in 1..(n - 1) : ws[j].path \in DOMAIN b
    BY <2>2 DEF Holding
  <2>8. IsMap(f) => MapName(f) /\ Homed(f, DOMAIN b)
    BY <2>5, <2>7 DEF SitedWrites, MadeBefore, Homed
  <2> QED
    BY <2>4, <2>6, <2>8 DEF SitedDisk, Homed
<1> QED
  BY <1>1, <1>2, <1>3, CutIs

LEMMA SitedApplied ==
  ASSUME NEW d, SitedDisk(d), NEW ws, SitedWrites(DOMAIN d, ws)
  PROVE  SitedDisk(Applied(d, ws))
<1>1. PICK e, n : e = Applied(d, ws) /\ n = Len(ws)
  OBVIOUS
<1>2. n \in 0..Len(ws)
  BY <1>1, SeqShape DEF SitedWrites
<1>3. Holding(d, ws, n, e)
  BY <1>1, AppliedFiles DEF SitedWrites
<1>4. SitedDisk(e)
  BY <1>2, <1>3, SitedHolding
<1> QED
  BY <1>1, <1>4

LEMMA SitedAtOnce ==
  ASSUME NEW D, NEW ws, SitedIn(D, ws)
  PROVE  SitedWrites(D, ws)
BY DEF SitedIn, SitedWrites

LEMMA SitedInBoth ==
  ASSUME NEW E, NEW s, NEW t, SitedIn(E, s), SitedIn(E, t)
  PROVE  SitedIn(E, s \o t)
<1>1. Series(s) /\ Series(t)
  BY DEF SitedIn
<1>2. PICK u : u = s \o t
  OBVIOUS
<1>3. IsJoin(u, s, t)
  BY <1>1, <1>2, JoinIsJoin
<1>4. ASSUME NEW i \in 1..Len(u), IsMap(u[i].path)
      PROVE  MapName(u[i].path) /\ Homed(u[i].path, E)
  BY <1>3, <1>4 DEF IsJoin, SitedIn
<1>5. SitedIn(E, u)
  BY <1>3, <1>4 DEF SitedIn, IsJoin
<1> QED
  BY <1>2, <1>5

LEMMA SitedFlattened ==
  ASSUME NEW E, NEW ss, Series(ss), \A i \in 1..Len(ss) : SitedIn(E, ss[i])
  PROVE  SitedIn(E, FlattenSeq(ss))
<1>1. PICK s : s = FlattenSeq(ss)
  OBVIOUS
<1>2. \A i \in 1..Len(ss) : Series(ss[i])
  BY DEF SitedIn
<1>3. HasAll(s, ss)
  BY <1>1, <1>2, Flattened
<1>4. SitedIn(E, s)
  BY <1>3 DEF HasAll, SitedIn
<1> QED
  BY <1>1, <1>4

\* Writes that make the directory x, or find it in D, and others below x.
Making(D, x, ws) == SitedWrites(D, ws) /\ (x \in D \/ Writes(ws, x))

LEMMA MakingMore ==
  ASSUME NEW D, NEW x, NEW s, NEW t, Making(D, x, s), SitedIn({x}, t)
  PROVE  Making(D, x, s \o t)
<1>1. Series(s) /\ Series(t)
  BY DEF Making, SitedWrites, SitedIn
<1>2. PICK u : u = s \o t
  OBVIOUS
<1>3. IsJoin(u, s, t)
  BY <1>1, <1>2, JoinIsJoin
<1>4. ASSUME NEW i \in 1..Len(u), IsMap(u[i].path)
      PROVE  MapName(u[i].path) /\ (Homed(u[i].path, D) \/ MadeBefore(u, i))
  <2>1. CASE i \in 1..Len(s)
    <3>1. u[i] = s[i] /\ \A j \in 1..(i - 1) : u[j] = s[j]
      BY <1>3, <2>1 DEF IsJoin
    <3>2. MapName(s[i].path) /\ (Homed(s[i].path, D) \/ MadeBefore(s, i))
      BY <1>4, <2>1, <3>1 DEF Making, SitedWrites
    <3> QED
      BY <3>1, <3>2 DEF MadeBefore
  <2>2. CASE i \notin 1..Len(s)
    <3>1. i - Len(s) \in 1..Len(t) /\ u[i] = t[i - Len(s)]
      BY <1>3, <2>2 DEF IsJoin
    <3>2. MapName(u[i].path) /\ Homed(u[i].path, {x})
      BY <1>4, <3>1 DEF SitedIn
    <3>3. \A j \in 1..Len(s) : u[j] = s[j] /\ j \in 1..(i - 1)
      BY <1>3, <2>2 DEF IsJoin
    <3> QED
      BY <3>2, <3>3 DEF Making, Writes, Homed, MadeBefore
  <2> QED
    BY <2>1, <2>2
<1>5. SitedWrites(D, u)
  BY <1>3, <1>4 DEF SitedWrites, IsJoin
<1>6. x \in D \/ Writes(u, x)
  <2>1. \A j \in 1..Len(s) : u[j] = s[j] /\ j \in 1..Len(u)
    BY <1>3 DEF IsJoin
  <2> QED
    BY <2>1 DEF Making, Writes
<1> QED
  BY <1>2, <1>5, <1>6 DEF Making

\* Of writes after which others follow that need nothing of them.
LEMMA SitedFirst ==
  ASSUME NEW D, NEW s, NEW t, SitedIn(D, s), SitedWrites(D, t)
  PROVE  SitedWrites(D, s \o t)
<1>1. Series(s) /\ Series(t)
  BY DEF SitedIn, SitedWrites
<1>2. PICK u : u = s \o t
  OBVIOUS
<1>3. IsJoin(u, s, t) /\ \A j \in 1..Len(t) : u[Len(s) + j] = t[j]
  BY <1>1, <1>2, JoinIsJoin, Joined
<1>4. ASSUME NEW i \in 1..Len(u), IsMap(u[i].path)
      PROVE  MapName(u[i].path) /\ (Homed(u[i].path, D) \/ MadeBefore(u, i))
  <2>1. CASE i \in 1..Len(s)
    BY <1>3, <1>4, <2>1 DEF IsJoin, SitedIn
  <2>2. CASE i \notin 1..Len(s)
    <3>1. PICK k : k = i - Len(s)
      OBVIOUS
    <3>2. k \in 1..Len(t) /\ u[i] = t[k]
      BY <1>3, <2>2, <3>1 DEF IsJoin
    <3>3. MapName(t[k].path) /\ (Homed(t[k].path, D) \/ MadeBefore(t, k))
      BY <1>4, <3>2 DEF SitedWrites
    <3>4. CASE MadeBefore(t, k)
      <4>1. PICK j \in 1..(k - 1) : t[j].path = SessionDir(t[k].path[2], t[k].path[3])
        BY <3>4 DEF MadeBefore
      <4>2. j \in 1..Len(t) /\ Len(s) + j \in 1..(i - 1)
        BY <1>3, <3>1, <3>2 DEF IsJoin
      <4>3. u[Len(s) + j] = t[j]
        BY <1>3, <4>2
      <4>4. PICK h : h = Len(s) + j
        OBVIOUS
      <4>5. h \in 1..(i - 1) /\ u[h].path = SessionDir(u[i].path[2], u[i].path[3])
        BY <3>2, <4>1, <4>2, <4>3, <4>4
      <4> QED
        BY <3>2, <3>3, <4>5 DEF MadeBefore
    <3> QED
      BY <3>2, <3>3, <3>4
  <2> QED
    BY <2>1, <2>2
<1>5. SitedWrites(D, u)
  BY <1>3, <1>4 DEF SitedWrites, IsJoin
<1> QED
  BY <1>2, <1>5

LEMMA SitedNone ==
  ASSUME NEW E
  PROVE  SitedIn(E, <<>>)
<1>1. PICK s : s = <<>>
  OBVIOUS
<1>2. Series(s) /\ Len(s) = 0
  BY <1>1, NoWrite
<1>3. SitedIn(E, s)
  BY <1>2 DEF SitedIn
<1> QED
  BY <1>1, <1>3

LEMMA SitedOne ==
  ASSUME NEW E, NEW path, NEW body, IsMap(path) => MapName(path) /\ Homed(path, E)
  PROVE  SitedIn(E, Atomically(path, body)) /\ SitedIn(E, InPlace(path, body))
<1>1. PICK s, t : s = Atomically(path, body) /\ t = InPlace(path, body)
  OBVIOUS
<1>2. /\ Series(s) /\ Len(s) = 1 /\ s[1] = Whole(path, body)
      /\ Series(t) /\ Len(t) = 1 /\ t[1] = Plain(path, body)
  BY <1>1, OneWrite
<1>3. s[1].path = path /\ t[1].path = path
  BY <1>2 DEF Whole, Plain
<1>4. SitedIn(E, s) /\ SitedIn(E, t)
  BY <1>2, <1>3 DEF SitedIn
<1> QED
  BY <1>1, <1>4

LEMMA MakingDir ==
  ASSUME NEW D, NEW p, NEW s
  PROVE  Making(D, SessionDir(p, s), MakeDir(p, s))
<1>1. PICK path, yes, ws : path = SessionDir(p, s) /\ yes = TRUE /\ ws = Atomically(path, yes)
  OBVIOUS
<1>2. ~IsMap(path)
  BY <1>1 DEF SessionDir, IsMap
<1>3. SitedIn(D, ws)
  BY <1>1, <1>2, SitedOne
<1>4. Len(ws) = 1 /\ ws[1] = Whole(path, yes)
  BY <1>1, OneWrite
<1>5. ws[1].path = path /\ 1 \in 1..Len(ws)
  BY <1>4 DEF Whole
<1>6. Making(D, path, ws)
  BY <1>3, <1>5, SitedAtOnce DEF Making, Writes
<1> QED
  BY <1>1, <1>6, Zenon DEF MakeDir

\* What is no map needs no directory; and what the maps need.
LEMMA NoMaps ==
  ASSUME NEW p, NEW s, NEW c
  PROVE  /\ ~IsMap(ProjectFile(p)) /\ ~IsMap(SessionFile(p, s)) /\ ~IsMap(SessionNode(p, s)) /\ ~IsMap(LegacyNode(p, s))
         /\ ~IsMap(Trajectory(p, s, c)) /\ ~IsMap(CaptureFile(p, s, c)) /\ ~IsMap(Export(p))
         /\ ~IsMap(RawBackup(p, s)) /\ ~IsMap(CaptureRaw(p, s, c)) /\ ~IsMap(RegFile(p, s, c))
         /\ ~IsMap(Combined(p, s, c)) /\ ~IsMap(Aligned(p, s, c))
BY DEF IsMap, ProjectFile, SessionFile, SessionNode, LegacyNode, Trajectory, CaptureFile, Export, RawBackup, CaptureRaw,
       RegFile, Combined, Aligned

LEMMA SitedMaps ==
  ASSUME NEW p, NEW s, NEW c, c[1] \in Ids, NEW E, SessionDir(p, s) \in E, NEW body
  PROVE  /\ SitedIn(E, InPlace(ProjectMap(p), body)) /\ SitedIn(E, InPlace(SessionMap(p, s), body))
         /\ SitedIn(E, InPlace(CaptureMap(p, s, c), body))
<1>1. PICK f, g, h : f = ProjectMap(p) /\ g = SessionMap(p, s) /\ h = CaptureMap(p, s, c)
  OBVIOUS
<1>2. MapName(f) /\ Homed(f, E)
  BY <1>1 DEF MapName, Homed, ProjectMap
<1>3. MapName(g) /\ Homed(g, E)
  <2>1. g[2] = p /\ g[3] = s
    BY <1>1 DEF SessionMap
  <2> QED
    BY <1>1, <2>1 DEF MapName, Homed
<1>4. MapName(h) /\ Homed(h, E)
  <2>1. h[2] = p /\ h[3] = s /\ h[4] = c
    BY <1>1 DEF CaptureMap
  <2> QED
    BY <1>1, <2>1 DEF MapName, Homed
<1> QED
  BY <1>1, <1>2, <1>3, <1>4, SitedOne

SitedInv == SitedDisk(disk) /\ SitedWrites(DOMAIN disk, writing)

LEMMA MakingSites ==
  ASSUME NEW D, NEW x, NEW ws, Making(D, x, ws)
  PROVE  SitedWrites(D, ws)
BY DEF Making

\* The calls that write nothing below a session but its record.
LEMMA RecordSited ==
  ASSUME NEW f, ~IsMap(f), NEW body
  PROVE  SitedWrites(DOMAIN disk, Atomically(f, body)) /\ SitedWrites(DOMAIN disk, InPlace(f, body))
BY SitedOne, SitedAtOnce

LEMMA CreateProjectSited ==
  ASSUME CreateProject
  PROVE  SitedWrites(DOMAIN disk, writing')
<1>1. PICK p, yes : p = made.projects + 1 /\ yes = TRUE
  OBVIOUS
<1>2. writing' = Atomically(ProjectFile(p), yes)
  BY <1>1, Zenon DEF CreateProject
<1> QED
  BY <1>2, NoMaps, RecordSited

LEMMA StartCaptureSited ==
  ASSUME NEW started, StartCapture(started)
  PROVE  SitedWrites(DOMAIN disk, writing')
<1>1. PICK p, s, body :
        writing' = MakeDir(p, s) \o Atomically(SessionFile(p, s), body)
  BY Zenon DEF StartCapture
<1>2. PICK x, t : x = SessionDir(p, s) /\ t = Atomically(SessionFile(p, s), body)
  OBVIOUS
<1>3. Making(DOMAIN disk, x, MakeDir(p, s))
  BY <1>2, MakingDir
<1>4. SitedIn({x}, t)
  BY <1>2, NoMaps, SitedOne
<1> QED
  BY <1>1, <1>2, <1>3, <1>4, MakingMore, MakingSites, Zenon

LEMMA StopCaptureSited ==
  ASSUME StopCapture
  PROVE  writing' = writing \/ SitedWrites(DOMAIN disk, writing')
<1>1. writing' = writing \/ \E p, body : writing' = Atomically(SessionFile(p, ui.session), body)
  BY Zenon DEF StopCapture
<1>2. ASSUME NEW p, NEW body, writing' = Atomically(SessionFile(p, ui.session), body)
      PROVE  SitedWrites(DOMAIN disk, writing')
  BY <1>2, NoMaps, RecordSited
<1> QED
  BY <1>1, <1>2

LEMMA CaptureWritesSited ==
  ASSUME NEW p, NEW s, NEW c, c[1] \in Ids, NEW sensor, NEW place, NEW live, NEW E, SessionDir(p, s) \in E
  PROVE  SitedIn(E, CaptureWrites(p, s, c, sensor, place, live))
<1>1. PICK a : a = InPlace(CaptureMap(p, s, c), sensor.map)
  OBVIOUS
<1>2. PICK b : b = IF live /\ ~Empty(sensor.raw) THEN InPlace(CaptureRaw(p, s, c), sensor.raw) ELSE <<>>
  OBVIOUS
<1>3. PICK e : e = InPlace(Trajectory(p, s, c), TRUE)
  OBVIOUS
<1>4. PICK g : g = Atomically(CaptureFile(place, s, c), c[1])
  OBVIOUS
<1>5. CaptureWrites(p, s, c, sensor, place, live) = ((a \o b) \o e) \o g
  BY <1>1, <1>2, <1>3, <1>4, Zenon DEF CaptureWrites
<1>6. SitedIn(E, a)
  BY <1>1, SitedMaps
<1>7. SitedIn(E, b)
  <2>1. SitedIn(E, InPlace(CaptureRaw(p, s, c), sensor.raw)) /\ SitedIn(E, <<>>)
    BY NoMaps, SitedOne, SitedNone
  <2> QED
    BY <1>2, <2>1, Zenon
<1>8. SitedIn(E, e) /\ SitedIn(E, g)
  BY <1>3, <1>4, NoMaps, SitedOne
<1> QED
  BY <1>5, <1>6, <1>7, <1>8, SitedInBoth, Zenon

LEMMA SavedFilesSited ==
  ASSUME Bridge(ui), NEW p, NEW s, NEW n, NEW place
  PROVE  Making(DOMAIN disk, SessionDir(p, s), SavedFiles(p, s, n, place))
<1> DEFINE Of(id) == CaptureWrites(p, s, <<id, n>>, ui.sensors[id], place, ui.live)
<1>1. PICK ids : ids = SetToSeq(DOMAIN ui.sensors)
  OBVIOUS
<1>2. IsFiniteSet(DOMAIN ui.sensors)
  <2>1. IsFiniteSet(Ids)
    BY RigsAssumption, FS_Singleton, FS_Union DEF Ids
  <2> QED
    BY <2>1, FS_Subset DEF Bridge
<1>3. Series(ids) /\ \A x : x \in DOMAIN ui.sensors <=> \E i \in 1..Len(ids) : x = ids[i]
  BY <1>1, <1>2, Ordered
<1>4. Len(ids) \in Nat /\ DOMAIN ids = 1..Len(ids)
  BY <1>3, SeqShape
<1>5. PICK ss : ss = [i \in DOMAIN ids |-> Of(ids[i])]
  OBVIOUS
<1>6. Series(ss) /\ Len(ss) = Len(ids) /\ \A i \in 1..Len(ss) : ss[i] = Of(ids[i])
  <2> HIDE DEF Of
  <2>1. ss = [i \in 1..Len(ids) |-> ss[i]] /\ \A i \in 1..Len(ids) : ss[i] = Of(ids[i])
    BY <1>4, <1>5
  <2> QED
    BY <1>4, <2>1, SeqMaker
<1>7. PICK dir : dir = SessionDir(p, s)
  OBVIOUS
<1>8. ASSUME NEW id \in DOMAIN ui.sensors
      PROVE  SitedIn({dir}, Of(id))
  <2>1. PICK sensor, live, c : sensor = ui.sensors[id] /\ live = ui.live /\ c = <<id, n>>
    OBVIOUS
  <2>2. c[1] \in Ids
    BY <2>1 DEF Bridge
  <2>3. SitedIn({dir}, CaptureWrites(p, s, c, sensor, place, live))
    BY <1>7, <2>2, CaptureWritesSited
  <2> QED
    BY <2>1, <2>3, Zenon
<1>9. PICK flat : flat = FlattenSeq(ss)
  OBVIOUS
<1>10. SitedIn({dir}, flat)
  <2> HIDE DEF Of
  <2>1. \A i \in 1..Len(ss) : SitedIn({dir}, ss[i])
    BY <1>3, <1>6, <1>8
  <2> QED
    BY <1>6, <1>9, <2>1, SitedFlattened
<1>11. PICK a, b, e : /\ a = Atomically(SessionNode(p, s), TRUE)
                      /\ b = IF Holds(disk, LegacyNode(p, s)) THEN <<>> ELSE Atomically(LegacyNode(p, s), TRUE)
                      /\ e = InPlace(LegacyNode(p, s), TRUE)
  OBVIOUS
<1>12. SavedFiles(p, s, n, place) = (((MakeDir(p, s) \o a) \o b) \o e) \o flat
  BY <1>1, <1>5, <1>9, <1>11, Zenon DEF SavedFiles
<1>13. SitedIn({dir}, a) /\ SitedIn({dir}, b) /\ SitedIn({dir}, e)
  <2>1. SitedIn({dir}, <<>>)
    BY SitedNone
  <2>2. \A x : /\ SitedIn({dir}, Atomically(SessionNode(p, s), x)) /\ SitedIn({dir}, Atomically(LegacyNode(p, s), x))
               /\ SitedIn({dir}, InPlace(LegacyNode(p, s), x))
    BY NoMaps, SitedOne
  <2> QED
    BY <1>11, <2>1, <2>2, Zenon
<1>14. Making(DOMAIN disk, dir, MakeDir(p, s))
  BY <1>7, MakingDir
<1> QED
  BY <1>7, <1>10, <1>12, <1>13, <1>14, MakingMore, Zenon

LEMMA SaveCaptureSited ==
  ASSUME Bridge(ui), SaveCapture
  PROVE  SitedWrites(DOMAIN disk, writing')
<1>1. PICK p, s, n, place, home : writing' = SaveWrites(p, s, n, place, home)
  BY Zenon DEF SaveCapture
<1>2. PICK x : x = SessionDir(p, s)
  OBVIOUS
<1>3. Making(DOMAIN disk, x, SavedFiles(p, s, n, place))
  BY <1>2, SavedFilesSited
<1>4. SitedIn({x}, SavedRecord(p, s, n, home))
  <2>1. \A body : SitedIn({x}, Atomically(SessionFile(home, s), body))
    BY NoMaps, SitedOne
  <2>2. SitedIn({x}, <<>>)
    BY SitedNone
  <2> QED
    BY <2>1, <2>2, Zenon DEF SavedRecord
<1> QED
  BY <1>1, <1>3, <1>4, MakingMore, MakingSites, Zenon DEF SaveWrites

\* The clouds of a project's map, of a session's and of its merged capture.
LEMMA MergedId == <<"MERGED", 0>>[1] \in Ids
BY DEF Ids

LEMMA ProjectMapSited ==
  ASSUME NEW E, NEW p, NEW body
  PROVE  SitedIn(E, InPlace(ProjectMap(p), body))
<1>1. PICK f : f = ProjectMap(p)
  OBVIOUS
<1>2. MapName(f) /\ Homed(f, E)
  BY <1>1 DEF MapName, Homed, ProjectMap
<1> QED
  BY <1>1, <1>2, SitedOne

LEMMA SessionMapSited ==
  ASSUME NEW E, NEW p, NEW s, SessionDir(p, s) \in E, NEW body
  PROVE  SitedIn(E, InPlace(SessionMap(p, s), body))
<1>1. PICK c : c = <<"MERGED", 0>>
  OBVIOUS
<1>2. c[1] \in Ids
  BY <1>1, MergedId
<1> QED
  BY <1>2, SitedMaps

LEMMA CommitSited ==
  ASSUME Commit
  PROVE  SitedWrites(DOMAIN disk, writing')
<1>1. writing' = CommitWrites(disk, ui)
  BY DEF Commit
<1>2. PICK p, s, shown, backup : p = ui.project /\ s = ui.session /\ shown = ui.shown /\ backup = ui.backup
  OBVIOUS
<1>3. PICK x, a, b, c : /\ x = SessionDir(p, s) /\ a = BackedUp(disk, p, s, backup, shown)
                        /\ b = InPlace(SessionMap(p, s), shown) /\ c = InPlace(ProjectMap(p), shown)
  OBVIOUS
<1>4. SitedIn({x}, a)
  <2>1. \A y : SitedIn({x}, InPlace(RawBackup(p, s), y))
    BY NoMaps, SitedOne
  <2>2. SitedIn({x}, <<>>)
    BY SitedNone
  <2> QED
    BY <1>3, <2>1, <2>2, Zenon DEF BackedUp
<1>5. SitedIn({x}, b) /\ SitedIn({x}, c) /\ SitedIn(DOMAIN disk, c)
  BY <1>3, SessionMapSited, ProjectMapSited
<1>6. SitedIn(DOMAIN disk, <<>>)
  BY SitedNone
<1>7. CASE p = None
  <2>1. writing' = <<>>
    BY <1>1, <1>2, <1>7, Zenon DEF CommitWrites
  <2> QED
    BY <1>6, <2>1, SitedAtOnce, Zenon
<1>8. CASE p # None /\ s = None
  <2>1. writing' = <<>> \o c
    BY <1>1, <1>2, <1>3, <1>8, Zenon DEF CommitWrites
  <2> QED
    BY <1>5, <1>6, <2>1, SitedInBoth, SitedAtOnce, Zenon
<1>9. CASE p # None /\ s # None
  <2>1. writing' = ((MakeDir(p, s) \o a) \o b) \o c
    BY <1>1, <1>2, <1>3, <1>9, Zenon DEF CommitWrites
  <2>2. Making(DOMAIN disk, x, MakeDir(p, s))
    BY <1>3, MakingDir
  <2> QED
    BY <1>4, <1>5, <2>1, <2>2, MakingMore, MakingSites, Zenon
<1> QED
  BY <1>7, <1>8, <1>9

LEMMA SaveFusedSited ==
  ASSUME SaveFused
  PROVE  SitedWrites(DOMAIN disk, writing')
<1>1. PICK c, p, s, place, cloud :
        /\ c = <<"MERGED", 0>>
        /\ writing' = MakeDir(p, s)
             \o InPlace(SessionMap(p, s), cloud) \o InPlace(ProjectMap(p), cloud)
             \o InPlace(CaptureMap(p, s, c), cloud)
             \o Atomically(CaptureFile(place, s, c), "MERGED")
             \o InPlace(CaptureFile(p, s, c), "MERGED")
  BY Zenon DEF SaveFused
<1>2. c[1] \in Ids
  BY <1>1, MergedId
<1>3. PICK x, m : x = SessionDir(p, s) /\ m = "MERGED"
  OBVIOUS
<1>4. Making(DOMAIN disk, x, MakeDir(p, s))
  BY <1>3, MakingDir
<1>5. /\ SitedIn({x}, InPlace(SessionMap(p, s), cloud)) /\ SitedIn({x}, InPlace(ProjectMap(p), cloud))
      /\ SitedIn({x}, InPlace(CaptureMap(p, s, c), cloud))
  BY <1>2, <1>3, SitedMaps
<1>6. SitedIn({x}, Atomically(CaptureFile(place, s, c), m)) /\ SitedIn({x}, InPlace(CaptureFile(p, s, c), m))
  BY NoMaps, SitedOne
<1> QED
  BY <1>1, <1>3, <1>4, <1>5, <1>6, MakingMore, MakingSites, Zenon

LEMMA RunRegistrationSited ==
  ASSUME NEW ref, NEW mov, RunRegistration(ref, mov)
  PROVE  SitedWrites(DOMAIN disk, writing')
<1> DEFINE home == IF ui.project # None THEN ui.project ELSE ref[2]
           number == made.regs + 1
<1>1. PICK c, b : c = Together({Pcd(disk, ref), Pcd(disk, mov)}) /\ b = Pcd(disk, mov)
  OBVIOUS
<1>2. PICK s : writing' = MakeDir(home, s)
             \o InPlace(Combined(home, s, number), c) \o InPlace(Aligned(home, s, number), b)
             \o Atomically(RegFile(home, s, number), [ref |-> ref, home |-> <<home, s, number>>])
  BY <1>1, Zenon DEF RunRegistration
<1>3. PICK p, r, record : p = home /\ r = number /\ record = [ref |-> ref, home |-> <<home, s, number>>]
  OBVIOUS
<1>4. writing' = MakeDir(p, s)
             \o InPlace(Combined(p, s, r), c) \o InPlace(Aligned(p, s, r), b)
             \o Atomically(RegFile(p, s, r), record)
  <2> HIDE DEF home, number
  <2> QED
    BY <1>2, <1>3, Zenon
<1>5. PICK x : x = SessionDir(p, s)
  OBVIOUS
<1>6. Making(DOMAIN disk, x, MakeDir(p, s))
  BY <1>5, MakingDir
<1>7. /\ SitedIn({x}, InPlace(Combined(p, s, r), c)) /\ SitedIn({x}, InPlace(Aligned(p, s, r), b))
      /\ SitedIn({x}, Atomically(RegFile(p, s, r), record))
  BY NoMaps, SitedOne
<1> QED
  BY <1>4, <1>6, <1>7, MakingMore, MakingSites, Zenon

LEMMA SaveAsSessionMapSited ==
  ASSUME SaveAsSessionMap
  PROVE  SitedWrites(DOMAIN disk, writing')
<1>1. PICK p, s, cloud : SessionDir(p, s) \in DOMAIN disk /\ writing' = InPlace(SessionMap(p, s), cloud)
  BY Zenon DEF SaveAsSessionMap, Holds
<1> QED
  BY <1>1, SessionMapSited, SitedAtOnce

LEMMA SaveAsNewProjectSited ==
  ASSUME SaveAsNewProject
  PROVE  SitedWrites(DOMAIN disk, writing')
<1>1. PICK p, s, c : c = <<"MERGED", 0>> /\ writing' = NewProjectWrites(p, s, c, ui.reg)
  BY Zenon DEF SaveAsNewProject
<1>2. PICK yes, empty, cloud : yes = TRUE /\ empty = [status |-> "CREATED", captures |-> {}] /\ cloud = CombinedOf(ui.reg)
  OBVIOUS
<1>3. PICK reg, r : reg = ui.reg /\ r = ui.reg.home[3]
  OBVIOUS
<1>4. PICK record : record = [Json(disk, RegFile(reg.home[1], reg.home[2], reg.home[3])) EXCEPT !.home = reg.home]
  OBVIOUS
<1>5. PICK mine, who : mine = c[1] /\ who = c[1]
  OBVIOUS
<1>6. writing' = Atomically(ProjectFile(p), yes) \o
         (MakeDir(p, s) \o Atomically(SessionFile(p, s), empty)
            \o InPlace(SessionMap(p, s), cloud) \o InPlace(ProjectMap(p), cloud)
            \o InPlace(CaptureMap(p, s, c), cloud)
            \o Atomically(CaptureFile(p, s, c), mine) \o InPlace(CaptureFile(p, s, c), who)
            \o Atomically(RegFile(p, s, r), record))
  BY <1>1, <1>2, <1>3, <1>4, <1>5, Zenon DEF NewProjectWrites, NewProjectFiles
<1>7. c[1] \in Ids
  BY <1>1, MergedId
<1>8. PICK x : x = SessionDir(p, s)
  OBVIOUS
<1>9. Making(DOMAIN disk, x, MakeDir(p, s))
  BY <1>8, MakingDir
<1>10. /\ SitedIn({x}, InPlace(SessionMap(p, s), cloud)) /\ SitedIn({x}, InPlace(ProjectMap(p), cloud))
      /\ SitedIn({x}, InPlace(CaptureMap(p, s, c), cloud))
  BY <1>7, <1>8, SitedMaps
<1>11. /\ SitedIn({x}, Atomically(CaptureFile(p, s, c), mine)) /\ SitedIn({x}, InPlace(CaptureFile(p, s, c), who))
      /\ SitedIn({x}, Atomically(SessionFile(p, s), empty)) /\ SitedIn({x}, Atomically(RegFile(p, s, r), record))
  BY NoMaps, SitedOne
<1>12. SitedIn(DOMAIN disk, Atomically(ProjectFile(p), yes))
  BY NoMaps, SitedOne
<1> QED
  BY <1>6, <1>9, <1>10, <1>11, <1>12, MakingMore, MakingSites, SitedFirst, Zenon

LEMMA SitedInit ==
  ASSUME Init
  PROVE  SitedInv
<1>1. DOMAIN disk = {} /\ writing = <<>>
  <2>1. disk = [f \in {} |-> File(Nothing, TRUE)]
    BY DEF Init
  <2> QED
    BY <2>1 DEF Init
<1>2. SitedWrites(DOMAIN disk, <<>>)
  BY SitedNone, SitedAtOnce
<1> QED
  BY <1>1, <1>2 DEF SitedInv, SitedDisk

LEMMA SitedDone ==
  ASSUME SitedInv, FinishWriting \/ Crash
  PROVE  SitedInv'
<1>1. writing' = <<>> /\ (disk' = Applied(disk, writing) \/ disk' \in Cuts(disk, writing))
  BY Zenon DEF FinishWriting, Crash
<1>2. PICK e : e = disk'
  OBVIOUS
<1>3. SitedDisk(e)
  <2>1. SitedDisk(disk) /\ SitedWrites(DOMAIN disk, writing)
    BY DEF SitedInv
  <2>2. CASE disk' = Applied(disk, writing)
    BY <1>2, <2>1, <2>2, SitedApplied, Zenon
  <2>3. CASE disk' \in Cuts(disk, writing)
    BY <1>2, <2>1, <2>3, SitedCut
  <2> QED
    BY <1>1, <2>2, <2>3
<1>4. SitedWrites(DOMAIN e, <<>>)
  BY SitedNone, SitedAtOnce
<1> QED
  BY <1>1, <1>2, <1>3, <1>4, Zenon DEF SitedInv

LEMMA SitedStep ==
  ASSUME TypeInv, SitedInv, [DirectoryNext]_directoryVars
  PROVE  SitedInv'
<1>1. CASE disk' = disk /\ writing' = writing
  BY <1>1 DEF SitedInv
<1>2. CASE disk' = disk /\ SitedWrites(DOMAIN disk, writing')
  BY <1>2 DEF SitedInv
<1>3. CASE UNCHANGED vars
  BY <1>1, <1>3 DEF vars
<1>4. CASE \E p, q \in Projects : \E ref \in ProjectClouds(disk, p), mov \in ProjectClouds(disk, q) :
             RunRegistration(ref, mov)
  <2>1. disk' = disk
    BY <1>4, Zenon DEF RunRegistration
  <2> QED
    BY <1>2, <1>4, <2>1, RunRegistrationSited, Zenon
<1>5. CASE \/ \E p \in Projects : OpenProject(p)
           \/ \E rig \in Rigs : SelectScanner(rig)
           \/ \E heard \in SUBSET Sensors : Telemetry(heard)
           \/ \E d \in Sensors \cup {"FUSED"} : SetActiveDisplaySensor(d)
           \/ \E live \in BOOLEAN : SetLiveCleanup(live)
           \/ \E view \in 0..2, tinted \in BOOLEAN : ViewRegistration(view, tinted)
           \/ \E f \in {g \in DOMAIN disk : g[1] = "reg.json"} : LoadRegistration(f)
           \/ CleanUp \/ ResetCleanup \/ Fuse \/ ClearRegistration
  <2>1. disk' = disk /\ writing' = writing
    BY <1>5, Zenon DEF OpenProject, SelectScanner, Telemetry, SetActiveDisplaySensor, SetLiveCleanup, ViewRegistration,
                       LoadRegistration, CleanUp, ResetCleanup, Fuse, ClearRegistration
  <2> QED
    BY <1>1, <2>1
<1>6. CASE \E started \in SUBSET Sensors : StartCapture(started)
  <2>1. disk' = disk
    BY <1>6, Zenon DEF StartCapture
  <2> QED
    BY <1>2, <1>6, <2>1, StartCaptureSited, Zenon
<1>7. CASE StopCapture
  <2>1. disk' = disk
    BY <1>7, Zenon DEF StopCapture
  <2> QED
    BY <1>1, <1>2, <1>7, <2>1, StopCaptureSited
<1>8. CASE CreateProject \/ SaveCapture \/ Commit \/ SaveFused \/ SaveAsSessionMap \/ SaveAsNewProject
  <2>1. disk' = disk
    BY <1>8, Zenon DEF CreateProject, SaveCapture, Commit, SaveFused, SaveAsSessionMap, SaveAsNewProject
  <2>2. Bridge(ui)
    BY DEF TypeInv
  <2> QED
    BY <1>2, <1>8, <2>1, <2>2, CreateProjectSited, SaveCaptureSited, CommitSited, SaveFusedSited, SaveAsSessionMapSited,
       SaveAsNewProjectSited, Zenon
<1>9. CASE ExportCloud
  <2>1. disk' = disk /\ writing' = InPlace(Export(ui.project), ui.shown)
    BY <1>9, Zenon DEF ExportCloud
  <2>2. SitedWrites(DOMAIN disk, InPlace(Export(ui.project), ui.shown))
    BY NoMaps, RecordSited
  <2> QED
    BY <1>2, <2>1, <2>2, Zenon
<1>10. CASE FinishWriting \/ Crash
  BY <1>10, SitedDone
<1> QED
  BY <1>3, <1>4, <1>5, <1>6, <1>7, <1>8, <1>9, <1>10, Zenon DEF DirectoryNext, InProjects, InDevices, directoryVars

-----------------------------------------------------------------------------
(* What an opened project shows.                                            *)

\* Every sensor's map has points, and of these only.
OwnMaps(u, pts) == \A id \in DOMAIN u.sensors : u.sensors[id].map.of \subseteq pts /\ ~Empty(u.sensors[id].map)

LEMMA TogetherShows ==
  ASSUME NEW clouds, NEW pts, \A c \in clouds : c.of \subseteq pts /\ ~Empty(c), clouds # {}
  PROVE  Together(clouds).of \subseteq pts /\ ~Empty(Together(clouds))
<1>1. PICK of, clean, tint : of = UNION {c.of : c \in clouds}
        /\ clean = (\E c \in clouds : c.clean) /\ tint = (\E c \in clouds : c.tint)
  BY Zenon
<1>2. of # {} /\ of \subseteq pts
  BY <1>1 DEF Empty
<1>3. Together(clouds) = Cloud(of, clean, tint)
  BY <1>1, <1>2, Zenon DEF Together
<1>4. Together(clouds).of = of
  BY <1>3 DEF Cloud
<1> QED
  BY <1>2, <1>4 DEF Empty

LEMMA SeveralMaps ==
  ASSUME NEW u, Dual(u)
  PROVE  Maps(u) # {}
<1>1. PICK ids : ids = DOMAIN u.sensors
  OBVIOUS
<1>2. Cardinality(ids) > 1
  BY <1>1 DEF Dual
<1>3. ids # {} /\ ids # {"MERGED"}
  BY <1>2, FS_EmptySet, FS_Singleton
<1> QED
  BY <1>1, <1>3 DEF Maps

LEMMA PresentedShows ==
  ASSUME NEW u, Bridge(u), NEW pts, OwnMaps(u, pts), DOMAIN u.sensors # {}
  PROVE  Presented(u).shown.of \subseteq pts /\ ~Empty(Presented(u).shown)
<1>1. PICK v : v = Displayed(u)
  OBVIOUS
<1>2. Becomes(u, v) /\ v.sensors = u.sensors
  BY <1>1, DisplayedTyped
<1>3. Presented(u) = IF Dual(v) THEN v ELSE [v EXCEPT !.shown = v.sensors[TheOnly(v)].map]
  BY <1>1, Zenon DEF Presented
<1>4. CASE Dual(v)
  <2>1. Dual(u)
    BY <1>2, <1>4 DEF Dual
  <2>2. PICK fused, w : fused = "FUSED" /\ w = [u EXCEPT !.display = fused]
    OBVIOUS
  <2>3. w.display = fused /\ w.sensors = u.sensors /\ {"fused", "shown"} \subseteq DOMAIN w
    BY <2>2 DEF Bridge, Members
  <2>4. PICK c : c = Together(Maps(w))
    OBVIOUS
  <2>5. Maps(w) # {} /\ \A m \in Maps(w) : m.of \subseteq pts /\ ~Empty(m)
    BY <2>1, <2>3, SeveralMaps DEF Maps, OwnMaps, Dual
  <2>6. c.of \subseteq pts /\ ~Empty(c)
    BY <2>4, <2>5, TogetherShows
  <2>7. v = Fused(w)
    BY <1>1, <2>1, <2>2, Zenon DEF Displayed
  <2>8. Dual(w)
    BY <2>1, <2>3 DEF Dual
  <2>9. v = [w EXCEPT !.fused = c, !.shown = IF w.display = fused THEN c ELSE @]
    BY <2>2, <2>4, <2>6, <2>7, <2>8, Zenon DEF Fused
  <2>10. v.shown = c
    BY <2>3, <2>9
  <2> QED
    BY <1>3, <1>4, <2>6, <2>10
<1>5. CASE ~Dual(v)
  <2>1. PICK id, x : id = TheOnly(v) /\ x = v.sensors[id].map
    OBVIOUS
  <2>2. id \in DOMAIN u.sensors
    BY <1>2, <2>1 DEF TheOnly
  <2>3. x.of \subseteq pts /\ ~Empty(x)
    BY <1>2, <2>1, <2>2 DEF OwnMaps
  <2>4. Presented(u) = [v EXCEPT !.shown = x]
    BY <1>3, <1>5, <2>1, Zenon
  <2>5. "shown" \in DOMAIN v
    BY <1>2 DEF Becomes, Bridge, Members
  <2>6. Presented(u).shown = x
    BY <2>4, <2>5
  <2> QED
    BY <2>3, <2>6
<1> QED
  BY <1>4, <1>5

\* Loaded shows points of the scans and of the map only, and some if there are.
Some(scan, map) == (\E id \in Sensors : ~Empty(scan[id])) \/ ~Empty(map)

LEMMA LoadedShows ==
  ASSUME NEW u, Bridge(u), NEW p \in Projects, NEW s \in Sessions \cup {None},
         NEW scan \in [Ids -> AnyCloud], NEW map \in AnyCloud,
         NEW pts, \A id \in Sensors : scan[id].of \subseteq pts, map.of \subseteq pts
  PROVE  LET v == Loaded(u, p, s, scan, map) IN
         v.shown.of \subseteq pts /\ (Some(scan, map) => ~Empty(v.shown))
<1>1. PICK k : k = [id \in Sensors |-> scan[id]]
  OBVIOUS
<1>2. PICK c : c = Contexts(scan, map)
  OBVIOUS
<1>3. PICK no : no = FALSE
  OBVIOUS
<1>4. /\ DOMAIN c \subseteq Ids /\ \A id \in DOMAIN c : c[id] \in Context
      /\ \A id \in DOMAIN c : c[id].map.of \subseteq pts /\ ~Empty(c[id].map)
      /\ DOMAIN c = {} <=> ~Some(scan, map)
  <2> DEFINE named == {id \in Sensors : ~Empty(scan[id])}
  <2>1. c = IF named # {} THEN [id \in named |-> Sensor(Nothing, scan[id])]
            ELSE IF ~Empty(map) THEN [id \in {"MERGED"} |-> Sensor(Nothing, map)]
            ELSE NoSensor
    BY <1>2, Zenon DEF Contexts
  <2>2. named \subseteq Ids /\ (Some(scan, map) <=> named # {} \/ ~Empty(map))
        /\ \A id \in named : scan[id] \in AnyCloud /\ scan[id].of \subseteq pts /\ ~Empty(scan[id])
    BY DEF Ids, Some
  <2>3. CASE named # {}
    <3> HIDE DEF named
    <3> QED
      BY <2>1, <2>2, <2>3, NothingTyped DEF Sensor, Context
  <2>4. CASE named = {} /\ ~Empty(map)
    <3> HIDE DEF named
    <3> QED
      BY <2>1, <2>2, <2>4, NothingTyped DEF Sensor, Context, Ids
  <2>5. CASE named = {} /\ Empty(map)
    <3> HIDE DEF named
    <3> QED
      BY <2>1, <2>2, <2>5 DEF NoSensor
  <2> QED
    BY <2>3, <2>4, <2>5
<1>5. k \in [Sensors -> AnyCloud]
  BY <1>1 DEF Ids
<1>6. PICK v : v = [u EXCEPT
    !.project = p, !.session = s, !.state = "READY",
    !.kept = k, !.shown = map,
    !.sensors = c, !.able = no,
    !.reg = NoReg, !.preview = no, !.backup = Nothing, !.fused = Nothing]
  OBVIOUS
<1>7. NoReg.ref = Nothing /\ NoReg.mov = Nothing /\ NoReg.orig = Nothing
  BY DEF NoReg
<1>8. PICK none, ready : none = NoReg /\ ready = "READY"
  OBVIOUS
<1>9. /\ Members \subseteq DOMAIN v /\ v.project = p /\ v.session = s /\ v.state = ready /\ v.kept = k /\ v.shown = map
      /\ v.sensors = c /\ v.reg = none /\ v.backup = Nothing /\ v.fused = Nothing
      /\ v.display = u.display /\ v.view = u.view /\ v.tinted = u.tinted
  BY <1>6, <1>8 DEF Bridge, Members
<1>10. ready \in States
  BY <1>8 DEF States
<1>11. Bridge(v)
  <2>1. v.view \in 0..2 /\ v.tinted \in BOOLEAN /\ v.display \in Shown
    <3>1. u.view \in 0..2 /\ u.tinted \in BOOLEAN /\ u.display \in Shown
      BY DEF Bridge
    <3> QED
      BY <1>9, <3>1, Zenon
  <2>2. v.reg.ref \in AnyCloud /\ v.reg.mov \in AnyCloud /\ v.reg.orig \in AnyCloud
    BY <1>7, <1>8, <1>9, NothingTyped
  <2> QED
    BY <1>4, <1>5, <1>9, <1>10, <2>1, <2>2, NothingTyped DEF Bridge
<1>12. Loaded(u, p, s, scan, map) = Presented(v)
  BY <1>1, <1>2, <1>3, <1>6, Zenon DEF Loaded
<1>13. CASE DOMAIN c = {}
  <2>1. Presented(v) = v
    BY <1>9, <1>13 DEF Presented
  <2> QED
    BY <1>4, <1>9, <1>12, <1>13, <2>1
<1>14. CASE DOMAIN c # {}
  <2>1. OwnMaps(v, pts)
    BY <1>4, <1>9 DEF OwnMaps
  <2>2. Presented(v).shown.of \subseteq pts /\ ~Empty(Presented(v).shown)
    BY <1>9, <1>11, <1>14, <2>1, PresentedShows
  <2> QED
    BY <1>12, <2>2
<1> QED
  BY <1>13, <1>14

\* The points of a file of the project are the project's.
LEMMA PcdPoints ==
  ASSUME NEW d, NEW p, NEW f, f[1] = "map.pcd", f[2] = p
  PROVE  Pcd(d, f).of \subseteq PointsOf(d, p)
<1>1. CASE f \in DOMAIN d
  BY <1>1 DEF Pcd, Holds, PointsOf
<1>2. CASE f \notin DOMAIN d
  BY <1>2 DEF Pcd, Holds, Nothing, Cloud
<1> QED
  BY <1>1, <1>2

LEMMA NothingShows == Nothing.of = {} /\ Empty(Nothing)
BY DEF Nothing, Cloud, Empty

\* A scan is of captures of the session: without one, of nothing.
LEMMA ScanIs ==
  ASSUME NEW d, NEW p, NEW s, NEW m \in Scans(d, p, s), NEW id \in Ids
  PROVE  \/ m[id] = Nothing /\ \A c \in CapturesOf(d, p, s) : c[1] # id
         \/ \E c \in CapturesOf(d, p, s) : c[1] = id /\ m[id] = Pcd(d, CaptureMap(p, s, c))
<1> DEFINE Of(i) == {c \in CapturesOf(d, p, s) : c[1] = i}
           Maps1(i) == IF Of(i) = {} THEN {Nothing} ELSE {Pcd(d, CaptureMap(p, s, c)) : c \in Of(i)}
<1>1. m[id] \in Maps1(id)
  BY Zenon DEF Scans
<1>2. CASE Of(id) = {}
  BY <1>1, <1>2
<1>3. CASE Of(id) # {}
  <2>1. m[id] \in {Pcd(d, CaptureMap(p, s, c)) : c \in Of(id)}
    BY <1>1, <1>3, Zenon
  <2> QED
    BY <2>1
<1> QED
  BY <1>2, <1>3

LEMMA ScanPoints ==
  ASSUME NEW d, NEW p, NEW s, NEW m \in Scans(d, p, s), NEW id \in Ids
  PROVE  m[id].of \subseteq PointsOf(d, p)
<1>1. CASE m[id] = Nothing
  BY <1>1, NothingShows
<1>2. CASE \E c : m[id] = Pcd(d, CaptureMap(p, s, c))
  <2>1. PICK c : m[id] = Pcd(d, CaptureMap(p, s, c))
    BY <1>2
  <2>2. PICK f : f = CaptureMap(p, s, c)
    OBVIOUS
  <2>3. f[1] = "map.pcd" /\ f[2] = p
    BY <2>2 DEF CaptureMap
  <2> QED
    BY <2>1, <2>2, <2>3, PcdPoints
<1> QED
  BY <1>1, <1>2, ScanIs

\* What is found is a scan of a session, or nothing; and there is nothing only
\* if there is no session, or each has a scan without data.
LEMMA FindsIs ==
  ASSUME NEW d, NEW u, NEW p, NEW x \in Finds(d, u, p)
  PROVE  \/ \E s \in SessionsOf(d, p) : x.scan \in Scans(d, p, s) /\ HasData(x.scan)
         \/ /\ x.scan = [id \in Ids |-> Nothing]
            /\ \A s \in SessionsOf(d, p) : \E m \in Scans(d, p, s) : ~HasData(m)
<1> DEFINE sessions == SessionsOf(d, p)
           found    == UNION {{[session |-> s, scan |-> m] : m \in {y \in Scans(d, p, s) : HasData(y)}} : s \in sessions}
           none(s)  == [session |-> s, scan |-> [id \in Ids |-> Nothing]]
           Lacks(s) == \E m \in Scans(d, p, s) : ~HasData(m)
<1>1. \/ x \in found
      \/ (\A s \in sessions : Lacks(s)) /\ \E s : x = none(s)
  <2> HIDE DEF none, found, Lacks
  <2>1. Finds(d, u, p) = IF sessions = {} THEN {none(u.session)}
                         ELSE IF \A s \in sessions : Lacks(s)
                         THEN found \cup {none(s) : s \in sessions}
                         ELSE found
    BY Zenon DEF Finds, found, none, Lacks
  <2> QED
    BY <2>1
<1>2. CASE x \in found
  <2>1. PICK s \in sessions : \E m \in Scans(d, p, s) : HasData(m) /\ x = [session |-> s, scan |-> m]
    BY <1>2
  <2>2. PICK m \in Scans(d, p, s) : HasData(m) /\ x = [session |-> s, scan |-> m]
    BY <2>1
  <2>3. x.scan = m
    BY <2>2
  <2> QED
    BY <2>1, <2>2, <2>3
<1>3. CASE (\A s \in sessions : Lacks(s)) /\ \E s : x = none(s)
  <2>1. x.scan = [id \in Ids |-> Nothing]
    BY <1>3
  <2> QED
    BY <1>3, <2>1
<1> QED
  BY <1>1, <1>2, <1>3

LEMMA FallbacksIs ==
  ASSUME NEW d, NEW p, NEW s, NEW y \in Fallbacks(d, p, s)
  PROVE  /\ y.map.of \subseteq PointsOf(d, p)
         /\ \/ ~Empty(y.map)
            \/ /\ y.map = Pcd(d, ProjectMap(p))
               /\ \A t \in SessionsOf(d, p) : Empty(Pcd(d, SessionMap(p, t)))
<1>1. \/ \E t \in SessionsOf(d, p) : /\ y = [session |-> t, map |-> Pcd(d, SessionMap(p, t))]
                                     /\ ~Empty(Pcd(d, SessionMap(p, t)))
      \/ /\ y = [session |-> s, map |-> Pcd(d, ProjectMap(p))]
         /\ \A t \in SessionsOf(d, p) : Empty(Pcd(d, SessionMap(p, t)))
  BY DEF Fallbacks
<1>2. \A t : Pcd(d, SessionMap(p, t)).of \subseteq PointsOf(d, p)
  <2>1. ASSUME NEW t
        PROVE  Pcd(d, SessionMap(p, t)).of \subseteq PointsOf(d, p)
    <3>1. PICK f : f = SessionMap(p, t)
      OBVIOUS
    <3>2. f[1] = "map.pcd" /\ f[2] = p
      BY <3>1 DEF SessionMap
    <3> QED
      BY <3>1, <3>2, PcdPoints
  <2> QED
    BY <2>1
<1>3. Pcd(d, ProjectMap(p)).of \subseteq PointsOf(d, p)
  <2>1. PICK f : f = ProjectMap(p)
    OBVIOUS
  <2>2. f[1] = "map.pcd" /\ f[2] = p
    BY <2>1 DEF ProjectMap
  <2> QED
    BY <2>1, <2>2, PcdPoints
<1> QED
  BY <1>1, <1>2, <1>3

\* A capture with points that no other hides is in every scan of its session.
LEMMA CaptureSeen ==
  ASSUME NEW d, NEW p, ~Hides(d, p), NEW s \in SessionsOf(d, p), NEW c, c[1] \in Ids,
         CaptureMap(p, s, c) \in DOMAIN d, ~Empty(d[CaptureMap(p, s, c)].body),
         NEW m \in Scans(d, p, s)
  PROVE  HasData(m)
<1>1. PICK f : f = CaptureMap(p, s, c)
  OBVIOUS
<1>2. f[1] = "map.pcd" /\ Len(f) = 4 /\ f[2] = p /\ f[3] = s /\ f[4] = c
  BY <1>1 DEF CaptureMap
<1>3. c \in CapturesOf(d, p, s)
  BY <1>1, <1>2 DEF CapturesOf
<1>4. ~Empty(Pcd(d, CaptureMap(p, s, c)))
  BY DEF Pcd, Holds
<1>5. PICK a \in CapturesOf(d, p, s) : a[1] = c[1] /\ m[c[1]] = Pcd(d, CaptureMap(p, s, a))
  BY <1>3, ScanIs
<1>6. ~Empty(Pcd(d, CaptureMap(p, s, a)))
  <2>1. CASE a = c
    BY <1>4, <2>1
  <2>2. CASE a # c
    BY <1>3, <1>5, <2>2 DEF Hides
  <2> QED
    BY <2>1, <2>2
<1> QED
  BY <1>5, <1>6 DEF HasData

\* A project with points on disk shows some, when nothing hides them.
LEMMA SomethingFound ==
  ASSUME NEW d, SitedDisk(d), NEW p, PointsOf(d, p) # {}, ~Hides(d, p),
         \A s \in SessionsOf(d, p) : \E m \in Scans(d, p, s) : ~HasData(m),
         NEW s0, NEW y \in Fallbacks(d, p, s0)
  PROVE  ~Empty(y.map)
<1>1. SUFFICES ASSUME y.map = Pcd(d, ProjectMap(p)), \A t \in SessionsOf(d, p) : Empty(Pcd(d, SessionMap(p, t)))
               PROVE  ~Empty(y.map)
  BY FallbacksIs
<1>2. PICK f \in DOMAIN d : f[2] = p /\ f[1] = "map.pcd" /\ d[f].body.of # {}
  BY DEF PointsOf
<1>3. MapName(f) /\ Homed(f, DOMAIN d)
  BY <1>2 DEF SitedDisk, IsMap
<1>4. CASE f = ProjectMap(p)
  BY <1>1, <1>2, <1>4 DEF Pcd, Holds, Empty
<1>5. CASE f # ProjectMap(p)
  <2>1. PICK s : s = f[3]
    OBVIOUS
  <2>2. SessionDir(p, s) \in DOMAIN d
    BY <1>2, <1>3, <1>5, <2>1 DEF Homed
  <2>3. s \in SessionsOf(d, p)
    <3>1. PICK x : x = SessionDir(p, s)
      OBVIOUS
    <3>2. x[1] = "session" /\ x[2] = p /\ x[3] = s
      BY <3>1 DEF SessionDir
    <3> QED
      BY <2>2, <3>1, <3>2 DEF SessionsOf
  <2>4. f # SessionMap(p, s)
    BY <1>1, <1>2, <2>3 DEF Pcd, Holds, Empty
  <2>5. PICK c : c = f[4]
    OBVIOUS
  <2>6. f = CaptureMap(p, s, c) /\ c[1] \in Ids
    BY <1>2, <1>3, <1>5, <2>1, <2>4, <2>5, Zenon DEF MapName
  <2>7. ~Empty(d[CaptureMap(p, s, c)].body)
    BY <1>2, <2>6 DEF Empty
  <2> QED
    BY <1>2, <2>3, <2>6, <2>7, CaptureSeen
<1> QED
  BY <1>4, <1>5

LEMMA OpenedShows ==
  ASSUME NEW d, TypedDisk(d), SitedDisk(d), NEW u, Bridge(u), NEW p \in Projects, NEW v \in Opened(d, u, p)
  PROVE  /\ v.shown.of \subseteq PointsOf(d, p)
         /\ PointsOf(d, p) # {} /\ ~Hides(d, p) => ~Empty(v.shown)
<1>1. PICK x \in Finds(d, u, p) :
        v \in IF HasData(x.scan) THEN {Loaded(u, p, x.session, x.scan, x.scan["MERGED"])}
              ELSE {Loaded(u, p, y.session, x.scan, y.map) : y \in Fallbacks(d, p, x.session)}
  BY Zenon DEF Opened
<1>2. PICK s, scan, pts : s = x.session /\ scan = x.scan /\ pts = PointsOf(d, p)
  OBVIOUS
<1>3. s \in Sessions \cup {None} /\ scan \in [Ids -> AnyCloud]
  BY <1>2, FindsTyped
<1>4. \A id \in Ids : scan[id].of \subseteq pts
  <2>1. CASE \E t \in SessionsOf(d, p) : scan \in Scans(d, p, t)
    BY <1>2, <2>1, ScanPoints
  <2>2. CASE scan = [id \in Ids |-> Nothing]
    BY <2>2, NothingShows
  <2> QED
    BY <1>2, <2>1, <2>2, FindsIs
<1>5. \A id \in Sensors : scan[id].of \subseteq pts
  BY <1>4 DEF Ids
<1>6. CASE HasData(scan)
  <2>1. PICK map : map = scan["MERGED"]
    OBVIOUS
  <2>2. map \in AnyCloud /\ map.of \subseteq pts
    BY <1>3, <1>4, <2>1 DEF Ids
  <2>3. v = Loaded(u, p, s, scan, map)
    BY <1>1, <1>2, <1>6, <2>1, Zenon
  <2>4. Some(scan, map)
    BY <1>6, <2>1 DEF HasData, Some, Ids
  <2> QED
    BY <1>2, <1>3, <1>5, <2>2, <2>3, <2>4, LoadedShows
<1>7. CASE ~HasData(scan)
  <2>1. PICK y \in Fallbacks(d, p, s) : v = Loaded(u, p, y.session, scan, y.map)
    BY <1>1, <1>2, <1>7, Zenon
  <2>2. PICK t, map : t = y.session /\ map = y.map
    OBVIOUS
  <2>3. t \in Sessions \cup {None} /\ map \in AnyCloud
    BY <1>3, <2>2, FallbacksTyped
  <2>4. map.of \subseteq pts
    BY <1>2, <2>2, FallbacksIs
  <2>5. v = Loaded(u, p, t, scan, map)
    BY <2>1, <2>2, Zenon
  <2>6. ASSUME pts # {}, ~Hides(d, p)
        PROVE  Some(scan, map)
    <3>1. \A r \in SessionsOf(d, p) : \E m \in Scans(d, p, r) : ~HasData(m)
      BY <1>2, <1>7, FindsIs
    <3>2. ~Empty(map)
      BY <1>2, <2>2, <2>6, <3>1, SomethingFound
    <3> QED
      BY <3>2 DEF Some
  <2> QED
    BY <1>2, <1>3, <1>5, <2>3, <2>4, <2>5, <2>6, LoadedShows
<1> QED
  BY <1>6, <1>7

\* A project that is opened shows points of its own maps and of no other
\* project's, and shows some whenever one of its maps has any, whatever calls,
\* saves cut short and restarts went before, unless a session has an empty
\* capture beside another of the same sensor (openProject's scan of captures,
\* its fallbacks and the rebuild of the viewport).
THEOREM OpenedIsOwn == DirectorySpec => OpensOwn
<1> DEFINE Inv == TypeInv /\ SitedInv
           Own == LET p == ui'.project IN p # None /\ OpenProject(p) =>
                    /\ ui'.shown.of \subseteq PointsOf(disk, p)
                    /\ PointsOf(disk, p) # {} /\ ~Hides(disk, p) => ~Empty(ui'.shown)
<1>1. DirectoryInit => Inv
  BY TypeInvInit, SitedInit DEF DirectoryInit
<1>2. Inv /\ [DirectoryNext]_directoryVars => Inv'
  BY TypeInvStep, SitedStep
<1>3. Inv /\ Inv' => Own
  <2>1. SUFFICES ASSUME Inv, Inv', NEW p, p = ui'.project, p # None, OpenProject(p)
                 PROVE  /\ ui'.shown.of \subseteq PointsOf(disk, p)
                        /\ PointsOf(disk, p) # {} /\ ~Hides(disk, p) => ~Empty(ui'.shown)
    OBVIOUS
  <2>2. PICK v : v = ui'
    OBVIOUS
  <2>3. Bridge(ui) /\ Bridge(v) /\ TypedDisk(disk) /\ SitedDisk(disk)
    BY <2>1, <2>2 DEF TypeInv, SitedInv
  <2>4. p \in Projects /\ v \in Opened(disk, ui, p)
    BY <2>1, <2>2, <2>3 DEF Bridge, OpenProject
  <2> QED
    BY <2>2, <2>3, <2>4, OpenedShows
<1>4. Inv /\ Inv' => [Own]_vars
  BY <1>3
<1> HIDE DEF Inv, Own
<1>5. DirectorySpec => [][Own]_vars
  BY <1>1, <1>2, <1>4, PTL DEF DirectorySpec
<1> QED
  BY <1>5 DEF OpensOwn, Own
=============================================================================
