----------------------------- MODULE CSlamProofs -----------------------------
(* What holds of the coordinator's engine for every set of scanners, every   *)
(* recording and every bound, when only the coordinator's user presses       *)
(* "snap", so that no participant sends an alignment up; and, when moreover  *)
(* its threads take turns through one session, that the participants'        *)
(* engines end up with its clouds and its alignment.                         *)
EXTENDS CSlamSession, FirstPositions, SequenceTheorems

----------------------------------------------------------------------------
(* The ring places of an engine never coincide.                             *)

LEMMA RingAndSlot ==
  ASSUME NEW i \in Nat \ {0}
  PROVE  /\ Ring(i) \in Nat \ {0}
         /\ Slot(i) \in 1..8
         /\ i = 8 * (Ring(i) - 1) + Slot(i)
BY DEF Ring, Slot

\* The largest coordinate of a place is its ring.
Place(r, s) == << r * Direction[s][1], r * Direction[s][2] >>

LEMMA PlacesApart ==
  ASSUME NEW q \in Nat \ {0}, NEW r \in Nat \ {0}, NEW s \in 1..8, NEW t \in 1..8,
         q # r \/ s # t
  PROVE  Apart(Place(q, s), Place(r, t))
<1>1. /\ Place(q, 1) = <<q, 0>>  /\ Place(q, 2) = <<-q, 0>>
      /\ Place(q, 3) = <<0, q>>  /\ Place(q, 4) = <<0, -q>>
      /\ Place(q, 5) = <<q, q>>  /\ Place(q, 6) = <<-q, q>>
      /\ Place(q, 7) = <<-q, -q>> /\ Place(q, 8) = <<q, -q>>
  BY DEF Place, Direction
<1>2. /\ Place(r, 1) = <<r, 0>>  /\ Place(r, 2) = <<-r, 0>>
      /\ Place(r, 3) = <<0, r>>  /\ Place(r, 4) = <<0, -r>>
      /\ Place(r, 5) = <<r, r>>  /\ Place(r, 6) = <<-r, r>>
      /\ Place(r, 7) = <<-r, -r>> /\ Place(r, 8) = <<r, -r>>
  BY DEF Place, Direction
<1>3. \/ s = 1 \/ s = 2 \/ s = 3 \/ s = 4 \/ s = 5 \/ s = 6 \/ s = 7 \/ s = 8
  OBVIOUS
<1>4. \/ t = 1 \/ t = 2 \/ t = 3 \/ t = 4 \/ t = 5 \/ t = 6 \/ t = 7 \/ t = 8
  OBVIOUS
<1> QED
  BY <1>1, <1>2, <1>3, <1>4 DEF Apart

LEMMA PlaceFromOrigin ==
  ASSUME NEW r \in Nat \ {0}, NEW s \in 1..8
  PROVE  Apart(Place(r, s), <<0, 0>>) /\ Apart(<<0, 0>>, Place(r, s))
<1>1. /\ Place(r, 1) = <<r, 0>>  /\ Place(r, 2) = <<-r, 0>>
      /\ Place(r, 3) = <<0, r>>  /\ Place(r, 4) = <<0, -r>>
      /\ Place(r, 5) = <<r, r>>  /\ Place(r, 6) = <<-r, r>>
      /\ Place(r, 7) = <<-r, -r>> /\ Place(r, 8) = <<r, -r>>
  BY DEF Place, Direction
<1>2. \/ s = 1 \/ s = 2 \/ s = 3 \/ s = 4 \/ s = 5 \/ s = 6 \/ s = 7 \/ s = 8
  OBVIOUS
<1> QED
  BY <1>1, <1>2 DEF Apart

\* Any two join indices, the anchor's included, are drawn at least one
\* separation distance apart, however many scanners take part.
THEOREM RingSeparation ==
  \A i, j \in Nat : i # j => Apart(Offset(i), Offset(j))
<1> SUFFICES ASSUME NEW i \in Nat, NEW j \in Nat, i # j
             PROVE  Apart(Offset(i), Offset(j))
  OBVIOUS
<1>1. \A k \in Nat \ {0} : Offset(k) = Place(Ring(k), Slot(k))
  BY DEF Offset, Place
<1>2. Offset(0) = <<0, 0>>
  BY DEF Offset
<1>3. CASE i = 0
  BY <1>1, <1>2, <1>3, RingAndSlot, PlaceFromOrigin
<1>4. CASE j = 0
  <2>1. i \in Nat \ {0} /\ Ring(i) \in Nat \ {0} /\ Slot(i) \in 1..8
    BY <1>4, RingAndSlot
  <2>2. Apart(Place(Ring(i), Slot(i)), <<0, 0>>)
    BY <2>1, PlaceFromOrigin
  <2> QED
    BY <1>1, <1>2, <1>4, <2>1, <2>2
<1>5. CASE i # 0 /\ j # 0
  <2>1. /\ i \in Nat \ {0} /\ Ring(i) \in Nat \ {0} /\ Slot(i) \in 1..8
        /\ j \in Nat \ {0} /\ Ring(j) \in Nat \ {0} /\ Slot(j) \in 1..8
    BY <1>5, RingAndSlot
  <2>2. Ring(i) # Ring(j) \/ Slot(i) # Slot(j)
    BY <1>5, RingAndSlot
  <2>3. Apart(Place(Ring(i), Slot(i)), Place(Ring(j), Slot(j)))
    BY <2>1, <2>2, PlacesApart
  <2> QED
    BY <1>1, <2>1, <2>3
<1> QED
  BY <1>3, <1>4, <1>5

----------------------------------------------------------------------------
(* The operations of an engine.                                             *)

\* An unaligned scanner stands on the ring place of its index.
Placed(e) ==
  \A n \in Known(e) : e.sub[n].state = "UNALIGNED" =>
    e.sub[n].place = e.sub[n].index /\ e.sub[n].index # 0

WellKept(e) == e \in Engine /\ JoinOrdered(e) /\ Placed(e)

LEMMA EmptyKept == WellKept(Empty) /\ Known(Empty) = {}
<1>1. Empty.order \in Seq(Scanner) /\ Len(Empty.order) = 0
  BY EmptySeq DEF Empty
<1>2. Known(Empty) = {}
  BY DEF Known, Empty
<1> QED
  BY <1>1, <1>2 DEF WellKept, Engine, JoinOrdered, Placed, Empty

\* Two scanners never share an index, so their places are apart.
LEMMA KeptApart ==
  ASSUME NEW e, WellKept(e)
  PROVE  UnalignedApart(e)
<1>1. SUFFICES ASSUME NEW m \in Known(e), NEW n \in Known(e), m # n,
                      e.sub[m].state = "UNALIGNED"
               PROVE  /\ e.sub[n].state = "UNALIGNED" =>
                           Apart(Offset(e.sub[m].place), Offset(e.sub[n].place))
                      /\ e.sub[n].state = "ANCHOR" => Apart(Offset(e.sub[m].place), Offset(0))
  BY DEF UnalignedApart
<1>2. PICK i \in 1..Len(e.order), j \in 1..Len(e.order) : e.order[i] = m /\ e.order[j] = n
  BY DEF WellKept, JoinOrdered
<1>3. e.sub[m].index = i - 1 /\ e.sub[n].index = j - 1 /\ i # j
  BY <1>1, <1>2 DEF WellKept, JoinOrdered
<1>4. Len(e.order) \in Nat
  BY LenProperties DEF WellKept, Engine
<1>5. i - 1 \in Nat /\ j - 1 \in Nat /\ 0 \in Nat /\ i - 1 # j - 1
  BY <1>3, <1>4
<1>6. e.sub[m].place = i - 1 /\ i - 1 # 0
  BY <1>1, <1>3 DEF WellKept, Placed
<1>7. e.sub[n].state = "UNALIGNED" => e.sub[n].place = j - 1
  BY <1>3 DEF WellKept, Placed
<1> QED
  BY <1>5, <1>6, <1>7, RingSeparation

LEMMA NewKept ==
  ASSUME NEW e, WellKept(e), NEW n \in Scanner, n \notin Known(e),
         NEW anchor \in BOOLEAN, NEW cloud \in Cloud
  PROVE  WellKept(NewScanner(e, n, anchor, cloud))
<1> DEFINE i == Len(e.order)
           d == NewScanner(e, n, anchor, cloud)
           fixed == i = 0 \/ anchor
           new == [index |-> i, state |-> IF fixed THEN "ANCHOR" ELSE "UNALIGNED",
                   place |-> IF fixed THEN 0 ELSE i, frame |-> None, cloud |-> cloud]
<1>1. e.order \in Seq(Scanner) /\ e.sub \in [Scanner -> Submap \cup {None}] /\ i \in Nat
  BY LenProperties DEF WellKept, Engine
<1>2. new \in Submap /\ new # None
  BY <1>1, NoneAssumption DEF Submap, State
<1>3. d.order = Append(e.order, n) /\ d.sub = [e.sub EXCEPT ![n] = new]
  BY DEF NewScanner
<1>4. /\ d.order \in Seq(Scanner) /\ Len(d.order) = i + 1 /\ d.order[i + 1] = n
      /\ \A k \in 1..i : d.order[k] = e.order[k]
  BY <1>1, <1>3, AppendProperties
<1>5. d \in Engine
  <2>1. d.sub \in [Scanner -> Submap \cup {None}]
    BY <1>1, <1>2, <1>3
  <2> QED
    BY <1>4, <2>1 DEF Engine, NewScanner
<1>6. Known(d) = Known(e) \cup {n}
  BY <1>1, <1>2, <1>3 DEF Known
<1>7. /\ d.sub[n] = new
      /\ \A m \in Known(e) : d.sub[m] = e.sub[m]
  BY <1>1, <1>3 DEF Known
<1> HIDE DEF d
<1>8. JoinOrdered(d)
  <2>1. ASSUME NEW k \in 1..Len(d.order)
        PROVE  d.order[k] \in Known(d) /\ d.sub[d.order[k]].index = k - 1
    <3>1. CASE k = i + 1
      <4>1. d.order[k] = n
        BY <3>1, <1>4
      <4>2. d.sub[n].index = i
        BY <1>7
      <4>3. k - 1 = i
        BY <3>1, <1>1
      <4> QED
        BY <4>1, <4>2, <4>3, <1>6
    <3>2. CASE k # i + 1
      <4>1. k \in 1..i
        BY <3>2, <1>1, <1>4
      <4>2. d.order[k] = e.order[k] /\ e.order[k] \in Known(e) /\ e.sub[e.order[k]].index = k - 1
        BY <4>1, <1>4 DEF WellKept, JoinOrdered
      <4> QED
        BY <4>2, <1>6, <1>7
    <3> QED
      BY <3>1, <3>2
  <2>2. ASSUME NEW m \in Known(d)
        PROVE  \E k \in 1..Len(d.order) : d.order[k] = m
    <3>1. CASE m = n
      <4>1. i + 1 \in 1..Len(d.order)
        BY <1>1, <1>4
      <4> QED
        BY <3>1, <4>1, <1>4
    <3>2. CASE m \in Known(e)
      <4>1. PICK k \in 1..i : e.order[k] = m
        BY <3>2 DEF WellKept, JoinOrdered
      <4>2. k \in 1..Len(d.order)
        BY <1>1, <1>4
      <4> QED
        BY <4>1, <4>2, <1>4
    <3> QED
      BY <3>1, <3>2, <1>6
  <2> QED
    BY <2>1, <2>2 DEF JoinOrdered
<1>9. Placed(d)
  <2>1. new.state = "UNALIGNED" => new.place = new.index /\ new.index # 0
    OBVIOUS
  <2>2. \A m \in Known(e) : e.sub[m].state = "UNALIGNED" =>
          e.sub[m].place = e.sub[m].index /\ e.sub[m].index # 0
    BY DEF WellKept, Placed
  <2> HIDE DEF new
  <2> QED
    BY <2>1, <2>2, <1>6, <1>7 DEF Placed
<1> QED
  BY <1>5, <1>8, <1>9 DEF WellKept, d

LEMMA RegisterKept ==
  ASSUME NEW e, WellKept(e), NEW n \in Scanner, NEW anchor \in BOOLEAN
  PROVE  WellKept(RegisterScanner(e, n, anchor))
BY NewKept DEF RegisterScanner, Cloud

LEMMA StoreKept ==
  ASSUME NEW e, WellKept(e), NEW n \in Scanner, NEW cloud \in Cloud
  PROVE  WellKept(Store(e, n, cloud))
<1>1. CASE n \notin Known(e)
  BY <1>1, NewKept DEF Store
<1>2. CASE n \in Known(e)
  <2> DEFINE d == [e EXCEPT !.sub[n].cloud = cloud]
  <2>1. e.sub \in [Scanner -> Submap \cup {None}] /\ e.sub[n] \in Submap
    BY <1>2 DEF WellKept, Engine, Known
  <2> DEFINE new == [e.sub[n] EXCEPT !.cloud = cloud]
  <2>2. /\ new \in Submap /\ new # None
        /\ new.index = e.sub[n].index /\ new.state = e.sub[n].state /\ new.place = e.sub[n].place
    BY <2>1, NoneAssumption DEF Submap
  <2>3. d.order = e.order /\ d.sub = [e.sub EXCEPT ![n] = new] /\ d \in Engine
    <3>1. d.order = e.order /\ d.sub = [e.sub EXCEPT ![n] = new]
      BY DEF WellKept, Engine
    <3>2. d.sub \in [Scanner -> Submap \cup {None}]
      BY <2>1, <2>2, <3>1
    <3> QED
      BY <3>1, <3>2 DEF WellKept, Engine
  <2>4. d.sub[n] = new /\ \A m \in Scanner : m # n => d.sub[m] = e.sub[m]
    BY <2>1, <2>3
  <2> HIDE DEF d, new
  <2>5. Known(d) = Known(e)
    BY <1>2, <2>2, <2>4 DEF Known
  <2>6. \A m \in Known(e) : /\ d.sub[m].index = e.sub[m].index
                            /\ d.sub[m].state = e.sub[m].state
                            /\ d.sub[m].place = e.sub[m].place
    BY <2>2, <2>4 DEF Known
  <2>7. JoinOrdered(d) /\ Placed(d)
    BY <2>3, <2>5, <2>6 DEF WellKept, JoinOrdered, Placed
  <2> QED
    BY <1>2, <2>3, <2>7 DEF WellKept, Store, d
<1> QED
  BY <1>1, <1>2

LEMMA MapFrameType ==
  ASSUME NEW e, WellKept(e), Anchored(e) # {}
  PROVE  MapFrame(e) \in Scanner \cup {None}
<1> DEFINE First(i) == /\ e.order[i] \in Anchored(e)
                       /\ \A j \in 1..i - 1 : e.order[j] \notin Anchored(e)
           I == {i \in 1..Len(e.order) : e.order[i] \in Anchored(e)}
           first == CHOOSE i \in 1..Len(e.order) : First(i)
<1>1. Len(e.order) \in Nat
  BY LenProperties DEF WellKept, Engine
<1>2. I # {}
  BY DEF WellKept, JoinOrdered, Anchored
<1>3. PICK i \in I : \A j \in I : i <= j
  BY <1>1, <1>2, FirstPosition
<1>4. i \in 1..Len(e.order) /\ First(i)
  BY <1>1, <1>3
<1>5. first \in 1..Len(e.order) /\ First(first)
  BY <1>4
<1> HIDE DEF first
<1>6. e.order[first] \in Scanner /\ e.sub[e.order[first]] \in Submap
  BY <1>5 DEF WellKept, Engine, Anchored, Known
<1>7. e.sub[e.order[first]].frame \in Scanner \cup {None}
  BY <1>6 DEF Submap
<1>8. MapFrame(e) = IF e.sub[e.order[first]].state = "ANCHOR" THEN e.order[first]
                    ELSE e.sub[e.order[first]].frame
  BY DEF MapFrame, first
<1> QED
  BY <1>6, <1>7, <1>8

LEMMA ReachedNeedsMap ==
  ASSUME NEW e, NEW n \in Reached(e)
  PROVE  n \in Loose(e) /\ Anchored(e) # {}
<1>1. SUFFICES ASSUME Anchored(e) = {}
               PROVE  FALSE
  BY DEF Reached
<1>2. \A m \in Loose(e) : ~Meets(e, Anchored(e) \cup {}, m)
  BY <1>1 DEF Meets
<1>3. {} \in SUBSET Loose(e)
  OBVIOUS
<1> QED
  BY <1>2, <1>3 DEF Reached

\* Snapping changes the state and frame of unaligned scanners and nothing else.
LEMMA SnapKept ==
  ASSUME NEW e, WellKept(e)
  PROVE  /\ WellKept(Snap(e))
         /\ Known(Snap(e)) = Known(e)
         /\ \A n \in Known(e) : e.sub[n].state # "UNALIGNED" => Snap(e).sub[n] = e.sub[n]
<1> DEFINE d == Snap(e)
           new(n) == [e.sub[n] EXCEPT !.state = "LOCKED", !.frame = MapFrame(e)]
<1>1. e.sub \in [Scanner -> Submap \cup {None}]
  BY DEF WellKept, Engine
<1>2. ASSUME NEW n \in Reached(e)
      PROVE  /\ n \in Known(e) /\ e.sub[n].state = "UNALIGNED"
             /\ new(n) \in Submap /\ new(n) # None
             /\ new(n).index = e.sub[n].index /\ new(n).state = "LOCKED"
  <2>1. n \in Known(e) /\ e.sub[n].state = "UNALIGNED" /\ MapFrame(e) \in Scanner \cup {None}
    BY ReachedNeedsMap, MapFrameType DEF Loose
  <2>2. e.sub[n] \in Submap
    BY <1>1, <2>1 DEF Known
  <2>3. "LOCKED" \in State
    BY DEF State
  <2>4. new(n) \in Submap
    BY <2>1, <2>2, <2>3 DEF Submap
  <2> QED
    BY <2>1, <2>2, <2>4, NoneAssumption DEF Submap
<1>3. /\ d.order = e.order
      /\ d.sub = [n \in Scanner |-> IF n \in Reached(e) THEN new(n) ELSE e.sub[n]]
  BY DEF Snap, WellKept, Engine
<1>4. d \in Engine
  <2>1. d.sub \in [Scanner -> Submap \cup {None}]
    BY <1>1, <1>2, <1>3
  <2> QED
    BY <2>1 DEF Snap, WellKept, Engine
<1>5. \A n \in Scanner : d.sub[n] = IF n \in Reached(e) THEN new(n) ELSE e.sub[n]
  BY <1>3
<1> HIDE DEF d, new
<1>6. Known(d) = Known(e)
  BY <1>2, <1>5 DEF Known
<1>7. ASSUME NEW n \in Known(e)
      PROVE  /\ d.sub[n].index = e.sub[n].index
             /\ n \in Reached(e) \/ d.sub[n] = e.sub[n]
             /\ n \in Reached(e) => d.sub[n].state = "LOCKED" /\ e.sub[n].state = "UNALIGNED"
  BY <1>2, <1>5 DEF Known
<1>8. JoinOrdered(d)
  <2>1. d.order = e.order
    BY <1>3
  <2> QED
    BY <2>1, <1>6, <1>7 DEF WellKept, JoinOrdered
<1>9. ASSUME NEW n \in Known(d), d.sub[n].state = "UNALIGNED"
      PROVE  d.sub[n].place = d.sub[n].index /\ d.sub[n].index # 0
  <2>1. n \in Known(e) /\ d.sub[n] = e.sub[n]
    BY <1>6, <1>7, <1>9
  <2> QED
    BY <2>1, <1>9 DEF WellKept, Placed
<1>10. WellKept(d)
  BY <1>4, <1>8, <1>9 DEF WellKept, Placed
<1>11. ASSUME NEW n \in Known(e), e.sub[n].state # "UNALIGNED"
       PROVE  d.sub[n] = e.sub[n]
  BY <1>7, <1>11
<1> QED
  BY <1>6, <1>10, <1>11 DEF d

LEMMA IngestKept ==
  ASSUME NEW e, WellKept(e), NEW n \in Scanner, NEW cloud \in Cloud, NEW evaluate
  PROVE  WellKept(IngestSubmap(e, n, cloud, evaluate))
BY StoreKept, SnapKept DEF IngestSubmap

\* What an engine makes of any call keeps the scanners already snapped.
KeepsLocks(d, e) ==
  \A n \in Known(e) : e.sub[n].state = "LOCKED" =>
    d.sub[n].state = "LOCKED" /\ d.sub[n].frame = e.sub[n].frame

LEMMA NewKeepsLocks ==
  ASSUME NEW e, WellKept(e), NEW n \in Scanner, n \notin Known(e), NEW anchor, NEW cloud
  PROVE  KeepsLocks(NewScanner(e, n, anchor, cloud), e)
<1>1. e.sub \in [Scanner -> Submap \cup {None}]
  BY DEF WellKept, Engine
<1>2. \A m \in Known(e) : NewScanner(e, n, anchor, cloud).sub[m] = e.sub[m]
  BY <1>1 DEF NewScanner, Known
<1> QED
  BY <1>2 DEF KeepsLocks

LEMMA SnapKeepsLocks ==
  ASSUME NEW e, WellKept(e)
  PROVE  KeepsLocks(Snap(e), e)
BY SnapKept DEF KeepsLocks

LEMMA RegisterKeepsLocks ==
  ASSUME NEW e, WellKept(e), NEW n \in Scanner, NEW anchor
  PROVE  KeepsLocks(RegisterScanner(e, n, anchor), e)
BY NewKeepsLocks DEF RegisterScanner, KeepsLocks

LEMMA StoreKeepsLocks ==
  ASSUME NEW e, WellKept(e), NEW n \in Scanner, NEW cloud \in Cloud
  PROVE  KeepsLocks(Store(e, n, cloud), e) /\ Known(e) \subseteq Known(Store(e, n, cloud))
<1>1. e.sub \in [Scanner -> Submap \cup {None}]
  BY DEF WellKept, Engine
<1>2. CASE n \notin Known(e)
  <2>1. \A m \in Known(e) : NewScanner(e, n, FALSE, cloud).sub[m] = e.sub[m]
    BY <1>1, <1>2 DEF NewScanner, Known
  <2>2. Store(e, n, cloud) = NewScanner(e, n, FALSE, cloud)
    BY <1>2 DEF Store
  <2> QED
    BY <1>2, <2>1, <2>2, NewKeepsLocks DEF Known
<1>3. CASE n \in Known(e)
  <2> DEFINE d == [e EXCEPT !.sub[n].cloud = cloud]
             new == [e.sub[n] EXCEPT !.cloud = cloud]
  <2>1. d.sub = [e.sub EXCEPT ![n] = new]
    BY DEF WellKept, Engine
  <2>2. e.sub[n] \in Submap
    BY <1>1, <1>3 DEF Known
  <2>3. new.state = e.sub[n].state /\ new.frame = e.sub[n].frame /\ new # None
    BY <2>2, NoneAssumption DEF Submap
  <2>4. d.sub[n] = new /\ \A m \in Scanner : m # n => d.sub[m] = e.sub[m]
    BY <1>1, <2>1
  <2>5. Store(e, n, cloud) = d
    BY <1>3 DEF Store
  <2> HIDE DEF d
  <2>6. KeepsLocks(d, e)
    <3>1. \A m \in Known(e) : d.sub[m].state = e.sub[m].state /\ d.sub[m].frame = e.sub[m].frame
      BY <2>3, <2>4 DEF Known
    <3> QED
      BY <3>1 DEF KeepsLocks
  <2>7. Known(e) \subseteq Known(d)
    BY <2>3, <2>4 DEF Known
  <2> QED
    BY <2>5, <2>6, <2>7
<1> QED
  BY <1>2, <1>3

LEMMA IngestKeepsLocks ==
  ASSUME NEW e, WellKept(e), NEW n \in Scanner, NEW cloud \in Cloud, NEW evaluate
  PROVE  KeepsLocks(IngestSubmap(e, n, cloud, evaluate), e)
<1> DEFINE d == Store(e, n, cloud)
<1>1. KeepsLocks(d, e) /\ Known(e) \subseteq Known(d)
  BY StoreKeepsLocks
<1>2. WellKept(d)
  BY StoreKept
<1>3. KeepsLocks(Snap(d), d)
  BY <1>2, SnapKeepsLocks
<1>4. IngestSubmap(e, n, cloud, evaluate) = IF evaluate THEN Snap(d) ELSE d
  BY DEF IngestSubmap
<1> HIDE DEF d
<1>5. KeepsLocks(Snap(d), e)
  <2>1. SUFFICES ASSUME NEW m \in Known(e), e.sub[m].state = "LOCKED"
                 PROVE  Snap(d).sub[m].state = "LOCKED" /\ Snap(d).sub[m].frame = e.sub[m].frame
    BY DEF KeepsLocks
  <2>2. m \in Known(d) /\ d.sub[m].state = "LOCKED" /\ d.sub[m].frame = e.sub[m].frame
    BY <2>1, <1>1 DEF KeepsLocks
  <2> QED
    BY <2>2, <1>3 DEF KeepsLocks
<1> QED
  BY <1>1, <1>4, <1>5

----------------------------------------------------------------------------
(* The coordinator's engine in a session.                                   *)

UpMessage == [type : {"HELLO"}] \cup [type : {"JOIN"}, session : Int] \cup SubmapMessage

Counted == spent \in [Kinds -> Nat]

\* The inductive invariant: what is on its way to the coordinator is typed and
\* holds no alignment, and the coordinator's engine is well kept.
CoordinatorKept ==
  /\ engine = [h \in Host |-> engine[h]]
  /\ up \in [Participant -> Seq(UpMessage)]
  /\ WellKept(engine[Coord])
  /\ Counted

\* The coordinator's engine changes by the engine's own operations only.
CoordinatorStep ==
  \/ engine'[Coord] = engine[Coord]
  \/ engine'[Coord] = Empty
  \/ \E n \in Scanner, anchor \in BOOLEAN :
       /\ anchor => thread[Coord].stage = "create"
       /\ engine'[Coord] = RegisterScanner(engine[Coord], n, anchor)
  \/ \E n \in Scanner, x \in Cloud, evaluate \in BOOLEAN :
       engine'[Coord] = IngestSubmap(engine[Coord], n, x, evaluate)
  \/ engine'[Coord] = Snap(engine[Coord])

Tracked == /\ engine' = [h \in Host |-> engine'[h]]
           /\ up' \in [Participant -> Seq(UpMessage)]
           /\ CoordinatorStep

LEMMA CountedStep ==
  ASSUME Counted, [Next]_vars
  PROVE  Counted'
<1>1. \A k \in Kinds : Spend(k) => Counted'
  BY DEF Counted, Spend
<1>2. UNCHANGED spent => Counted'
  BY DEF Counted
<1>3. {"creates", "publishes", "triggers", "clears", "leaves", "sims"} = Kinds
  BY DEF Kinds
<1>4. User => Counted'
  BY <1>1, <1>2, <1>3 DEF User, CreateSession, JoinSession, LeaveSession,
     TriggerOverlapEvaluation, ClearScanners, PublishLocalSubmap, AddSimulatedScanner
<1>5. ASSUME NEW t \in Host, Work(t)
      PROVE  UNCHANGED spent
  BY <1>5 DEF Work, Evaluate, Announce, HandleHello, HandleJoin, DropJoin, HandleSubmap,
     HandleAlignment, SerializeSubmap, SendSubmap, SerializeGreeting, SendGreeting, Relay
<1>6. ASSUME NEW p \in Participant, Receive(p)
      PROVE  UNCHANGED spent
  BY <1>6 DEF Receive
<1>7. RegisterAnchor \/ UNCHANGED vars => UNCHANGED spent
  BY DEF RegisterAnchor, vars
<1> QED
  BY <1>2, <1>4, <1>5, <1>6, <1>7 DEF Next

LEMMA InitKept == Init => CoordinatorKept
<1>1. <<>> \in Seq(UpMessage)
  OBVIOUS
<1>2. Coord \in Host
  BY HostAssumption
<1> QED
  BY <1>1, <1>2, EmptyKept DEF Init, CoordinatorKept, Counted

LEMMA StepKept ==
  ASSUME CoordinatorKept, Counted', Tracked
  PROVE  CoordinatorKept'
<1>1. WellKept(engine'[Coord])
  BY EmptyKept, RegisterKept, IngestKept, SnapKept DEF CoordinatorKept, Tracked, CoordinatorStep
<1> QED
  BY <1>1 DEF CoordinatorKept, Tracked

LEMMA StepKeepsLocks ==
  ASSUME CoordinatorKept, Tracked
  PROVE  engine'[Coord] = Empty \/ KeepsLocks(engine'[Coord], engine[Coord])
<1>1. KeepsLocks(engine[Coord], engine[Coord])
  BY DEF KeepsLocks
<1> QED
  BY <1>1, RegisterKeepsLocks, IngestKeepsLocks, SnapKeepsLocks
     DEF CoordinatorKept, Tracked, CoordinatorStep

\* The first scanner of an engine that has one.
LEMMA FirstScanner ==
  ASSUME NEW e, WellKept(e), Known(e) # {}
  PROVE  e.sub[Head(e.order)].cloud \in Cloud
<1>1. PICK i \in 1..Len(e.order) : TRUE
  BY DEF WellKept, JoinOrdered
<1>2. e.order \in Seq(Scanner) /\ Len(e.order) \in Nat
  BY LenProperties DEF WellKept, Engine
<1>3. 1 \in 1..Len(e.order) /\ Head(e.order) = e.order[1]
  BY <1>1, <1>2
<1>4. Head(e.order) \in Known(e)
  BY <1>3 DEF WellKept, JoinOrdered
<1>5. e.sub[Head(e.order)] \in Submap
  BY <1>4 DEF WellKept, Engine, Known
<1> QED
  BY <1>5 DEF Submap

LEMMA Hosts ==
  /\ Coord \in Host /\ Coord \notin Participant
  /\ Participant \subseteq Host /\ Host \subseteq Scanner
BY HostAssumption DEF Participant

\* A step that leaves the coordinator's engine and the messages to it alone.
LEMMA ElsewhereTracked ==
  ASSUME CoordinatorKept, NEW h \in Host, h # Coord, NEW x,
         engine' = [engine EXCEPT ![h] = x],
         up' \in [Participant -> Seq(UpMessage)]
  PROVE  Tracked
<1>1. engine' = [k \in Host |-> engine'[k]] /\ engine'[Coord] = engine[Coord]
  BY Hosts DEF CoordinatorKept
<1> QED
  BY <1>1 DEF Tracked, CoordinatorStep

LEMMA HereTracked ==
  ASSUME CoordinatorKept, NEW x, engine' = [engine EXCEPT ![Coord] = x],
         up' \in [Participant -> Seq(UpMessage)]
  PROVE  engine' = [k \in Host |-> engine'[k]] /\ engine'[Coord] = x
BY Hosts DEF CoordinatorKept

LEMMA QuietTracked ==
  ASSUME CoordinatorKept, UNCHANGED engine, up' \in [Participant -> Seq(UpMessage)]
  PROVE  Tracked
BY DEF Tracked, CoordinatorStep, CoordinatorKept

\* What a worker reads is a message, and reading keeps the types.
LEMMA ReadsTyped ==
  ASSUME CoordinatorKept, NEW p \in Participant, NEW t, Reads(p, t)
  PROVE  /\ Head(up[p]) \in UpMessage /\ Head(up[p]).type = t
         /\ Consume(p) => up' \in [Participant -> Seq(UpMessage)]
<1>1. up[p] \in Seq(UpMessage) /\ up[p] # <<>>
  BY DEF CoordinatorKept, Reads
<1>2. Head(up[p]) \in UpMessage /\ Tail(up[p]) \in Seq(UpMessage)
  BY <1>1, HeadTailProperties
<1> QED
  BY <1>2 DEF CoordinatorKept, Reads, Consume

LEMMA SendUpTyped ==
  ASSUME CoordinatorKept, NEW p \in Participant, NEW m \in UpMessage,
         up' = [up EXCEPT ![p] = Append(@, m)]
  PROVE  up' \in [Participant -> Seq(UpMessage)]
<1>1. Append(up[p], m) \in Seq(UpMessage)
  BY AppendProperties DEF CoordinatorKept
<1> QED
  BY <1>1 DEF CoordinatorKept

LEMMA SameUpTyped ==
  ASSUME CoordinatorKept, UNCHANGED up
  PROVE  up' \in [Participant -> Seq(UpMessage)]
BY DEF CoordinatorKept

\* The calls of the user interface.
LEMMA UserTracked ==
  ASSUME CoordinatorKept, Triggering \subseteq {Coord}, User
  PROVE  Tracked
<1>1. CASE CreateSession
  <2>1. engine' = [engine EXCEPT ![Coord] = Empty] /\ UNCHANGED up
    BY <1>1 DEF CreateSession, network
  <2> QED
    BY <2>1, HereTracked, SameUpTyped DEF Tracked, CoordinatorStep
<1>2. ASSUME NEW p \in Participant, JoinSession(p)
      PROVE  Tracked
  <2> DEFINE hello == [type |-> "HELLO"]
             join  == [type |-> "JOIN", session |-> SessionId]
  <2>1. SessionId \in Int
    BY DEF SessionId, CoordinatorKept, Counted, Kinds
  <2>2. hello \in UpMessage /\ join \in UpMessage
    BY <2>1 DEF UpMessage
  <2>3. <<hello, join>> \in Seq(UpMessage)
    BY <2>2
  <2>4. up' = [up EXCEPT ![p] = <<hello, join>>] /\ engine' = [engine EXCEPT ![p] = Empty]
    BY <1>2 DEF JoinSession
  <2>5. up' \in [Participant -> Seq(UpMessage)]
    BY <2>3, <2>4 DEF CoordinatorKept
  <2> QED
    BY <2>4, <2>5, Hosts, ElsewhereTracked
<1>3. ASSUME NEW p \in Participant, LeaveSession(p)
      PROVE  Tracked
  <2>1. engine' = [engine EXCEPT ![p] = Empty] /\ UNCHANGED up
    BY <1>3 DEF LeaveSession
  <2> QED
    BY <2>1, Hosts, ElsewhereTracked, SameUpTyped
<1>4. ASSUME NEW n \in Host, TriggerOverlapEvaluation(n)
      PROVE  Tracked
  <2>1. n = Coord /\ UNCHANGED <<engine, up>>
    BY <1>4 DEF TriggerOverlapEvaluation
  <2> QED
    BY <2>1, QuietTracked, SameUpTyped
<1>5. ASSUME NEW n \in Host, ClearScanners(n)
      PROVE  Tracked
  <2>1. engine' = [engine EXCEPT ![n] = Empty] /\ UNCHANGED up
    BY <1>5 DEF ClearScanners, network
  <2> QED
    BY <2>1, Hosts, ElsewhereTracked, HereTracked, SameUpTyped DEF Tracked, CoordinatorStep
<1>6. ASSUME NEW n \in Host, NEW x \in Clouds[n], NEW force \in BOOLEAN,
             PublishLocalSubmap(n, x, force)
      PROVE  Tracked
  <2> DEFINE m == [type |-> "SUBMAP", scanner |-> n, cloud |-> x]
  <2>1. n \in Scanner /\ x \in Cloud
    BY Hosts, CloudsAssumption
  <2>2. m \in UpMessage
    BY <2>1 DEF UpMessage, SubmapMessage
  <2>3. engine' = [engine EXCEPT ![n] = IngestSubmap(engine[n], n, x, force)]
    BY <1>6 DEF PublishLocalSubmap
  <2>4. CASE n = Coord
    <3>1. UNCHANGED up
      BY <1>6, <2>4 DEF PublishLocalSubmap
    <3> QED
      BY <2>1, <2>3, <2>4, <3>1, HereTracked, SameUpTyped DEF Tracked, CoordinatorStep
  <2>5. CASE n # Coord
    <3>1. n \in Participant
      BY <2>5 DEF Participant
    <3>2. up' = [up EXCEPT ![n] = Append(@, m)] \/ UNCHANGED up
      BY <1>6, <2>5 DEF PublishLocalSubmap
    <3>3. up' \in [Participant -> Seq(UpMessage)]
      BY <2>2, <3>1, <3>2, SendUpTyped, SameUpTyped
    <3> QED
      BY <2>3, <2>5, <3>3, ElsewhereTracked
  <2> QED
    BY <2>4, <2>5
<1>7. ASSUME NEW n \in Host, NEW s \in Scanner \ Host, NEW x \in Clouds[s],
             NEW o \in BOOLEAN, AddSimulatedScanner(n, s, x, o)
      PROVE  Tracked
  <2> DEFINE first == engine[n].sub[Head(engine[n].order)].cloud
             seen  == IF o /\ first # {} THEN first ELSE x
  <2>1. engine' = [engine EXCEPT ![n] = IngestSubmap(engine[n], s, seen, o)]
        /\ UNCHANGED up /\ Known(engine[n]) # {}
    BY <1>7 DEF AddSimulatedScanner, network
  <2>2. CASE n # Coord
    BY <2>1, <2>2, ElsewhereTracked, SameUpTyped
  <2>3. CASE n = Coord
    <3>1. first \in Cloud
      BY <2>1, <2>3, FirstScanner DEF CoordinatorKept
    <3>2. x \in Cloud
      BY CloudsAssumption
    <3>3. seen \in Cloud
      BY <3>1, <3>2
    <3> HIDE DEF seen
    <3> QED
      BY <2>1, <2>3, <3>3, HereTracked, SameUpTyped DEF Tracked, CoordinatorStep
  <2> QED
    BY <2>2, <2>3
<1> QED
  BY <1>1, <1>2, <1>3, <1>4, <1>5, <1>6, <1>7 DEF User

\* The workers of the coordinator's connections.
LEMMA WorkTracked ==
  ASSUME CoordinatorKept, NEW t \in Host, Work(t)
  PROVE  Tracked
<1>1. CASE Evaluate(t)
  <2>1. engine' = [engine EXCEPT ![Coord] = Snap(engine[Coord])] /\ UNCHANGED up
    BY <1>1 DEF Evaluate, network
  <2> QED
    BY <2>1, HereTracked, SameUpTyped DEF Tracked, CoordinatorStep
<1>2. CASE Announce(t)
  <2>1. UNCHANGED <<engine, up>>
    BY <1>2 DEF Announce, engines
  <2> QED
    BY <2>1, QuietTracked, SameUpTyped
<1>3. CASE t # Coord /\ HandleHello(t)
  <2>1. t \in Participant /\ Reads(t, "HELLO") /\ Consume(t) /\ UNCHANGED engine
    BY <1>3 DEF HandleHello, engines, Participant
  <2> QED
    BY <2>1, ReadsTyped, QuietTracked
<1>4. CASE t # Coord /\ HandleJoin(t)
  <2>1. /\ t \in Participant /\ Reads(t, "JOIN") /\ Consume(t)
        /\ engine' = [engine EXCEPT ![Coord] = RegisterScanner(engine[Coord], t, FALSE)]
    BY <1>4 DEF HandleJoin, Participant
  <2>2. up' \in [Participant -> Seq(UpMessage)]
    BY <2>1, ReadsTyped
  <2>3. t \in Scanner /\ FALSE \in BOOLEAN
    BY Hosts
  <2> QED
    BY <2>1, <2>2, <2>3, HereTracked DEF Tracked, CoordinatorStep
<1>5. CASE t # Coord /\ DropJoin(t)
  <2>1. t \in Participant /\ Reads(t, "JOIN") /\ Consume(t) /\ UNCHANGED engine
    BY <1>5 DEF DropJoin, engines, Participant
  <2> QED
    BY <2>1, ReadsTyped, QuietTracked
<1>6. CASE t # Coord /\ HandleSubmap(t)
  <2> DEFINE m == Head(up[t])
  <2>1. /\ t \in Participant /\ Reads(t, "SUBMAP") /\ Consume(t)
        /\ engine' = [engine EXCEPT ![Coord] = IngestSubmap(engine[Coord], m.scanner, m.cloud, TRUE)]
    BY <1>6 DEF HandleSubmap, Participant
  <2>2. up' \in [Participant -> Seq(UpMessage)] /\ m \in UpMessage /\ m.type = "SUBMAP"
    BY <2>1, ReadsTyped
  <2>3. m.scanner \in Scanner /\ m.cloud \in Cloud
    BY <2>2 DEF UpMessage, SubmapMessage
  <2>4. TRUE \in BOOLEAN
    OBVIOUS
  <2> QED
    BY <2>1, <2>2, <2>3, <2>4, HereTracked DEF Tracked, CoordinatorStep
<1>7. CASE t # Coord /\ HandleAlignment(t)
  <2>1. t \in Participant /\ Reads(t, "ALIGNMENT")
    BY <1>7 DEF HandleAlignment, Participant
  <2>2. Head(up[t]) \in UpMessage /\ Head(up[t]).type = "ALIGNMENT"
    BY <2>1, ReadsTyped
  <2>3. FALSE
    BY <2>2 DEF UpMessage, SubmapMessage
  <2> QED
    BY <2>3
<1>8. CASE SerializeSubmap(t) \/ SendSubmap(t) \/ SerializeGreeting(t) \/ SendGreeting(t) \/ Relay(t)
  <2>1. UNCHANGED <<engine, up>>
    BY <1>8 DEF SerializeSubmap, SendSubmap, SerializeGreeting, SendGreeting, Relay,
       engines, network
  <2> QED
    BY <2>1, QuietTracked, SameUpTyped
<1> QED
  BY <1>1, <1>2, <1>3, <1>4, <1>5, <1>6, <1>7, <1>8 DEF Work

LEMMA NextTracked ==
  ASSUME CoordinatorKept, Triggering \subseteq {Coord}, [Next]_vars
  PROVE  Tracked
<1>1. CASE RegisterAnchor
  <2>1. engine' = [engine EXCEPT ![Coord] = RegisterScanner(engine[Coord], Coord, TRUE)]
        /\ UNCHANGED up /\ thread[Coord].stage = "create"
    BY <1>1 DEF RegisterAnchor
  <2>2. Coord \in Scanner /\ TRUE \in BOOLEAN
    BY Hosts
  <2> QED
    BY <2>1, <2>2, HereTracked, SameUpTyped DEF Tracked, CoordinatorStep
<1>2. ASSUME NEW p \in Participant, Receive(p)
      PROVE  Tracked
  <2>1. PICK x : engine' = [engine EXCEPT ![p] = x]
    BY <1>2 DEF Receive
  <2>2. UNCHANGED up
    BY <1>2 DEF Receive
  <2> QED
    BY <2>1, <2>2, Hosts, ElsewhereTracked, SameUpTyped
<1>3. CASE UNCHANGED vars
  BY <1>3, QuietTracked, SameUpTyped DEF vars
<1> QED
  BY <1>1, <1>2, <1>3, UserTracked, WorkTracked DEF Next

----------------------------------------------------------------------------
\* Whatever joins, recordings, clears, new sessions and simulated scanners
\* interleave, the coordinator's engine stays well kept.
THEOREM WellKeptAlways ==
  ASSUME Triggering \subseteq {Coord}
  PROVE  Spec => []CoordinatorKept
<1>1. CoordinatorKept /\ [Next]_vars => CoordinatorKept'
  <2>1. SUFFICES ASSUME CoordinatorKept, [Next]_vars
                 PROVE  CoordinatorKept'
    OBVIOUS
  <2>2. Counted'
    BY <2>1, CountedStep DEF CoordinatorKept
  <2> QED
    BY <2>1, <2>2, NextTracked, StepKept
<1> QED
  BY <1>1, InitKept, PTL DEF Spec

\* The coordinator's indices are the join order (registerOrUpdateNode and
\* ingestSubmap number the scanners they add).
THEOREM JoinOrder ==
  ASSUME Triggering \subseteq {Coord}
  PROVE  Spec => []CoordinatorInJoinOrder
<1>1. CoordinatorKept => CoordinatorInJoinOrder
  BY DEF CoordinatorKept, WellKept, CoordinatorInJoinOrder
<1> QED
  BY <1>1, WellKeptAlways, PTL

\* Scanners the coordinator has not aligned are drawn apart from each other
\* and from its anchor, however many there are (computeSeparationOffset).
THEOREM DrawnApart ==
  ASSUME Triggering \subseteq {Coord}
  PROVE  Spec => []CoordinatorApart
<1>1. CoordinatorKept => CoordinatorApart
  BY KeptApart DEF CoordinatorKept, CoordinatorApart
<1> QED
  BY <1>1, WellKeptAlways, PTL

\* A scanner that has snapped to the coordinator's map keeps its frame until
\* the map is cleared (evaluateAndSnapOverlapsUnlocked, ingestSubmap).
THEOREM LocksStay ==
  ASSUME Triggering \subseteq {Coord}
  PROVE  Spec => LocksPersist
<1> DEFINE Stays == \A n \in Scanner :
       (n \in Known(engine[Coord]) /\ engine[Coord].sub[n].state = "LOCKED") =>
         \/ engine[Coord]' = Empty
         \/ engine[Coord]'.sub[n].state = "LOCKED"
            /\ engine[Coord]'.sub[n].frame = engine[Coord].sub[n].frame
<1>1. CoordinatorKept /\ [Next]_vars => [Stays]_vars
  <2>1. SUFFICES ASSUME CoordinatorKept, [Next]_vars
                 PROVE  Stays
    OBVIOUS
  <2>2. engine'[Coord] = Empty \/ KeepsLocks(engine'[Coord], engine[Coord])
    BY <2>1, NextTracked, StepKeepsLocks
  <2> QED
    BY <2>2 DEF KeepsLocks
<1>2. LocksPersist <=> [][Stays]_vars
  BY DEF LocksPersist
<1> QED
  BY <1>1, <1>2, WellKeptAlways, PTL DEF Spec

----------------------------------------------------------------------------
(* One map: with a single session, the coordinator's engine has one anchor,  *)
(* its first scanner, and everything aligned leads into that frame.          *)

OneFrame(e) ==
  \A n \in Known(e) : /\ e.sub[n].state = "ANCHOR" => e.sub[n].index = 0
                      /\ e.sub[n].state = "LOCKED" => e.sub[n].frame = e.order[1]

LEMMA OneFrameIsOneMap ==
  ASSUME NEW e, WellKept(e), OneFrame(e)
  PROVE  OneMap(e)
<1>1. SUFFICES ASSUME NEW m \in Known(e), NEW n \in Known(e), e.sub[m].state = "ANCHOR"
               PROVE  /\ e.sub[n].state = "ANCHOR" => m = n
                      /\ e.sub[m].index = 0
                      /\ e.sub[n].state = "LOCKED" => e.sub[n].frame = m
  BY DEF OneMap
<1>2. e.sub[m].index = 0 /\ (e.sub[n].state = "ANCHOR" => e.sub[n].index = 0)
  BY <1>1 DEF OneFrame
<1>3. PICK i \in 1..Len(e.order), j \in 1..Len(e.order) : e.order[i] = m /\ e.order[j] = n
  BY DEF WellKept, JoinOrdered
<1>4. e.sub[m].index = i - 1 /\ e.sub[n].index = j - 1 /\ i \in Int /\ j \in Int
  BY <1>3 DEF WellKept, JoinOrdered
<1>5. i = 1 /\ e.order[1] = m /\ (e.sub[n].state = "ANCHOR" => j = 1)
  BY <1>2, <1>3, <1>4
<1> QED
  BY <1>1, <1>2, <1>3, <1>5 DEF OneFrame

LEMMA NewOneFrame ==
  ASSUME NEW e, WellKept(e), OneFrame(e), NEW n \in Scanner, n \notin Known(e),
         NEW anchor \in BOOLEAN, anchor => e = Empty, NEW cloud \in Cloud
  PROVE  OneFrame(NewScanner(e, n, anchor, cloud))
<1> DEFINE i == Len(e.order)
           d == NewScanner(e, n, anchor, cloud)
<1>1. e.order \in Seq(Scanner) /\ e.sub \in [Scanner -> Submap \cup {None}] /\ i \in Nat
  BY LenProperties DEF WellKept, Engine
<1>2. anchor => i = 0
  BY DEF Empty
<1>3. d.sub[n].index = i /\ (d.sub[n].state = "ANCHOR" => i = 0) /\ d.sub[n].state # "LOCKED"
  BY <1>1, <1>2 DEF NewScanner
<1>4. \A m \in Known(d) : m # n => m \in Known(e) /\ d.sub[m] = e.sub[m]
  BY <1>1 DEF NewScanner, Known
<1>5. i # 0 => d.order[1] = e.order[1]
  <2>1. d.order = Append(e.order, n)
    BY DEF NewScanner
  <2> QED
    BY <1>1, <2>1, AppendProperties
<1>6. i = 0 => Known(e) = {}
  BY DEF WellKept, JoinOrdered
<1> HIDE DEF d
<1> QED
  BY <1>3, <1>4, <1>5, <1>6 DEF OneFrame, d

LEMMA StoreOneFrame ==
  ASSUME NEW e, WellKept(e), OneFrame(e), NEW n \in Scanner, NEW cloud \in Cloud
  PROVE  OneFrame(Store(e, n, cloud))
<1>1. CASE n \notin Known(e)
  <2>1. FALSE \in BOOLEAN /\ (FALSE => e = Empty)
    OBVIOUS
  <2> QED
    BY <1>1, <2>1, NewOneFrame DEF Store
<1>2. CASE n \in Known(e)
  <2> DEFINE d == [e EXCEPT !.sub[n].cloud = cloud]
             new == [e.sub[n] EXCEPT !.cloud = cloud]
  <2>1. e.sub \in [Scanner -> Submap \cup {None}] /\ e.sub[n] \in Submap
    BY <1>2 DEF WellKept, Engine, Known
  <2>2. /\ new.index = e.sub[n].index /\ new.state = e.sub[n].state /\ new.frame = e.sub[n].frame
    BY <2>1 DEF Submap
  <2>3. d.order = e.order /\ d.sub = [e.sub EXCEPT ![n] = new]
    BY DEF WellKept, Engine
  <2>4. d.sub[n] = new /\ \A m \in Scanner : m # n => d.sub[m] = e.sub[m]
    BY <2>1, <2>3
  <2>5. Store(e, n, cloud) = d
    BY <1>2 DEF Store
  <2> HIDE DEF d, new
  <2>6. ASSUME NEW m \in Known(d)
        PROVE  /\ m \in Known(e) /\ d.sub[m].index = e.sub[m].index
               /\ d.sub[m].state = e.sub[m].state /\ d.sub[m].frame = e.sub[m].frame
    BY <1>2, <2>2, <2>4 DEF Known
  <2> QED
    BY <2>3, <2>5, <2>6 DEF OneFrame
<1> QED
  BY <1>1, <1>2

\* The first scanner of the anchored map leads to the frame of the first of all.
LEMMA MapFrameIsFirst ==
  ASSUME NEW e, WellKept(e), OneFrame(e), Anchored(e) # {}
  PROVE  MapFrame(e) = e.order[1]
<1> DEFINE First(i) == /\ e.order[i] \in Anchored(e)
                       /\ \A j \in 1..i - 1 : e.order[j] \notin Anchored(e)
           I == {i \in 1..Len(e.order) : e.order[i] \in Anchored(e)}
           first == CHOOSE i \in 1..Len(e.order) : First(i)
<1>1. Len(e.order) \in Nat
  BY LenProperties DEF WellKept, Engine
<1>2. I # {}
  BY DEF WellKept, JoinOrdered, Anchored
<1>3. PICK i \in I : \A j \in I : i <= j
  BY <1>1, <1>2, FirstPosition
<1>4. i \in 1..Len(e.order) /\ First(i)
  BY <1>1, <1>3
<1>5. first \in 1..Len(e.order) /\ First(first)
  BY <1>4
<1> HIDE DEF first
<1>6. MapFrame(e) = IF e.sub[e.order[first]].state = "ANCHOR" THEN e.order[first]
                    ELSE e.sub[e.order[first]].frame
  BY DEF MapFrame, first
<1>7. /\ e.order[first] \in Known(e) /\ e.sub[e.order[first]].state # "UNALIGNED"
      /\ e.sub[e.order[first]].index = first - 1 /\ e.sub[e.order[first]] \in Submap
  BY <1>5 DEF WellKept, JoinOrdered, Anchored, Known, Engine
<1>8. CASE e.sub[e.order[first]].state = "ANCHOR"
  <2>1. first = 1
    BY <1>5, <1>7, <1>8 DEF OneFrame
  <2> QED
    BY <1>6, <1>8, <2>1
<1>9. CASE e.sub[e.order[first]].state # "ANCHOR"
  <2>1. e.sub[e.order[first]].state = "LOCKED"
    BY <1>7, <1>9 DEF Submap, State
  <2> QED
    BY <1>6, <1>7, <1>9, <2>1 DEF OneFrame
<1> QED
  BY <1>8, <1>9

LEMMA SnapOneFrame ==
  ASSUME NEW e, WellKept(e), OneFrame(e)
  PROVE  OneFrame(Snap(e))
<1> DEFINE d == Snap(e)
           new(n) == [e.sub[n] EXCEPT !.state = "LOCKED", !.frame = MapFrame(e)]
<1>1. /\ d.order = e.order /\ e.sub \in [Scanner -> Submap \cup {None}]
      /\ d.sub = [n \in Scanner |-> IF n \in Reached(e) THEN new(n) ELSE e.sub[n]]
  BY DEF Snap, WellKept, Engine
<1>2. ASSUME NEW n \in Known(e), n \in Reached(e)
      PROVE  d.sub[n].state = "LOCKED" /\ d.sub[n].frame = e.order[1]
  <2>1. e.sub[n] \in Submap
    BY <1>1 DEF Known
  <2>2. MapFrame(e) = e.order[1]
    BY <1>2, ReachedNeedsMap, MapFrameIsFirst
  <2>3. d.sub[n] = new(n)
    BY <1>1, <1>2 DEF Known
  <2> QED
    BY <2>1, <2>2, <2>3 DEF Submap
<1>3. \A n \in Scanner : n \notin Reached(e) => d.sub[n] = e.sub[n]
  BY <1>1
<1>4. Known(d) = Known(e) /\ Known(e) \subseteq Scanner
  BY SnapKept DEF Known
<1> HIDE DEF d
<1>5. ASSUME NEW n \in Known(d)
      PROVE  /\ d.sub[n].state = "ANCHOR" => d.sub[n].index = 0
             /\ d.sub[n].state = "LOCKED" => d.sub[n].frame = d.order[1]
  <2>1. CASE n \in Reached(e)
    BY <1>1, <1>2, <1>4, <2>1
  <2>2. CASE n \notin Reached(e)
    BY <1>1, <1>3, <1>4, <2>2 DEF OneFrame
  <2> QED
    BY <2>1, <2>2
<1> QED
  BY <1>5 DEF OneFrame, d

LEMMA IngestOneFrame ==
  ASSUME NEW e, WellKept(e), OneFrame(e), NEW n \in Scanner, NEW cloud \in Cloud, NEW evaluate
  PROVE  OneFrame(IngestSubmap(e, n, cloud, evaluate))
BY StoreOneFrame, StoreKept, SnapOneFrame DEF IngestSubmap

LEMMA RegisterOneFrame ==
  ASSUME NEW e, WellKept(e), OneFrame(e), NEW n \in Scanner, NEW anchor \in BOOLEAN,
         anchor => e = Empty
  PROVE  OneFrame(RegisterScanner(e, n, anchor))
BY NewOneFrame DEF RegisterScanner, Cloud

----------------------------------------------------------------------------
\* Before the coordinator has registered itself nobody is in the session and
\* nothing is on its way; while it registers, its engine is empty.
Early ==
  /\ thread = [h \in Host |-> thread[h]]
  /\ spent["creates"] = 0 => Coord \notin member
  /\ Coord \notin member =>
       member = {} /\ \A p \in Participant : up[p] = <<>> /\ thread[p] = Idle
  /\ thread[Coord].stage = "create" =>
       Coord \notin member /\ engine[Coord] = Empty /\ spent["creates"] # 0

Creates == spent["creates"]

LEMMA InitEarly == Init => Early
BY HostAssumption DEF Init, Early, Idle, Kinds, Participant

LEMMA EarlySame ==
  ASSUME Early, UNCHANGED <<member, up, thread, Creates>>, engine'[Coord] = engine[Coord]
  PROVE  Early'
BY DEF Early, Creates

LEMMA EarlyInSession ==
  ASSUME Coord \in member', thread'[Coord].stage # "create", Creates' # 0,
         thread' = [h \in Host |-> thread'[h]]
  PROVE  Early'
BY DEF Early, Creates

LEMMA EarlyUi ==
  ASSUME Early, UNCHANGED <<member, up, Creates>>, thread'[Coord].stage # "create",
         thread' = [h \in Host |-> thread'[h]],
         \A p \in Participant : thread'[p] = thread[p]
  PROVE  Early'
BY DEF Early, Creates

LEMMA SpendCreates ==
  ASSUME Counted, NEW k \in Kinds, Spend(k)
  PROVE  Creates' = IF k = "creates" THEN Creates + 1 ELSE Creates
BY DEF Counted, Spend, Creates, Kinds

LEMMA ContinueAt ==
  ASSUME Early, NEW t \in Host, NEW next, Continue(t, next)
  PROVE  /\ thread' = [h \in Host |-> thread'[h]]
         /\ thread'[t] = next
         /\ \A h \in Host : h # t => thread'[h] = thread[h]
BY DEF Early, Continue

LEMMA EngineElsewhere ==
  ASSUME CoordinatorKept, NEW h \in Host, h # Coord, NEW x, engine' = [engine EXCEPT ![h] = x]
  PROVE  engine'[Coord] = engine[Coord]
BY Hosts DEF CoordinatorKept

LEMMA IdleStage == Idle.stage = "idle"
BY DEF Idle

LEMMA UserEarly ==
  ASSUME CoordinatorKept, Early, Triggering \subseteq {Coord}, MaxCreates <= 1, User
  PROVE  Early'
<1>0. Counted /\ Creates \in Nat /\ MaxCreates \in Nat
  BY BoundsAssumption DEF CoordinatorKept, Counted, Creates, Kinds
<1>1. CASE CreateSession
  <2> DEFINE create == [stage |-> "create"]
  <2>1. /\ Spend("creates") /\ engine' = [engine EXCEPT ![Coord] = Empty]
        /\ Continue(Coord, create) /\ UNCHANGED <<member, up>> /\ thread[Coord] = Idle
    BY <1>1 DEF CreateSession, network, UiFree
  <2>2. Creates < MaxCreates /\ Creates' = Creates + 1
    BY <1>0, <2>1, SpendCreates DEF Spend, Bound, Creates, Kinds
  <2>3. engine'[Coord] = Empty
    BY <2>1, Hosts DEF CoordinatorKept
  <2>4. /\ thread' = [h \in Host |-> thread'[h]]
        /\ \A p \in Participant : thread'[p] = thread[p]
    BY <2>1, Hosts, ContinueAt
  <2>5. Coord \notin member
    <3>1. spent["creates"] = 0
      BY <1>0, <2>2 DEF Creates
    <3> QED
      BY <3>1 DEF Early
  <2>6. spent'["creates"] # 0
    BY <1>0, <2>2 DEF Creates
  <2>7. member' = {} /\ \A p \in Participant : up'[p] = <<>> /\ thread'[p] = Idle
    BY <2>1, <2>4, <2>5 DEF Early
  <2> QED
    BY <2>3, <2>4, <2>6, <2>7 DEF Early
<1>2. ASSUME NEW p \in Participant, JoinSession(p)
      PROVE  Early'
  <2>1. Coord \in member /\ Coord \in member' /\ UNCHANGED <<thread, spent>>
    BY <1>2 DEF JoinSession
  <2>2. Creates' # 0 /\ thread[Coord].stage # "create"
    BY <2>1 DEF Early, Creates
  <2> QED
    BY <2>1, <2>2, EarlyInSession DEF Early
<1>3. ASSUME NEW p \in Participant, LeaveSession(p)
      PROVE  Early'
  <2>1. /\ Coord \in member <=> Coord \in member'
        /\ member' \subseteq member /\ UNCHANGED <<thread, up>> /\ p \in member
    BY <1>3, Hosts DEF LeaveSession
  <2>2. UNCHANGED Creates
    BY <1>0, <1>3, SpendCreates DEF LeaveSession, Kinds
  <2>3. Coord \in member
    BY <2>1 DEF Early
  <2> QED
    BY <2>1, <2>2, <2>3, EarlyInSession DEF Early, Creates
<1>4. ASSUME NEW n \in Host, TriggerOverlapEvaluation(n)
      PROVE  Early'
  <2> DEFINE next == [stage |-> "evaluate", relay |-> None]
  <2>1. n = Coord /\ Continue(n, next) /\ UNCHANGED <<up, member>> /\ Spend("triggers")
    BY <1>4 DEF TriggerOverlapEvaluation
  <2>2. UNCHANGED Creates
    BY <1>0, <2>1, SpendCreates DEF Kinds
  <2>3. thread'[Coord].stage = "evaluate" /\ thread' = [h \in Host |-> thread'[h]]
        /\ \A p \in Participant : thread'[p] = thread[p]
    BY <2>1, Hosts, ContinueAt
  <2> QED
    BY <2>1, <2>2, <2>3, EarlyUi
<1>5. ASSUME NEW n \in Host, ClearScanners(n)
      PROVE  Early'
  <2>1. /\ engine' = [engine EXCEPT ![n] = Empty] /\ UNCHANGED <<thread, up, member>>
        /\ Spend("clears") /\ UiFree(n)
    BY <1>5 DEF ClearScanners, network
  <2>2. UNCHANGED Creates
    BY <1>0, <2>1, SpendCreates DEF Kinds
  <2>3. CASE n = Coord
    <3>1. thread'[Coord].stage # "create"
      BY <2>1, <2>3, IdleStage DEF UiFree
    <3> QED
      BY <2>1, <2>2, <3>1, EarlyUi DEF Early
  <2>4. CASE n # Coord
    BY <2>1, <2>2, <2>4, EngineElsewhere, EarlySame
  <2> QED
    BY <2>3, <2>4
<1>6. ASSUME NEW n \in Host, NEW x \in Clouds[n], NEW force \in BOOLEAN,
             PublishLocalSubmap(n, x, force)
      PROVE  Early'
  <2>1. /\ Spend("publishes") /\ UiFree(n) /\ UNCHANGED member
        /\ engine' = [engine EXCEPT ![n] = IngestSubmap(engine[n], n, x, force)]
    BY <1>6 DEF PublishLocalSubmap
  <2>2. UNCHANGED Creates
    BY <1>0, <2>1, SpendCreates DEF Kinds
  <2>3. CASE n = Coord
    <3>1. UNCHANGED up /\ thread[Coord] = Idle
      BY <1>6, <2>1, <2>3 DEF PublishLocalSubmap, UiFree
    <3>2. CASE force
      <4> DEFINE next == [stage |-> "evaluate", relay |-> None]
      <4>1. Continue(Coord, next)
        BY <1>6, <2>3, <3>2 DEF PublishLocalSubmap
      <4>2. thread'[Coord].stage = "evaluate" /\ thread' = [h \in Host |-> thread'[h]]
            /\ \A p \in Participant : thread'[p] = thread[p]
        BY <4>1, Hosts, ContinueAt
      <4> QED
        BY <2>1, <2>2, <3>1, <4>2, EarlyUi
    <3>3. CASE ~force
      <4>1. UNCHANGED thread
        BY <1>6, <3>3 DEF PublishLocalSubmap
      <4>2. thread'[Coord].stage # "create"
        BY <3>1, <4>1, IdleStage
      <4> QED
        BY <2>1, <2>2, <3>1, <4>1, <4>2, EarlyUi DEF Early
    <3> QED
      BY <3>2, <3>3
  <2>4. CASE n # Coord
    <3>1. UNCHANGED thread /\ engine'[Coord] = engine[Coord]
      BY <1>6, <2>1, <2>4, EngineElsewhere DEF PublishLocalSubmap
    <3>2. CASE Coord \in member
      <4>1. Creates' # 0 /\ thread'[Coord].stage # "create"
        BY <2>2, <3>1, <3>2 DEF Early, Creates
      <4> QED
        BY <2>1, <3>1, <3>2, <4>1, EarlyInSession DEF Early
    <3>3. CASE Coord \notin member
      <4>1. n \notin member
        BY <3>3 DEF Early
      <4>2. UNCHANGED up
        BY <1>6, <2>4, <4>1 DEF PublishLocalSubmap
      <4> QED
        BY <2>1, <2>2, <3>1, <4>2, EarlySame
    <3> QED
      BY <3>2, <3>3
  <2> QED
    BY <2>3, <2>4
<1>7. ASSUME NEW n \in Host, NEW s \in Scanner \ Host, NEW x \in Clouds[s],
             NEW o \in BOOLEAN, AddSimulatedScanner(n, s, x, o)
      PROVE  Early'
  <2>1. /\ Spend("sims") /\ UiFree(n) /\ UNCHANGED <<member, up, thread>>
        /\ \E y : engine' = [engine EXCEPT ![n] = y]
    BY <1>7 DEF AddSimulatedScanner, network
  <2>2. UNCHANGED Creates
    BY <1>0, <2>1, SpendCreates DEF Kinds
  <2>3. CASE n = Coord
    <3>1. thread'[Coord].stage # "create"
      BY <2>1, <2>3, IdleStage DEF UiFree
    <3> QED
      BY <2>1, <2>2, <3>1, EarlyUi DEF Early
  <2>4. CASE n # Coord
    BY <2>1, <2>2, <2>4, EngineElsewhere, EarlySame
  <2> QED
    BY <2>3, <2>4
<1> QED
  BY <1>1, <1>2, <1>3, <1>4, <1>5, <1>6, <1>7 DEF User

LEMMA NextEarly ==
  ASSUME CoordinatorKept, Early, Triggering \subseteq {Coord}, MaxCreates <= 1, [Next]_vars
  PROVE  Early'
<1>1. CASE RegisterAnchor
  <2>1. /\ thread[Coord].stage = "create" /\ Coord \in member' /\ UNCHANGED spent
        /\ Continue(Coord, Idle)
    BY <1>1 DEF RegisterAnchor
  <2>2. thread' = [h \in Host |-> thread'[h]] /\ thread'[Coord].stage # "create"
    BY <2>1, Hosts, ContinueAt, IdleStage
  <2>3. Creates' # 0
    BY <2>1 DEF Early, Creates
  <2> QED
    BY <2>1, <2>2, <2>3, EarlyInSession
<1>2. ASSUME NEW p \in Participant, Receive(p)
      PROVE  Early'
  <2>1. PICK y : engine' = [engine EXCEPT ![p] = y]
    BY <1>2 DEF Receive
  <2>2. UNCHANGED <<member, up, thread, Creates>>
    BY <1>2 DEF Receive, Creates
  <2> QED
    BY <2>1, <2>2, Hosts, EngineElsewhere, EarlySame
<1>3. ASSUME NEW t \in Host, Work(t), t # Coord
      PROVE  Early'
  <2>1. t \in Participant
    BY <1>3 DEF Participant
  <2>2. UNCHANGED <<member, Creates>>
    BY <1>3 DEF Work, Evaluate, Announce, HandleHello, HandleJoin, DropJoin, HandleSubmap,
       HandleAlignment, SerializeSubmap, SendSubmap, SerializeGreeting, SendGreeting, Relay,
       Creates, network
  <2>3. ~(thread[t] = Idle /\ up[t] = <<>>)
    <3>1. SUFFICES ASSUME thread[t] = Idle, up[t] = <<>>
                   PROVE  FALSE
      OBVIOUS
    <3>2. thread[t].stage = "idle"
      BY <3>1, IdleStage
    <3> QED
      BY <1>3, <3>1, <3>2 DEF Work, Evaluate, Announce, HandleHello, HandleJoin, DropJoin,
         HandleSubmap, HandleAlignment, SerializeSubmap, SendSubmap, SerializeGreeting,
         SendGreeting, Relay, Reads
  <2>4. Coord \in member
    BY <2>1, <2>3 DEF Early
  <2>5. (\E next : Continue(t, next)) \/ UNCHANGED thread
    BY <1>3 DEF Work, Evaluate, Announce, HandleHello, HandleJoin, DropJoin, HandleSubmap,
       HandleAlignment, SerializeSubmap, SendSubmap, SerializeGreeting, SendGreeting, Relay
  <2>6. thread' = [h \in Host |-> thread'[h]] /\ thread'[Coord] = thread[Coord]
    BY <1>3, <2>5, Hosts, ContinueAt DEF Early
  <2>7. Creates' # 0 /\ thread'[Coord].stage # "create"
    BY <2>2, <2>4, <2>6 DEF Early, Creates
  <2> QED
    BY <2>2, <2>4, <2>6, <2>7, EarlyInSession
<1>4. CASE Evaluate(Coord) \/ Announce(Coord)
  <2>1. PICK next : Continue(Coord, next) /\ next.stage # "create"
    <3>1. CASE Evaluate(Coord)
      BY <3>1 DEF Evaluate
    <3>2. CASE Announce(Coord)
      <4>1. Idle.stage # "create" /\ [stage |-> "relay", msg |-> thread[Coord].relay].stage # "create"
        BY IdleStage
      <4> QED
        BY <3>2, <4>1 DEF Announce
    <3> QED
      BY <1>4, <3>1, <3>2
  <2>2. UNCHANGED <<member, up, Creates>>
    BY <1>4 DEF Evaluate, Announce, Creates, network
  <2>3. thread'[Coord].stage # "create" /\ thread' = [h \in Host |-> thread'[h]]
        /\ \A p \in Participant : thread'[p] = thread[p]
    BY <2>1, Hosts, ContinueAt
  <2> QED
    BY <2>2, <2>3, EarlyUi
<1>5. CASE UNCHANGED vars
  BY <1>5, EarlySame DEF vars, Creates
<1> QED
  BY <1>1, <1>2, <1>3, <1>4, <1>5, UserEarly DEF Next, Work

\* With one session per run the coordinator's map has one anchor, its first
\* scanner, and one frame (registerScanner, evaluateAndSnapOverlapsUnlocked).
THEOREM OneMapAlways ==
  ASSUME Triggering \subseteq {Coord}, MaxCreates <= 1
  PROVE  Spec => []CoordinatorOneMap
<1> DEFINE I == CoordinatorKept /\ Early /\ OneFrame(engine[Coord])
<1>1. Init => I
  <2>1. SUFFICES ASSUME Init
                 PROVE  I
    OBVIOUS
  <2>2. engine[Coord] = Empty
    BY <2>1, Hosts DEF Init
  <2>3. OneFrame(Empty)
    BY EmptyKept DEF OneFrame
  <2> QED
    BY <2>1, <2>2, <2>3, InitKept, InitEarly
<1>2. I /\ [Next]_vars => I'
  <2>1. SUFFICES ASSUME I, [Next]_vars
                 PROVE  I'
    OBVIOUS
  <2>2. Tracked /\ CoordinatorKept'
    BY <2>1, NextTracked, CountedStep, StepKept DEF CoordinatorKept
  <2>3. Early'
    BY <2>1, NextEarly
  <2>4. WellKept(engine[Coord]) /\ OneFrame(engine[Coord])
    BY <2>1 DEF CoordinatorKept
  <2>5. OneFrame(Empty)
    BY EmptyKept DEF OneFrame
  <2>6. ASSUME NEW n \in Scanner, NEW anchor \in BOOLEAN,
               anchor => thread[Coord].stage = "create",
               engine'[Coord] = RegisterScanner(engine[Coord], n, anchor)
        PROVE  OneFrame(engine'[Coord])
    <3>1. anchor => engine[Coord] = Empty
      BY <2>1, <2>6 DEF Early
    <3> QED
      BY <2>4, <2>6, <3>1, RegisterOneFrame
  <2>7. OneFrame(engine'[Coord])
    BY <2>2, <2>4, <2>5, <2>6, IngestOneFrame, SnapOneFrame DEF Tracked, CoordinatorStep
  <2> QED
    BY <2>2, <2>3, <2>7
<1>3. I => CoordinatorOneMap
  BY OneFrameIsOneMap DEF CoordinatorOneMap, CoordinatorKept
<1> QED
  BY <1>1, <1>2, <1>3, PTL DEF Spec

----------------------------------------------------------------------------
(* What the operations make of any engine, a participant's included: there   *)
(* the indices are the coordinator's and need not count the list.            *)

\* An engine whose list has every scanner it knows.
Covered(e) ==
  e \in Engine /\ \A n \in Known(e) : \E i \in 1..Len(e.order) : e.order[i] = n

CloudOf(e, n) == IF n \in Known(e) THEN e.sub[n].cloud ELSE {}

LEMMA KeptCovered ==
  ASSUME NEW e, WellKept(e)
  PROVE  Covered(e)
BY DEF WellKept, JoinOrdered, Covered

LEMMA CoveredTypes ==
  ASSUME NEW e, Covered(e)
  PROVE  /\ e = [order |-> e.order, sub |-> e.sub]
         /\ e.order \in Seq(Scanner) /\ Len(e.order) \in Nat
         /\ e.sub \in [Scanner -> Submap \cup {None}]
         /\ Known(e) \subseteq Scanner
         /\ \A n \in Known(e) : e.sub[n] \in Submap
BY LenProperties DEF Covered, Engine, Known

LEMMA CloudType ==
  ASSUME NEW e, Covered(e), NEW n
  PROVE  CloudOf(e, n) \in Cloud
<1>1. CASE n \in Known(e)
  BY <1>1, CoveredTypes DEF CloudOf, Submap
<1>2. CASE n \notin Known(e)
  BY <1>2 DEF CloudOf, Cloud
<1> QED
  BY <1>1, <1>2

LEMMA NewFacts ==
  ASSUME NEW e, Covered(e), NEW n \in Scanner, n \notin Known(e),
         NEW anchor \in BOOLEAN, NEW cloud \in Cloud, NEW d, d = NewScanner(e, n, anchor, cloud)
  PROVE  /\ Covered(d)
         /\ Known(d) = Known(e) \cup {n}
         /\ d.sub[n].cloud = cloud
         /\ \A m \in Known(e) : d.sub[m] = e.sub[m]
<1> DEFINE i == Len(e.order)
           fixed == i = 0 \/ anchor
           new == [index |-> i, state |-> IF fixed THEN "ANCHOR" ELSE "UNALIGNED",
                   place |-> IF fixed THEN 0 ELSE i, frame |-> None, cloud |-> cloud]
<1>1. /\ e.order \in Seq(Scanner) /\ i \in Nat /\ e.sub \in [Scanner -> Submap \cup {None}]
      /\ Known(e) \subseteq Scanner
  BY CoveredTypes
<1>2. new \in Submap /\ new # None /\ new.cloud = cloud
  BY <1>1, NoneAssumption DEF Submap, State
<1>3. d = [order |-> Append(e.order, n), sub |-> [e.sub EXCEPT ![n] = new]]
  BY DEF NewScanner
<1> HIDE DEF new
<1>4. d.order = Append(e.order, n) /\ d.sub = [e.sub EXCEPT ![n] = new]
  BY <1>3
<1>5. /\ d.order \in Seq(Scanner) /\ Len(d.order) = i + 1 /\ d.order[i + 1] = n
      /\ \A k \in 1..i : d.order[k] = e.order[k]
  BY <1>1, <1>4, AppendProperties
<1>6. /\ d.sub \in [Scanner -> Submap \cup {None}] /\ d.sub[n] = new
      /\ \A m \in Scanner : m # n => d.sub[m] = e.sub[m]
  BY <1>1, <1>2, <1>4
<1>7. Known(d) = Known(e) \cup {n}
  BY <1>1, <1>2, <1>6 DEF Known
<1>8. d \in Engine
  BY <1>3, <1>4, <1>5, <1>6 DEF Engine
<1>9. ASSUME NEW m \in Known(d)
      PROVE  \E k \in 1..Len(d.order) : d.order[k] = m
  <2>1. CASE m = n
    BY <1>1, <1>5, <2>1
  <2>2. CASE m # n
    <3>1. PICK k \in 1..i : e.order[k] = m
      BY <1>7, <2>2 DEF Covered
    <3> QED
      BY <1>1, <1>5, <3>1
  <2> QED
    BY <2>1, <2>2
<1> QED
  BY <1>1, <1>2, <1>6, <1>7, <1>8, <1>9 DEF Covered

LEMMA RegisterFacts ==
  ASSUME NEW e, Covered(e), NEW n \in Scanner, NEW anchor \in BOOLEAN,
         NEW d, d = RegisterScanner(e, n, anchor)
  PROVE  /\ Covered(d)
         /\ Known(d) = Known(e) \cup {n}
         /\ \A m : CloudOf(d, m) = CloudOf(e, m)
<1>1. CASE n \in Known(e)
  BY <1>1 DEF RegisterScanner
<1>2. CASE n \notin Known(e)
  <2>1. {} \in Cloud
    BY DEF Cloud
  <2>2. d = NewScanner(e, n, anchor, {})
    BY <1>2 DEF RegisterScanner
  <2>3. /\ Covered(d) /\ Known(d) = Known(e) \cup {n} /\ d.sub[n].cloud = {}
        /\ \A m \in Known(e) : d.sub[m] = e.sub[m]
    BY <1>2, <2>1, <2>2, NewFacts
  <2> QED
    BY <1>2, <2>3 DEF CloudOf
<1> QED
  BY <1>1, <1>2

\* A stored cloud replaces the scanner's and nothing else of what is known.
LEMMA StoreFacts ==
  ASSUME NEW e, Covered(e), NEW n \in Scanner, NEW cloud \in Cloud, NEW d, d = Store(e, n, cloud)
  PROVE  /\ Covered(d)
         /\ Known(d) = Known(e) \cup {n}
         /\ \A m : CloudOf(d, m) = IF m = n THEN cloud ELSE CloudOf(e, m)
         /\ \A m \in Known(e) : ItemOf(d.sub[m]) = ItemOf(e.sub[m])
         /\ n \in Known(e) => d.order = e.order
<1>1. CASE n \notin Known(e)
  <2>1. PICK anchor \in BOOLEAN : anchor = FALSE
    OBVIOUS
  <2>2. d = NewScanner(e, n, anchor, cloud)
    BY <1>1, <2>1 DEF Store
  <2>3. /\ Covered(d) /\ Known(d) = Known(e) \cup {n} /\ d.sub[n].cloud = cloud
        /\ \A m \in Known(e) : d.sub[m] = e.sub[m]
    BY <1>1, <2>2, NewFacts
  <2> QED
    BY <1>1, <2>3 DEF CloudOf
<1>2. CASE n \in Known(e)
  <2> DEFINE new == [e.sub[n] EXCEPT !.cloud = cloud]
  <2>1. /\ e = [order |-> e.order, sub |-> e.sub]
        /\ e.sub \in [Scanner -> Submap \cup {None}] /\ e.sub[n] \in Submap
        /\ Known(e) \subseteq Scanner /\ e.order \in Seq(Scanner)
    BY <1>2, CoveredTypes
  <2>2. /\ new \in Submap /\ new # None /\ new.cloud = cloud
        /\ new.index = e.sub[n].index /\ new.state = e.sub[n].state
        /\ new.place = e.sub[n].place /\ new.frame = e.sub[n].frame
    BY <2>1, NoneAssumption DEF Submap
  <2>3. d = [e EXCEPT !.sub[n].cloud = cloud]
    BY <1>2 DEF Store
  <2>4. d = [order |-> e.order, sub |-> [e.sub EXCEPT ![n] = new]]
    BY <2>1, <2>3
  <2> HIDE DEF new
  <2>5. d.order = e.order /\ d.sub = [e.sub EXCEPT ![n] = new]
    BY <2>4
  <2>6. /\ d.sub \in [Scanner -> Submap \cup {None}] /\ d.sub[n] = new
        /\ \A m \in Scanner : m # n => d.sub[m] = e.sub[m]
    BY <2>1, <2>2, <2>5
  <2>7. Known(d) = Known(e)
    BY <1>2, <2>2, <2>6 DEF Known
  <2>8. d \in Engine
    BY <2>1, <2>4, <2>5, <2>6 DEF Engine
  <2>9. Covered(d)
    BY <2>5, <2>7, <2>8 DEF Covered
  <2>10. \A m : CloudOf(d, m) = IF m = n THEN cloud ELSE CloudOf(e, m)
    BY <1>2, <2>1, <2>2, <2>6, <2>7 DEF CloudOf
  <2>11. ASSUME NEW m \in Known(e)
         PROVE  ItemOf(d.sub[m]) = ItemOf(e.sub[m])
    <3>1. CASE m = n
      BY <2>2, <2>6, <3>1 DEF ItemOf
    <3>2. CASE m # n
      BY <2>1, <2>6, <3>2
    <3> QED
      BY <3>1, <3>2
  <2> QED
    BY <1>2, <2>5, <2>7, <2>9, <2>10, <2>11
<1> QED
  BY <1>1, <1>2

LEMMA FrameType ==
  ASSUME NEW e, Covered(e), Anchored(e) # {}
  PROVE  MapFrame(e) \in Scanner \cup {None}
<1> DEFINE First(i) == /\ e.order[i] \in Anchored(e)
                       /\ \A j \in 1..i - 1 : e.order[j] \notin Anchored(e)
           I == {i \in 1..Len(e.order) : e.order[i] \in Anchored(e)}
           first == CHOOSE i \in 1..Len(e.order) : First(i)
<1>1. Len(e.order) \in Nat /\ e.order \in Seq(Scanner)
  BY CoveredTypes
<1>2. I # {}
  BY DEF Covered, Anchored
<1>3. PICK i \in I : \A j \in I : i <= j
  BY <1>1, <1>2, FirstPosition
<1>4. i \in 1..Len(e.order) /\ First(i)
  BY <1>1, <1>3
<1>5. first \in 1..Len(e.order) /\ First(first)
  BY <1>4
<1> HIDE DEF first
<1>6. e.order[first] \in Scanner /\ e.order[first] \in Known(e)
  BY <1>1, <1>5 DEF Anchored
<1>7. e.sub[e.order[first]].frame \in Scanner \cup {None}
  BY <1>6, CoveredTypes DEF Submap
<1>8. MapFrame(e) = IF e.sub[e.order[first]].state = "ANCHOR" THEN e.order[first]
                    ELSE e.sub[e.order[first]].frame
  BY DEF MapFrame, first
<1> QED
  BY <1>6, <1>7, <1>8

LEMMA SnapFacts ==
  ASSUME NEW e, Covered(e), NEW d, d = Snap(e)
  PROVE  /\ Covered(d)
         /\ Known(d) = Known(e)
         /\ \A m : CloudOf(d, m) = CloudOf(e, m)
         /\ Reached(e) = {} => d = e
         /\ d = e => Reached(e) = {}
<1> DEFINE new(n) == [e.sub[n] EXCEPT !.state = "LOCKED", !.frame = MapFrame(e)]
<1>1. /\ e = [order |-> e.order, sub |-> e.sub]
      /\ e.order \in Seq(Scanner) /\ e.sub \in [Scanner -> Submap \cup {None}]
      /\ Known(e) \subseteq Scanner
  BY CoveredTypes
<1>2. ASSUME NEW n \in Reached(e)
      PROVE  /\ n \in Known(e) /\ n \in Scanner /\ e.sub[n].state = "UNALIGNED"
             /\ new(n) \in Submap /\ new(n) # None
             /\ new(n).cloud = e.sub[n].cloud /\ new(n).state = "LOCKED"
  <2>1. n \in Loose(e) /\ Anchored(e) # {}
    BY ReachedNeedsMap
  <2>2. n \in Known(e) /\ e.sub[n].state = "UNALIGNED" /\ MapFrame(e) \in Scanner \cup {None}
    BY <2>1, FrameType DEF Loose
  <2>3. e.sub[n] \in Submap /\ "LOCKED" \in State
    BY <2>2, CoveredTypes DEF State
  <2>4. new(n) \in Submap
    BY <2>2, <2>3 DEF Submap
  <2> QED
    BY <1>1, <2>2, <2>3, <2>4, NoneAssumption DEF Submap
<1>3. d = [order |-> e.order,
           sub |-> [n \in Scanner |-> IF n \in Reached(e) THEN new(n) ELSE e.sub[n]]]
  BY <1>1 DEF Snap
<1> HIDE DEF new
<1>4. d.order = e.order /\ \A n \in Scanner : d.sub[n] = IF n \in Reached(e) THEN new(n) ELSE e.sub[n]
  BY <1>3
<1>5. d.sub \in [Scanner -> Submap \cup {None}]
  BY <1>1, <1>2, <1>3
<1>6. Known(d) = Known(e)
  BY <1>2, <1>4 DEF Known
<1>7. d \in Engine
  BY <1>1, <1>3, <1>4, <1>5 DEF Engine
<1>8. Covered(d)
  BY <1>4, <1>6, <1>7 DEF Covered
<1>9. ASSUME NEW m
      PROVE  CloudOf(d, m) = CloudOf(e, m)
  <2>1. CASE m \in Known(e)
    <3>1. d.sub[m].cloud = e.sub[m].cloud
      BY <1>1, <1>2, <1>4, <2>1
    <3> QED
      BY <1>6, <2>1, <3>1 DEF CloudOf
  <2>2. CASE m \notin Known(e)
    BY <1>6, <2>2 DEF CloudOf
  <2> QED
    BY <2>1, <2>2
<1>10. ASSUME Reached(e) = {}
       PROVE  d = e
  <2>1. [n \in Scanner |-> IF n \in Reached(e) THEN new(n) ELSE e.sub[n]] = e.sub
    BY <1>1, <1>10
  <2> QED
    BY <1>1, <1>3, <2>1
<1>11. ASSUME d = e
       PROVE  Reached(e) = {}
  <2>1. SUFFICES ASSUME NEW n \in Reached(e)
                 PROVE  FALSE
    OBVIOUS
  <2>2. d.sub[n].state = "LOCKED" /\ e.sub[n].state = "UNALIGNED"
    BY <1>2, <1>4, <2>1
  <2> QED
    BY <1>11, <2>2
<1> QED
  BY <1>6, <1>8, <1>9, <1>10, <1>11

LEMMA IngestFacts ==
  ASSUME NEW e, Covered(e), NEW n \in Scanner, NEW cloud \in Cloud, NEW evaluate \in BOOLEAN,
         NEW d, d = IngestSubmap(e, n, cloud, evaluate)
  PROVE  /\ Covered(d)
         /\ Known(d) = Known(e) \cup {n}
         /\ \A m : CloudOf(d, m) = IF m = n THEN cloud ELSE CloudOf(e, m)
<1> DEFINE s == Store(e, n, cloud)
<1>1. /\ Covered(s) /\ Known(s) = Known(e) \cup {n}
      /\ \A m : CloudOf(s, m) = IF m = n THEN cloud ELSE CloudOf(e, m)
  BY StoreFacts
<1>2. d = IF evaluate THEN Snap(s) ELSE s
  BY DEF IngestSubmap
<1> HIDE DEF s
<1>3. CASE d = s
  BY <1>1, <1>3
<1>4. CASE d = Snap(s)
  BY <1>1, <1>4, SnapFacts
<1> QED
  BY <1>2, <1>3, <1>4

\* Where the settled map snaps nothing, nothing snaps to less of the same map.
LEMMA NothingToSnap ==
  ASSUME NEW e, Covered(e), NEW d, Covered(d), Snap(d) = d,
         Known(e) = Known(d),
         \A n \in Known(d) : ItemOf(e.sub[n]) = ItemOf(d.sub[n]) /\ CloudOf(e, n) \subseteq CloudOf(d, n)
  PROVE  Snap(e) = e
<1>1. Reached(d) = {}
  BY SnapFacts
<1>2. \A n \in Known(d) : e.sub[n].state = d.sub[n].state /\ e.sub[n].cloud \subseteq d.sub[n].cloud
  BY DEF ItemOf, CloudOf
<1>3. Loose(e) \subseteq Loose(d) /\ Anchored(e) \subseteq Anchored(d)
  BY <1>2 DEF Loose, Anchored
<1>4. SUFFICES ASSUME NEW n \in Reached(e)
               PROVE  FALSE
  BY SnapFacts
<1>5. n \in Loose(e) /\ n \in Loose(d)
  BY <1>3, <1>4 DEF Reached
<1>6. PICK S \in SUBSET Loose(d) :
        (\A m \in Loose(d) : Meets(d, Anchored(d) \cup S, m) => m \in S) /\ n \notin S
  BY <1>1, <1>5 DEF Reached
<1> DEFINE T == S \cap Loose(e)
<1>7. ASSUME NEW m \in Loose(e), Meets(e, Anchored(e) \cup T, m)
      PROVE  m \in T
  <2>1. PICK k \in Anchored(e) \cup T : e.sub[k].cloud \cap e.sub[m].cloud # {}
    BY <1>7 DEF Meets
  <2>2. k \in Anchored(d) \cup S /\ k \in Known(d) /\ m \in Loose(d) /\ m \in Known(d)
    BY <1>3, <1>7, <2>1 DEF Anchored, Loose
  <2>3. d.sub[k].cloud \cap d.sub[m].cloud # {}
    BY <1>2, <2>1, <2>2
  <2>4. Meets(d, Anchored(d) \cup S, m)
    BY <2>2, <2>3 DEF Meets
  <2> QED
    BY <1>6, <1>7, <2>2, <2>4
<1>8. T \in SUBSET Loose(e) /\ n \notin T
  BY <1>6
<1> HIDE DEF T
<1> QED
  BY <1>4, <1>7, <1>8 DEF Reached

\* The list of an engine that an alignment is applied to: what it had, and what
\* the payload lists.
LEMMA ExtendedIs ==
  ASSUME NEW e, e.order \in Seq(Scanner), NEW listed \in Seq(Scanner)
  PROVE  \E f \in [0..Len(listed) -> Seq(Scanner)] :
           /\ Extended(e, listed) = f[Len(listed)]
           /\ f[0] = e.order
           /\ \A i \in 1..Len(listed) :
                f[i] = IF listed[i] \in Known(e) THEN f[i - 1] ELSE Append(f[i - 1], listed[i])
<1> DEFINE Next1(s, x) == IF x \in Known(e) THEN s ELSE Append(s, x)
           UpTo(k, f) == /\ f \in [0..k -> Seq(Scanner)]
                         /\ f[0] = e.order
                         /\ \A i \in 1..k : f[i] = Next1(f[i - 1], listed[i])
           N == Len(listed)
           K == {k \in 1..N : ~\E f : UpTo(k, f)}
<1>1. N \in Nat
  BY LenProperties
<1>2. \A s \in Seq(Scanner), x \in Scanner : Next1(s, x) \in Seq(Scanner)
  BY AppendProperties
<1>3. UpTo(0, [i \in 0..0 |-> e.order])
  OBVIOUS
<1>4. ASSUME NEW k \in 1..N, NEW g, UpTo(k - 1, g)
      PROVE  UpTo(k, [i \in 0..k |-> IF i = k THEN Next1(g[k - 1], listed[k]) ELSE g[i]])
  <2> DEFINE f == [i \in 0..k |-> IF i = k THEN Next1(g[k - 1], listed[k]) ELSE g[i]]
  <2>1. g \in [0..k - 1 -> Seq(Scanner)] /\ k - 1 \in 0..k - 1 /\ listed[k] \in Scanner
    BY <1>1, <1>4, ElementOfSeq
  <2>2. Next1(g[k - 1], listed[k]) \in Seq(Scanner)
    BY <1>2, <2>1
  <2> HIDE DEF Next1
  <2>3. f \in [0..k -> Seq(Scanner)]
    BY <1>1, <2>1, <2>2
  <2>4. f[0] = e.order
    BY <1>1, <1>4
  <2>5. ASSUME NEW i \in 1..k
        PROVE  f[i] = Next1(f[i - 1], listed[i])
    <3>1. CASE i = k
      BY <1>1, <3>1
    <3>2. CASE i # k
      <4>1. i \in 1..k - 1 /\ f[i] = g[i] /\ f[i - 1] = g[i - 1]
        BY <1>1, <3>2
      <4> QED
        BY <1>4, <4>1
    <3> QED
      BY <3>1, <3>2
  <2> HIDE DEF f
  <2>6. UpTo(k, f)
    BY <2>3, <2>4, <2>5
  <2> QED
    BY <2>6 DEF f
<1> HIDE DEF UpTo
<1>5. K = {}
  <2>1. SUFFICES ASSUME K # {}
                 PROVE  FALSE
    OBVIOUS
  <2>2. PICK k \in K : \A j \in K : k <= j
    BY <1>1, <2>1, FirstPosition
  <2>3. PICK g : UpTo(k - 1, g)
    <3>1. CASE k = 1
      BY <1>3, <3>1
    <3>2. CASE k # 1
      <4>1. k - 1 \in 1..N /\ k - 1 \notin K
        BY <1>1, <2>2, <3>2
      <4> QED
        BY <4>1
    <3> QED
      BY <3>1, <3>2
  <2> QED
    BY <1>4, <2>2, <2>3
<1>6. PICK f : UpTo(N, f)
  BY <1>1, <1>3, <1>5
<1> DEFINE R(g) == [i \in 0..N |-> IF i = 0 THEN e.order ELSE Next1(g[i - 1], listed[i])]
           h == CHOOSE g : g = R(g)
<1>7. f = R(f)
  <2> HIDE DEF Next1
  <2>1. f \in [0..N -> Seq(Scanner)] /\ f[0] = e.order
    BY <1>6 DEF UpTo
  <2>2. \A i \in 1..N : f[i] = Next1(f[i - 1], listed[i])
    BY <1>6 DEF UpTo
  <2>3. \A i \in 0..N : f[i] = IF i = 0 THEN e.order ELSE Next1(f[i - 1], listed[i])
    BY <1>1, <2>1, <2>2
  <2> QED
    BY <2>1, <2>3
<1>8. h = R(h)
  BY <1>7
<1>9. Extended(e, listed) = h[N]
  BY DEF Extended
<1>10. \A i \in 0..N : h[i] = IF i = 0 THEN e.order ELSE Next1(h[i - 1], listed[i])
  BY <1>1, <1>8
<1> HIDE DEF h, R
<1> DEFINE D == {i \in 1..N : h[i] # f[i]}
<1>11. h[0] = f[0] /\ f[0] = e.order
  BY <1>1, <1>6, <1>10 DEF UpTo
<1>12. D = {}
  <2>1. SUFFICES ASSUME D # {}
                 PROVE  FALSE
    OBVIOUS
  <2>2. PICK k \in D : \A j \in D : k <= j
    BY <1>1, <2>1, FirstPosition
  <2>3. h[k - 1] = f[k - 1]
    BY <1>1, <1>11, <2>2
  <2>4. h[k] = Next1(h[k - 1], listed[k])
    BY <1>1, <1>10, <2>2
  <2>5. f[k] = Next1(f[k - 1], listed[k])
    BY <1>6, <2>2 DEF UpTo
  <2> QED
    BY <2>2, <2>3, <2>4, <2>5
<1>13. h[N] = f[N]
  BY <1>1, <1>11, <1>12
<1> QED
  BY <1>1, <1>6, <1>9, <1>13 DEF UpTo

Listed(q, x) == \E k \in 1..Len(q) : q[k] = x

LEMMA ListedAppend ==
  ASSUME NEW q \in Seq(Scanner), NEW y \in Scanner, NEW r, r = Append(q, y)
  PROVE  /\ Listed(r, y)
         /\ \A x : Listed(q, x) => Listed(r, x)
<1>1. /\ Len(q) \in Nat /\ Len(r) = Len(q) + 1 /\ r[Len(q) + 1] = y
      /\ \A k \in 1..Len(q) : r[k] = q[k]
  BY AppendProperties, LenProperties
<1> QED
  BY <1>1 DEF Listed

LEMMA ExtendedFacts ==
  ASSUME NEW e, e.order \in Seq(Scanner), NEW listed \in Seq(Scanner), NEW s, s = Extended(e, listed)
  PROVE  /\ s \in Seq(Scanner)
         /\ \A j \in 1..Len(e.order) : Listed(s, e.order[j])
         /\ \A j \in 1..Len(listed) : listed[j] \in Known(e) \/ Listed(s, listed[j])
<1> DEFINE N == Len(listed)
           Has(q, x) == Listed(q, x)
<1>1. N \in Nat
  BY LenProperties
<1>2. PICK f \in [0..N -> Seq(Scanner)] :
        /\ s = f[N] /\ f[0] = e.order
        /\ \A i \in 1..N :
             f[i] = IF listed[i] \in Known(e) THEN f[i - 1] ELSE Append(f[i - 1], listed[i])
  BY ExtendedIs
<1>3. ASSUME NEW i \in 1..N
      PROVE  /\ \A x : Has(f[i - 1], x) => Has(f[i], x)
             /\ listed[i] \in Known(e) \/ Has(f[i], listed[i])
  <2>1. f[i - 1] \in Seq(Scanner) /\ listed[i] \in Scanner
    BY <1>1, ElementOfSeq
  <2>2. CASE listed[i] \in Known(e)
    BY <1>2, <2>2
  <2>3. CASE listed[i] \notin Known(e)
    <3>1. f[i] = Append(f[i - 1], listed[i])
      BY <1>2, <2>3
    <3>2. PICK q \in Seq(Scanner) : q = f[i - 1]
      BY <2>1
    <3>3. PICK y \in Scanner : y = listed[i]
      BY <2>1
    <3>4. PICK r : r = f[i]
      OBVIOUS
    <3>5. r = Append(q, y)
      BY <3>1, <3>2, <3>3, <3>4
    <3>6. Listed(r, y) /\ \A x : Listed(q, x) => Listed(r, x)
      BY <3>5, ListedAppend
    <3> QED
      BY <3>2, <3>3, <3>4, <3>6
  <2> QED
    BY <2>2, <2>3
<1>4. ASSUME NEW x, NEW m \in 0..N, Has(f[m], x)
      PROVE  Has(f[N], x)
  <2> DEFINE D == {i \in 1..N : i > m /\ ~Has(f[i], x)}
  <2>1. SUFFICES ASSUME ~Has(f[N], x)
                 PROVE  FALSE
    OBVIOUS
  <2>2. N \in D
    BY <1>1, <1>4, <2>1
  <2>3. PICK i \in D : \A j \in D : i <= j
    BY <1>1, <2>2, FirstPosition
  <2>4. Has(f[i - 1], x)
    BY <1>1, <1>4, <2>3
  <2> QED
    BY <1>3, <2>3, <2>4
<1>5. ASSUME NEW j \in 1..Len(e.order)
      PROVE  Has(s, e.order[j])
  <2>1. Has(f[0], e.order[j])
    BY <1>2 DEF Listed
  <2> QED
    BY <1>1, <1>2, <1>4, <2>1
<1>6. ASSUME NEW j \in 1..N
      PROVE  listed[j] \in Known(e) \/ Has(s, listed[j])
  BY <1>1, <1>2, <1>3, <1>4
<1>7. s \in Seq(Scanner)
  BY <1>1, <1>2
<1> QED
  BY <1>5, <1>6, <1>7

\* An alignment whose list has every scanner it describes.
SoundState ==
  {a \in AlignmentState : \A n \in Scanner : a.item[n] # None => \E i \in 1..Len(a.order) : a.order[i] = n}

LEMMA AlignmentFacts ==
  ASSUME NEW e, Covered(e), NEW a, a = Alignment(e)
  PROVE  /\ a \in SoundState
         /\ a.order = e.order
         /\ \A n \in Scanner : /\ a.item[n] # None <=> n \in Known(e)
                               /\ n \in Known(e) => a.item[n] = ItemOf(e.sub[n])
<1>1. /\ e.order \in Seq(Scanner) /\ Known(e) \subseteq Scanner
      /\ \A n \in Known(e) : e.sub[n] \in Submap
  BY CoveredTypes
<1>2. \A n \in Known(e) : ItemOf(e.sub[n]) \in Item /\ ItemOf(e.sub[n]) # None
  BY <1>1, NoneAssumption DEF ItemOf, Item, Submap
<1>3. a = [order |-> e.order,
           item |-> [n \in Scanner |-> IF n \in Known(e) THEN ItemOf(e.sub[n]) ELSE None]]
  BY DEF Alignment
<1>4. a.order = e.order /\ \A n \in Scanner : a.item[n] = IF n \in Known(e) THEN ItemOf(e.sub[n]) ELSE None
  BY <1>3
<1>5. a.item \in [Scanner -> Item \cup {None}]
  BY <1>2, <1>3
<1>6. a \in AlignmentState
  BY <1>1, <1>3, <1>4, <1>5 DEF AlignmentState
<1>7. \A n \in Scanner : a.item[n] # None <=> n \in Known(e)
  BY <1>2, <1>4
<1>8. \A n \in Scanner : a.item[n] # None => \E i \in 1..Len(a.order) : a.order[i] = n
  BY <1>4, <1>7 DEF Covered
<1> QED
  BY <1>4, <1>6, <1>7, <1>8 DEF SoundState

\* Two engines with the same list and the same items have the same alignment.
LEMMA SameAlignment ==
  ASSUME NEW e, NEW d, Known(d) = Known(e), d.order = e.order,
         \A n \in Known(e) : ItemOf(d.sub[n]) = ItemOf(e.sub[n])
  PROVE  Alignment(d) = Alignment(e)
BY DEF Alignment

\* What is aligned is as the payload says, and no cloud changes.
LEMMA ApplyFacts ==
  ASSUME NEW e, Covered(e), NEW a \in SoundState, NEW d, d = ApplyAlignment(e, a)
  PROVE  /\ Covered(d)
         /\ Known(d) = Known(e) \cup {n \in Scanner : a.item[n] # None}
         /\ \A m : CloudOf(d, m) = CloudOf(e, m)
         /\ \A n \in Scanner : a.item[n] # None => ItemOf(d.sub[n]) = a.item[n]
<1> DEFINE s == Extended(e, a.order)
           mine(n) == IF n \in Known(e) THEN e.sub[n].cloud ELSE {}
           new(n) == [index |-> a.item[n].index, state |-> a.item[n].state,
                      place |-> a.item[n].place, frame |-> a.item[n].frame, cloud |-> mine(n)]
<1>1. /\ e.order \in Seq(Scanner) /\ Known(e) \subseteq Scanner
      /\ e.sub \in [Scanner -> Submap \cup {None}]
      /\ \A n \in Known(e) : e.sub[n] \in Submap
  BY CoveredTypes
<1>2. /\ a.order \in Seq(Scanner) /\ a.item \in [Scanner -> Item \cup {None}]
      /\ \A n \in Scanner : a.item[n] # None => \E i \in 1..Len(a.order) : a.order[i] = n
  BY DEF SoundState, AlignmentState
<1>3. ASSUME NEW n \in Scanner, a.item[n] # None
      PROVE  /\ new(n) \in Submap /\ new(n) # None /\ new(n).cloud = mine(n)
             /\ ItemOf(new(n)) = a.item[n]
  <2>1. a.item[n] \in Item
    BY <1>2, <1>3
  <2>2. mine(n) \in Cloud
    BY <1>1 DEF Submap, Cloud
  <2> HIDE DEF mine
  <2>3. new(n) \in Submap
    BY <2>1, <2>2 DEF Item, Submap
  <2>4. ItemOf(new(n)) = a.item[n]
    BY <2>1 DEF Item, ItemOf
  <2> QED
    BY <2>3, <2>4, NoneAssumption
<1>4. d = [order |-> s, sub |-> [n \in Scanner |-> IF a.item[n] = None THEN e.sub[n] ELSE new(n)]]
  BY DEF ApplyAlignment
<1> HIDE DEF s, new
<1>5. /\ s \in Seq(Scanner)
      /\ \A j \in 1..Len(e.order) : \E k \in 1..Len(s) : s[k] = e.order[j]
      /\ \A j \in 1..Len(a.order) : a.order[j] \in Known(e) \/ \E k \in 1..Len(s) : s[k] = a.order[j]
  <2>1. PICK listed \in Seq(Scanner) : listed = a.order
    BY <1>2
  <2>2. s = Extended(e, listed)
    BY <2>1 DEF s
  <2>3. /\ s \in Seq(Scanner)
        /\ \A j \in 1..Len(e.order) : Listed(s, e.order[j])
        /\ \A j \in 1..Len(listed) : listed[j] \in Known(e) \/ Listed(s, listed[j])
    BY <1>1, <2>2, ExtendedFacts
  <2> QED
    BY <2>1, <2>3 DEF Listed
<1>6. d.order = s /\ \A n \in Scanner : d.sub[n] = IF a.item[n] = None THEN e.sub[n] ELSE new(n)
  BY <1>4
<1>7. d.sub \in [Scanner -> Submap \cup {None}]
  BY <1>1, <1>3, <1>4
<1>8. Known(d) = Known(e) \cup {n \in Scanner : a.item[n] # None}
  BY <1>3, <1>6 DEF Known
<1>9. d \in Engine
  BY <1>4, <1>5, <1>6, <1>7 DEF Engine
<1>10. ASSUME NEW n \in Known(d)
       PROVE  \E k \in 1..Len(d.order) : d.order[k] = n
  <2>1. CASE n \in Known(e)
    BY <1>5, <1>6, <2>1 DEF Covered
  <2>2. CASE n \notin Known(e)
    BY <1>2, <1>5, <1>6, <1>8, <2>2
  <2> QED
    BY <2>1, <2>2
<1>11. ASSUME NEW m
       PROVE  CloudOf(d, m) = CloudOf(e, m)
  <2>1. CASE m \in Known(d)
    <3>1. CASE a.item[m] = None
      BY <1>1, <1>6, <1>8, <2>1, <3>1 DEF CloudOf
    <3>2. CASE a.item[m] # None
      <4>1. m \in Scanner /\ d.sub[m].cloud = mine(m)
        BY <1>1, <1>3, <1>6, <1>8, <2>1, <3>2
      <4> QED
        BY <2>1, <4>1 DEF CloudOf
    <3> QED
      BY <3>1, <3>2
  <2>2. CASE m \notin Known(d)
    BY <1>8, <2>2 DEF CloudOf
  <2> QED
    BY <2>1, <2>2
<1> QED
  BY <1>3, <1>6, <1>8, <1>9, <1>10, <1>11 DEF Covered

----------------------------------------------------------------------------
(* The connections of a session, as values.                                 *)

\* What a scanner's own connection carries to the coordinator: k messages that
\* open the session, then its clouds, each covering those before it, from the
\* one the coordinator has to the latest.
Stream(q, p, k, has, last) ==
  /\ Len(q) >= k
  /\ k = 2 => q[1].type = "HELLO"
  /\ k \in {1, 2} => q[k].type = "JOIN" /\ q[k].session = 1
  /\ \A i \in k + 1..Len(q) : /\ q[i].type = "SUBMAP" /\ q[i].scanner = p
                              /\ has \subseteq q[i].cloud /\ q[i].cloud \subseteq last
                              /\ \A j \in i + 1..Len(q) : q[i].cloud \subseteq q[j].cloud
  /\ IF Len(q) = k THEN has = last ELSE q[Len(q)].cloud = last

DownMessage == SubmapMessage \cup [type : {"ALIGNMENT"}, state : SoundState]

\* What is sent to a participant is about scanners the map has, and no cloud
\* of it is ahead of the map's.
Fine(m, p, map) ==
  /\ m \in DownMessage
  /\ m.type = "SUBMAP" => /\ m.scanner \in Known(map) \ {p}
                          /\ m.cloud \subseteq CloudOf(map, m.scanner)
  /\ m.type = "ALIGNMENT" => \A n \in Scanner : m.state.item[n] # None => n \in Known(map)
Downward(p, d, e, map) ==
  /\ d \in Seq(DownMessage)
  /\ \A i \in 1..Len(d) : Fine(d[i], p, map)
  /\ Known(e) \subseteq Known(map) \cup {p}
  /\ \A n \in Scanner : n # p => CloudOf(e, n) \subseteq CloudOf(map, n)

\* What an engine has of a scanner once it has received what is on its way.
Of(m, n) == m.type = "SUBMAP" /\ m.scanner = n
Heard(d, e, n, cloud) ==
  /\ \A i \in 1..Len(d) :
       (Of(d[i], n) /\ \A j \in i + 1..Len(d) : ~Of(d[j], n)) => d[i].cloud = cloud
  /\ (\A i \in 1..Len(d) : ~Of(d[i], n)) => CloudOf(e, n) = cloud

\* The same of the alignment.
AgreesWith(e, a) ==
  \A n \in Scanner : a.item[n] # None => n \in Known(e) /\ ItemOf(e.sub[n]) = a.item[n]
Aligned(d, e, a) ==
  /\ \A i \in 1..Len(d) :
       (d[i].type = "ALIGNMENT" /\ \A j \in i + 1..Len(d) : d[j].type # "ALIGNMENT") =>
         d[i].state = a
  /\ (\A i \in 1..Len(d) : d[i].type # "ALIGNMENT") => AgreesWith(e, a)

\* What a thread has still to send is what the map holds.
Tells(m, n, map) == m = [type |-> "SUBMAP", scanner |-> n, cloud |-> CloudOf(map, n)]
Duty(t, th, map) ==
  /\ th.stage \in (IF t = Coord THEN {"idle", "create", "evaluate", "announce"}
                   ELSE {"idle", "push", "pushing", "greet", "evaluate", "announce", "relay"})
  /\ th.stage \in {"announce", "greet"} => th.msg = AlignmentOf(map)
  /\ th.stage \in {"evaluate", "announce"} =>
       IF t = Coord THEN th.relay = None ELSE Tells(th.relay, t, map)
  /\ th.stage = "relay" => Tells(th.msg, t, map)
  /\ th.stage \in {"push", "pushing"} => th.todo \in Seq(Scanner) /\ th.owed \subseteq Known(map) \ {t}
  /\ th.stage = "pushing" => \E n \in Known(map) \ {t} : Tells(th.msg, n, map)

\* What a thread has taken on to tell the participant of its connection.
Owes(th, n) ==
  \/ th.stage \in {"push", "pushing"} /\ n \in th.owed /\ Listed(th.todo, n)
  \/ th.stage = "pushing" /\ th.msg.scanner = n
\* What a thread has taken on to tell everyone: the cloud it was sent, and the
\* alignment.
Relaying(th)   == th.stage \in {"evaluate", "announce", "relay"}
Announcing(th) == th.stage \in {"evaluate", "announce"}
Greeting(th)   == th.stage \in {"push", "pushing", "greet"}

----------------------------------------------------------------------------
Map == engine[Coord]
Opening(p) == IF p \in Known(Map) THEN 0 ELSE IF p \in bound THEN 1 ELSE 2

Roles ==
  /\ spent["creates"] \in {0, 1}
  /\ Coord \in member => spent["creates"] = 1 /\ Coord \in Known(Map)
  /\ Coord \notin member => Map = Empty /\ bound = {}
  /\ Known(Map) \subseteq {Coord} \cup bound
  /\ bound \subseteq member \cap Participant
  /\ \A p \in Participant : /\ p \notin member => engine[p] = Empty /\ up[p] = <<>>
                            /\ p \notin bound => down[p] = <<>>
                            /\ thread[p] # Idle => p \in Known(Map)
  /\ \A t, u \in Host : (thread[t] # Idle /\ thread[u] # Idle) => t = u
Kinded   == latest \in [Host -> Cloud] /\ \A h \in Host : Covered(engine[h])
Streams  == \A p \in Participant :
              p \in member => Stream(up[p], p, Opening(p), CloudOf(Map, p), latest[p])
Own      == \A h \in Host : CloudOf(engine[h], h) = latest[h]
Duties   == \A t \in Host : Duty(t, thread[t], Map)
Downs    == down = [p \in Participant |-> down[p]] /\ \A p \in Participant : Downward(p, down[p], engine[p], Map)
Owed(p, n) == Owes(thread[p], n) \/ (n \in Participant /\ Relaying(thread[n]))
Clouded  == \A p \in Participant, n \in Scanner :
              (p \in Known(Map) /\ n # p) =>
                Owed(p, n) \/ Heard(down[p], engine[p], n, CloudOf(Map, n))
Settled == announced = Alignment(Map) /\ Snap(Map) = Map
Coming(p) == (\E t \in Host : Announcing(thread[t])) \/ Greeting(thread[p])
Following ==
  /\ \A n \in Scanner : announced.item[n] # None => n \in Known(Map)
  /\ Settled => \A p \in Participant :
       p \in Known(Map) => Coming(p) \/ up[p] # <<>> \/ Aligned(down[p], engine[p], Alignment(Map))

----------------------------------------------------------------------------
(* Sending and receiving, one message at a time.                            *)

LEMMA AppendFacts ==
  ASSUME NEW S, NEW q \in Seq(S), NEW m \in S, NEW r, r = Append(q, m)
  PROVE  /\ r \in Seq(S) /\ Len(q) \in Nat /\ Len(r) = Len(q) + 1 /\ r[Len(q) + 1] = m
         /\ \A i \in 1..Len(q) : r[i] = q[i]
BY AppendProperties, LenProperties

LEMMA TailFacts ==
  ASSUME NEW S, NEW q \in Seq(S), q # <<>>, NEW r, r = Tail(q)
  PROVE  /\ r \in Seq(S) /\ Head(q) \in S /\ Head(q) = q[1]
         /\ Len(q) \in Nat \ {0} /\ Len(r) = Len(q) - 1
         /\ \A i \in 1..Len(r) : r[i] = q[i + 1]
BY HeadTailProperties, EmptySeq, LenProperties

LEMMA StreamSend ==
  ASSUME NEW q \in Seq(UpMessage), NEW p, NEW k \in {0, 1, 2}, NEW has, NEW last, NEW x,
         Stream(q, p, k, has, last), last \subseteq x,
         NEW m \in UpMessage, m.type = "SUBMAP", m.scanner = p, m.cloud = x,
         NEW r, r = Append(q, m)
  PROVE  Stream(r, p, k, has, x)
<1>1. /\ Len(q) \in Nat /\ Len(r) = Len(q) + 1 /\ r[Len(q) + 1] = m
      /\ \A i \in 1..Len(q) : r[i] = q[i]
  BY AppendFacts
<1>2. Len(q) >= k /\ has \subseteq last
  <2>1. CASE Len(q) = k
    BY <2>1 DEF Stream
  <2>2. CASE Len(q) # k
    <3>1. Len(q) \in k + 1..Len(q)
      BY <1>1, <2>2 DEF Stream
    <3> QED
      BY <3>1 DEF Stream
  <2> QED
    BY <2>1, <2>2 DEF Stream
<1>3. /\ k = 2 => r[1].type = "HELLO"
      /\ k \in {1, 2} => r[k].type = "JOIN" /\ r[k].session = 1
  BY <1>1, <1>2 DEF Stream
<1>4. ASSUME NEW i \in k + 1..Len(r)
      PROVE  /\ r[i].type = "SUBMAP" /\ r[i].scanner = p
             /\ has \subseteq r[i].cloud /\ r[i].cloud \subseteq x
             /\ \A j \in i + 1..Len(r) : r[i].cloud \subseteq r[j].cloud
  <2>1. CASE i = Len(q) + 1
    BY <1>1, <1>2, <2>1
  <2>2. CASE i # Len(q) + 1
    <3>1. i \in k + 1..Len(q) /\ i \in 1..Len(q) /\ r[i] = q[i]
      BY <1>1, <2>2
    <3>2. /\ r[i].type = "SUBMAP" /\ r[i].scanner = p
          /\ has \subseteq r[i].cloud /\ r[i].cloud \subseteq last
          /\ \A j \in i + 1..Len(q) : r[i].cloud \subseteq q[j].cloud
      BY <3>1 DEF Stream
    <3>3. ASSUME NEW j \in i + 1..Len(r)
          PROVE  r[i].cloud \subseteq r[j].cloud
      <4>1. CASE j = Len(q) + 1
        BY <1>1, <3>2, <4>1
      <4>2. CASE j # Len(q) + 1
        <5>1. j \in i + 1..Len(q) /\ r[j] = q[j]
          BY <1>1, <3>1, <4>2
        <5> QED
          BY <3>2, <5>1
      <4> QED
        BY <4>1, <4>2
    <3> QED
      BY <3>2, <3>3
  <2> QED
    BY <2>1, <2>2
<1> QED
  BY <1>1, <1>2, <1>3, <1>4 DEF Stream

\* What heads a connection, and what is left of it when that has been read.
LEMMA StreamOpens ==
  ASSUME NEW q \in Seq(UpMessage), q # <<>>, NEW p, NEW k \in {0, 1, 2}, NEW has, NEW last,
         Stream(q, p, k, has, last)
  PROVE  /\ Head(q).type = IF k = 2 THEN "HELLO" ELSE IF k = 1 THEN "JOIN" ELSE "SUBMAP"
         /\ k = 1 => Head(q).session = 1
         /\ k = 0 => /\ Head(q).scanner = p
                     /\ has \subseteq Head(q).cloud
<1>1. Head(q) = q[1] /\ Len(q) \in Nat \ {0}
  BY TailFacts
<1>2. CASE k = 0
  <2>1. 1 \in k + 1..Len(q)
    BY <1>1, <1>2
  <2> QED
    BY <1>1, <1>2, <2>1 DEF Stream
<1> QED
  BY <1>1, <1>2 DEF Stream

LEMMA StreamRead ==
  ASSUME NEW q \in Seq(UpMessage), q # <<>>, NEW p, NEW k \in {0, 1, 2}, NEW has, NEW last,
         Stream(q, p, k, has, last), NEW r, r = Tail(q)
  PROVE  /\ k # 0 => Stream(r, p, k - 1, has, last)
         /\ k = 0 => Stream(r, p, 0, Head(q).cloud, last)
<1>1. /\ Head(q) = q[1] /\ Len(q) \in Nat \ {0} /\ Len(r) = Len(q) - 1
      /\ \A i \in 1..Len(r) : r[i] = q[i + 1]
  BY TailFacts
<1>0. Len(r) \in Nat /\ Len(q) \in Nat
  BY LenProperties, TailFacts
<1>2. CASE k # 0
  <2>0. Len(q) >= k /\ IF Len(q) = k THEN has = last ELSE q[Len(q)].cloud = last
    BY DEF Stream
  <2>1. /\ Len(r) >= k - 1 /\ k - 1 # 2
        /\ k - 1 \in {1, 2} => r[k - 1].type = "JOIN" /\ r[k - 1].session = 1
    <3>1. CASE k = 1
      BY <1>1, <2>0, <3>1
    <3>2. CASE k = 2
      <4>1. q[2].type = "JOIN" /\ q[2].session = 1
        BY <3>2 DEF Stream
      <4>2. 1 \in 1..Len(r)
        BY <1>1, <2>0, <3>2
      <4> QED
        BY <1>1, <2>0, <3>2, <4>1, <4>2
    <3> QED
      BY <1>2, <3>1, <3>2
  <2>2. ASSUME NEW i \in k - 1 + 1..Len(r)
        PROVE  /\ r[i].type = "SUBMAP" /\ r[i].scanner = p
               /\ has \subseteq r[i].cloud /\ r[i].cloud \subseteq last
               /\ \A j \in i + 1..Len(r) : r[i].cloud \subseteq r[j].cloud
    <3>1. i + 1 \in k + 1..Len(q) /\ i \in 1..Len(r)
      BY <1>1, <1>2
    <3>2. /\ q[i + 1].type = "SUBMAP" /\ q[i + 1].scanner = p
          /\ has \subseteq q[i + 1].cloud /\ q[i + 1].cloud \subseteq last
          /\ \A j \in i + 1 + 1..Len(q) : q[i + 1].cloud \subseteq q[j].cloud
      BY <3>1 DEF Stream
    <3>3. ASSUME NEW j \in i + 1..Len(r)
          PROVE  r[i].cloud \subseteq r[j].cloud
      <4>1. j + 1 \in i + 1 + 1..Len(q) /\ j \in 1..Len(r)
        BY <1>1, <3>1
      <4> QED
        BY <1>1, <3>1, <3>2, <4>1
    <3> QED
      BY <1>1, <3>1, <3>2, <3>3
  <2>3. IF Len(r) = k - 1 THEN has = last ELSE r[Len(r)].cloud = last
    <3>1. CASE Len(q) = k
      BY <1>1, <2>0, <3>1
    <3>2. CASE Len(q) # k
      <4>1. q[Len(q)].cloud = last
        BY <2>0, <3>2
      <4>2. PICK N \in Nat : N = Len(r)
        BY <1>0
      <4>3. k \in {1, 2} /\ Len(q) > k
        BY <1>0, <1>2, <2>0, <3>2
      <4>4. Len(q) = N + 1
        BY <1>0, <1>1, <4>2
      <4>5. N # k - 1 /\ N \in 1..N
        BY <1>0, <4>2, <4>3, <4>4
      <4>6. r[N] = q[N + 1]
        BY <1>1, <4>2, <4>5
      <4>7. r[Len(r)].cloud = last /\ Len(r) # k - 1
        BY <4>1, <4>2, <4>4, <4>5, <4>6
      <4> QED
        BY <4>7
    <3> QED
      BY <3>1, <3>2
  <2> QED
    BY <1>2, <2>1, <2>2, <2>3 DEF Stream
<1>3. CASE k = 0
  <2>1. 1 \in k + 1..Len(q)
    BY <1>1, <1>3
  <2>2. \A j \in 1 + 1..Len(q) : q[1].cloud \subseteq q[j].cloud
    BY <2>1 DEF Stream
  <2>3. ASSUME NEW i \in 0 + 1..Len(r)
        PROVE  /\ r[i].type = "SUBMAP" /\ r[i].scanner = p
               /\ q[1].cloud \subseteq r[i].cloud /\ r[i].cloud \subseteq last
               /\ \A j \in i + 1..Len(r) : r[i].cloud \subseteq r[j].cloud
    <3>1. i + 1 \in k + 1..Len(q) /\ i \in 1..Len(r) /\ i + 1 \in 1 + 1..Len(q)
      BY <1>1, <1>3
    <3>2. /\ q[i + 1].type = "SUBMAP" /\ q[i + 1].scanner = p
          /\ q[i + 1].cloud \subseteq last
          /\ \A j \in i + 1 + 1..Len(q) : q[i + 1].cloud \subseteq q[j].cloud
      BY <3>1 DEF Stream
    <3>3. ASSUME NEW j \in i + 1..Len(r)
          PROVE  r[i].cloud \subseteq r[j].cloud
      <4>1. j + 1 \in i + 1 + 1..Len(q) /\ j \in 1..Len(r)
        BY <1>1, <3>1
      <4> QED
        BY <1>1, <3>1, <3>2, <4>1
    <3> QED
      BY <1>1, <2>2, <3>1, <3>2, <3>3
  <2>4. IF Len(r) = 0 THEN q[1].cloud = last ELSE r[Len(r)].cloud = last
    <3>1. q[Len(q)].cloud = last
      BY <1>1, <1>3 DEF Stream
    <3>2. CASE Len(r) = 0
      BY <1>1, <3>1, <3>2
    <3>3. CASE Len(r) # 0
      <4>1. Len(r) \in 1..Len(r) /\ Len(r) + 1 = Len(q)
        BY <1>1, <3>3
      <4> QED
        BY <1>1, <3>1, <3>3, <4>1
    <3> QED
      BY <3>2, <3>3
  <2> QED
    BY <1>1, <1>3, <2>3, <2>4 DEF Stream
<1> QED
  BY <1>2, <1>3

\* A connection on which nothing is left.
LEMMA StreamEnds ==
  ASSUME NEW p, NEW k, NEW has, NEW last, Stream(<<>>, p, k, has, last), k \in {0, 1, 2}
  PROVE  k = 0 /\ has = last
BY DEF Stream

----------------------------------------------------------------------------
(* Messages on their way down.                                               *)

Received(e, m) ==
  IF m.type = "SUBMAP" THEN IngestSubmap(e, m.scanner, m.cloud, TRUE) ELSE ApplyAlignment(e, m.state)

LEMMA MessageKinds ==
  ASSUME NEW m \in DownMessage
  PROVE  \/ m.type = "SUBMAP" /\ m.scanner \in Scanner /\ m.cloud \in Cloud
         \/ m.type = "ALIGNMENT" /\ m.state \in SoundState
BY DEF DownMessage, SubmapMessage

\* A map that only grows keeps what is on its way fine.
LEMMA DownwardGrows ==
  ASSUME NEW p, NEW d, NEW e, NEW map, NEW map2, Downward(p, d, e, map),
         Known(map) \subseteq Known(map2),
         \A n : CloudOf(map, n) \subseteq CloudOf(map2, n)
  PROVE  Downward(p, d, e, map2)
<1>1. ASSUME NEW m, Fine(m, p, map)
      PROVE  Fine(m, p, map2)
  BY <1>1 DEF Fine
<1> QED
  BY <1>1 DEF Downward

LEMMA DownwardSend ==
  ASSUME NEW p, NEW d, NEW e, NEW map, Downward(p, d, e, map), NEW m, Fine(m, p, map),
         NEW r, r = Append(d, m)
  PROVE  Downward(p, r, e, map)
<1>1. d \in Seq(DownMessage) /\ m \in DownMessage
  BY DEF Downward, Fine
<1>2. /\ r \in Seq(DownMessage) /\ Len(d) \in Nat /\ Len(r) = Len(d) + 1 /\ r[Len(d) + 1] = m
      /\ \A i \in 1..Len(d) : r[i] = d[i]
  BY <1>1, AppendFacts
<1>3. \A i \in 1..Len(r) : Fine(r[i], p, map)
  BY <1>2 DEF Downward
<1> QED
  BY <1>2, <1>3 DEF Downward

\* The clouds of an engine that has received a message.
Takes(e2, m, e) == \A n : CloudOf(e2, n) = IF Of(m, n) THEN m.cloud ELSE CloudOf(e, n)

LEMMA DownwardReceive ==
  ASSUME NEW p \in Scanner, NEW d, NEW e, NEW map, Covered(e), Downward(p, d, e, map), d # <<>>,
         NEW r, r = Tail(d), NEW e2, e2 = Received(e, Head(d))
  PROVE  /\ Covered(e2) /\ Downward(p, r, e2, map)
         /\ Takes(e2, Head(d), e)
         /\ ~Of(Head(d), p)
<1>1. /\ r \in Seq(DownMessage) /\ Head(d) \in DownMessage /\ Head(d) = d[1]
      /\ Len(d) \in Nat \ {0} /\ Len(r) = Len(d) - 1
      /\ \A i \in 1..Len(r) : r[i] = d[i + 1]
  BY TailFacts DEF Downward
<1>2. PICK m \in DownMessage : m = Head(d)
  BY <1>1
<1>3. Fine(m, p, map)
  BY <1>1, <1>2 DEF Downward
<1>4. \A i \in 1..Len(r) : Fine(r[i], p, map)
  <2>1. ASSUME NEW i \in 1..Len(r)
        PROVE  Fine(r[i], p, map)
    <3>1. i + 1 \in 1..Len(d) /\ r[i] = d[i + 1]
      BY <1>1
    <3> QED
      BY <3>1 DEF Downward
  <2> QED
    BY <2>1
<1>5. CASE m.type = "SUBMAP"
  <2>1. PICK n \in Scanner : n = m.scanner
    BY <1>5, MessageKinds
  <2>2. PICK x \in Cloud : x = m.cloud
    BY <1>5, MessageKinds
  <2>3. PICK yes \in BOOLEAN : yes = TRUE
    OBVIOUS
  <2>4. e2 = IngestSubmap(e, n, x, yes)
    BY <1>2, <1>5, <2>1, <2>2, <2>3 DEF Received
  <2>5. /\ Covered(e2) /\ Known(e2) = Known(e) \cup {n}
        /\ \A k : CloudOf(e2, k) = IF k = n THEN x ELSE CloudOf(e, k)
    BY <2>4, IngestFacts
  <2>6. n \in Known(map) /\ n # p /\ x \subseteq CloudOf(map, n)
    BY <1>3, <1>5, <2>1, <2>2 DEF Fine
  <2>7. /\ Known(e2) \subseteq Known(map) \cup {p}
        /\ \A k \in Scanner : k # p => CloudOf(e2, k) \subseteq CloudOf(map, k)
    BY <2>5, <2>6 DEF Downward
  <2>8. Downward(p, r, e2, map)
    BY <1>1, <1>4, <2>7 DEF Downward
  <2>9. \A k : Of(m, k) <=> k = n
    BY <1>5, <2>1 DEF Of
  <2> QED
    BY <1>2, <2>2, <2>5, <2>6, <2>8, <2>9 DEF Takes
<1>6. CASE m.type = "ALIGNMENT"
  <2>1. PICK a \in SoundState : a = m.state
    BY <1>6, MessageKinds
  <2>2. e2 = ApplyAlignment(e, a)
    BY <1>2, <1>6, <2>1 DEF Received
  <2>3. /\ Covered(e2) /\ Known(e2) = Known(e) \cup {n \in Scanner : a.item[n] # None}
        /\ \A k : CloudOf(e2, k) = CloudOf(e, k)
    BY <2>2, ApplyFacts
  <2>4. \A n \in Scanner : a.item[n] # None => n \in Known(map)
    BY <1>3, <1>6, <2>1 DEF Fine
  <2>5. /\ Known(e2) \subseteq Known(map) \cup {p}
        /\ \A k \in Scanner : k # p => CloudOf(e2, k) \subseteq CloudOf(map, k)
    BY <2>3, <2>4 DEF Downward
  <2>6. Downward(p, r, e2, map)
    BY <1>1, <1>4, <2>5 DEF Downward
  <2>7. \A k : ~Of(m, k)
    BY <1>6 DEF Of
  <2> QED
    BY <1>2, <2>3, <2>6, <2>7 DEF Takes
<1> QED
  BY <1>2, <1>5, <1>6, MessageKinds

LEMMA HeardSend ==
  ASSUME NEW d \in Seq(DownMessage), NEW m \in DownMessage, NEW r, r = Append(d, m),
         NEW e, NEW n, NEW x
  PROVE  /\ Of(m, n) /\ m.cloud = x => Heard(r, e, n, x)
         /\ ~Of(m, n) /\ Heard(d, e, n, x) => Heard(r, e, n, x)
<1>1. /\ Len(d) \in Nat /\ Len(r) = Len(d) + 1 /\ r[Len(d) + 1] = m
      /\ \A i \in 1..Len(d) : r[i] = d[i]
  BY AppendFacts
<1>2. ASSUME Of(m, n), m.cloud = x
      PROVE  Heard(r, e, n, x)
  <2>1. Len(d) + 1 \in 1..Len(r)
    BY <1>1
  <2>2. ASSUME NEW i \in 1..Len(r), \A j \in i + 1..Len(r) : ~Of(r[j], n)
        PROVE  i = Len(d) + 1
    <3>1. SUFFICES ASSUME i # Len(d) + 1
                   PROVE  FALSE
      OBVIOUS
    <3>2. Len(d) + 1 \in i + 1..Len(r)
      BY <1>1, <3>1
    <3> QED
      BY <1>1, <1>2, <2>2, <3>2
  <2> QED
    BY <1>1, <1>2, <2>1, <2>2 DEF Heard
<1>3. ASSUME ~Of(m, n), Heard(d, e, n, x)
      PROVE  Heard(r, e, n, x)
  <2>1. ASSUME NEW i \in 1..Len(r), Of(r[i], n), \A j \in i + 1..Len(r) : ~Of(r[j], n)
        PROVE  r[i].cloud = x
    <3>1. i \in 1..Len(d) /\ r[i] = d[i]
      BY <1>1, <1>3, <2>1
    <3>2. \A j \in i + 1..Len(d) : ~Of(d[j], n)
      BY <1>1, <2>1, <3>1
    <3> QED
      BY <1>3, <2>1, <3>1, <3>2 DEF Heard
  <2>2. ASSUME \A i \in 1..Len(r) : ~Of(r[i], n)
        PROVE  CloudOf(e, n) = x
    <3>1. \A i \in 1..Len(d) : ~Of(d[i], n)
      BY <1>1, <2>2
    <3> QED
      BY <1>3, <3>1 DEF Heard
  <2> QED
    BY <2>1, <2>2 DEF Heard
<1> QED
  BY <1>2, <1>3

LEMMA HeardReceive ==
  ASSUME NEW d \in Seq(DownMessage), d # <<>>, NEW r, r = Tail(d), NEW e, NEW e2, NEW n, NEW x,
         CloudOf(e2, n) = IF Of(Head(d), n) THEN Head(d).cloud ELSE CloudOf(e, n),
         Heard(d, e, n, x)
  PROVE  Heard(r, e2, n, x)
<1>1. /\ Head(d) = d[1] /\ Len(d) \in Nat \ {0} /\ Len(r) = Len(d) - 1
      /\ \A i \in 1..Len(r) : r[i] = d[i + 1]
  BY TailFacts
<1>0. Len(r) \in Nat
  BY <1>1
<1>2. ASSUME NEW i \in 1..Len(r), Of(r[i], n), \A j \in i + 1..Len(r) : ~Of(r[j], n)
      PROVE  r[i].cloud = x
  <2>1. i + 1 \in 1..Len(d) /\ r[i] = d[i + 1]
    BY <1>1
  <2>2. ASSUME NEW j \in i + 1 + 1..Len(d)
        PROVE  ~Of(d[j], n)
    <3>1. j - 1 \in i + 1..Len(r) /\ j - 1 \in 1..Len(r) /\ j - 1 + 1 = j
      BY <1>1, <2>1
    <3> QED
      BY <1>1, <1>2, <3>1
  <2> QED
    BY <1>2, <2>1, <2>2 DEF Heard
<1>3. ASSUME \A i \in 1..Len(r) : ~Of(r[i], n)
      PROVE  CloudOf(e2, n) = x
  <2>1. ASSUME NEW j \in 1 + 1..Len(d)
        PROVE  ~Of(d[j], n)
    <3>1. j - 1 \in 1..Len(r) /\ j - 1 + 1 = j
      BY <1>1
    <3> QED
      BY <1>1, <1>3, <3>1
  <2>2. CASE Of(Head(d), n)
    <3>1. 1 \in 1..Len(d)
      BY <1>1
    <3> QED
      BY <1>1, <2>1, <2>2, <3>1 DEF Heard
  <2>3. CASE ~Of(Head(d), n)
    <3>1. \A i \in 1..Len(d) : ~Of(d[i], n)
      BY <1>1, <2>1, <2>3
    <3> QED
      BY <2>3, <3>1 DEF Heard
  <2> QED
    BY <2>2, <2>3
<1> QED
  BY <1>2, <1>3 DEF Heard

\* Of a scanner without a cloud there is nothing to hear.
LEMMA HeardNothing ==
  ASSUME NEW p, NEW d, NEW e, NEW map, Downward(p, d, e, map), NEW n \in Scanner, n # p,
         CloudOf(map, n) = {}
  PROVE  Heard(d, e, n, {})
<1>1. CloudOf(e, n) = {}
  BY DEF Downward
<1>2. ASSUME NEW i \in 1..Len(d), Of(d[i], n)
      PROVE  d[i].cloud = {}
  <2>1. Fine(d[i], p, map)
    BY DEF Downward
  <2> QED
    BY <1>2, <2>1 DEF Fine, Of
<1> QED
  BY <1>1, <1>2 DEF Heard

LEMMA AlignedSend ==
  ASSUME NEW d \in Seq(DownMessage), NEW m \in DownMessage, NEW r, r = Append(d, m),
         NEW e, NEW a
  PROVE  /\ m.type = "ALIGNMENT" /\ m.state = a => Aligned(r, e, a)
         /\ m.type # "ALIGNMENT" /\ Aligned(d, e, a) => Aligned(r, e, a)
<1>1. /\ Len(d) \in Nat /\ Len(r) = Len(d) + 1 /\ r[Len(d) + 1] = m
      /\ \A i \in 1..Len(d) : r[i] = d[i]
  BY AppendFacts
<1>2. ASSUME m.type = "ALIGNMENT", m.state = a
      PROVE  Aligned(r, e, a)
  <2>1. Len(d) + 1 \in 1..Len(r)
    BY <1>1
  <2>2. ASSUME NEW i \in 1..Len(r), \A j \in i + 1..Len(r) : r[j].type # "ALIGNMENT"
        PROVE  i = Len(d) + 1
    <3>1. SUFFICES ASSUME i # Len(d) + 1
                   PROVE  FALSE
      OBVIOUS
    <3>2. Len(d) + 1 \in i + 1..Len(r)
      BY <1>1, <3>1
    <3> QED
      BY <1>1, <1>2, <2>2, <3>2
  <2> QED
    BY <1>1, <1>2, <2>1, <2>2 DEF Aligned
<1>3. ASSUME m.type # "ALIGNMENT", Aligned(d, e, a)
      PROVE  Aligned(r, e, a)
  <2>1. ASSUME NEW i \in 1..Len(r), r[i].type = "ALIGNMENT",
               \A j \in i + 1..Len(r) : r[j].type # "ALIGNMENT"
        PROVE  r[i].state = a
    <3>1. i \in 1..Len(d) /\ r[i] = d[i]
      BY <1>1, <1>3, <2>1
    <3>2. \A j \in i + 1..Len(d) : d[j].type # "ALIGNMENT"
      BY <1>1, <2>1, <3>1
    <3> QED
      BY <1>3, <2>1, <3>1, <3>2 DEF Aligned
  <2>2. ASSUME \A i \in 1..Len(r) : r[i].type # "ALIGNMENT"
        PROVE  AgreesWith(e, a)
    <3>1. \A i \in 1..Len(d) : d[i].type # "ALIGNMENT"
      BY <1>1, <2>2
    <3> QED
      BY <1>3, <3>1 DEF Aligned
  <2> QED
    BY <2>1, <2>2 DEF Aligned
<1> QED
  BY <1>2, <1>3

\* A participant that agrees with a map on which nothing snaps does so after
\* the next message too: a cloud the map has snaps nothing.
LEMMA AlignedReceive ==
  ASSUME NEW p \in Scanner, NEW d, NEW e, NEW map, Covered(e), Covered(map),
         Downward(p, d, e, map), d # <<>>, p \in Known(map), Snap(map) = map,
         CloudOf(e, p) = CloudOf(map, p), NEW a, a = Alignment(map), Aligned(d, e, a),
         NEW r, r = Tail(d), NEW e2, e2 = Received(e, Head(d))
  PROVE  Aligned(r, e2, a)
<1>1. /\ r \in Seq(DownMessage) /\ Head(d) \in DownMessage /\ Head(d) = d[1]
      /\ Len(d) \in Nat \ {0} /\ Len(r) = Len(d) - 1
      /\ \A i \in 1..Len(r) : r[i] = d[i + 1]
  BY TailFacts DEF Downward
<1>0. Len(r) \in Nat
  BY <1>1, LenProperties
<1>2. PICK m \in DownMessage : m = Head(d)
  BY <1>1
<1>3. Fine(m, p, map)
  BY <1>1, <1>2 DEF Downward
<1>4. /\ a \in SoundState
      /\ \A n \in Scanner : /\ a.item[n] # None <=> n \in Known(map)
                            /\ n \in Known(map) => a.item[n] = ItemOf(map.sub[n])
  BY AlignmentFacts
<1>5. ASSUME NEW i \in 1..Len(r), r[i].type = "ALIGNMENT",
             \A j \in i + 1..Len(r) : r[j].type # "ALIGNMENT"
      PROVE  r[i].state = a
  <2>1. i + 1 \in 1..Len(d) /\ r[i] = d[i + 1]
    BY <1>1
  <2>2. ASSUME NEW j \in i + 1 + 1..Len(d)
        PROVE  d[j].type # "ALIGNMENT"
    <3>1. j - 1 \in i + 1..Len(r) /\ j - 1 \in 1..Len(r) /\ j - 1 + 1 = j
      BY <1>1, <2>1
    <3> QED
      BY <1>1, <1>5, <3>1
  <2> QED
    BY <1>5, <2>1, <2>2 DEF Aligned
<1>6. ASSUME \A i \in 1..Len(r) : r[i].type # "ALIGNMENT"
      PROVE  AgreesWith(e2, a)
  <2>1. ASSUME NEW j \in 1 + 1..Len(d)
        PROVE  d[j].type # "ALIGNMENT"
    <3>1. j - 1 \in 1..Len(r) /\ j - 1 + 1 = j
      BY <1>1
    <3> QED
      BY <1>1, <1>6, <3>1
  <2>2. CASE m.type = "ALIGNMENT"
    <3>1. 1 \in 1..Len(d)
      BY <1>1
    <3>2. m.state = a
      BY <1>1, <1>2, <2>1, <2>2, <3>1 DEF Aligned
    <3>3. e2 = ApplyAlignment(e, a)
      BY <1>2, <2>2, <3>2 DEF Received
    <3>4. /\ Known(e2) = Known(e) \cup {n \in Scanner : a.item[n] # None}
          /\ \A n \in Scanner : a.item[n] # None => ItemOf(e2.sub[n]) = a.item[n]
      BY <1>4, <3>3, ApplyFacts
    <3> QED
      BY <3>4 DEF AgreesWith
  <2>3. CASE m.type = "SUBMAP"
    <3>1. \A i \in 1..Len(d) : d[i].type # "ALIGNMENT"
      BY <1>1, <1>2, <2>1, <2>3
    <3>2. AgreesWith(e, a)
      BY <3>1 DEF Aligned
    <3>3. PICK n \in Scanner : n = m.scanner
      BY <2>3, MessageKinds
    <3>4. PICK x \in Cloud : x = m.cloud
      BY <2>3, MessageKinds
    <3>5. n \in Known(map) /\ n # p /\ x \subseteq CloudOf(map, n)
      BY <1>3, <2>3, <3>3, <3>4 DEF Fine
    <3>6. Known(map) \subseteq Scanner
      BY CoveredTypes
    <3>7. Known(e) = Known(map)
      BY <1>4, <3>2, <3>6 DEF AgreesWith, Downward
    <3>8. PICK s : s = Store(e, n, x)
      OBVIOUS
    <3>9. /\ Covered(s) /\ Known(s) = Known(e) \cup {n}
          /\ \A k : CloudOf(s, k) = IF k = n THEN x ELSE CloudOf(e, k)
          /\ \A k \in Known(e) : ItemOf(s.sub[k]) = ItemOf(e.sub[k])
      BY <3>8, StoreFacts
    <3>10. Known(s) = Known(map)
      BY <3>5, <3>7, <3>9
    <3>11. \A k \in Known(map) : ItemOf(s.sub[k]) = ItemOf(map.sub[k])
      BY <1>4, <3>2, <3>6, <3>7, <3>9 DEF AgreesWith
    <3>12. \A k \in Known(map) : CloudOf(s, k) \subseteq CloudOf(map, k)
      BY <3>5, <3>6, <3>9 DEF Downward
    <3>13. Snap(s) = s
      BY <3>9, <3>10, <3>11, <3>12, NothingToSnap
    <3>14. e2 = s
      BY <1>2, <2>3, <3>3, <3>4, <3>8, <3>13 DEF Received, IngestSubmap
    <3> QED
      BY <1>4, <3>10, <3>11, <3>14 DEF AgreesWith
  <2> QED
    BY <2>2, <2>3, MessageKinds
<1> QED
  BY <1>5, <1>6 DEF Aligned

LEMMA NothingOnTheWay ==
  ASSUME NEW e, NEW n, NEW x, NEW a
  PROVE  /\ Heard(<<>>, e, n, x) => CloudOf(e, n) = x
         /\ Aligned(<<>>, e, a) => AgreesWith(e, a)
BY DEF Heard, Aligned

\* A cloud that is stored again leaves the engine as it was.
LEMMA StoreAgain ==
  ASSUME NEW e, Covered(e), NEW n \in Known(e), NEW x, e.sub[n].cloud = x
  PROVE  Store(e, n, x) = e
<1>1. /\ e = [order |-> e.order, sub |-> e.sub]
      /\ e.sub \in [Scanner -> Submap \cup {None}] /\ e.sub[n] \in Submap
      /\ n \in Scanner
  BY CoveredTypes
<1>2. [e.sub[n] EXCEPT !.cloud = x] = e.sub[n]
  BY <1>1 DEF Submap
<1>3. [e.sub EXCEPT ![n] = e.sub[n]] = e.sub
  BY <1>1
<1>4. Store(e, n, x) = [e EXCEPT !.sub[n].cloud = x]
  BY DEF Store
<1>5. Store(e, n, x) = [order |-> e.order, sub |-> [e.sub EXCEPT ![n] = [e.sub[n] EXCEPT !.cloud = x]]]
  BY <1>1, <1>4
<1> QED
  BY <1>1, <1>2, <1>3, <1>5

----------------------------------------------------------------------------
(* What holds in every step of such a session.                             *)

Rest   == /\ Roles /\ Kinded /\ Streams /\ Own
          /\ Duties /\ Downs /\ Clouded /\ Following
InStep == CoordinatorKept /\ Early /\ Rest

LEMMA DutyIdle ==
  ASSUME NEW t, NEW map
  PROVE  Duty(t, Idle, map)
BY IdleStage DEF Duty

LEMMA StageBusy ==
  ASSUME NEW t, thread[t].stage # "idle"
  PROVE  thread[t] # Idle
BY IdleStage

LEMMA TurnTaken ==
  ASSUME TakesTurns, NEW t \in Host, thread'[t] # Idle
  PROVE  \A h \in Host : h # t => thread'[h] = Idle
BY DEF TakesTurns

LEMMA HeardSame ==
  ASSUME NEW d, NEW e, NEW e2, NEW n, NEW x, CloudOf(e2, n) = CloudOf(e, n), Heard(d, e, n, x)
  PROVE  Heard(d, e2, n, x)
BY DEF Heard

LEMMA DutiesStep ==
  ASSUME Duties, NEW t \in Host, Duty(t, thread'[t], engine'[Coord]),
         \A h \in Host : h # t =>
           \/ thread'[h] = Idle
           \/ thread'[h] = thread[h] /\ engine'[Coord] = engine[Coord]
  PROVE  Duties'
<1>1. ASSUME NEW h \in Host
      PROVE  Duty(h, thread'[h], engine'[Coord])
  <2>1. CASE h = t
    BY <2>1
  <2>2. CASE h # t /\ thread'[h] = Idle
    BY <2>2, DutyIdle
  <2>3. CASE h # t /\ thread'[h] = thread[h] /\ engine'[Coord] = engine[Coord]
    BY <2>3 DEF Duties, Map
  <2> QED
    BY <2>1, <2>2, <2>3
<1> QED
  BY <1>1 DEF Duties, Map

\* What a worker's sends leave alone.
LEMMA SendRest ==
  ASSUME InStep, TakesTurns, NEW t \in Host, UNCHANGED <<engines, member, bound, up, spent>>,
         \A h \in Host : h # t => thread'[h] = thread[h],
         t \in Participant => t \in Known(Map),
         Duty(t, thread'[t], Map),
         down' = [p \in Participant |-> down'[p]],
         \A p \in Participant : /\ Downward(p, down'[p], engine[p], Map)
                                /\ p \notin bound => down'[p] = <<>>
  PROVE  Roles' /\ Kinded' /\ Streams' /\ Own' /\ Duties' /\ Downs'
<1>1. UNCHANGED <<engine, latest, announced, member, bound, up, spent>>
  BY DEF engines
<1>2. Roles'
  BY <1>1, Hosts DEF InStep, Rest, Roles, Map, TakesTurns
<1>3. Kinded'
  BY <1>1 DEF InStep, Rest, Kinded
<1>4. Streams'
  BY <1>1 DEF InStep, Rest, Streams, Map, Opening
<1>5. Own'
  BY <1>1 DEF InStep, Rest, Own
<1>6. Duties'
  BY <1>1, DutiesStep DEF InStep, Rest, Map
<1>7. Downs'
  BY <1>1 DEF Downs, Map
<1> QED
  BY <1>2, <1>3, <1>4, <1>5, <1>6, <1>7

\* The send of one message, as each participant's connection sees it.
LEMMA BroadcastAt ==
  ASSUME Downs, NEW to, NEW m, down' = Broadcast(to, m),
         \A p \in Participant : p \in to => p \in bound /\ Fine(m, p, Map),
         \A p \in Participant : p \notin bound => down[p] = <<>>
  PROVE  /\ down' = [p \in Participant |-> down'[p]]
         /\ \A p \in Participant : /\ down'[p] = IF p \in to THEN Append(down[p], m) ELSE down[p]
                                   /\ Downward(p, down'[p], engine[p], Map)
                                   /\ p \notin bound => down'[p] = <<>>
<1>1. /\ down' = [p \in Participant |-> down'[p]]
      /\ \A p \in Participant : down'[p] = IF p \in to THEN Append(down[p], m) ELSE down[p]
  BY DEF Broadcast
<1>2. ASSUME NEW p \in Participant
      PROVE  Downward(p, down'[p], engine[p], Map)
  <2>1. Downward(p, down[p], engine[p], Map)
    BY DEF Downs
  <2>2. CASE p \in to
    <3>1. PICK r : r = Append(down[p], m)
      OBVIOUS
    <3>2. Downward(p, r, engine[p], Map)
      BY <2>1, <2>2, <3>1, DownwardSend
    <3> QED
      BY <1>1, <2>2, <3>1, <3>2
  <2>3. CASE p \notin to
    BY <1>1, <2>1, <2>3
  <2> QED
    BY <2>2, <2>3
<1> QED
  BY <1>1, <1>2

LEMMA SendAt ==
  ASSUME Downs, NEW to \in Participant, to \in bound, NEW m, Fine(m, to, Map),
         down' = [down EXCEPT ![to] = Append(@, m)],
         \A p \in Participant : p \notin bound => down[p] = <<>>
  PROVE  /\ down' = [p \in Participant |-> down'[p]]
         /\ \A p \in Participant : /\ down'[p] = IF p = to THEN Append(down[p], m) ELSE down[p]
                                   /\ Downward(p, down'[p], engine[p], Map)
                                   /\ p \notin bound => down'[p] = <<>>
<1>1. down = [p \in Participant |-> down[p]]
  BY DEF Downs
<1>2. down' = Broadcast({to}, m)
  BY <1>1 DEF Broadcast
<1>3. \A p \in Participant : p \in {to} => p \in bound /\ Fine(m, p, Map)
  OBVIOUS
<1>4. /\ down' = [p \in Participant |-> down'[p]]
      /\ \A p \in Participant : /\ down'[p] = IF p \in {to} THEN Append(down[p], m) ELSE down[p]
                                /\ Downward(p, down'[p], engine[p], Map)
                                /\ p \notin bound => down'[p] = <<>>
  BY <1>2, <1>3, BroadcastAt
<1> QED
  BY <1>4

LEMMA TellsFine ==
  ASSUME NEW map, Covered(map), NEW n \in Known(map), NEW p, p # n, NEW m, Tells(m, n, map)
  PROVE  /\ Fine(m, p, map) /\ m \in DownMessage /\ m.type = "SUBMAP" /\ m.scanner = n
         /\ m.cloud = CloudOf(map, n) /\ m # None
<1>1. n \in Scanner /\ CloudOf(map, n) \in Cloud
  BY CoveredTypes, CloudType
<1>2. /\ m = [type |-> "SUBMAP", scanner |-> n, cloud |-> CloudOf(map, n)]
      /\ m.type = "SUBMAP" /\ m.scanner = n /\ m.cloud = CloudOf(map, n)
  BY DEF Tells
<1>3. m \in SubmapMessage
  BY <1>1, <1>2 DEF SubmapMessage
<1> QED
  BY <1>2, <1>3, NoneAssumption DEF Fine, DownMessage

LEMMA AlignmentFine ==
  ASSUME NEW map, Covered(map), NEW p, NEW m, m = AlignmentOf(map)
  PROVE  /\ Fine(m, p, map) /\ m \in DownMessage
         /\ m.type = "ALIGNMENT" /\ m.state = Alignment(map) /\ \A n : ~Of(m, n)
<1>1. /\ Alignment(map) \in SoundState
      /\ \A n \in Scanner : Alignment(map).item[n] # None <=> n \in Known(map)
  BY AlignmentFacts
<1>2. m = [type |-> "ALIGNMENT", state |-> Alignment(map)] /\ m.type = "ALIGNMENT" /\ m.state = Alignment(map)
  BY DEF AlignmentOf
<1>3. m \in DownMessage
  BY <1>1, <1>2 DEF DownMessage
<1> QED
  BY <1>1, <1>2, <1>3 DEF Fine, Of

----------------------------------------------------------------------------
LEMMA SerializeSubmapInStep ==
  ASSUME InStep, TakesTurns, NEW p \in Participant, SerializeSubmap(p)
  PROVE  Rest'
<1> DEFINE n    == Head(thread[p].todo)
           rest == Tail(thread[p].todo)
           owed == thread[p].owed
<1>1. /\ thread[p].stage = "push" /\ thread[p].todo # <<>> /\ p \in Host
      /\ UNCHANGED <<engine, latest, announced, member, bound, up, down, spent>>
  BY Hosts DEF SerializeSubmap, engines, network
<1>2. /\ Duty(p, thread[p], Map) /\ Covered(Map) /\ Coord # p /\ Coord \in Host
  BY <1>1, Hosts DEF InStep, Rest, Duties, Kinded, Map
<1>3. thread[p].todo \in Seq(Scanner) /\ owed \subseteq Known(Map) \ {p}
  BY <1>1, <1>2 DEF Duty
<1>4. n \in Scanner /\ rest \in Seq(Scanner)
      /\ \A x : Listed(thread[p].todo, x) => x = n \/ Listed(rest, x)
  <2>1. PICK q \in Seq(Scanner) : q = thread[p].todo
    BY <1>3
  <2>2. PICK r : r = Tail(q)
    OBVIOUS
  <2>3. /\ r \in Seq(Scanner) /\ Head(q) \in Scanner /\ Head(q) = q[1]
        /\ Len(q) \in Nat \ {0} /\ Len(r) = Len(q) - 1
        /\ \A i \in 1..Len(r) : r[i] = q[i + 1]
    BY <1>1, <2>1, <2>2, TailFacts
  <2>4. ASSUME NEW x, Listed(q, x)
        PROVE  x = Head(q) \/ Listed(r, x)
    <3>1. PICK k \in 1..Len(q) : q[k] = x
      BY <2>4 DEF Listed
    <3>2. CASE k = 1
      BY <2>3, <3>1, <3>2
    <3>3. CASE k # 1
      <4>1. k - 1 \in 1..Len(r) /\ k - 1 + 1 = k
        BY <2>3, <3>1, <3>3
      <4> QED
        BY <2>3, <3>1, <4>1 DEF Listed
    <3> QED
      BY <3>2, <3>3
  <2> QED
    BY <2>1, <2>2, <2>3, <2>4
<1> HIDE DEF n, rest, owed
<1>5. PICK next :
        /\ Continue(p, next)
        /\ \/ /\ n \in owed
              /\ next = [stage |-> "pushing", todo |-> rest, owed |-> owed, msg |-> SubmapOf(n, Map)]
           \/ n \notin owed /\ next = [stage |-> "push", todo |-> rest, owed |-> owed]
  <2>1. CASE n \in owed
    <3>1. n \in owed \cap Known(engine[Coord])
      BY <1>3, <2>1 DEF Map
    <3>2. Continue(p, [stage |-> "pushing", todo |-> rest, owed |-> owed, msg |-> SubmapOf(n, Map)])
      BY <3>1 DEF SerializeSubmap, n, rest, owed, Map
    <3> QED
      BY <2>1, <3>2
  <2>2. CASE n \notin owed
    <3>1. Continue(p, [stage |-> "push", todo |-> rest, owed |-> owed])
      BY <2>2 DEF SerializeSubmap, n, rest, owed
    <3> QED
      BY <2>2, <3>1
  <2> QED
    BY <2>1, <2>2
<1>6. thread'[p] = next /\ \A h \in Host : h # p => thread'[h] = thread[h]
  BY <1>1, <1>5, ContinueAt DEF InStep
<1>7. /\ next.stage \in {"push", "pushing"} /\ next.todo = rest /\ next.owed = owed
      /\ next.stage = "pushing" => n \in owed /\ next.msg = SubmapOf(n, Map)
      /\ n \in owed => next.stage = "pushing"
  BY <1>5
<1>8. n \in owed => n \in Known(Map) \ {p} /\ Tells(SubmapOf(n, Map), n, Map) /\ SubmapOf(n, Map).scanner = n
  BY <1>3 DEF Tells, SubmapOf, CloudOf
<1>9. Duty(p, next, Map)
  BY <1>2, <1>3, <1>4, <1>7, <1>8 DEF Duty
<1>10. p \in Known(Map) /\ \A q \in Participant : q \notin bound => down'[q] = <<>>
  BY <1>1, StageBusy DEF InStep, Rest, Roles
<1>11. /\ down' = [q \in Participant |-> down'[q]]
       /\ \A q \in Participant : Downward(q, down'[q], engine[q], Map)
  BY <1>1 DEF InStep, Rest, Downs
<1>12. Roles' /\ Kinded' /\ Streams' /\ Own' /\ Duties' /\ Downs'
  BY <1>1, <1>6, <1>9, <1>10, <1>11, SendRest DEF engines
<1>13. Clouded'
  <2>1. SUFFICES ASSUME NEW q \in Participant, NEW k \in Scanner, q \in Known(Map), k # q
                 PROVE  Owed(q, k)' \/ Heard(down[q], engine[q], k, CloudOf(Map, k))
    BY <1>1 DEF Clouded, Map
  <2>2. Owed(q, k) \/ Heard(down[q], engine[q], k, CloudOf(Map, k))
    BY <2>1 DEF InStep, Rest, Clouded
  <2>3. k \in Participant /\ Relaying(thread[k]) => thread'[k] = thread[k]
    BY <1>1, <1>6, Hosts DEF Relaying
  <2>4. Owes(thread[q], k) => Owes(thread'[q], k)
    <3>1. CASE q # p
      BY <1>6, <3>1, Hosts
    <3>2. CASE q = p
      <4>1. SUFFICES ASSUME Owes(thread[p], k)
                     PROVE  Owes(next, k)
        BY <1>6, <3>2
      <4>2. k \in owed /\ Listed(thread[p].todo, k)
        BY <1>1, <4>1 DEF Owes, owed
      <4>3. k = n \/ Listed(rest, k)
        BY <1>4, <4>2
      <4> QED
        BY <1>7, <1>8, <4>2, <4>3 DEF Owes
    <3> QED
      BY <3>1, <3>2
  <2> QED
    BY <2>2, <2>3, <2>4 DEF Owed
<1>14. Following'
  <2>1. ASSUME NEW q \in Participant, Coming(q)
        PROVE  Coming(q)'
    <3>1. \A t \in Host : Announcing(thread[t]) => thread'[t] = thread[t]
      BY <1>1, <1>6 DEF Announcing
    <3>2. Greeting(thread[q]) => Greeting(thread'[q])
      BY <1>6, <1>7, Hosts DEF Greeting
    <3> QED
      BY <2>1, <3>1, <3>2 DEF Coming
  <2> QED
    BY <1>1, <2>1 DEF InStep, Rest, Following, Settled, Map
<1> QED
  BY <1>12, <1>13, <1>14 DEF Rest

----------------------------------------------------------------------------
(* What the coordinator's threads send.                                      *)

\* Where one thread moves on, who else has something to say has it still.
LEMMA StillComing ==
  ASSUME NEW t \in Host, \A h \in Host : h # t => thread'[h] = thread[h],
         Announcing(thread[t]) => Announcing(thread'[t]),
         NEW q \in Participant, q = t /\ Greeting(thread[t]) => Greeting(thread'[t]),
         Coming(q)
  PROVE  Coming(q)'
<1>1. q \in Host
  BY Hosts
<1>2. \A h \in Host : Announcing(thread[h]) => Announcing(thread'[h])
  OBVIOUS
<1>3. Greeting(thread[q]) => Greeting(thread'[q])
  BY <1>1
<1> QED
  BY <1>2, <1>3 DEF Coming

LEMMA StillOwed ==
  ASSUME NEW t \in Host, \A h \in Host : h # t => thread'[h] = thread[h],
         NEW q \in Participant, NEW k \in Scanner,
         q = t /\ Owes(thread[t], k) => Owes(thread'[t], k),
         k = t /\ Relaying(thread[t]) => Relaying(thread'[t]),
         Owed(q, k)
  PROVE  Owed(q, k)'
<1>1. q \in Host /\ (k \in Participant => k \in Host)
  BY Hosts
<1>2. Owes(thread[q], k) => Owes(thread'[q], k)
  BY <1>1
<1>3. k \in Participant /\ Relaying(thread[k]) => Relaying(thread'[k])
  BY <1>1
<1> QED
  BY <1>2, <1>3 DEF Owed

LEMMA MapKinds ==
  ASSUME InStep
  PROVE  /\ Covered(Map) /\ Downs /\ Duties /\ Coord \in Host
         /\ \A p \in Participant : /\ p \notin bound => down[p] = <<>>
                                   /\ p \in Known(Map) => p \in bound /\ p \in member
                                   /\ down[p] \in Seq(DownMessage)
                                   /\ Duty(p, thread[p], Map)
                                   /\ p \in Host /\ p \in Scanner /\ p # Coord
<1>1. \A p \in Participant : p \in Known(Map) => p \in bound /\ p \in member
  BY Hosts DEF InStep, Rest, Roles
<1>2. \A p \in Participant : down[p] \in Seq(DownMessage) /\ p \in Host /\ p \in Scanner /\ p # Coord
  BY Hosts DEF InStep, Rest, Downs, Downward
<1>3. \A p \in Participant : p \notin bound => down[p] = <<>>
  BY DEF InStep, Rest, Roles
<1>4. Covered(Map) /\ Downs /\ Duties /\ Coord \in Host
  BY Hosts DEF InStep, Rest, Kinded, Map
<1>5. \A p \in Participant : Duty(p, thread[p], Map)
  BY <1>2, <1>4 DEF Duties
<1> QED
  BY <1>1, <1>2, <1>3, <1>4, <1>5

LEMMA TellsMessage ==
  ASSUME NEW map, Covered(map), NEW n \in Known(map), NEW m, Tells(m, n, map)
  PROVE  m \in DownMessage /\ m.type = "SUBMAP" /\ m.scanner = n /\ m.cloud = CloudOf(map, n)
<1>1. n \in Scanner /\ CloudOf(map, n) \in Cloud
  BY CoveredTypes, CloudType
<1>2. m = [type |-> "SUBMAP", scanner |-> n, cloud |-> CloudOf(map, n)]
  BY DEF Tells
<1> QED
  BY <1>1, <1>2 DEF DownMessage, SubmapMessage

LEMMA SendSubmapInStep ==
  ASSUME InStep, TakesTurns, NEW p \in Participant, SendSubmap(p)
  PROVE  Rest'
<1> DEFINE m == thread[p].msg
           next == [stage |-> "push", todo |-> thread[p].todo, owed |-> thread[p].owed]
<1>1. /\ thread[p].stage = "pushing" /\ Continue(p, next)
      /\ UNCHANGED <<engine, latest, announced, member, bound, up, spent>>
      /\ down' = [down EXCEPT ![p] = Append(@, m)]
  BY DEF SendSubmap, engines
<1>2. /\ Covered(Map) /\ Downs /\ Duty(p, thread[p], Map) /\ p \in Host
      /\ p \in Known(Map) /\ p \in bound /\ p # Coord
      /\ \A q \in Participant : q \notin bound => down[q] = <<>>
      /\ \A q \in Participant : down[q] \in Seq(DownMessage)
  BY <1>1, MapKinds, StageBusy DEF InStep, Rest, Roles
<1>3. PICK n \in Known(Map) \ {p} : Tells(m, n, Map)
  BY <1>1, <1>2 DEF Duty
<1>4. /\ Fine(m, p, Map) /\ m \in DownMessage /\ m.scanner = n /\ m.cloud = CloudOf(Map, n)
      /\ \A k : Of(m, k) <=> k = n
      /\ m.type = "SUBMAP"
  BY <1>2, <1>3, TellsFine DEF Of
<1>5. thread'[p] = next /\ \A h \in Host : h # p => thread'[h] = thread[h]
  BY <1>1, <1>2, ContinueAt DEF InStep
<1>6. Duty(p, next, Map)
  BY <1>1, <1>2 DEF Duty
<1> HIDE DEF m
<1>7. /\ down' = [q \in Participant |-> down'[q]]
      /\ \A q \in Participant : /\ down'[q] = IF q = p THEN Append(down[q], m) ELSE down[q]
                                /\ Downward(q, down'[q], engine[q], Map)
                                /\ q \notin bound => down'[q] = <<>>
  BY <1>1, <1>2, <1>4, SendAt
<1>8. Roles' /\ Kinded' /\ Streams' /\ Own' /\ Duties' /\ Downs'
  BY <1>1, <1>2, <1>5, <1>6, <1>7, SendRest DEF engines
<1>9. Clouded'
  <2>1. SUFFICES ASSUME NEW q \in Participant, NEW k \in Scanner, q \in Known(Map), k # q
                 PROVE  Owed(q, k)' \/ Heard(down'[q], engine[q], k, CloudOf(Map, k))
    BY <1>1 DEF Clouded, Map
  <2>2. Owed(q, k) \/ Heard(down[q], engine[q], k, CloudOf(Map, k))
    BY <2>1 DEF InStep, Rest, Clouded
  <2>3. CASE q = p /\ k = n
    BY <1>2, <1>4, <1>7, <2>3, HeardSend
  <2>4. CASE ~(q = p /\ k = n)
    <3>1. q = p /\ Owes(thread[p], k) => Owes(thread'[p], k)
      BY <1>1, <1>4, <1>5, <2>4 DEF Owes, m
    <3>2. ~Relaying(thread[p])
      BY <1>1 DEF Relaying
    <3>3. Owed(q, k) => Owed(q, k)'
      BY <1>2, <1>5, <3>1, <3>2, StillOwed
    <3>4. Heard(down[q], engine[q], k, CloudOf(Map, k)) => Heard(down'[q], engine[q], k, CloudOf(Map, k))
      <4>1. CASE q # p
        BY <1>7, <4>1
      <4>2. CASE q = p
        BY <1>2, <1>4, <1>7, <2>4, <4>2, HeardSend
      <4> QED
        BY <4>1, <4>2
    <3> QED
      BY <2>2, <3>3, <3>4
  <2> QED
    BY <2>3, <2>4
<1>10. Following'
  <2>1. ASSUME NEW q \in Participant, Coming(q)
        PROVE  Coming(q)'
    <3>1. ~Announcing(thread[p]) /\ Greeting(thread'[p])
      BY <1>1, <1>5 DEF Announcing, Greeting
    <3> QED
      BY <1>2, <1>5, <2>1, <3>1, StillComing
  <2>2. ASSUME NEW q \in Participant, q = p
        PROVE  Coming(q)'
    BY <1>5, <2>2 DEF Coming, Greeting
  <2>3. \A q \in Participant : q # p => down'[q] = down[q]
    BY <1>7
  <2> QED
    BY <1>1, <2>1, <2>2, <2>3 DEF InStep, Rest, Following, Settled, Map
<1> QED
  BY <1>8, <1>9, <1>10 DEF Rest

LEMMA SerializeGreetingInStep ==
  ASSUME InStep, TakesTurns, NEW p \in Participant, SerializeGreeting(p)
  PROVE  Rest'
<1> DEFINE next == [stage |-> "greet", msg |-> AlignmentOf(Map)]
<1>1. /\ thread[p].stage = "push" /\ thread[p].todo = <<>> /\ Continue(p, next)
      /\ UNCHANGED <<engine, latest, announced, member, bound, up, down, spent>>
  BY DEF SerializeGreeting, engines, network, Map
<1>2. /\ p \in Host /\ p \in Known(Map) /\ p # Coord
      /\ \A q \in Participant : q \notin bound => down'[q] = <<>>
  BY <1>1, MapKinds, StageBusy DEF InStep, Rest, Roles
<1>3. thread'[p] = next /\ \A h \in Host : h # p => thread'[h] = thread[h]
  BY <1>1, <1>2, ContinueAt DEF InStep
<1>4. Duty(p, next, Map)
  BY <1>2 DEF Duty
<1>5. /\ down' = [q \in Participant |-> down'[q]]
      /\ \A q \in Participant : Downward(q, down'[q], engine[q], Map)
  BY <1>1 DEF InStep, Rest, Downs
<1>6. Roles' /\ Kinded' /\ Streams' /\ Own' /\ Duties' /\ Downs'
  BY <1>1, <1>2, <1>3, <1>4, <1>5, SendRest DEF engines
<1>7. Clouded'
  <2>1. SUFFICES ASSUME NEW q \in Participant, NEW k \in Scanner, q \in Known(Map), k # q
                 PROVE  Owed(q, k)' \/ Heard(down[q], engine[q], k, CloudOf(Map, k))
    BY <1>1 DEF Clouded, Map
  <2>2. Owed(q, k) \/ Heard(down[q], engine[q], k, CloudOf(Map, k))
    BY <2>1 DEF InStep, Rest, Clouded
  <2>3. ~Owes(thread[p], k) /\ ~Relaying(thread[p])
    <3>1. ~Listed(<<>>, k)
      BY DEF Listed
    <3> QED
      BY <1>1, <3>1 DEF Owes, Relaying
  <2>4. Owed(q, k) => Owed(q, k)'
    BY <1>2, <1>3, <2>3, StillOwed
  <2> QED
    BY <2>2, <2>4
<1>8. Following'
  <2>1. ASSUME NEW q \in Participant, Coming(q)
        PROVE  Coming(q)'
    <3>1. ~Announcing(thread[p]) /\ Greeting(thread'[p])
      BY <1>1, <1>3 DEF Announcing, Greeting
    <3> QED
      BY <1>2, <1>3, <2>1, <3>1, StillComing
  <2> QED
    BY <1>1, <2>1 DEF InStep, Rest, Following, Settled, Map
<1> QED
  BY <1>6, <1>7, <1>8 DEF Rest

LEMMA SendGreetingInStep ==
  ASSUME InStep, TakesTurns, NEW p \in Participant, SendGreeting(p)
  PROVE  Rest'
<1> DEFINE m == thread[p].msg
<1>1. /\ thread[p].stage = "greet" /\ Continue(p, Idle)
      /\ UNCHANGED <<engine, latest, announced, member, bound, up, spent>>
      /\ down' = [down EXCEPT ![p] = Append(@, m)]
  BY DEF SendGreeting, engines
<1>2. /\ Covered(Map) /\ Downs /\ Duty(p, thread[p], Map) /\ p \in Host
      /\ p \in Known(Map) /\ p \in bound /\ p # Coord
      /\ \A q \in Participant : q \notin bound => down[q] = <<>>
      /\ \A q \in Participant : down[q] \in Seq(DownMessage)
  BY <1>1, MapKinds, StageBusy DEF InStep, Rest, Roles
<1>3. m = AlignmentOf(Map)
  BY <1>1, <1>2 DEF Duty
<1> HIDE DEF m
<1>4. /\ Fine(m, p, Map) /\ m \in DownMessage
      /\ m.type = "ALIGNMENT" /\ m.state = Alignment(Map) /\ \A n : ~Of(m, n)
  BY <1>2, <1>3, AlignmentFine
<1>5. thread'[p] = Idle /\ \A h \in Host : h # p => thread'[h] = thread[h]
  BY <1>1, <1>2, ContinueAt DEF InStep
<1>6. Duty(p, thread'[p], Map)
  BY <1>5, DutyIdle
<1>7. /\ down' = [q \in Participant |-> down'[q]]
      /\ \A q \in Participant : /\ down'[q] = IF q = p THEN Append(down[q], m) ELSE down[q]
                                /\ Downward(q, down'[q], engine[q], Map)
                                /\ q \notin bound => down'[q] = <<>>
  BY <1>1, <1>2, <1>4, SendAt
<1>8. Roles' /\ Kinded' /\ Streams' /\ Own' /\ Duties' /\ Downs'
  BY <1>1, <1>2, <1>5, <1>6, <1>7, SendRest DEF engines
<1>9. Clouded'
  <2>1. SUFFICES ASSUME NEW q \in Participant, NEW k \in Scanner, q \in Known(Map), k # q
                 PROVE  Owed(q, k)' \/ Heard(down'[q], engine[q], k, CloudOf(Map, k))
    BY <1>1 DEF Clouded, Map
  <2>2. Owed(q, k) \/ Heard(down[q], engine[q], k, CloudOf(Map, k))
    BY <2>1 DEF InStep, Rest, Clouded
  <2>3. ~Owes(thread[p], k) /\ ~Relaying(thread[p])
    BY <1>1 DEF Owes, Relaying
  <2>4. Owed(q, k) => Owed(q, k)'
    BY <1>2, <1>5, <2>3, StillOwed
  <2>5. Heard(down[q], engine[q], k, CloudOf(Map, k)) => Heard(down'[q], engine[q], k, CloudOf(Map, k))
    <3>1. CASE q # p
      BY <1>7, <3>1
    <3>2. CASE q = p
      BY <1>2, <1>4, <1>7, <3>2, HeardSend
    <3> QED
      BY <3>1, <3>2
  <2> QED
    BY <2>2, <2>4, <2>5
<1>10. Following'
  <2>1. ASSUME NEW q \in Participant, q # p, Coming(q)
        PROVE  Coming(q)'
    <3>1. ~Announcing(thread[p])
      BY <1>1 DEF Announcing
    <3> QED
      BY <1>2, <1>5, <2>1, <3>1, StillComing
  <2>2. Aligned(down'[p], engine[p], Alignment(Map))
    BY <1>2, <1>4, <1>7, AlignedSend
  <2>3. \A q \in Participant : q # p => down'[q] = down[q]
    BY <1>7
  <2> QED
    BY <1>1, <2>1, <2>2, <2>3 DEF InStep, Rest, Following, Settled, Map
<1> QED
  BY <1>8, <1>9, <1>10 DEF Rest

LEMMA RelayInStep ==
  ASSUME InStep, TakesTurns, NEW p \in Participant, Relay(p)
  PROVE  Rest'
<1> DEFINE m == thread[p].msg
<1>1. /\ thread[p].stage = "relay" /\ Continue(p, Idle)
      /\ UNCHANGED <<engine, latest, announced, member, bound, up, spent>>
      /\ down' = Broadcast(bound \ {p}, m)
  BY DEF Relay, engines
<1>2. /\ Covered(Map) /\ Downs /\ Duty(p, thread[p], Map) /\ p \in Host
      /\ p \in Known(Map) /\ p \in bound /\ p # Coord
      /\ \A q \in Participant : q \notin bound => down[q] = <<>>
      /\ \A q \in Participant : down[q] \in Seq(DownMessage) /\ (q \in Known(Map) => q \in bound)
  BY <1>1, MapKinds, StageBusy DEF InStep, Rest, Roles
<1>3. Tells(m, p, Map)
  BY <1>1, <1>2 DEF Duty
<1> HIDE DEF m
<1>4. /\ \A q \in Participant : q # p => Fine(m, q, Map)
      /\ m \in DownMessage /\ m.type = "SUBMAP" /\ m.cloud = CloudOf(Map, p)
      /\ \A k : Of(m, k) <=> k = p
  <2>1. \A q \in Participant : q # p => Fine(m, q, Map)
    BY <1>2, <1>3, TellsFine
  <2>2. /\ m \in DownMessage /\ m.type = "SUBMAP" /\ m.scanner = p
        /\ m.cloud = CloudOf(Map, p)
    BY <1>2, <1>3, TellsMessage
  <2> QED
    BY <2>1, <2>2 DEF Of
<1>5. thread'[p] = Idle /\ \A h \in Host : h # p => thread'[h] = thread[h]
  BY <1>1, <1>2, ContinueAt DEF InStep
<1>6. Duty(p, thread'[p], Map)
  BY <1>5, DutyIdle
<1>7. /\ down' = [q \in Participant |-> down'[q]]
      /\ \A q \in Participant : /\ down'[q] = IF q \in bound \ {p} THEN Append(down[q], m) ELSE down[q]
                                /\ Downward(q, down'[q], engine[q], Map)
                                /\ q \notin bound => down'[q] = <<>>
  BY <1>1, <1>2, <1>4, BroadcastAt
<1>8. Roles' /\ Kinded' /\ Streams' /\ Own' /\ Duties' /\ Downs'
  BY <1>1, <1>2, <1>5, <1>6, <1>7, SendRest DEF engines
<1>9. Clouded'
  <2>1. SUFFICES ASSUME NEW q \in Participant, NEW k \in Scanner, q \in Known(Map), k # q
                 PROVE  Owed(q, k)' \/ Heard(down'[q], engine[q], k, CloudOf(Map, k))
    BY <1>1 DEF Clouded, Map
  <2>2. Owed(q, k) \/ Heard(down[q], engine[q], k, CloudOf(Map, k))
    BY <2>1 DEF InStep, Rest, Clouded
  <2>3. CASE k = p
    <3>1. down'[q] = Append(down[q], m)
      BY <1>2, <1>7, <2>1, <2>3
    <3> QED
      BY <1>2, <1>4, <2>3, <3>1, HeardSend
  <2>4. CASE k # p
    <3>1. ~Owes(thread[p], k)
      BY <1>1 DEF Owes
    <3>2. Owed(q, k) => Owed(q, k)'
      BY <1>2, <1>5, <2>4, <3>1, StillOwed
    <3>3. Heard(down[q], engine[q], k, CloudOf(Map, k)) => Heard(down'[q], engine[q], k, CloudOf(Map, k))
      <4>1. CASE q \notin bound \ {p}
        BY <1>7, <4>1
      <4>2. CASE q \in bound \ {p}
        BY <1>2, <1>4, <1>7, <2>4, <4>2, HeardSend
      <4> QED
        BY <4>1, <4>2
    <3> QED
      BY <2>2, <3>2, <3>3
  <2> QED
    BY <2>3, <2>4
<1>10. Following'
  <2>1. ASSUME NEW q \in Participant, Coming(q)
        PROVE  Coming(q)'
    <3>1. ~Announcing(thread[p]) /\ ~Greeting(thread[p])
      BY <1>1 DEF Announcing, Greeting
    <3> QED
      BY <1>2, <1>5, <2>1, <3>1, StillComing
  <2>2. ASSUME NEW q \in Participant, Aligned(down[q], engine[q], Alignment(Map))
        PROVE  Aligned(down'[q], engine[q], Alignment(Map))
    <3>1. CASE q \notin bound \ {p}
      BY <1>7, <2>2, <3>1
    <3>2. CASE q \in bound \ {p}
      BY <1>2, <1>4, <1>7, <2>2, <3>2, AlignedSend
    <3> QED
      BY <3>1, <3>2
  <2> QED
    BY <1>1, <2>1, <2>2 DEF InStep, Rest, Following, Settled, Map
<1> QED
  BY <1>8, <1>9, <1>10 DEF Rest

LEMMA AnnounceInStep ==
  ASSUME InStep, TakesTurns, NEW t \in Host, Announce(t)
  PROVE  Rest'
<1> DEFINE m == thread[t].msg
           relay == thread[t].relay
           next == IF relay = None THEN Idle ELSE [stage |-> "relay", msg |-> relay]
<1>1. /\ thread[t].stage = "announce" /\ Continue(t, next)
      /\ UNCHANGED <<engine, latest, announced, member, bound, up, spent>>
      /\ down' = IF Coord \in member THEN Broadcast(bound, m) ELSE down
  BY DEF Announce, engines
<1>2. /\ Covered(Map) /\ Downs /\ Duty(t, thread[t], Map)
      /\ t \in Participant => t \in Known(Map)
      /\ \A q \in Participant : q \notin bound => down[q] = <<>>
      /\ \A q \in Participant : down[q] \in Seq(DownMessage) /\ (q \in Known(Map) => q \in bound)
  BY <1>1, MapKinds, StageBusy DEF InStep, Rest, Roles, Duties
<1>3. m = AlignmentOf(Map) /\ IF t = Coord THEN relay = None ELSE Tells(relay, t, Map)
  BY <1>1, <1>2 DEF Duty
<1> HIDE DEF m, relay
<1>4. /\ \A q \in Participant : Fine(m, q, Map)
      /\ m \in DownMessage
      /\ m.type = "ALIGNMENT" /\ m.state = Alignment(Map) /\ \A n : ~Of(m, n)
  BY <1>2, <1>3, AlignmentFine
<1>5. t \in Participant => relay # None
  <2>1. SUFFICES ASSUME t \in Participant
                 PROVE  relay # None
    OBVIOUS
  <2>2. t \in Known(Map) /\ Tells(relay, t, Map)
    BY <1>2, <1>3, <2>1, Hosts
  <2>3. PICK q : q # t
    BY <2>1, Hosts
  <2> QED
    BY <1>2, <2>2, <2>3, TellsFine
<1>6. thread'[t] = next /\ \A h \in Host : h # t => thread'[h] = thread[h]
  BY <1>1, ContinueAt DEF InStep
<1>7. Duty(t, next, Map)
  <2>1. CASE relay = None
    BY <2>1, DutyIdle
  <2>2. CASE relay # None
    BY <1>3, <2>2 DEF Duty
  <2> QED
    BY <2>1, <2>2
<1>8. /\ down' = [q \in Participant |-> down'[q]]
      /\ \A q \in Participant : /\ down'[q] = IF q \in bound THEN Append(down[q], m) ELSE down[q]
                                /\ Downward(q, down'[q], engine[q], Map)
                                /\ q \notin bound => down'[q] = <<>>
  <2>1. CASE Coord \in member
    BY <1>1, <1>2, <1>4, <2>1, BroadcastAt
  <2>2. CASE Coord \notin member
    <3>1. bound = {}
      BY <2>2 DEF InStep, Rest, Roles
    <3> QED
      BY <1>1, <1>2, <2>2, <3>1 DEF Downs
  <2> QED
    BY <2>1, <2>2
<1>9. Roles' /\ Kinded' /\ Streams' /\ Own' /\ Duties' /\ Downs'
  BY <1>1, <1>2, <1>6, <1>7, <1>8, SendRest DEF engines
<1>10. Clouded'
  <2>1. SUFFICES ASSUME NEW q \in Participant, NEW k \in Scanner, q \in Known(Map), k # q
                 PROVE  Owed(q, k)' \/ Heard(down'[q], engine[q], k, CloudOf(Map, k))
    BY <1>1 DEF Clouded, Map
  <2>2. Owed(q, k) \/ Heard(down[q], engine[q], k, CloudOf(Map, k))
    BY <2>1 DEF InStep, Rest, Clouded
  <2>3. ~Owes(thread[t], k)
    BY <1>1 DEF Owes
  <2>4. t \in Participant => Relaying(thread'[t])
    BY <1>5, <1>6 DEF Relaying
  <2>5. Owed(q, k) => Owed(q, k)'
    <3>1. CASE t \in Participant
      BY <1>6, <2>3, <2>4, <3>1, StillOwed
    <3>2. CASE t \notin Participant
      BY <1>6, <3>2, Hosts DEF Owed
    <3> QED
      BY <3>1, <3>2
  <2>6. Heard(down[q], engine[q], k, CloudOf(Map, k)) => Heard(down'[q], engine[q], k, CloudOf(Map, k))
    BY <1>2, <1>4, <1>8, <2>1, HeardSend
  <2> QED
    BY <2>2, <2>5, <2>6
<1>11. Following'
  <2>1. ASSUME NEW q \in Participant, q \in Known(Map)
        PROVE  Aligned(down'[q], engine[q], Alignment(Map))
    <3>1. down'[q] = Append(down[q], m)
      BY <1>2, <1>8, <2>1
    <3> QED
      BY <1>2, <1>4, <3>1, AlignedSend
  <2> QED
    BY <1>1, <2>1 DEF InStep, Rest, Following, Settled, Map
<1> QED
  BY <1>9, <1>10, <1>11 DEF Rest

----------------------------------------------------------------------------
(* What its threads read.                                                    *)

\* What a worker finds on its connection.
LEMMA ReadsStream ==
  ASSUME InStep, NEW p \in Participant, up[p] # <<>>
  PROVE  /\ p \in member /\ Coord \in member /\ up[p] \in Seq(UpMessage)
         /\ Opening(p) \in {0, 1, 2}
         /\ Stream(up[p], p, Opening(p), CloudOf(Map, p), latest[p])
         /\ Head(up[p]) \in UpMessage
         /\ Head(up[p]).type = IF Opening(p) = 2 THEN "HELLO"
                               ELSE IF Opening(p) = 1 THEN "JOIN" ELSE "SUBMAP"
         /\ Opening(p) = 1 => Head(up[p]).session = 1
         /\ Opening(p) = 0 => /\ Head(up[p]).scanner = p
                              /\ CloudOf(Map, p) \subseteq Head(up[p]).cloud
<1>1. p \in member /\ Coord \in member /\ up[p] \in Seq(UpMessage)
  BY DEF InStep, Rest, Roles, Early, CoordinatorKept
<1>2. Opening(p) \in {0, 1, 2}
  BY DEF Opening
<1>3. Stream(up[p], p, Opening(p), CloudOf(Map, p), latest[p])
  BY <1>1 DEF InStep, Rest, Streams
<1>4. Head(up[p]) \in UpMessage
  BY <1>1, TailFacts
<1> HIDE DEF Opening
<1>5. /\ Head(up[p]).type = IF Opening(p) = 2 THEN "HELLO"
                            ELSE IF Opening(p) = 1 THEN "JOIN" ELSE "SUBMAP"
      /\ Opening(p) = 1 => Head(up[p]).session = 1
      /\ Opening(p) = 0 => /\ Head(up[p]).scanner = p
                           /\ CloudOf(Map, p) \subseteq Head(up[p]).cloud
  <2>1. PICK q \in Seq(UpMessage) : q = up[p]
    BY <1>1
  <2>2. PICK k \in {0, 1, 2} : k = Opening(p)
    BY <1>2
  <2>3. q # <<>> /\ Stream(q, p, k, CloudOf(Map, p), latest[p])
    BY <1>3, <2>1, <2>2
  <2>4. /\ Head(q).type = IF k = 2 THEN "HELLO" ELSE IF k = 1 THEN "JOIN" ELSE "SUBMAP"
        /\ k = 1 => Head(q).session = 1
        /\ k = 0 => Head(q).scanner = p /\ CloudOf(Map, p) \subseteq Head(q).cloud
    BY <2>3, StreamOpens
  <2> QED
    BY <2>1, <2>2, <2>4
<1> QED
  BY <1>1, <1>2, <1>3, <1>4, <1>5

LEMMA ConsumeAt ==
  ASSUME InStep, NEW p \in Participant, Consume(p)
  PROVE  /\ up'[p] = Tail(up[p])
         /\ \A q \in Participant : q # p => up'[q] = up[q]
BY DEF Consume, InStep, CoordinatorKept

LEMMA ReadOn ==
  ASSUME NEW q \in Seq(UpMessage), q # <<>>, NEW p, NEW k \in {0, 1, 2}, NEW has, NEW last,
         Stream(q, p, k, has, last)
  PROVE  /\ k = 2 => Stream(Tail(q), p, 1, has, last)
         /\ k = 1 => Stream(Tail(q), p, 0, has, last)
         /\ k = 0 => Stream(Tail(q), p, 0, Head(q).cloud, last)
<1>1. PICK r : r = Tail(q)
  OBVIOUS
<1>2. /\ k # 0 => Stream(r, p, k - 1, has, last)
      /\ k = 0 => Stream(r, p, 0, Head(q).cloud, last)
  BY <1>1, StreamRead
<1>3. (k = 2 => k - 1 = 1) /\ (k = 1 => k - 1 = 0)
  OBVIOUS
<1> QED
  BY <1>1, <1>2, <1>3

LEMMA HandleHelloInStep ==
  ASSUME InStep, TakesTurns, NEW p \in Participant, HandleHello(p)
  PROVE  Rest'
<1>1. /\ thread[p] = Idle /\ up[p] # <<>> /\ Head(up[p]).type = "HELLO" /\ Consume(p)
      /\ bound' = bound \cup {p}
      /\ UNCHANGED <<engine, latest, announced, member, down, thread, spent>>
  BY DEF HandleHello, Reads, engines
<1>2. /\ p \in member /\ Coord \in member /\ up[p] \in Seq(UpMessage) /\ Opening(p) = 2
      /\ Stream(up[p], p, Opening(p), CloudOf(Map, p), latest[p])
  BY <1>1, ReadsStream
<1>3. p \notin Known(Map) /\ p \notin bound
  BY <1>2 DEF Opening
<1>4. up'[p] = Tail(up[p]) /\ \A q \in Participant : q # p => up'[q] = up[q]
  BY <1>1, ConsumeAt
<1>5. Stream(up'[p], p, 1, CloudOf(Map, p), latest[p])
  BY <1>1, <1>2, <1>4, ReadOn
<1>6. Roles'
  BY <1>1, <1>2, <1>4 DEF InStep, Rest, Roles, Map
<1>7. Kinded' /\ Own' /\ Duties' /\ Downs'
  BY <1>1 DEF InStep, Rest, Kinded, Own, Duties, Downs, Map
<1>8. Streams'
  <2>1. SUFFICES ASSUME NEW q \in Participant, q \in member
                 PROVE  Stream(up'[q], q, Opening(q)', CloudOf(Map, q), latest[q])
    BY <1>1 DEF Streams, Map
  <2>2. CASE q = p
    <3>1. Opening(p)' = 1
      BY <1>1, <1>3 DEF Opening, Map
    <3> QED
      BY <1>5, <2>2, <3>1
  <2>3. CASE q # p
    <3>1. Opening(q)' = Opening(q) /\ up'[q] = up[q]
      BY <1>1, <1>4, <2>3 DEF Opening, Map
    <3> QED
      BY <2>1, <3>1 DEF InStep, Rest, Streams
  <2> QED
    BY <2>2, <2>3
<1>9. Clouded'
  BY <1>1 DEF InStep, Rest, Clouded, Map, Owed
<1>10. Following'
  BY <1>1, <1>3, <1>4 DEF InStep, Rest, Following, Settled, Coming, Map
<1> QED
  BY <1>6, <1>7, <1>8, <1>9, <1>10 DEF Rest

LEMMA DropJoinNever ==
  ASSUME InStep, NEW p \in Participant, DropJoin(p)
  PROVE  FALSE
<1>1. up[p] # <<>> /\ Head(up[p]).type = "JOIN" /\ Head(up[p]).session # SessionId
  BY DEF DropJoin, Reads
<1>2. Head(up[p]).session = 1 /\ Coord \in member
  BY <1>1, ReadsStream
<1>3. SessionId = 1
  BY <1>2 DEF SessionId, InStep, Rest, Roles, Early
<1> QED
  BY <1>1, <1>2, <1>3

LEMMA HandleAlignmentNever ==
  ASSUME InStep, NEW p \in Participant, HandleAlignment(p)
  PROVE  FALSE
<1>1. up[p] # <<>> /\ Head(up[p]).type = "ALIGNMENT"
  BY DEF HandleAlignment, Reads
<1> QED
  BY <1>1, ReadsStream

\* The coordinator's map after a step of p's worker that gives it more.
LEMMA MapGrows ==
  ASSUME InStep, NEW p \in Participant, NEW x, engine' = [engine EXCEPT ![Coord] = x],
         Covered(x), NEW S, Known(x) = Known(Map) \cup S,
         \A k : CloudOf(Map, k) \subseteq CloudOf(x, k),
         CloudOf(x, Coord) = CloudOf(Map, Coord),
         UNCHANGED <<latest, down>>
  PROVE  /\ engine'[Coord] = x /\ \A h \in Participant : engine'[h] = engine[h]
         /\ Kinded' /\ Own' /\ Downs'
<1>1. /\ engine'[Coord] = x /\ \A h \in Host : h # Coord => engine'[h] = engine[h]
      /\ \A q \in Participant : q \in Host /\ q # Coord
  BY Hosts DEF InStep, CoordinatorKept
<1>2. Kinded'
  BY <1>1 DEF InStep, Rest, Kinded
<1>3. Own'
  BY <1>1 DEF InStep, Rest, Own, Map
<1>4. Downs'
  <2>1. ASSUME NEW q \in Participant
        PROVE  Downward(q, down[q], engine[q], x)
    <3>1. Downward(q, down[q], engine[q], Map)
      BY DEF InStep, Rest, Downs
    <3> QED
      BY <3>1, DownwardGrows
  <2>2. down' = [q \in Participant |-> down'[q]]
    BY DEF InStep, Rest, Downs
  <2> QED
    BY <1>1, <2>1, <2>2 DEF Downs, Map
<1> QED
  BY <1>1, <1>2, <1>3, <1>4

LEMMA HandleJoinInStep ==
  ASSUME InStep, TakesTurns, NEW p \in Participant, HandleJoin(p)
  PROVE  Rest'
<1>1. /\ thread[p] = Idle /\ up[p] # <<>> /\ Head(up[p]).type = "JOIN" /\ Consume(p)
      /\ engine' = [engine EXCEPT ![Coord] = RegisterScanner(Map, p, FALSE)]
      /\ UNCHANGED <<latest, announced, member, bound, down, spent>>
  BY DEF HandleJoin, Reads, Map
<1>2. /\ p \in member /\ Coord \in member /\ up[p] \in Seq(UpMessage) /\ Opening(p) = 1
      /\ Stream(up[p], p, Opening(p), CloudOf(Map, p), latest[p])
  BY <1>1, ReadsStream
<1>3. p \notin Known(Map) /\ p \in bound
  BY <1>2 DEF Opening
<1>4. up'[p] = Tail(up[p]) /\ \A q \in Participant : q # p => up'[q] = up[q]
  BY <1>1, ConsumeAt
<1>5. Covered(Map) /\ p \in Scanner /\ p \in Host /\ p # Coord
      /\ \A q \in Participant : q \in Known(Map) => q \in bound
  BY MapKinds
<1>6. PICK no \in BOOLEAN : no = FALSE
  OBVIOUS
<1>7. PICK x : x = RegisterScanner(Map, p, no)
  OBVIOUS
<1>8. /\ Covered(x) /\ Known(x) = Known(Map) \cup {p}
      /\ \A k : CloudOf(x, k) = CloudOf(Map, k)
  BY <1>5, <1>7, RegisterFacts
<1>9. engine' = [engine EXCEPT ![Coord] = x]
  BY <1>1, <1>6, <1>7
<1>10. /\ engine'[Coord] = x /\ \A h \in Participant : engine'[h] = engine[h]
       /\ Kinded' /\ Own' /\ Downs'
  BY <1>1, <1>8, <1>9, MapGrows
<1> DEFINE next == [stage |-> "push", todo |-> x.order,
                    owed |-> {n \in Known(x) \ {p} : x.sub[n].cloud # {}}]
<1>11. Continue(p, next)
  BY <1>10 DEF HandleJoin
<1>12. thread'[p] = next /\ \A h \in Host : h # p => thread'[h] = thread[h]
  BY <1>5, <1>11, ContinueAt DEF InStep
<1>13. \A h \in Host : h # p => thread'[h] = Idle
  <2>1. thread'[p] # Idle
    BY <1>12, IdleStage
  <2> QED
    BY <1>5, <2>1, TurnTaken
<1>14. x.order \in Seq(Scanner) /\ \A n \in Known(x) : Listed(x.order, n)
  BY <1>8, CoveredTypes DEF Covered, Listed
<1>15. Duty(p, thread'[p], x)
  BY <1>5, <1>12, <1>14 DEF Duty
<1>16. Duties'
  BY <1>5, <1>10, <1>13, <1>15, DutiesStep DEF InStep, Rest
<1>17. Roles'
  <2>1. /\ Coord \in member' => spent'["creates"] = 1 /\ Coord \in Known(x)
        /\ spent'["creates"] \in {0, 1}
        /\ Coord \in member'
        /\ Known(x) \subseteq {Coord} \cup bound'
        /\ bound' \subseteq member' \cap Participant
    BY <1>1, <1>2, <1>3, <1>8 DEF InStep, Rest, Roles
  <2>2. ASSUME NEW q \in Participant
        PROVE  /\ q \notin member' => engine'[q] = Empty /\ up'[q] = <<>>
               /\ q \notin bound' => down'[q] = <<>>
               /\ thread'[q] # Idle => q \in Known(x)
    BY <1>1, <1>2, <1>4, <1>8, <1>10, <1>13, MapKinds DEF InStep, Rest, Roles
  <2> QED
    BY <1>10, <2>1, <2>2 DEF Roles, Map, TakesTurns
<1>18. Streams'
  <2>1. SUFFICES ASSUME NEW q \in Participant, q \in member
                 PROVE  Stream(up'[q], q, Opening(q)', CloudOf(x, q), latest[q])
    BY <1>1, <1>10 DEF Streams, Map
  <2>2. CASE q = p
    <3>1. Opening(p)' = 0
      BY <1>8, <1>10 DEF Opening, Map
    <3>2. Stream(up'[p], p, 0, CloudOf(Map, p), latest[p])
      BY <1>1, <1>2, <1>4, ReadOn
    <3> QED
      BY <1>8, <2>2, <3>1, <3>2
  <2>3. CASE q # p
    <3>1. Opening(q)' = Opening(q) /\ up'[q] = up[q]
      BY <1>1, <1>4, <1>8, <1>10, <2>3 DEF Opening, Map
    <3> QED
      BY <1>8, <2>1, <3>1 DEF InStep, Rest, Streams
  <2> QED
    BY <2>2, <2>3
<1>19. Clouded'
  <2>1. SUFFICES ASSUME NEW q \in Participant, NEW k \in Scanner, q \in Known(x), k # q
                 PROVE  Owed(q, k)' \/ Heard(down[q], engine[q], k, CloudOf(x, k))
    BY <1>1, <1>10 DEF Clouded, Map
  <2>2. CASE q = p
    <3>1. CASE k \in Known(x) /\ x.sub[k].cloud # {}
      BY <1>12, <1>14, <2>1, <2>2, <3>1 DEF Owed, Owes
    <3>2. CASE ~(k \in Known(x) /\ x.sub[k].cloud # {})
      <4>1. CloudOf(x, k) = {} /\ CloudOf(Map, k) = {}
        BY <1>8, <3>2 DEF CloudOf
      <4>2. Downward(q, down[q], engine[q], Map)
        BY DEF InStep, Rest, Downs
      <4> QED
        BY <2>1, <4>1, <4>2, HeardNothing
    <3> QED
      BY <3>1, <3>2
  <2>3. CASE q # p
    <3>1. Owed(q, k) \/ Heard(down[q], engine[q], k, CloudOf(Map, k))
      BY <1>8, <2>1, <2>3 DEF InStep, Rest, Clouded
    <3>2. ~Relaying(thread[p])
      BY <1>1, IdleStage DEF Relaying
    <3>3. Owed(q, k) => Owed(q, k)'
      BY <1>5, <1>12, <2>3, <3>2, StillOwed
    <3> QED
      BY <1>8, <3>1, <3>3
  <2> QED
    BY <2>2, <2>3
<1>20. Following'
  <2>1. \A n \in Scanner : announced'.item[n] # None => n \in Known(x)
    BY <1>1, <1>8 DEF InStep, Rest, Following
  <2>2. announced' # Alignment(x)
    <3>1. Alignment(x).item[p] # None
      BY <1>5, <1>8, AlignmentFacts
    <3>2. announced.item[p] = None
      BY <1>3, <1>5 DEF InStep, Rest, Following
    <3> QED
      BY <1>1, <3>1, <3>2
  <2> QED
    BY <1>10, <2>1, <2>2 DEF Following, Settled, Map
<1> QED
  BY <1>10, <1>16, <1>17, <1>18, <1>19, <1>20 DEF Rest

LEMMA HandleSubmapInStep ==
  ASSUME InStep, TakesTurns, NEW p \in Participant, HandleSubmap(p)
  PROVE  Rest'
<1> DEFINE m == Head(up[p])
           next == [stage |-> "evaluate", relay |-> m]
<1>1. /\ thread[p] = Idle /\ up[p] # <<>> /\ m.type = "SUBMAP" /\ Consume(p)
      /\ engine' = [engine EXCEPT ![Coord] = IngestSubmap(Map, m.scanner, m.cloud, TRUE)]
      /\ UNCHANGED <<latest, announced, member, bound, down, spent>>
      /\ Continue(p, next)
  BY DEF HandleSubmap, Reads, Map
<1>2. /\ p \in member /\ Coord \in member /\ up[p] \in Seq(UpMessage) /\ Opening(p) = 0
      /\ Stream(up[p], p, Opening(p), CloudOf(Map, p), latest[p])
      /\ m \in UpMessage /\ m.scanner = p /\ CloudOf(Map, p) \subseteq m.cloud
  <2>1. Opening(p) \in {0, 1, 2} /\ m.type = IF Opening(p) = 2 THEN "HELLO"
                               ELSE IF Opening(p) = 1 THEN "JOIN" ELSE "SUBMAP"
    BY <1>1, ReadsStream
  <2>2. Opening(p) = 0
    BY <1>1, <2>1
  <2> QED
    BY <1>1, <2>2, ReadsStream
<1>3. p \in Known(Map)
  BY <1>2 DEF Opening
<1>4. up'[p] = Tail(up[p]) /\ \A q \in Participant : q # p => up'[q] = up[q]
  BY <1>1, ConsumeAt
<1>5. Covered(Map) /\ p \in Scanner /\ p \in Host /\ p # Coord
      /\ \A q \in Participant : q \in Known(Map) => q \in bound
  BY MapKinds
<1>6. PICK yes \in BOOLEAN : yes = TRUE
  OBVIOUS
<1>7. PICK c \in Cloud : c = m.cloud /\ m = [type |-> "SUBMAP", scanner |-> p, cloud |-> c]
  <2>1. m \in SubmapMessage
    BY <1>1, <1>2 DEF UpMessage
  <2> QED
    BY <1>2, <2>1 DEF SubmapMessage
<1>8. PICK x : x = IngestSubmap(Map, p, c, yes)
  OBVIOUS
<1>9. /\ Covered(x) /\ Known(x) = Known(Map) \cup {p}
      /\ \A k : CloudOf(x, k) = IF k = p THEN c ELSE CloudOf(Map, k)
  BY <1>5, <1>8, IngestFacts
<1> HIDE DEF m
<1>10. engine' = [engine EXCEPT ![Coord] = x]
  BY <1>1, <1>2, <1>6, <1>7, <1>8
<1>11. /\ \A k : CloudOf(Map, k) \subseteq CloudOf(x, k)
       /\ CloudOf(x, Coord) = CloudOf(Map, Coord)
  BY <1>2, <1>5, <1>7, <1>9
<1>12. /\ engine'[Coord] = x /\ \A h \in Participant : engine'[h] = engine[h]
       /\ Kinded' /\ Own' /\ Downs'
  BY <1>1, <1>9, <1>10, <1>11, MapGrows
<1>13. thread'[p] = next /\ \A h \in Host : h # p => thread'[h] = thread[h]
  BY <1>1, <1>5, ContinueAt DEF InStep
<1>14. \A h \in Host : h # p => thread'[h] = Idle
  <2>1. thread'[p] # Idle
    BY <1>13, IdleStage
  <2> QED
    BY <1>5, <2>1, TurnTaken
<1>15. Duty(p, thread'[p], x)
  BY <1>5, <1>7, <1>9, <1>13 DEF Duty, Tells
<1>16. Duties'
  BY <1>5, <1>12, <1>14, <1>15, DutiesStep DEF InStep, Rest
<1>0. Known(x) = Known(Map)
  BY <1>3, <1>9
<1>17. Roles'
  <2>1. /\ Coord \in member' => spent'["creates"] = 1 /\ Coord \in Known(x)
        /\ spent'["creates"] \in {0, 1}
        /\ Coord \in member'
        /\ Known(x) \subseteq {Coord} \cup bound'
        /\ bound' \subseteq member' \cap Participant
    BY <1>0, <1>1, <1>2 DEF InStep, Rest, Roles
  <2>2. ASSUME NEW q \in Participant
        PROVE  /\ q \notin member' => engine'[q] = Empty /\ up'[q] = <<>>
               /\ q \notin bound' => down'[q] = <<>>
               /\ thread'[q] # Idle => q \in Known(x)
    BY <1>0, <1>1, <1>2, <1>3, <1>4, <1>12, <1>14, MapKinds DEF InStep, Rest, Roles
  <2> QED
    BY <1>12, <2>1, <2>2 DEF Roles, Map, TakesTurns
<1>18. Streams'
  <2>1. SUFFICES ASSUME NEW q \in Participant, q \in member
                 PROVE  Stream(up'[q], q, Opening(q)', CloudOf(x, q), latest[q])
    BY <1>1, <1>12 DEF Streams, Map
  <2>0. Opening(q)' = Opening(q)
    BY <1>0, <1>1, <1>12 DEF Opening, Map
  <2>2. CASE q = p
    <3>1. Stream(up'[p], p, 0, m.cloud, latest[p])
      <4>1. PICK q1 \in Seq(UpMessage) : q1 = up[p]
        BY <1>2
      <4>2. q1 # <<>> /\ Stream(q1, p, 0, CloudOf(Map, p), latest[p])
        BY <1>1, <1>2, <4>1
      <4>3. PICK k \in {0, 1, 2} : k = 0
        OBVIOUS
      <4>4. Stream(Tail(q1), p, 0, Head(q1).cloud, latest[p])
        BY <4>2, <4>3, ReadOn
      <4> QED
        BY <1>4, <4>1, <4>4 DEF m
    <3> QED
      BY <1>2, <1>7, <1>9, <2>0, <2>2, <3>1
  <2>3. CASE q # p
    BY <1>4, <1>9, <2>0, <2>1, <2>3 DEF InStep, Rest, Streams
  <2> QED
    BY <2>2, <2>3
<1>19. Clouded'
  <2>1. SUFFICES ASSUME NEW q \in Participant, NEW k \in Scanner, q \in Known(x), k # q
                 PROVE  Owed(q, k)' \/ Heard(down[q], engine[q], k, CloudOf(x, k))
    BY <1>1, <1>12 DEF Clouded, Map
  <2>2. CASE k = p
    BY <1>13, <2>2 DEF Owed, Relaying
  <2>3. CASE k # p
    <3>1. Owed(q, k) \/ Heard(down[q], engine[q], k, CloudOf(Map, k))
      BY <1>0, <2>1 DEF InStep, Rest, Clouded
    <3>2. ~Owes(thread[p], k)
      BY <1>1, IdleStage DEF Owes
    <3>3. Owed(q, k) => Owed(q, k)'
      BY <1>5, <1>13, <2>3, <3>2, StillOwed
    <3> QED
      BY <1>9, <2>3, <3>1, <3>3
  <2> QED
    BY <2>2, <2>3
<1>20. Following'
  <2>1. \A n \in Scanner : announced'.item[n] # None => n \in Known(x)
    BY <1>0, <1>1 DEF InStep, Rest, Following
  <2>2. \A q \in Participant : Coming(q)'
    BY <1>5, <1>13 DEF Coming, Announcing
  <2> QED
    BY <1>12, <2>1, <2>2 DEF Following, Map
<1> QED
  BY <1>12, <1>16, <1>17, <1>18, <1>19, <1>20 DEF Rest

----------------------------------------------------------------------------
(* Evaluations, and what the participants receive.                           *)

LEMMA EvaluateInStep ==
  ASSUME InStep, TakesTurns, NEW t \in Host, Evaluate(t)
  PROVE  Rest'
<1> DEFINE relay == thread[t].relay
<1>1. /\ thread[t].stage = "evaluate"
      /\ engine' = [engine EXCEPT ![Coord] = Snap(Map)]
      /\ UNCHANGED <<latest, member, bound, up, down, spent>>
      /\ announced' = IF Coord \in member THEN Alignment(engine'[Coord]) ELSE announced
  BY DEF Evaluate, network, Map
<1>2. /\ Covered(Map) /\ Duty(t, thread[t], Map) /\ Coord \in Host
      /\ t \in Participant => t \in Known(Map)
      /\ \A q \in Participant : q \in Host /\ q # Coord
  BY <1>1, MapKinds, StageBusy DEF InStep, Rest, Roles, Duties
<1>3. PICK x : x = Snap(Map)
  OBVIOUS
<1>4. Covered(x) /\ Known(x) = Known(Map) /\ \A k : CloudOf(x, k) = CloudOf(Map, k)
  BY <1>2, <1>3, SnapFacts
<1>5. /\ engine'[Coord] = x /\ \A h \in Host : h # Coord => engine'[h] = engine[h]
  BY <1>1, <1>2, <1>3 DEF InStep, CoordinatorKept
<1> DEFINE next == [stage |-> "announce", relay |-> relay, msg |-> AlignmentOf(x)]
<1>6. Continue(t, next)
  BY <1>5 DEF Evaluate
<1>7. thread'[t] = next /\ \A h \in Host : h # t => thread'[h] = thread[h]
  BY <1>6, ContinueAt DEF InStep
<1>8. \A h \in Host : h # t => thread'[h] = Idle
  <2>1. thread'[t] # Idle
    BY <1>7, IdleStage
  <2> QED
    BY <2>1, TurnTaken
<1>9. Duty(t, thread'[t], x)
  BY <1>1, <1>2, <1>4, <1>7 DEF Duty, Tells
<1>10. Duties'
  BY <1>5, <1>8, <1>9, DutiesStep DEF InStep, Rest
<1>11. Kinded'
  BY <1>1, <1>4, <1>5 DEF InStep, Rest, Kinded
<1>12. Own'
  BY <1>1, <1>4, <1>5 DEF InStep, Rest, Own, Map
<1>13. Downs'
  <2>1. ASSUME NEW q \in Participant
        PROVE  Downward(q, down[q], engine[q], x)
    <3>1. Downward(q, down[q], engine[q], Map)
      BY DEF InStep, Rest, Downs
    <3> QED
      BY <1>4, <3>1, DownwardGrows
  <2> QED
    BY <1>1, <1>2, <1>5, <2>1 DEF Downs, Map, InStep, Rest
<1>14. Roles'
  <2>1. Coord \notin member => x = Empty
    <3>1. SUFFICES ASSUME Coord \notin member
                   PROVE  x = Empty
      OBVIOUS
    <3>2. Map = Empty
      BY <3>1 DEF InStep, Rest, Roles
    <3>3. Reached(Map) = {}
      BY <3>2, EmptyKept DEF Reached, Loose
    <3> QED
      BY <1>2, <1>3, <3>2, <3>3, SnapFacts
  <2>2. ASSUME NEW q \in Participant
        PROVE  /\ q \notin member' => engine'[q] = Empty /\ up'[q] = <<>>
               /\ q \notin bound' => down'[q] = <<>>
               /\ thread'[q] # Idle => q \in Known(x)
    BY <1>1, <1>2, <1>4, <1>5, <1>8 DEF InStep, Rest, Roles
  <2> QED
    BY <1>1, <1>4, <1>5, <2>1, <2>2 DEF InStep, Rest, Roles, Map, TakesTurns
<1>15. Streams'
  <2>1. SUFFICES ASSUME NEW q \in Participant, q \in member
                 PROVE  Stream(up[q], q, Opening(q)', CloudOf(x, q), latest[q])
    BY <1>1, <1>5 DEF Streams, Map
  <2>2. Opening(q)' = Opening(q)
    BY <1>1, <1>4, <1>5 DEF Opening, Map
  <2> QED
    BY <1>4, <2>1, <2>2 DEF InStep, Rest, Streams
<1>16. Clouded'
  <2>1. SUFFICES ASSUME NEW q \in Participant, NEW k \in Scanner, q \in Known(x), k # q
                 PROVE  Owed(q, k)' \/ Heard(down[q], engine[q], k, CloudOf(x, k))
    BY <1>1, <1>2, <1>5 DEF Clouded, Map
  <2>2. Owed(q, k) \/ Heard(down[q], engine[q], k, CloudOf(Map, k))
    BY <1>4, <2>1 DEF InStep, Rest, Clouded
  <2>3. ~Owes(thread[t], k) /\ Relaying(thread'[t])
    BY <1>1, <1>7 DEF Owes, Relaying
  <2>4. Owed(q, k) => Owed(q, k)'
    BY <1>7, <2>3, StillOwed
  <2> QED
    BY <1>4, <2>2, <2>4
<1>17. Following'
  <2>1. \A n \in Scanner : announced'.item[n] # None => n \in Known(x)
    <3>1. \A n \in Scanner : Alignment(x).item[n] # None => n \in Known(x)
      BY <1>4, AlignmentFacts
    <3> QED
      BY <1>1, <1>4, <1>5, <3>1 DEF InStep, Rest, Following
  <2>2. \A q \in Participant : Coming(q)'
    BY <1>7 DEF Coming, Announcing
  <2> QED
    BY <1>5, <2>1, <2>2 DEF Following, Map
<1> QED
  BY <1>10, <1>11, <1>12, <1>13, <1>14, <1>15, <1>16, <1>17 DEF Rest

LEMMA ReceiveInStep ==
  ASSUME InStep, TakesTurns, NEW p \in Participant, Receive(p)
  PROVE  Rest'
<1>1. /\ down[p] # <<>>
      /\ engine' = [engine EXCEPT ![p] = Received(engine[p], Head(down[p]))]
      /\ down' = [down EXCEPT ![p] = Tail(@)]
      /\ UNCHANGED <<latest, announced, member, bound, up, thread, spent>>
  BY DEF Receive, Received
<1>2. /\ Covered(Map) /\ p \in Scanner /\ p \in Host /\ p # Coord /\ Coord \in Host
      /\ p \in bound /\ p \in member
      /\ Covered(engine[p]) /\ Downward(p, down[p], engine[p], Map)
      /\ down[p] \in Seq(DownMessage)
  <2>1. p \in bound
    BY <1>1, MapKinds
  <2> QED
    BY <2>1, MapKinds DEF InStep, Rest, Roles, Kinded, Downs
<1>3. PICK e : e = Received(engine[p], Head(down[p]))
  OBVIOUS
<1>4. PICK r : r = Tail(down[p])
  OBVIOUS
<1>5. /\ Covered(e) /\ Downward(p, r, e, Map)
      /\ \A n : CloudOf(e, n) = IF Of(Head(down[p]), n) THEN Head(down[p]).cloud ELSE CloudOf(engine[p], n)
      /\ ~Of(Head(down[p]), p)
  <2>1. PICK d : d = down[p]
    OBVIOUS
  <2>2. PICK f : f = engine[p]
    OBVIOUS
  <2>3. PICK map : map = Map
    OBVIOUS
  <2>4. /\ Covered(f) /\ Downward(p, d, f, map) /\ d # <<>> /\ r = Tail(d)
        /\ e = Received(f, Head(d)) /\ p \in Scanner
    BY <1>1, <1>2, <1>3, <1>4, <2>1, <2>2, <2>3
  <2>5. /\ Covered(e) /\ Downward(p, r, e, map)
        /\ Takes(e, Head(d), f) /\ ~Of(Head(d), p)
    BY <2>4, DownwardReceive
  <2> QED
    BY <2>1, <2>2, <2>3, <2>5 DEF Takes
<1>6. /\ engine'[p] = e /\ \A h \in Host : h # p => engine'[h] = engine[h]
      /\ engine'[Coord] = Map
  <2>1. engine = [h \in Host |-> engine[h]]
    BY DEF InStep, CoordinatorKept
  <2>2. engine' = [engine EXCEPT ![p] = e]
    BY <1>1, <1>3
  <2> QED
    BY <1>2, <2>1, <2>2 DEF Map
<1>7. /\ down' = [q \in Participant |-> down'[q]]
      /\ down'[p] = r /\ \A q \in Participant : q # p => down'[q] = down[q]
  BY <1>1, <1>4 DEF InStep, Rest, Downs
<1>8. Kinded'
  BY <1>1, <1>5, <1>6 DEF InStep, Rest, Kinded
<1>9. Own'
  BY <1>1, <1>5, <1>6 DEF InStep, Rest, Own
<1>10. Duties'
  BY <1>1, <1>6 DEF InStep, Rest, Duties, Map
<1>11. Downs'
  <2>1. ASSUME NEW q \in Participant
        PROVE  Downward(q, down'[q], engine'[q], Map)
    BY <1>5, <1>6, <1>7, Hosts DEF InStep, Rest, Downs
  <2> QED
    BY <1>6, <1>7, <2>1 DEF Downs, Map
<1>12. Roles'
  <2>1. ASSUME NEW q \in Participant
        PROVE  /\ q \notin member => engine'[q] = Empty /\ up[q] = <<>>
               /\ q \notin bound => down'[q] = <<>>
               /\ thread[q] # Idle => q \in Known(Map)
    BY <1>2, <1>6, <1>7, Hosts DEF InStep, Rest, Roles
  <2>2. engine'[Coord] = engine[Coord]
    BY <1>6 DEF Map
  <2> QED
    BY <1>1, <2>1, <2>2 DEF InStep, Rest, Roles, Map
<1>13. Streams'
  BY <1>1, <1>6 DEF InStep, Rest, Streams, Opening, Map
<1>14. Clouded'
  <2>1. SUFFICES ASSUME NEW q \in Participant, NEW k \in Scanner, q \in Known(Map), k # q
                 PROVE  Owed(q, k) \/ Heard(down'[q], engine'[q], k, CloudOf(Map, k))
    BY <1>1, <1>6 DEF Clouded, Map, Owed
  <2>2. Owed(q, k) \/ Heard(down[q], engine[q], k, CloudOf(Map, k))
    BY <2>1 DEF InStep, Rest, Clouded
  <2>3. CASE q # p
    BY <1>6, <1>7, <2>2, <2>3, Hosts
  <2>4. CASE q = p
    <3>1. Heard(down[p], engine[p], k, CloudOf(Map, k)) => Heard(r, e, k, CloudOf(Map, k))
      BY <1>1, <1>2, <1>4, <1>5, HeardReceive
    <3> QED
      BY <1>6, <1>7, <2>2, <2>4, <3>1
  <2> QED
    BY <2>3, <2>4
<1>15. Following'
  <2>1. ASSUME Snap(Map) = Map, p \in Known(Map), up[p] = <<>>,
               Aligned(down[p], engine[p], Alignment(Map))
        PROVE  Aligned(r, e, Alignment(Map))
    <3>1. Stream(<<>>, p, 0, CloudOf(Map, p), latest[p])
      BY <1>2, <2>1 DEF InStep, Rest, Streams, Opening
    <3>2. CloudOf(Map, p) = latest[p]
      BY <3>1, StreamEnds
    <3>3. CloudOf(engine[p], p) = CloudOf(Map, p)
      BY <1>2, <3>2 DEF InStep, Rest, Own
    <3> QED
      BY <1>1, <1>2, <1>3, <1>4, <2>1, <3>3, AlignedReceive
  <2>2. SUFFICES ASSUME Settled, NEW q \in Participant, q \in Known(Map), ~Coming(q), up[q] = <<>>
                 PROVE  Aligned(down'[q], engine'[q], Alignment(Map))
    BY <1>1, <1>6 DEF InStep, Rest, Following, Settled, Coming, Map
  <2>3. Aligned(down[q], engine[q], Alignment(Map)) /\ Snap(Map) = Map
    BY <2>2 DEF InStep, Rest, Following, Settled
  <2>4. CASE q # p
    BY <1>6, <1>7, <2>3, <2>4, Hosts
  <2>5. CASE q = p
    BY <1>6, <1>7, <2>1, <2>2, <2>3, <2>5
  <2> QED
    BY <2>4, <2>5
<1> QED
  BY <1>8, <1>9, <1>10, <1>11, <1>12, <1>13, <1>14, <1>15 DEF Rest

----------------------------------------------------------------------------
(* The user interface.                                                      *)

LEMMA SpendLeaves ==
  ASSUME Counted, NEW k \in Kinds, Spend(k)
  PROVE  /\ spent[k] < Bound[k] /\ spent[k] \in Nat
         /\ spent'["creates"] = IF k = "creates" THEN spent["creates"] + 1 ELSE spent["creates"]
BY SpendCreates DEF Counted, Spend, Creates, Kinds

LEMMA TriggerInStep ==
  ASSUME InStep, TakesTurns, NEW n \in Host, TriggerOverlapEvaluation(n), Triggering \subseteq {Coord}
  PROVE  Rest'
<1> DEFINE next == [stage |-> "evaluate", relay |-> None]
<1>1. /\ n = Coord /\ Continue(Coord, next) /\ Spend("triggers") /\ thread[Coord] = Idle
      /\ UNCHANGED <<engine, up, latest, announced, member, bound, down>>
  BY DEF TriggerOverlapEvaluation, UiFree
<1>2. "triggers" \in Kinds /\ Counted
  BY DEF Kinds, InStep, CoordinatorKept
<1>3. UNCHANGED spent["creates"]
  BY <1>1, <1>2, SpendLeaves
<1>4. thread'[Coord] = next /\ \A h \in Host : h # Coord => thread'[h] = thread[h]
  BY <1>1, Hosts, ContinueAt DEF InStep
<1>5. \A q \in Participant : thread'[q] = thread[q]
  BY <1>4, Hosts
<1>6. Duty(Coord, thread'[Coord], engine'[Coord])
  BY <1>4 DEF Duty
<1>7. Duties'
  BY <1>1, <1>4, <1>6, Hosts, DutiesStep DEF InStep, Rest
<1>8. Roles'
  BY <1>1, <1>3, <1>5 DEF InStep, Rest, Roles, Map, TakesTurns
<1>9. Kinded' /\ Own' /\ Downs'
  BY <1>1 DEF InStep, Rest, Kinded, Own, Downs, Map
<1>10. Streams'
  BY <1>1 DEF InStep, Rest, Streams, Opening, Map
<1>11. Clouded'
  BY <1>1, <1>5 DEF InStep, Rest, Clouded, Owed, Map
<1>12. Following'
  <2>1. \A q \in Participant : Coming(q)'
    BY <1>4, Hosts DEF Coming, Announcing
  <2> QED
    BY <1>1, <2>1 DEF InStep, Rest, Following, Map
<1> QED
  BY <1>7, <1>8, <1>9, <1>10, <1>11, <1>12 DEF Rest

LEMMA StutterInStep ==
  ASSUME InStep, UNCHANGED vars
  PROVE  Rest'
<1>1. UNCHANGED <<engine, member, bound, up, down, thread, latest, announced, spent>>
  BY DEF vars
<1>2. Roles' /\ Kinded' /\ Own' /\ Downs' /\ Duties'
  BY <1>1 DEF InStep, Rest, Roles, Kinded, Own, Downs, Duties, Map
<1>3. Streams'
  BY <1>1 DEF InStep, Rest, Streams, Opening, Map
<1>4. Clouded'
  BY <1>1 DEF InStep, Rest, Clouded, Owed, Map
<1>5. Following'
  BY <1>1 DEF InStep, Rest, Following, Settled, Coming, Map
<1> QED
  BY <1>2, <1>3, <1>4, <1>5 DEF Rest

\* Before the coordinator is in the session nobody is, and nothing is said.
LEMMA NobodyYet ==
  ASSUME InStep, Coord \notin member
  PROVE  /\ Map = Empty /\ Known(Map) = {} /\ bound = {} /\ member = {}
         /\ \A p \in Participant : /\ engine[p] = Empty /\ up[p] = <<>> /\ down[p] = <<>>
                                   /\ thread[p] = Idle /\ p \in Host /\ p # Coord
BY EmptyKept, Hosts DEF InStep, Rest, Roles, Early

LEMMA CreateInStep ==
  ASSUME InStep, TakesTurns, CreateSession, MaxCreates <= 1
  PROVE  Rest'
<1> DEFINE create == [stage |-> "create"]
<1>1. /\ thread[Coord] = Idle /\ Spend("creates") /\ Continue(Coord, create)
      /\ engine' = [engine EXCEPT ![Coord] = Empty] /\ latest' = [latest EXCEPT ![Coord] = {}]
      /\ UNCHANGED <<announced, member, bound, up, down>>
  BY DEF CreateSession, network, UiFree
<1>2. "creates" \in Kinds /\ Counted /\ MaxCreates \in Nat /\ Bound["creates"] = MaxCreates
  BY BoundsAssumption DEF Kinds, InStep, CoordinatorKept, Bound
<1>3. spent["creates"] = 0 /\ spent'["creates"] = 1
  BY <1>1, <1>2, SpendLeaves
<1>4. Coord \notin member
  BY <1>3 DEF InStep, Early
<1>5. /\ Map = Empty /\ Known(Map) = {} /\ bound = {} /\ member = {}
      /\ \A p \in Participant : /\ engine[p] = Empty /\ up[p] = <<>> /\ down[p] = <<>>
                                /\ thread[p] = Idle /\ p \in Host /\ p # Coord
  BY <1>4, NobodyYet
<1>6. thread'[Coord] = create /\ \A h \in Host : h # Coord => thread'[h] = thread[h]
  BY <1>1, Hosts, ContinueAt DEF InStep
<1>7. engine'[Coord] = engine[Coord] /\ \A h \in Host : engine'[h] = engine[h]
  BY <1>1, <1>5, Hosts DEF InStep, CoordinatorKept, Map
<1>8. latest' \in [Host -> Cloud] /\ \A h \in Host : latest'[h] = latest[h]
  <2>1. {} \in Cloud /\ latest \in [Host -> Cloud]
    BY DEF Cloud, InStep, Rest, Kinded
  <2>2. latest[Coord] = CloudOf(Empty, Coord)
    BY <1>5, Hosts DEF InStep, Rest, Own, Map
  <2>3. latest[Coord] = {}
    BY <2>2, EmptyKept DEF CloudOf
  <2> QED
    BY <1>1, <2>1, <2>3, Hosts
<1>9. Kinded' /\ Own'
  BY <1>7, <1>8 DEF InStep, Rest, Kinded, Own
<1>10. Duties'
  <2>1. Duty(Coord, thread'[Coord], engine'[Coord])
    BY <1>6 DEF Duty
  <2> QED
    BY <1>6, <1>7, <2>1, Hosts, DutiesStep DEF InStep, Rest
<1>11. Downs'
  BY <1>1, <1>5, <1>7 DEF InStep, Rest, Downs, Map
<1>12. Roles'
  BY <1>1, <1>3, <1>4, <1>5, <1>6, <1>7 DEF Roles, Map, TakesTurns
<1>13. Streams'
  BY <1>1, <1>5 DEF Streams
<1>14. Clouded' /\ Following'
  BY <1>1, <1>5, <1>7 DEF InStep, Rest, Clouded, Following, Map
<1> QED
  BY <1>9, <1>10, <1>11, <1>12, <1>13, <1>14 DEF Rest

LEMMA AnchorInStep ==
  ASSUME InStep, TakesTurns, RegisterAnchor
  PROVE  Rest'
<1>1. /\ thread[Coord].stage = "create" /\ Continue(Coord, Idle)
      /\ engine' = [engine EXCEPT ![Coord] = RegisterScanner(engine[Coord], Coord, TRUE)]
      /\ member' = member \cup {Coord}
      /\ UNCHANGED <<latest, announced, bound, up, down, spent>>
  BY DEF RegisterAnchor
<1>2. Coord \notin member /\ spent["creates"] # 0 /\ Coord \in Host /\ Coord \in Scanner
  BY <1>1, Hosts DEF InStep, Early
<1>3. /\ Map = Empty /\ Known(Map) = {} /\ bound = {} /\ member = {}
      /\ \A p \in Participant : /\ engine[p] = Empty /\ up[p] = <<>> /\ down[p] = <<>>
                                /\ thread[p] = Idle /\ p \in Host /\ p # Coord
  BY <1>2, NobodyYet
<1>4. PICK yes \in BOOLEAN : yes = TRUE
  OBVIOUS
<1>5. PICK x : x = RegisterScanner(Map, Coord, yes)
  OBVIOUS
<1>6. Covered(Map)
  BY MapKinds
<1>7. Covered(x) /\ Known(x) = Known(Map) \cup {Coord} /\ \A k : CloudOf(x, k) = CloudOf(Map, k)
  BY <1>2, <1>5, <1>6, RegisterFacts
<1>8. engine'[Coord] = x /\ \A h \in Host : h # Coord => engine'[h] = engine[h]
  BY <1>1, <1>2, <1>4, <1>5 DEF InStep, CoordinatorKept, Map
<1>9. thread'[Coord] = Idle /\ \A h \in Host : h # Coord => thread'[h] = thread[h]
  BY <1>1, <1>2, ContinueAt DEF InStep
<1>10. Kinded' /\ Own'
  BY <1>1, <1>7, <1>8 DEF InStep, Rest, Kinded, Own, Map
<1>11. Duties'
  <2>1. Duty(Coord, thread'[Coord], engine'[Coord])
    BY <1>9, DutyIdle
  <2>2. ASSUME NEW h \in Host, h # Coord
        PROVE  thread'[h] = Idle
    BY <1>3, <1>9, <2>2 DEF Participant
  <2> QED
    BY <1>2, <2>1, <2>2, DutiesStep DEF InStep, Rest
<1>12. Downs'
  <2>1. ASSUME NEW q \in Participant
        PROVE  Downward(q, down[q], engine[q], x)
    <3>1. Downward(q, down[q], engine[q], Map)
      BY DEF InStep, Rest, Downs
    <3> QED
      BY <1>7, <3>1, DownwardGrows
  <2> QED
    BY <1>1, <1>3, <1>8, <2>1 DEF Downs, Map, InStep, Rest
<1>13. Roles'
  <2>1. spent'["creates"] = 1
    BY <1>1, <1>2 DEF InStep, Rest, Roles
  <2>2. Coord \in member' /\ bound' = {} /\ Known(engine'[Coord]) = {Coord}
    BY <1>1, <1>3, <1>7, <1>8
  <2>3. ASSUME NEW p \in Participant
        PROVE  engine'[p] = Empty /\ up'[p] = <<>> /\ down'[p] = <<>> /\ thread'[p] = Idle
    BY <1>1, <1>3, <1>8, <1>9
  <2> QED
    BY <2>1, <2>2, <2>3 DEF Roles, Map, TakesTurns
<1>14. Streams'
  BY <1>1, <1>3 DEF Streams
<1>15. Clouded'
  <2>1. \A p \in Participant : p \notin Known(engine'[Coord])
    BY <1>3, <1>7, <1>8
  <2> QED
    BY <2>1 DEF Clouded, Map
<1>16. Following'
  <2>1. \A p \in Participant : p \notin Known(engine'[Coord])
    BY <1>3, <1>7, <1>8
  <2>2. \A n \in Scanner : announced'.item[n] # None => n \in Known(engine'[Coord])
    BY <1>1, <1>7, <1>8 DEF InStep, Rest, Following
  <2> QED
    BY <2>1, <2>2 DEF Following, Map
<1> QED
  BY <1>10, <1>11, <1>12, <1>13, <1>14, <1>15, <1>16 DEF Rest

----------------------------------------------------------------------------
(* Coming into the session and publishing.                                   *)

LEMMA JoinSessionInStep ==
  ASSUME InStep, TakesTurns, NEW p \in Participant, JoinSession(p)
  PROVE  Rest'
<1> DEFINE hello == [type |-> "HELLO"]
           join  == [type |-> "JOIN", session |-> SessionId]
           opens == <<hello, join>>
<1>1. /\ Coord \in member /\ p \notin member /\ p \notin bound /\ up[p] = <<>>
      /\ engine' = [engine EXCEPT ![p] = Empty] /\ latest' = [latest EXCEPT ![p] = {}]
      /\ member' = member \cup {p} /\ up' = [up EXCEPT ![p] = opens]
      /\ UNCHANGED <<announced, bound, down, thread, spent>>
  BY DEF JoinSession
<1>2. p \in Host /\ p # Coord /\ p \in Scanner /\ Coord \in Host
  BY Hosts
<1>3. engine[p] = Empty /\ p \notin Known(Map)
  BY <1>1, <1>2 DEF InStep, Rest, Roles
<1>4. engine'[Coord] = engine[Coord] /\ \A h \in Host : engine'[h] = engine[h]
  BY <1>1, <1>2, <1>3 DEF InStep, CoordinatorKept
<1>5. latest' \in [Host -> Cloud] /\ (\A h \in Host : latest'[h] = latest[h]) /\ latest'[p] = {}
  <2>1. {} \in Cloud /\ latest \in [Host -> Cloud]
    BY DEF Cloud, InStep, Rest, Kinded
  <2>2. latest[p] = CloudOf(Empty, p)
    BY <1>2, <1>3 DEF InStep, Rest, Own
  <2>3. latest[p] = {}
    BY <2>2, EmptyKept DEF CloudOf
  <2> QED
    BY <1>1, <1>2, <2>1, <2>3
<1>6. up'[p] = opens /\ \A q \in Participant : q # p => up'[q] = up[q]
  BY <1>1 DEF InStep, CoordinatorKept
<1>7. Kinded' /\ Own'
  BY <1>4, <1>5 DEF InStep, Rest, Kinded, Own
<1>8. Duties' /\ Downs'
  BY <1>1, <1>2, <1>4, Hosts DEF InStep, Rest, Duties, Downs, Map
<1>9. Roles'
  <2>1. /\ spent'["creates"] = 1 /\ Coord \in Known(Map)
        /\ Known(Map) \subseteq {Coord} \cup bound' /\ bound' \subseteq member' \cap Participant
    BY <1>1 DEF InStep, Rest, Roles
  <2>2. ASSUME NEW q \in Participant
        PROVE  /\ q \notin member' => engine'[q] = Empty /\ up'[q] = <<>>
               /\ q \notin bound' => down'[q] = <<>>
               /\ thread'[q] # Idle => q \in Known(Map)
    BY <1>1, <1>4, <1>6, Hosts DEF InStep, Rest, Roles
  <2> QED
    BY <1>1, <1>4, <2>1, <2>2 DEF Roles, Map, TakesTurns
<1>10. Streams'
  <2>1. SUFFICES ASSUME NEW q \in Participant, q \in member'
                 PROVE  Stream(up'[q], q, Opening(q)', CloudOf(Map, q), latest'[q])
    BY <1>4 DEF Streams, Map
  <2>2. CASE q = p
    <3>1. Opening(p)' = 2
      BY <1>1, <1>3, <1>4 DEF Opening, Map
    <3>2. SessionId = 1
      BY <1>1 DEF SessionId, InStep, Rest, Roles, Early
    <3>3. CloudOf(Map, p) = {} /\ latest'[p] = {}
      BY <1>3, <1>5 DEF CloudOf
    <3>4. Len(opens) = 2 /\ opens[1].type = "HELLO" /\ opens[2].type = "JOIN" /\ opens[2].session = 1
      BY <3>2
    <3> HIDE DEF opens
    <3>5. Stream(opens, p, 2, {}, {})
      BY <3>4 DEF Stream
    <3> QED
      BY <1>6, <2>2, <3>1, <3>3, <3>5
  <2>3. CASE q # p
    <3>1. Opening(q)' = Opening(q) /\ up'[q] = up[q] /\ latest'[q] = latest[q] /\ q \in member
      BY <1>1, <1>4, <1>5, <1>6, <2>1, <2>3, Hosts DEF Opening, Map
    <3> QED
      BY <3>1 DEF InStep, Rest, Streams
  <2> QED
    BY <2>2, <2>3
<1>11. Clouded'
  BY <1>1, <1>4, Hosts DEF InStep, Rest, Clouded, Owed, Map
<1>12. Following'
  BY <1>1, <1>3, <1>4, <1>6, Hosts DEF InStep, Rest, Following, Settled, Coming, Map
<1> QED
  BY <1>7, <1>8, <1>9, <1>10, <1>11, <1>12 DEF Rest

\* Without simulated scanners only a member publishes.
LEMMA PublisherIsMember ==
  ASSUME InStep, NEW n \in Host, NEW x, NEW force, PublishLocalSubmap(n, x, force), MaxSims = 0
  PROVE  n \in member /\ Coord \in member
<1>1. n \in member \/ Known(engine[n]) # {}
  <2>1. spent["sims"] \in Nat
    BY DEF InStep, CoordinatorKept, Counted, Kinds
  <2> QED
    BY <2>1 DEF PublishLocalSubmap
<1>2. n \notin member => engine[n] = Empty
  BY Hosts DEF InStep, Rest, Roles, Map, Participant
<1>3. n \in member
  BY <1>1, <1>2, EmptyKept
<1> QED
  BY <1>3 DEF InStep, Early

LEMMA PublishHereInStep ==
  ASSUME InStep, TakesTurns, NEW c \in Cloud, NEW force \in BOOLEAN,
         PublishLocalSubmap(Coord, c, force), MaxSims = 0
  PROVE  Rest'
<1> DEFINE m    == [type |-> "SUBMAP", scanner |-> Coord, cloud |-> c]
           next == [stage |-> "evaluate", relay |-> None]
<1>1. Coord \in member /\ Coord \in Host /\ Coord \in Scanner /\ \A q \in Participant : q \in Host /\ q # Coord
  BY Hosts, PublisherIsMember
<1>2. /\ thread[Coord] = Idle /\ Spend("publishes") /\ latest[Coord] \subseteq c
      /\ engine' = [engine EXCEPT ![Coord] = IngestSubmap(Map, Coord, c, force)]
      /\ latest' = [latest EXCEPT ![Coord] = c]
      /\ down' = Broadcast(bound, m)
      /\ IF force THEN Continue(Coord, next) ELSE UNCHANGED thread
      /\ UNCHANGED <<announced, member, bound, up>>
  BY <1>1 DEF PublishLocalSubmap, UiFree, Map
<1>3. UNCHANGED spent["creates"]
  <2>1. "publishes" \in Kinds /\ Counted
    BY DEF Kinds, InStep, CoordinatorKept
  <2> QED
    BY <1>2, <2>1, SpendLeaves
<1>4. /\ Covered(Map) /\ Coord \in Known(Map) /\ CloudOf(Map, Coord) = latest[Coord]
      /\ latest \in [Host -> Cloud]
  BY <1>1, MapKinds DEF InStep, Rest, Roles, Own, Kinded, Map
<1>5. PICK x : x = IngestSubmap(Map, Coord, c, force)
  OBVIOUS
<1>6. /\ Covered(x) /\ Known(x) = Known(Map)
      /\ \A k : CloudOf(x, k) = IF k = Coord THEN c ELSE CloudOf(Map, k)
  <2>1. /\ Covered(x) /\ Known(x) = Known(Map) \cup {Coord}
        /\ \A k : CloudOf(x, k) = IF k = Coord THEN c ELSE CloudOf(Map, k)
    BY <1>1, <1>4, <1>5, IngestFacts
  <2> QED
    BY <1>4, <2>1
<1>7. /\ engine'[Coord] = x /\ \A h \in Host : h # Coord => engine'[h] = engine[h]
      /\ latest' \in [Host -> Cloud]
      /\ latest'[Coord] = c /\ \A h \in Host : h # Coord => latest'[h] = latest[h]
  BY <1>1, <1>2, <1>4, <1>5 DEF InStep, CoordinatorKept
<1>8. \A q \in Participant : thread'[q] = thread[q]
  <2>1. CASE force
    BY <1>1, <1>2, <2>1, ContinueAt DEF InStep
  <2>2. CASE ~force
    BY <1>2, <2>2
  <2> QED
    BY <2>1, <2>2
<1>9. force => thread'[Coord] = next
  BY <1>1, <1>2, ContinueAt DEF InStep
<1>10. \A k : CloudOf(Map, k) \subseteq CloudOf(x, k)
  BY <1>2, <1>4, <1>6
<1>11. \A q \in Participant : Downward(q, down[q], engine[q], x)
  <2>1. \A q \in Participant : Downward(q, down[q], engine[q], Map)
    BY DEF InStep, Rest, Downs
  <2> QED
    BY <1>6, <1>10, <2>1, DownwardGrows
<1>12. Tells(m, Coord, x) /\ Coord \in Known(x)
  BY <1>4, <1>6 DEF Tells
<1> HIDE DEF m
<1>13. /\ m \in DownMessage /\ m.type = "SUBMAP" /\ m.cloud = CloudOf(x, Coord)
       /\ \A k : Of(m, k) <=> k = Coord
  <2>1. m \in DownMessage /\ m.type = "SUBMAP" /\ m.scanner = Coord /\ m.cloud = CloudOf(x, Coord)
    BY <1>6, <1>12, TellsMessage
  <2> QED
    BY <2>1 DEF Of
<1>14. /\ down' = [q \in Participant |-> down'[q]]
       /\ \A q \in Participant : down'[q] = IF q \in bound THEN Append(down[q], m) ELSE down[q]
  BY <1>2 DEF Broadcast
<1>15. Downs'
  <2>1. ASSUME NEW q \in Participant
        PROVE  Downward(q, down'[q], engine[q], x)
    <3>1. CASE q \notin bound
      BY <1>11, <1>14, <3>1
    <3>2. CASE q \in bound
      <4>1. Fine(m, q, x)
        BY <1>1, <1>6, <1>12, TellsFine
      <4>2. PICK r : r = Append(down[q], m)
        OBVIOUS
      <4>3. Downward(q, r, engine[q], x)
        BY <1>11, <4>1, <4>2, DownwardSend
      <4> QED
        BY <1>14, <3>2, <4>2, <4>3
    <3> QED
      BY <3>1, <3>2
  <2> QED
    BY <1>1, <1>7, <1>14, <2>1 DEF Downs, Map
<1>16. Kinded' /\ Own'
  BY <1>6, <1>7 DEF InStep, Rest, Kinded, Own
<1>17. Roles'
  <2>1. /\ spent'["creates"] = 1 /\ Coord \in Known(x) /\ Coord \in member'
        /\ Known(x) \subseteq {Coord} \cup bound' /\ bound' \subseteq member' \cap Participant
    BY <1>1, <1>2, <1>3, <1>6, <1>12 DEF InStep, Rest, Roles
  <2>2. ASSUME NEW q \in Participant
        PROVE  /\ q \notin member' => engine'[q] = Empty /\ up'[q] = <<>>
               /\ q \notin bound' => down'[q] = <<>>
               /\ thread'[q] # Idle => q \in Known(x)
    BY <1>1, <1>2, <1>6, <1>7, <1>8, <1>14 DEF InStep, Rest, Roles
  <2> QED
    BY <1>7, <2>1, <2>2 DEF Roles, Map, TakesTurns
<1>18. Streams'
  <2>1. SUFFICES ASSUME NEW q \in Participant, q \in member
                 PROVE  Stream(up[q], q, Opening(q)', CloudOf(x, q), latest'[q])
    BY <1>2, <1>7 DEF Streams, Map
  <2>2. Opening(q)' = Opening(q) /\ CloudOf(x, q) = CloudOf(Map, q) /\ latest'[q] = latest[q]
    BY <1>1, <1>2, <1>6, <1>7 DEF Opening, Map
  <2> QED
    BY <2>1, <2>2 DEF InStep, Rest, Streams
<1>19. ~force => Store(Map, Coord, c) = x
  BY <1>5 DEF IngestSubmap
<1>20. Duties'
  <2>1. CASE force
    <3>1. thread'[Coord] = next /\ thread'[Coord] # Idle
      BY <1>9, <2>1, IdleStage
    <3>2. \A h \in Host : h # Coord => thread'[h] = Idle
      BY <1>1, <3>1, TurnTaken
    <3>3. Duty(Coord, thread'[Coord], engine'[Coord])
      BY <3>1 DEF Duty
    <3> QED
      BY <1>1, <3>2, <3>3, DutiesStep DEF InStep, Rest
  <2>2. CASE ~force /\ c = latest[Coord]
    <3>1. Map.sub[Coord].cloud = c
      BY <1>4, <2>2 DEF CloudOf
    <3>2. x = Map
      BY <1>4, <1>19, <2>2, <3>1, StoreAgain
    <3>3. engine'[Coord] = engine[Coord] /\ UNCHANGED thread
      BY <1>2, <1>7, <2>2, <3>2 DEF Map
    <3> QED
      BY <3>3 DEF InStep, Rest, Duties, Map
  <2>3. CASE ~force /\ c # latest[Coord]
    <3>1. \A h \in Host : thread'[h] = Idle
      BY <1>2, <1>7, <2>3 DEF TakesTurns
    <3>2. \A h \in Host : Duty(h, thread'[h], engine'[Coord])
      BY <3>1, DutyIdle
    <3> QED
      BY <3>2 DEF Duties, Map
  <2> QED
    BY <2>1, <2>2, <2>3
<1>21. \A q \in Participant : down[q] \in Seq(DownMessage) /\ (q \in Known(Map) => q \in bound)
  BY MapKinds
<1>22. Clouded'
  <2>1. SUFFICES ASSUME NEW q \in Participant, NEW k \in Scanner, q \in Known(x), k # q
                 PROVE  Owed(q, k)' \/ Heard(down'[q], engine[q], k, CloudOf(x, k))
    BY <1>1, <1>7 DEF Clouded, Map
  <2>2. q \in bound /\ down'[q] = Append(down[q], m)
    BY <1>6, <1>14, <1>21, <2>1
  <2>3. CASE k = Coord
    BY <1>13, <1>21, <2>2, <2>3, HeardSend
  <2>4. CASE k # Coord
    <3>1. Owed(q, k) \/ Heard(down[q], engine[q], k, CloudOf(Map, k))
      BY <1>6, <2>1 DEF InStep, Rest, Clouded
    <3>2. Owed(q, k) => Owed(q, k)'
      BY <1>8 DEF Owed
    <3>3. Heard(down[q], engine[q], k, CloudOf(Map, k)) => Heard(down'[q], engine[q], k, CloudOf(Map, k))
      BY <1>13, <1>21, <2>2, <2>4, HeardSend
    <3> QED
      BY <1>6, <2>4, <3>1, <3>2, <3>3
  <2> QED
    BY <2>3, <2>4
<1>23. Following'
  <2>1. \A n \in Scanner : announced'.item[n] # None => n \in Known(x)
    BY <1>2, <1>6 DEF InStep, Rest, Following
  <2>2. CASE force
    <3>1. \A q \in Participant : Coming(q)'
      BY <1>1, <1>9, <2>2 DEF Coming, Announcing
    <3> QED
      BY <1>7, <2>1, <3>1 DEF Following, Map
  <2>3. CASE ~force
    <3>1. /\ x.order = Map.order
          /\ \A n \in Known(Map) : ItemOf(x.sub[n]) = ItemOf(Map.sub[n])
      <4>1. PICK s : s = Store(Map, Coord, c)
        OBVIOUS
      <4>2. /\ s.order = Map.order
            /\ \A n \in Known(Map) : ItemOf(s.sub[n]) = ItemOf(Map.sub[n])
        BY <1>1, <1>4, <4>1, StoreFacts
      <4> QED
        BY <1>19, <2>3, <4>1, <4>2
    <3>2. Alignment(x) = Alignment(Map)
      BY <1>6, <3>1, SameAlignment
    <3>3. ASSUME Settled'
          PROVE  Settled
      <4>1. announced = Alignment(x) /\ Snap(x) = x
        BY <1>2, <1>7, <3>3 DEF Settled, Map
      <4>2. \A n \in Known(x) : /\ ItemOf(Map.sub[n]) = ItemOf(x.sub[n])
                                /\ CloudOf(Map, n) \subseteq CloudOf(x, n)
        BY <1>6, <1>10, <3>1
      <4>3. Snap(Map) = Map
        BY <1>4, <1>6, <4>1, <4>2, NothingToSnap
      <4> QED
        BY <3>2, <4>1, <4>3 DEF Settled
    <3>4. SUFFICES ASSUME Settled, NEW q \in Participant, q \in Known(Map), ~Coming(q)', up[q] = <<>>
                   PROVE  Aligned(down'[q], engine[q], Alignment(Map))
      BY <1>1, <1>2, <1>6, <1>7, <2>1, <3>2, <3>3 DEF Following, Map
    <3>5. ~Coming(q)
      BY <1>2, <2>3, <3>4 DEF Coming
    <3>6. Aligned(down[q], engine[q], Alignment(Map))
      BY <3>4, <3>5 DEF InStep, Rest, Following
    <3>7. down'[q] = Append(down[q], m)
      BY <1>14, <1>21, <3>4
    <3> QED
      BY <1>13, <1>21, <3>6, <3>7, AlignedSend
  <2> QED
    BY <2>2, <2>3
<1> QED
  BY <1>15, <1>16, <1>17, <1>18, <1>20, <1>22, <1>23 DEF Rest

LEMMA PublishThereInStep ==
  ASSUME InStep, TakesTurns, NEW p \in Participant, NEW c \in Cloud, NEW force \in BOOLEAN,
         PublishLocalSubmap(p, c, force), MaxSims = 0
  PROVE  Rest'
<1> DEFINE m == [type |-> "SUBMAP", scanner |-> p, cloud |-> c]
<1>1. p \in member /\ p \in Host /\ p \in Scanner /\ p # Coord /\ Coord \in Host
  BY Hosts, PublisherIsMember
<1>2. /\ Spend("publishes") /\ latest[p] \subseteq c
      /\ engine' = [engine EXCEPT ![p] = IngestSubmap(engine[p], p, c, force)]
      /\ latest' = [latest EXCEPT ![p] = c]
      /\ up' = [up EXCEPT ![p] = Append(@, m)]
      /\ UNCHANGED <<announced, member, bound, down, thread>>
  BY <1>1 DEF PublishLocalSubmap
<1>3. UNCHANGED spent["creates"]
  <2>1. "publishes" \in Kinds /\ Counted
    BY DEF Kinds, InStep, CoordinatorKept
  <2> QED
    BY <1>2, <2>1, SpendLeaves
<1>4. Covered(engine[p]) /\ latest \in [Host -> Cloud] /\ Downward(p, down[p], engine[p], Map)
      /\ down = [q \in Participant |-> down[q]]
  BY <1>1 DEF InStep, Rest, Kinded, Downs
<1>5. PICK e : e = IngestSubmap(engine[p], p, c, force)
  OBVIOUS
<1>6. /\ Covered(e) /\ Known(e) = Known(engine[p]) \cup {p}
      /\ \A k : CloudOf(e, k) = IF k = p THEN c ELSE CloudOf(engine[p], k)
  BY <1>1, <1>4, <1>5, IngestFacts
<1>7. /\ engine'[p] = e /\ \A h \in Host : h # p => engine'[h] = engine[h]
      /\ engine'[Coord] = Map
      /\ latest' \in [Host -> Cloud]
      /\ latest'[p] = c /\ \A h \in Host : h # p => latest'[h] = latest[h]
  BY <1>1, <1>2, <1>4, <1>5 DEF InStep, CoordinatorKept, Map
<1>8. m \in UpMessage /\ m.type = "SUBMAP" /\ m.scanner = p /\ m.cloud = c
  BY <1>1 DEF UpMessage, SubmapMessage
<1> HIDE DEF m
<1>9. up[p] \in Seq(UpMessage) /\ up'[p] = Append(up[p], m)
      /\ \A q \in Participant : q # p => up'[q] = up[q]
  BY <1>2 DEF InStep, CoordinatorKept
<1>10. Kinded' /\ Own'
  BY <1>6, <1>7 DEF InStep, Rest, Kinded, Own
<1>11. Duties'
  BY <1>2, <1>7 DEF InStep, Rest, Duties, Map
<1>12. Downs'
  <2>1. Downward(p, down[p], e, Map)
    BY <1>4, <1>6 DEF Downward
  <2> QED
    BY <1>2, <1>4, <1>7, <2>1, Hosts DEF InStep, Rest, Downs, Map
<1>13. Roles'
  <2>1. ASSUME NEW q \in Participant
        PROVE  /\ q \notin member => engine'[q] = Empty /\ up'[q] = <<>>
               /\ q \notin bound => down'[q] = <<>>
               /\ thread'[q] # Idle => q \in Known(Map)
    BY <1>1, <1>2, <1>7, <1>9, Hosts DEF InStep, Rest, Roles
  <2>2. engine'[Coord] = engine[Coord]
    BY <1>7 DEF Map
  <2> QED
    BY <1>2, <1>3, <2>1, <2>2 DEF InStep, Rest, Roles, Map
<1>14. Streams'
  <2>1. SUFFICES ASSUME NEW q \in Participant, q \in member
                 PROVE  Stream(up'[q], q, Opening(q)', CloudOf(Map, q), latest'[q])
    BY <1>2, <1>7 DEF Streams, Map
  <2>2. Opening(q)' = Opening(q)
    BY <1>2, <1>7 DEF Opening, Map
  <2>3. Stream(up[q], q, Opening(q), CloudOf(Map, q), latest[q])
    BY <2>1 DEF InStep, Rest, Streams
  <2>4. CASE q = p
    <3>1. PICK k \in {0, 1, 2} : k = Opening(p)
      BY DEF Opening
    <3>2. PICK r : r = Append(up[p], m)
      OBVIOUS
    <3>3. Stream(r, p, k, CloudOf(Map, p), c)
      BY <1>2, <1>8, <1>9, <2>3, <2>4, <3>1, <3>2, StreamSend
    <3> QED
      BY <1>7, <1>9, <2>2, <2>4, <3>1, <3>2, <3>3
  <2>5. CASE q # p
    BY <1>7, <1>9, <2>2, <2>3, <2>5, Hosts
  <2> QED
    BY <2>4, <2>5
<1>15. Clouded'
  <2>1. SUFFICES ASSUME NEW q \in Participant, NEW k \in Scanner, q \in Known(Map), k # q
                 PROVE  Owed(q, k) \/ Heard(down[q], engine'[q], k, CloudOf(Map, k))
    BY <1>2, <1>7 DEF Clouded, Map, Owed
  <2>2. Owed(q, k) \/ Heard(down[q], engine[q], k, CloudOf(Map, k))
    BY <2>1 DEF InStep, Rest, Clouded
  <2>3. CloudOf(engine'[q], k) = CloudOf(engine[q], k)
    BY <1>6, <1>7, <2>1, Hosts
  <2> QED
    BY <2>2, <2>3, HeardSame
<1>16. Following'
  <2>1. up'[p] # <<>>
    <3>1. PICK r : r = Append(up[p], m)
      OBVIOUS
    <3>2. Len(r) = Len(up[p]) + 1 /\ Len(up[p]) \in Nat
      BY <1>8, <1>9, <3>1, AppendFacts
    <3>3. Len(r) # 0
      BY <3>2
    <3> QED
      BY <1>9, <3>1, <3>3
  <2> QED
    BY <1>2, <1>7, <1>9, <2>1, Hosts DEF InStep, Rest, Following, Settled, Coming, Map
<1> QED
  BY <1>10, <1>11, <1>12, <1>13, <1>14, <1>15, <1>16 DEF Rest

----------------------------------------------------------------------------
\* A kind of call that the bounds do not allow is not made.
LEMMA NeverSpent ==
  ASSUME Counted, NEW k \in Kinds, Bound[k] = 0, Spend(k)
  PROVE  FALSE
<1>1. spent[k] < 0 /\ spent[k] \in Nat
  BY SpendLeaves
<1> QED
  BY <1>1

\* One session that nobody leaves or clears, in which only the coordinator's user
\* presses "snap" and no scanner is simulated.
OneSession == /\ Triggering \subseteq {Coord} /\ MaxCreates <= 1
              /\ MaxClears = 0 /\ MaxLeaves = 0 /\ MaxSims = 0

LEMMA UserInStep ==
  ASSUME InStep, TakesTurns, OneSession, User
  PROVE  Rest'
<1>1. Counted /\ Bound["clears"] = 0 /\ Bound["leaves"] = 0 /\ Bound["sims"] = 0
      /\ {"clears", "leaves", "sims"} \subseteq Kinds
  BY DEF InStep, CoordinatorKept, OneSession, Bound, Kinds
<1>2. CASE CreateSession
  BY <1>2, CreateInStep DEF OneSession
<1>3. ASSUME NEW p \in Participant, JoinSession(p)
      PROVE  Rest'
  BY <1>3, JoinSessionInStep
<1>4. ASSUME NEW p \in Participant, LeaveSession(p)
      PROVE  FALSE
  <2>1. Spend("leaves")
    BY <1>4 DEF LeaveSession
  <2> QED
    BY <1>1, <2>1, NeverSpent
<1>5. ASSUME NEW n \in Host, TriggerOverlapEvaluation(n)
      PROVE  Rest'
  BY <1>5, TriggerInStep DEF OneSession
<1>6. ASSUME NEW n \in Host, ClearScanners(n)
      PROVE  FALSE
  <2>1. Spend("clears")
    BY <1>6 DEF ClearScanners
  <2> QED
    BY <1>1, <2>1, NeverSpent
<1>7. ASSUME NEW n \in Host, NEW x \in Clouds[n], NEW force \in BOOLEAN,
             PublishLocalSubmap(n, x, force)
      PROVE  Rest'
  <2>1. x \in Cloud
    BY HostAssumption, CloudsAssumption
  <2>2. CASE n = Coord
    <3>1. PublishLocalSubmap(Coord, x, force)
      BY <1>7, <2>2
    <3> QED
      BY <2>1, <3>1, PublishHereInStep DEF OneSession
  <2>3. CASE n # Coord
    <3>1. n \in Participant
      BY <2>3 DEF Participant
    <3> QED
      BY <1>7, <2>1, <3>1, PublishThereInStep DEF OneSession
  <2> QED
    BY <2>2, <2>3
<1>8. ASSUME NEW n \in Host, NEW s \in Scanner \ Host, NEW x \in Clouds[s], NEW o \in BOOLEAN,
             AddSimulatedScanner(n, s, x, o)
      PROVE  FALSE
  <2>1. Spend("sims")
    BY <1>8 DEF AddSimulatedScanner
  <2> QED
    BY <1>1, <2>1, NeverSpent
<1> QED
  BY <1>2, <1>3, <1>4, <1>5, <1>6, <1>7, <1>8 DEF User

LEMMA WorkInStep ==
  ASSUME InStep, TakesTurns, NEW t \in Host, Work(t)
  PROVE  Rest'
<1>1. CASE Evaluate(t)
  BY <1>1, EvaluateInStep
<1>2. CASE Announce(t)
  BY <1>2, AnnounceInStep
<1>3. CASE t # Coord /\ ~Evaluate(t) /\ ~Announce(t)
  <2>1. t \in Participant
    BY <1>3 DEF Participant
  <2> QED
    BY <1>3, <2>1, HandleHelloInStep, HandleJoinInStep, DropJoinNever, HandleSubmapInStep,
       HandleAlignmentNever, SerializeSubmapInStep, SendSubmapInStep, SerializeGreetingInStep,
       SendGreetingInStep, RelayInStep DEF Work
<1> QED
  BY <1>1, <1>2, <1>3 DEF Work

LEMMA NextInStep ==
  ASSUME InStep, OneSession, [Next /\ TakesTurns]_vars
  PROVE  InStep'
<1>1. CoordinatorKept' /\ Early'
  <2>1. CoordinatorKept /\ Early /\ [Next]_vars
    BY DEF InStep
  <2>2. Counted'
    BY <2>1, CountedStep DEF CoordinatorKept
  <2> QED
    BY <2>1, <2>2, NextTracked, StepKept, NextEarly DEF OneSession
<1>2. Rest'
  <2>1. CASE UNCHANGED vars
    BY <2>1, StutterInStep
  <2>2. CASE Next /\ TakesTurns
    <3>1. CASE User
      BY <2>2, <3>1, UserInStep
    <3>2. CASE RegisterAnchor
      BY <2>2, <3>2, AnchorInStep
    <3>3. ASSUME NEW t \in Host, Work(t)
          PROVE  Rest'
      BY <2>2, <3>3, WorkInStep
    <3>4. ASSUME NEW p \in Participant, Receive(p)
          PROVE  Rest'
      BY <2>2, <3>4, ReceiveInStep
    <3> QED
      BY <2>2, <3>1, <3>2, <3>3, <3>4 DEF Next
  <2> QED
    BY <2>1, <2>2
<1> QED
  BY <1>1, <1>2 DEF InStep

LEMMA InitInStep == Init => InStep
<1>1. SUFFICES ASSUME Init
               PROVE  InStep
  OBVIOUS
<1>2. CoordinatorKept /\ Early
  BY <1>1, InitKept, InitEarly
<1>3. /\ engine = [h \in Host |-> Empty] /\ member = {} /\ bound = {}
      /\ down = [p \in Participant |-> <<>>] /\ up = [p \in Participant |-> <<>>]
      /\ thread = [h \in Host |-> Idle]
      /\ latest = [h \in Host |-> {}] /\ announced = Alignment(Empty)
      /\ spent["creates"] = 0
  BY <1>1 DEF Init, Kinds
<1>4. /\ Map = Empty /\ Known(Map) = {} /\ Covered(Empty) /\ Known(Empty) = {}
      /\ \A n : CloudOf(Empty, n) = {}
  <2>1. Covered(Empty)
    BY EmptyKept, KeptCovered
  <2> QED
    BY <1>3, <2>1, Hosts, EmptyKept DEF Map, CloudOf
<1>5. Roles
  BY <1>3, <1>4, Hosts DEF Roles
<1>6. Kinded /\ Own
  BY <1>3, <1>4, Hosts DEF Kinded, Own, Cloud
<1>7. Streams /\ Clouded
  BY <1>3, <1>4 DEF Streams, Clouded
<1>8. Duties
  BY <1>3, DutyIdle DEF Duties
<1>9. Downs
  <2>1. <<>> \in Seq(DownMessage) /\ Len(<<>>) = 0
    OBVIOUS
  <2>2. ASSUME NEW p \in Participant
        PROVE  Downward(p, <<>>, Empty, Map)
    BY <1>4, <2>1 DEF Downward
  <2>3. \A p \in Participant : down[p] = <<>> /\ engine[p] = Empty
    BY <1>3, Hosts
  <2> QED
    BY <1>3, <2>2, <2>3 DEF Downs
<1>10. Following
  <2>1. \A n \in Scanner : announced.item[n] = None
    BY <1>3, <1>4, AlignmentFacts
  <2> QED
    BY <1>4, <2>1 DEF Following
<1> QED
  BY <1>2, <1>5, <1>6, <1>7, <1>8, <1>9, <1>10 DEF InStep, Rest

----------------------------------------------------------------------------
\* Nothing on its way and nothing taken on: the participant is up to date.
LEMMA QuietAt ==
  ASSUME InStep, Quiet, NEW p \in Participant, Follows(p)
  PROVE  /\ p \in Known(Map) /\ CloudOf(Map, p) = latest[p]
         /\ \A n \in Scanner : n # p => CloudOf(engine[p], n) = CloudOf(Map, n)
         /\ Settled => AgreesWith(engine[p], Alignment(Map))
<1>1. p \in member /\ p \in bound /\ up[p] = <<>> /\ down[p] = <<>>
      /\ \A t \in Host : thread[t].stage = "idle"
  BY IdleStage DEF Quiet, Follows
<1>2. PICK k : k = Opening(p)
  OBVIOUS
<1>3. k \in {0, 1, 2} /\ (k = 0 <=> p \in Known(Map))
  BY <1>2 DEF Opening
<1>4. PICK has : has = CloudOf(Map, p)
  OBVIOUS
<1>5. PICK last : last = latest[p]
  OBVIOUS
<1>6. Stream(<<>>, p, k, has, last)
  BY <1>1, <1>2, <1>4, <1>5 DEF InStep, Rest, Streams
<1>7. k = 0 /\ has = last
  BY <1>3, <1>6, StreamEnds
<1>8. p \in Known(Map)
  BY <1>3, <1>7
<1>9. ASSUME NEW n \in Scanner, n # p
      PROVE  CloudOf(engine[p], n) = CloudOf(Map, n)
  <2>1. p \in Host /\ ~Owed(p, n)
    BY <1>1, Hosts DEF Owed, Owes, Relaying
  <2>2. PICK x : x = CloudOf(Map, n)
    OBVIOUS
  <2>3. PICK e : e = engine[p]
    OBVIOUS
  <2>4. Heard(<<>>, e, n, x)
    BY <1>1, <1>8, <1>9, <2>1, <2>2, <2>3 DEF InStep, Rest, Clouded
  <2> QED
    BY <2>2, <2>3, <2>4, NothingOnTheWay
<1>10. ASSUME Settled
       PROVE  AgreesWith(engine[p], Alignment(Map))
  <2>1. p \in Host /\ ~Coming(p)
    BY <1>1, Hosts DEF Coming, Announcing, Greeting
  <2>2. PICK a : a = Alignment(Map)
    OBVIOUS
  <2>3. PICK e : e = engine[p]
    OBVIOUS
  <2>4. Aligned(<<>>, e, a)
    BY <1>1, <1>8, <1>10, <2>1, <2>2, <2>3 DEF InStep, Rest, Following
  <2> QED
    BY <2>2, <2>3, <2>4, NothingOnTheWay
<1> QED
  BY <1>4, <1>5, <1>7, <1>8, <1>9, <1>10

LEMMA InStepClouds == InStep => CloudsAgree
<1>1. SUFFICES ASSUME InStep, Quiet, NEW p \in Participant, NEW n \in Host,
                      Follows(p), latest[n] # {}
               PROVE  n \in Known(engine[p]) /\ engine[p].sub[n].cloud = latest[n]
  BY DEF CloudsAgree
<1>2. n \in Scanner
  BY HostAssumption
<1>3. CloudOf(Map, n) = latest[n]
  <2>1. CASE n = Coord
    BY <1>1, <2>1, Hosts DEF InStep, Rest, Own, Map
  <2>2. CASE n # Coord /\ n \in bound
    <3>1. n \in Participant /\ Follows(n)
      BY <1>1, <2>2 DEF Participant, Follows, InStep, Rest, Roles
    <3> QED
      BY <1>1, <3>1, QuietAt
  <2>3. CASE n # Coord /\ n \in member /\ n \notin bound
    <3>1. n \in Participant /\ up[n] = <<>>
      BY <1>1, <2>3 DEF Participant, Quiet
    <3>2. PICK k : k = Opening(n)
      OBVIOUS
    <3>3. PICK has : has = CloudOf(Map, n)
      OBVIOUS
    <3>4. PICK last : last = latest[n]
      OBVIOUS
    <3>5. k \in {0, 1, 2} /\ Stream(<<>>, n, k, has, last)
      BY <1>1, <2>3, <3>1, <3>2, <3>3, <3>4 DEF InStep, Rest, Streams, Opening
    <3> QED
      BY <3>3, <3>4, <3>5, StreamEnds
  <2>4. CASE n # Coord /\ n \notin member
    <3>1. n \in Participant /\ engine[n] = Empty
      BY <1>1, <2>4 DEF Participant, InStep, Rest, Roles
    <3>2. latest[n] = CloudOf(Empty, n)
      BY <1>1, <3>1 DEF InStep, Rest, Own
    <3> QED
      BY <1>1, <3>2, EmptyKept DEF CloudOf
  <2> QED
    BY <2>1, <2>2, <2>3, <2>4
<1>4. CloudOf(engine[p], n) = latest[n]
  <2>1. CASE n = p
    BY <1>1, <2>1 DEF InStep, Rest, Own
  <2>2. CASE n # p
    BY <1>1, <1>2, <1>3, <2>2, QuietAt
  <2> QED
    BY <2>1, <2>2
<1> QED
  BY <1>1, <1>4 DEF CloudOf

LEMMA InStepAlignment == InStep => ReplicasAgree
<1>1. SUFFICES ASSUME InStep, Quiet, announced = Alignment(Map), Snap(Map) = Map,
                      NEW p \in Participant, NEW n \in Known(Map), Follows(p)
               PROVE  n \in Known(engine[p]) /\ ItemOf(engine[p].sub[n]) = ItemOf(Map.sub[n])
  BY DEF ReplicasAgree, Map
<1>2. AgreesWith(engine[p], Alignment(Map))
  BY <1>1, QuietAt DEF Settled
<1>3. PICK a : a = Alignment(Map)
  OBVIOUS
<1>4. Covered(Map) /\ n \in Scanner
  BY <1>1, MapKinds DEF Known
<1>5. a.item[n] # None /\ a.item[n] = ItemOf(Map.sub[n])
  BY <1>1, <1>3, <1>4, AlignmentFacts
<1> QED
  BY <1>2, <1>3, <1>4, <1>5 DEF AgreesWith

\* The invariant of an orderly session.
LEMMA StaysInStep ==
  ASSUME OneSession
  PROVE  OrderlySpec => []InStep
<1>1. InStep /\ [Next /\ TakesTurns]_vars => InStep'
  BY NextInStep
<1> QED
  BY <1>1, InitInStep, PTL DEF OrderlySpec

\* When everything sent has been handled, every participant of the session has
\* the latest cloud of every scanner that published into it, its own and those
\* recorded before it came (the joined callback's pushes, the relay of a submap).
THEOREM EveryoneHasTheClouds ==
  ASSUME OneSession
  PROVE  OrderlySpec => []CloudsAgree
BY StaysInStep, InStepClouds, PTL

\* When the alignment the coordinator last set out to send is the one it holds,
\* every participant that has handled everything sent is aligned as it is
\* (broadcastAlignmentUpdate, applySerializedAlignmentState).
THEOREM ReplicasFollow ==
  ASSUME OneSession
  PROVE  OrderlySpec => []ReplicasAgree
BY StaysInStep, InStepAlignment, PTL
=============================================================================
