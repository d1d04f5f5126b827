--------------------------- MODULE StationDiskProofs ---------------------------
(* What a station keeps on disk, for any number of nodes, sensors, accepts  *)
(* and crashes: who a node is, and how its sensors are turned.              *)
EXTENDS StationCaptureProofs, FiniteSetTheorems

BeaconState == {"AVAILABLE", "IN_SESSION", "CAPTURING"}
Beacons     == [uuid : Nat, state : BeaconState, session : 0..MaxMeets]
Entry       == [beacon : Beacons, at : {""} \cup Addresses, old : BOOLEAN]
Tables      == UNION {[U -> Entry] : U \in SUBSET Nat}
NodeState   == [up : BOOLEAN, uuid : 0..MaxBoots, at : {""} \cup Addresses,
                role : {"UNASSIGNED", "COORDINATOR", "PARTICIPANT"}, session : 0..MaxMeets,
                capturing : BOOLEAN, beacon : Beacons, peers : SUBSET Addresses, table : Tables]
Datagrams   == [beacon : Beacons, from : {""} \cup Addresses, to : Nodes]
Efforts     == [boots : 0..MaxBoots, names : Nat, meets : 0..MaxMeets, peers : Nat, rounds : Nat]

NetworkTyped ==
  /\ node \in [Nodes -> NodeState]
  /\ air \subseteq Datagrams
  /\ told \in [Nodes -> SUBSET (1..MaxBoots)]
  /\ effort \in Efforts

\* Cards are files; there is never a torn one.
Cards == UNION {[F -> [body : 1..MaxBoots, whole : {TRUE}]] : F \in SUBSET {CardOf(n) : n \in Nodes}}

OnFile(n) == CardOf(n) \in DOMAIN cards

\* Who a node is: what its card says as soon as there is one; the file is
\* written before the first beacon is sent, and only ever with what it says.
Identified(n) ==
  /\ OnFile(n) => told[n] \subseteq {cards[CardOf(n)].body}
  /\ ~OnFile(n) => told[n] = {}
  /\ node[n].up =>
       /\ node[n].uuid \in 1..MaxBoots
       /\ node[n].beacon.uuid = node[n].uuid
       /\ OnFile(n) => cards[CardOf(n)].body = node[n].uuid
       /\ filing[n] = <<>> \/ filing[n] = SaveCard(n, node[n].uuid)
       /\ filing[n] = <<>> => OnFile(n)
       /\ node[n].uuid \notin DOMAIN node[n].table
  /\ ~node[n].up => filing[n] = <<>> /\ DOMAIN node[n].table = {}

NetworkInv ==
  /\ NetworkTyped
  /\ cards \in Cards
  /\ filing \in [Nodes -> Seq([path : {CardOf(n) : n \in Nodes}, body : 1..MaxBoots, atomic : {TRUE}])]
  /\ \A n \in Nodes : Identified(n)

-----------------------------------------------------------------------------
(* Writing a card *)

\* No two nodes share a card.
LEMMA CardsDiffer ==
  ASSUME NEW n, NEW m, n # m
  PROVE  CardOf(n) # CardOf(m)
BY DEF CardOf

\* What a series of writes leaves at a path: what was there, or what the last
\* of them wrote.
At(ws, f) == {i \in DOMAIN ws : ws[i].path = f}
LastOf(I) == CHOOSE i \in I : \A j \in I : j <= i
Content(d, ws, f) == IF At(ws, f) = {} THEN d[f] ELSE File(ws[LastOf(At(ws, f))].body, TRUE)

LEMMA AppliedContent ==
  ASSUME NEW d, NEW ws
  PROVE  Applied(d, ws) = [f \in DOMAIN d \cup {ws[i].path : i \in DOMAIN ws} |-> Content(d, ws, f)]
BY DEF Applied, Content, At, LastOf

LEMMA NothingWritten ==
  ASSUME NEW d \in Cards
  PROVE  Applied(d, <<>>) = d
<1>1. DOMAIN <<>> = {}
  OBVIOUS
<1>2. \A f : Content(d, <<>>, f) = d[f]
  BY <1>1 DEF Content, At
<1>3. DOMAIN d \cup {<<>>[i].path : i \in DOMAIN <<>>} = DOMAIN d
  BY <1>1
<1>4. Applied(d, <<>>) = [f \in DOMAIN d |-> d[f]]
  BY <1>2, <1>3, AppliedContent
<1> QED
  BY <1>4 DEF Cards

\* A card is written, whole, and the others stay as they are.
Written(d, n, u) == [f \in DOMAIN d \cup {CardOf(n)} |-> IF f = CardOf(n) THEN File(u, TRUE) ELSE d[f]]

\* What a node writes when it files its card.
LEMMA OneWrite ==
  ASSUME NEW n, NEW u
  PROVE  LET ws == SaveCard(n, u) IN
         /\ ws = <<[path |-> CardOf(n), body |-> u, atomic |-> TRUE]>>
         /\ DOMAIN ws = {1} /\ Len(ws) = 1 /\ ws # <<>>
         /\ ws[1].path = CardOf(n) /\ ws[1].body = u /\ ws[1].atomic
<1>1. SaveCard(n, u) = <<[path |-> CardOf(n), body |-> u, atomic |-> TRUE]>>
  BY DEF SaveCard, Atomically
<1> QED
  BY <1>1

LEMMA CardWritten ==
  ASSUME NEW d \in Cards, NEW n \in Nodes, NEW u \in 1..MaxBoots
  PROVE  Applied(d, SaveCard(n, u)) = Written(d, n, u)
<1> DEFINE ws == SaveCard(n, u)
<1>1. DOMAIN ws = {1} /\ ws[1].path = CardOf(n) /\ ws[1].body = u
  BY OneWrite
<1> HIDE DEF ws
<1>2. LastOf({1}) = 1
  BY DEF LastOf
<1>3. \A f : Content(d, ws, f) = IF f = CardOf(n) THEN File(u, TRUE) ELSE d[f]
  <2>1. At(ws, CardOf(n)) = {1}
    BY <1>1 DEF At
  <2>2. \A f : f # CardOf(n) => At(ws, f) = {}
    BY <1>1 DEF At
  <2> QED
    BY <1>1, <1>2, <2>1, <2>2 DEF Content
<1>4. {ws[i].path : i \in DOMAIN ws} = {CardOf(n)}
  BY <1>1
<1>5. Applied(d, ws) = Written(d, n, u)
  BY <1>3, <1>4, AppliedContent DEF Written
<1> QED
  BY <1>5 DEF ws

\* Writing a card leaves cards, and the other ones as they were.
LEMMA WrittenType ==
  ASSUME NEW d \in Cards, NEW n \in Nodes, NEW u \in 1..MaxBoots
  PROVE  /\ Written(d, n, u) \in Cards
         /\ DOMAIN Written(d, n, u) = DOMAIN d \cup {CardOf(n)}
         /\ Written(d, n, u)[CardOf(n)].body = u
         /\ \A f \in DOMAIN d \ {CardOf(n)} : Written(d, n, u)[f] = d[f]
<1> DEFINE Filed == {CardOf(m) : m \in Nodes}
           Whole == [body : 1..MaxBoots, whole : {TRUE}]
<1>1. PICK F \in SUBSET Filed : d \in [F -> Whole]
  BY DEF Cards
<1>2. CardOf(n) \in Filed /\ File(u, TRUE) \in Whole
  BY DEF File
<1>3. Written(d, n, u) \in [F \cup {CardOf(n)} -> Whole]
  BY <1>1, <1>2 DEF Written
<1>4. Written(d, n, u) \in Cards
  <2>1. F \cup {CardOf(n)} \in SUBSET Filed
    BY <1>2
  <2>2. \A G \in SUBSET Filed : [G -> Whole] \subseteq Cards
    BY DEF Cards
  <2> QED
    BY <1>3, <2>1, <2>2
<1> QED
  BY <1>4 DEF Written, File

\* A crash leaves the card that was there or the one that was being written.
LEMMA CardCut ==
  ASSUME NEW d \in Cards, NEW n \in Nodes, NEW u \in 1..MaxBoots
  PROVE  Cuts(d, SaveCard(n, u)) \subseteq {d, Written(d, n, u)}
<1> DEFINE ws == SaveCard(n, u)
<1>1. DOMAIN ws = {1} /\ Len(ws) = 1 /\ ws[1].atomic /\ ws \in Seq({ws[1]})
  <2>1. ws = <<ws[1]>>
    BY OneWrite
  <2> HIDE DEF ws
  <2>2. <<ws[1]>> \in Seq({ws[1]})
    OBVIOUS
  <2>3. ws \in Seq({ws[1]})
    BY <2>1, <2>2
  <2> QED
    BY <2>3, OneWrite DEF ws
<1>2. SubSeq(ws, 1, 0) = <<>> /\ SubSeq(ws, 1, 1) = ws
  <2> HIDE DEF ws
  <2>1. SubSeq(ws, 1, 0) = <<>>
    BY SubSeqEmpty
  <2>2. SubSeq(ws, 1, Len(ws)) = ws
    BY <1>1, SubSeqFull
  <2> QED
    BY <1>1, <2>1, <2>2
<1>3. Applied(d, <<>>) = d /\ Applied(d, ws) = Written(d, n, u)
  BY NothingWritten, CardWritten
<1> HIDE DEF ws
<1>4. {m \in DOMAIN ws : ~ws[m].atomic} = {}
  BY <1>1
<1>5. ASSUME NEW i \in 1..(Len(ws) + 1)
      PROVE  Applied(d, SubSeq(ws, 1, i - 1)) \in {d, Written(d, n, u)}
  <2>1. i - 1 = 0 \/ i - 1 = 1
    BY <1>1
  <2> QED
    BY <1>2, <1>3, <2>1
<1>6. Cuts(d, ws) = {Applied(d, SubSeq(ws, 1, i - 1)) : i \in 1..(Len(ws) + 1)}
  BY <1>4 DEF Cuts
<1>7. Cuts(d, ws) \subseteq {d, Written(d, n, u)}
  BY <1>5, <1>6
<1> QED
  BY <1>7 DEF ws

LEMMA NothingCut ==
  ASSUME NEW d \in Cards
  PROVE  Cuts(d, <<>>) \subseteq {d}
<1>1. Len(<<>>) = 0 /\ DOMAIN <<>> = {} /\ SubSeq(<<>>, 1, 0) = <<>>
  OBVIOUS
<1>2. {m \in DOMAIN <<>> : ~<<>>[m].atomic} = {}
  BY <1>1
<1>3. ASSUME NEW i \in 1..(Len(<<>>) + 1)
      PROVE  Applied(d, SubSeq(<<>>, 1, i - 1)) = d
  <2>1. i = 1
    BY <1>1
  <2>2. SubSeq(<<>>, 1, i - 1) = <<>>
    BY <1>1, <2>1
  <2> QED
    BY <2>2, NothingWritten
<1>4. Cuts(d, <<>>) = {Applied(d, SubSeq(<<>>, 1, i - 1)) : i \in 1..(Len(<<>>) + 1)}
  BY <1>2 DEF Cuts
<1> QED
  BY <1>3, <1>4

-----------------------------------------------------------------------------
(* The steps *)

\* A step in which one node becomes what it was or another, the files stay,
\* and nobody sends.
LEMMA BecomesInv ==
  ASSUME NetworkInv, NEW n \in Nodes, NEW x \in NodeState, Becomes(n, x),
         x.up, node[n].up, x.uuid = node[n].uuid, x.beacon.uuid = x.uuid,
         x.uuid \notin DOMAIN x.table,
         air' \subseteq Datagrams,
         effort' \in Efforts,
         filing' = filing \/ (filing[n] = <<>> /\ filing' = [filing EXCEPT ![n] = SaveCard(n, x.uuid)]),
         UNCHANGED <<cards, told>>
  PROVE  NetworkInv'
<1>1. node' \in [Nodes -> NodeState] /\ node'[n] = x /\ \A m \in Nodes \ {n} : node'[m] = node[m]
  BY DEF Becomes, NetworkInv, NetworkTyped
<1>2. NetworkTyped'
  BY <1>1 DEF NetworkInv, NetworkTyped
<1>3. x.uuid \in 1..MaxBoots
  BY DEF NetworkInv, Identified
<1> DEFINE Writes == Seq([path : {CardOf(m) : m \in Nodes}, body : 1..MaxBoots, atomic : {TRUE}])
<1>4. SaveCard(n, x.uuid) \in Writes
  <2>1. SaveCard(n, x.uuid) = <<[path |-> CardOf(n), body |-> x.uuid, atomic |-> TRUE]>>
    BY OneWrite
  <2>2. [path |-> CardOf(n), body |-> x.uuid, atomic |-> TRUE]
          \in [path : {CardOf(m) : m \in Nodes}, body : 1..MaxBoots, atomic : {TRUE}]
    BY <1>3
  <2> QED
    BY <2>1, <2>2
<1>5. filing' \in [Nodes -> Writes]
  BY <1>4 DEF NetworkInv
<1>6. ASSUME NEW m \in Nodes PROVE Identified(m)'
  <2>1. Identified(m) /\ Identified(n)
    BY DEF NetworkInv
  <2>2. CASE m # n
    <3>1. node'[m] = node[m] /\ filing'[m] = filing[m]
      BY <1>1, <2>2 DEF NetworkInv
    <3> QED
      BY <2>1, <3>1 DEF Identified, OnFile
  <2>3. CASE m = n
    <3>1. filing'[n] = filing[n] \/ (filing[n] = <<>> /\ filing'[n] = SaveCard(n, x.uuid))
      BY DEF NetworkInv
    <3>2. SaveCard(n, x.uuid) # <<>>
      BY OneWrite
    <3> QED
      BY <1>1, <1>3, <2>1, <2>3, <3>1, <3>2 DEF Identified, OnFile
  <2> QED
    BY <2>2, <2>3
<1> QED
  BY <1>2, <1>5, <1>6 DEF NetworkInv

\* The bounds are kept.
LEMMA EffortType ==
  ASSUME effort \in Efforts
  PROVE  /\ Effort("boots", MaxBoots) => effort' \in Efforts /\ effort.boots + 1 \in 1..MaxBoots
         /\ Effort("names", MaxNames) => effort' \in Efforts
         /\ Effort("meets", MaxMeets) => effort' \in Efforts /\ effort.meets + 1 \in 0..MaxMeets
         /\ Effort("peers", MaxPeers) => effort' \in Efforts
         /\ Effort("rounds", MaxRounds) => effort' \in Efforts
<1> USE DiscoveryBounds DEF Efforts, Effort
<1>1. Effort("boots", MaxBoots) => effort' \in Efforts /\ effort.boots + 1 \in 1..MaxBoots
  OBVIOUS
<1>2. Effort("names", MaxNames) => effort' \in Efforts
  OBVIOUS
<1>3. Effort("meets", MaxMeets) => effort' \in Efforts /\ effort.meets + 1 \in 0..MaxMeets
  OBVIOUS
<1>4. Effort("peers", MaxPeers) => effort' \in Efforts
  OBVIOUS
<1>5. Effort("rounds", MaxRounds) => effort' \in Efforts
  OBVIOUS
<1> QED
  BY <1>1, <1>2, <1>3, <1>4, <1>5

LEMMA BoundsType == MaxBoots \in Nat /\ MaxMeets \in Nat
BY DiscoveryBounds

\* What a node sends is who it is.
LEMMA AdvertisingType ==
  ASSUME NEW x \in NodeState, NEW state \in BeaconState
  PROVE  LET y == Advertising(x, state) IN
         /\ y \in NodeState /\ y.beacon.uuid = x.uuid
         /\ y.up = x.up /\ y.uuid = x.uuid /\ y.table = x.table
<1> DEFINE b == [uuid |-> x.uuid, state |-> state, session |-> x.session]
<1>1. b \in Beacons /\ b.uuid = x.uuid
  <2>1. x.uuid \in Nat /\ x.session \in 0..MaxMeets
    <3>1. x.uuid \in 0..MaxBoots /\ x.session \in 0..MaxMeets
      BY DEF NodeState
    <3> QED
      BY <3>1, BoundsType
  <2> QED
    BY <2>1 DEF Beacons
<1>2. Advertising(x, state) = [x EXCEPT !.beacon = b]
  BY DEF Advertising, Beacon
<1> HIDE DEF b
<1> QED
  BY <1>1, <1>2 DEF NodeState

LEMMA DownType ==
  /\ Down \in NodeState /\ ~Down.up /\ DOMAIN Down.table = {}
<1> DEFINE e == [u \in {} |-> NoBeacon]
<1>1. e \in [{} -> Entry] /\ DOMAIN e = {}
  OBVIOUS
<1>2. e \in Tables
  BY <1>1 DEF Tables
<1>3. NoBeacon \in Beacons
  BY DiscoveryBounds DEF NoBeacon, Beacon, Beacons, BeaconState, Nobody
<1> HIDE DEF e
<1>4. Down = [up |-> FALSE, uuid |-> 0, at |-> "", role |-> "UNASSIGNED", session |-> 0,
              capturing |-> FALSE, beacon |-> NoBeacon, peers |-> {}, table |-> e]
  BY DEF Down, Nobody, NoTable, e
<1>5. 0 \in 0..MaxBoots /\ 0 \in 0..MaxMeets
  BY DiscoveryBounds
<1>6. Down \in NodeState
  BY <1>2, <1>3, <1>4, <1>5 DEF NodeState
<1> QED
  BY <1>1, <1>4, <1>6

LEMMA NetworkInvInit == DiscoveryInit => NetworkInv
<1> SUFFICES ASSUME DiscoveryInit PROVE NetworkInv
  OBVIOUS
<1>1. node \in [Nodes -> NodeState]
  BY DownType DEF DiscoveryInit
<1>2. effort \in Efforts
  BY DiscoveryBounds DEF DiscoveryInit, Efforts
<1>3. NetworkTyped
  BY <1>1, <1>2 DEF DiscoveryInit, NetworkTyped
<1>4. cards \in Cards /\ DOMAIN cards = {}
  <2>1. cards \in [{} -> [body : 1..MaxBoots, whole : {TRUE}]] /\ DOMAIN cards = {}
    BY DEF DiscoveryInit
  <2> QED
    BY <2>1 DEF Cards
<1>5. filing \in [Nodes -> Seq([path : {CardOf(n) : n \in Nodes}, body : 1..MaxBoots, atomic : {TRUE}])]
  BY DEF DiscoveryInit
<1>6. \A n \in Nodes : Identified(n)
  BY <1>4, DownType DEF DiscoveryInit, Identified, OnFile
<1> QED
  BY <1>3, <1>4, <1>5, <1>6 DEF NetworkInv

\* A node whose identity is on its card says who it is, and changes in
\* whatever else.
LEMMA RunsInv ==
  ASSUME NetworkInv, NEW n \in Nodes, Runs(n), NEW x \in NodeState,
         x.up = node[n].up, x.uuid = node[n].uuid, x.beacon.uuid = x.uuid, x.table = node[n].table,
         Becomes(n, x), effort' \in Efforts,
         filing' = filing \/ filing' = [filing EXCEPT ![n] = SaveCard(n, x.uuid)],
         UNCHANGED <<cards, air, told>>
  PROVE  NetworkInv'
<1>1. node[n].up /\ filing[n] = <<>> /\ x.uuid \notin DOMAIN x.table
  BY DEF Runs, NetworkInv, Identified
<1>2. air' \subseteq Datagrams
  BY DEF NetworkInv, NetworkTyped
<1> QED
  BY <1>1, <1>2, BecomesInv

LEMMA RunningType ==
  ASSUME NetworkInv, NEW n \in Nodes, node[n].up
  PROVE  /\ node[n] \in NodeState /\ node[n].uuid \in 1..MaxBoots
         /\ node[n].beacon.uuid = node[n].uuid /\ effort \in Efforts
         /\ node[n].uuid \notin DOMAIN node[n].table
BY DEF NetworkInv, NetworkTyped, Identified

\* The calls that change what a node is, not what it knows of others.
LEMMA CallsInv ==
  ASSUME NetworkInv, NEW n \in Nodes,
         \/ Rename(n) \/ CreateSession(n) \/ LeaveSession(n)
         \/ \E on \in BOOLEAN : Capture(n, on)
         \/ \E at \in Addresses : AddPeer(n, at)
  PROVE  NetworkInv'
<1>1. CASE Rename(n)
  <2>1. node[n].up
    BY <1>1 DEF Rename, Runs
  <2> DEFINE x == Advertising(node[n], IF node[n].capturing THEN "CAPTURING" ELSE "AVAILABLE")
  <2>2. (IF node[n].capturing THEN "CAPTURING" ELSE "AVAILABLE") \in BeaconState
    BY DEF BeaconState
  <2>3. /\ x \in NodeState /\ x.beacon.uuid = node[n].uuid
        /\ x.up = node[n].up /\ x.uuid = node[n].uuid /\ x.table = node[n].table
    BY <2>1, <2>2, RunningType, AdvertisingType
  <2>4. effort' \in Efforts
    BY <1>1, <2>1, RunningType, EffortType DEF Rename
  <2>5. Becomes(n, x)
    BY <1>1 DEF Rename
  <2> HIDE DEF x
  <2> QED
    BY <1>1, <2>3, <2>4, <2>5, RunsInv DEF Rename
<1>2. CASE CreateSession(n)
  <2> DEFINE y == [node[n] EXCEPT !.session = effort.meets + 1, !.role = "COORDINATOR", !.capturing = FALSE]
             x == Advertising(y, "IN_SESSION")
  <2>1. node[n].up
    BY <1>2 DEF CreateSession, Runs
  <2>2. effort' \in Efforts /\ effort.meets + 1 \in 0..MaxMeets
    BY <1>2, <2>1, RunningType, EffortType DEF CreateSession
  <2>3. /\ y \in NodeState
        /\ y.up = node[n].up /\ y.uuid = node[n].uuid /\ y.table = node[n].table
    <3>1. node[n] \in NodeState
      BY <2>1, RunningType
    <3>2. y \in NodeState
      BY <2>2, <3>1 DEF NodeState
    <3>3. y.up = node[n].up /\ y.uuid = node[n].uuid /\ y.table = node[n].table
      BY <3>1 DEF NodeState
    <3> QED
      BY <3>2, <3>3
  <2>4. Becomes(n, x)
    BY <1>2 DEF CreateSession
  <2> HIDE DEF y
  <2>5. /\ x \in NodeState /\ x.beacon.uuid = y.uuid
        /\ x.up = y.up /\ x.uuid = y.uuid /\ x.table = y.table
    BY <2>3, AdvertisingType DEF BeaconState
  <2> HIDE DEF x
  <2> QED
    BY <1>2, <2>2, <2>3, <2>4, <2>5, RunsInv DEF CreateSession
<1>3. CASE LeaveSession(n)
  <2> DEFINE y == [node[n] EXCEPT !.session = Nobody, !.role = "UNASSIGNED", !.capturing = FALSE]
             x == Advertising(y, "AVAILABLE")
  <2>1. node[n].up
    BY <1>3 DEF LeaveSession, Runs
  <2>2. Nobody \in 0..MaxMeets
    BY DiscoveryBounds DEF Nobody
  <2>3. /\ y \in NodeState
        /\ y.up = node[n].up /\ y.uuid = node[n].uuid /\ y.table = node[n].table
    <3>1. node[n] \in NodeState
      BY <2>1, RunningType
    <3>2. y \in NodeState
      BY <2>2, <3>1 DEF NodeState
    <3>3. y.up = node[n].up /\ y.uuid = node[n].uuid /\ y.table = node[n].table
      BY <3>1 DEF NodeState
    <3> QED
      BY <3>2, <3>3
  <2>4. Becomes(n, x)
    BY <1>3 DEF LeaveSession
  <2> HIDE DEF y
  <2>5. /\ x \in NodeState /\ x.beacon.uuid = y.uuid
        /\ x.up = y.up /\ x.uuid = y.uuid /\ x.table = y.table
    BY <2>3, AdvertisingType DEF BeaconState
  <2>6. effort' \in Efforts
    BY <1>3, <2>1, RunningType DEF LeaveSession
  <2> HIDE DEF x
  <2> QED
    BY <1>3, <2>3, <2>4, <2>5, <2>6, RunsInv DEF LeaveSession
<1>4. ASSUME NEW on \in BOOLEAN, Capture(n, on) PROVE NetworkInv'
  <2> DEFINE y == [node[n] EXCEPT !.capturing = on]
             x == Advertising(y, IF on THEN "CAPTURING" ELSE "IN_SESSION")
  <2>1. node[n].up
    BY <1>4 DEF Capture, Runs
  <2>2. (IF on THEN "CAPTURING" ELSE "IN_SESSION") \in BeaconState
    BY DEF BeaconState
  <2>3. /\ y \in NodeState
        /\ y.up = node[n].up /\ y.uuid = node[n].uuid /\ y.table = node[n].table
    BY <2>1, RunningType DEF NodeState
  <2>4. Becomes(n, x)
    BY <1>4 DEF Capture
  <2> HIDE DEF y
  <2>5. /\ x \in NodeState /\ x.beacon.uuid = y.uuid
        /\ x.up = y.up /\ x.uuid = y.uuid /\ x.table = y.table
    BY <2>2, <2>3, AdvertisingType
  <2>6. effort' \in Efforts
    BY <1>4, <2>1, RunningType DEF Capture
  <2> HIDE DEF x
  <2> QED
    BY <1>4, <2>3, <2>4, <2>5, <2>6, RunsInv DEF Capture
<1>5. ASSUME NEW at \in Addresses, AddPeer(n, at) PROVE NetworkInv'
  <2> DEFINE x == [node[n] EXCEPT !.peers = @ \cup {at}]
  <2>1. node[n].up
    BY <1>5 DEF AddPeer, Runs
  <2>2. /\ x \in NodeState /\ x.beacon = node[n].beacon
        /\ x.up = node[n].up /\ x.uuid = node[n].uuid /\ x.table = node[n].table
    BY <2>1, RunningType DEF NodeState
  <2>3. Becomes(n, x)
    BY <1>5 DEF AddPeer
  <2>4. effort' \in Efforts
    BY <1>5, <2>1, RunningType, EffortType DEF AddPeer
  <2> HIDE DEF x
  <2>5. x.beacon.uuid = x.uuid
    BY <2>1, <2>2, RunningType
  <2> QED
    BY <1>5, <2>2, <2>3, <2>4, <2>5, RunsInv DEF AddPeer
<1> QED
  BY <1>1, <1>2, <1>3, <1>4, <1>5

\* A node that runs keeps who it is and gets another table, without itself.
LEMMA TableInv ==
  ASSUME NetworkInv, NEW n \in Nodes, node[n].up, NEW t \in Tables, node[n].uuid \notin DOMAIN t,
         node' = [node EXCEPT ![n] = [node[n] EXCEPT !.table = t]],
         air' \subseteq Datagrams, UNCHANGED <<cards, filing, told, effort>>
  PROVE  NetworkInv'
<1> DEFINE x == [node[n] EXCEPT !.table = t]
<1>1. /\ x \in NodeState /\ x.up = node[n].up /\ x.uuid = node[n].uuid
      /\ x.beacon = node[n].beacon /\ x.table = t
  BY RunningType DEF NodeState
<1>2. Becomes(n, x)
  BY DEF Becomes
<1>3. effort' \in Efforts /\ x.beacon.uuid = x.uuid
  BY <1>1, RunningType
<1> HIDE DEF x
<1> QED
  BY <1>1, <1>2, <1>3, BecomesInv

LEMMA TablesType ==
  ASSUME NEW t, NEW U \in SUBSET Nat, t \in [U -> Entry]
  PROVE  t \in Tables
BY DEF Tables

LEMMA TableIs ==
  ASSUME NEW t \in Tables
  PROVE  DOMAIN t \in SUBSET Nat /\ t \in [DOMAIN t -> Entry]
BY DEF Tables

\* What a node knows of others.
LEMMA ListsInv ==
  ASSUME NetworkInv, NEW n \in Nodes,
         \/ \E b \in air : Hear(n, b)
         \/ \E u \in DOMAIN node[n].table : Elapse(n, u)
         \/ ListNodes(n)
  PROVE  NetworkInv'
<1> DEFINE t == node[n].table
<1>1. node[n].up /\ node[n] \in NodeState /\ node \in [Nodes -> NodeState]
  BY RunningType DEF Hear, Elapse, ListNodes, Runs, NetworkInv, NetworkTyped
<1>2. t \in Tables /\ DOMAIN t \in SUBSET Nat /\ t \in [DOMAIN t -> Entry] /\ node[n].uuid \notin DOMAIN t
  <2>1. t \in Tables
    BY <1>1 DEF NodeState
  <2> QED
    BY <1>1, <2>1, TableIs, RunningType
<1>3. air \subseteq Datagrams
  BY DEF NetworkInv, NetworkTyped
<1>4. ASSUME NEW b \in air, Hear(n, b) PROVE NetworkInv'
  <2> DEFINE u == b.beacon.uuid
             entry == [beacon |-> b.beacon, at |-> b.from, old |-> FALSE]
             t2 == [v \in DOMAIN t \cup {u} |-> IF v = u THEN entry ELSE t[v]]
  <2>1. u \in Nat /\ entry \in Entry
    BY <1>3 DEF Datagrams, Beacons, Entry
  <2>2. air' \subseteq Datagrams
    BY <1>3, <1>4 DEF Hear
  <2> HIDE DEF entry
  <2>3. CASE u = node[n].uuid
    <3>1. node' = node
      BY <1>4, <2>3 DEF Hear
    <3>2. node' = [node EXCEPT ![n] = [node[n] EXCEPT !.table = t]]
      BY <1>1, <3>1 DEF NodeState
    <3> QED
      BY <1>1, <1>2, <1>4, <2>2, <3>2, TableInv DEF Hear
  <2>4. CASE u # node[n].uuid
    <3>1. t2 \in [DOMAIN t \cup {u} -> Entry] /\ DOMAIN t \cup {u} \in SUBSET Nat
      BY <1>2, <2>1
    <3>2. t2 \in Tables /\ node[n].uuid \notin DOMAIN t2
      BY <1>2, <2>4, <3>1, TablesType
    <3>3. node' = [node EXCEPT ![n].table = t2]
      BY <1>4, <2>4 DEF Hear, entry
    <3> HIDE DEF t2
    <3>4. node' = [node EXCEPT ![n] = [node[n] EXCEPT !.table = t2]]
      BY <1>1, <3>3
    <3> QED
      BY <1>1, <1>4, <2>2, <3>2, <3>4, TableInv DEF Hear
  <2> QED
    BY <2>3, <2>4
<1>5. ASSUME NEW u \in DOMAIN t, Elapse(n, u) PROVE NetworkInv'
  <2> DEFINE e == [t[u] EXCEPT !.old = TRUE]
             t2 == [t EXCEPT ![u] = e]
  <2>1. e \in Entry
    <3>1. t[u] \in Entry
      BY <1>2
    <3> QED
      BY <3>1 DEF Entry
  <2>2. node' = [node EXCEPT ![n] = [node[n] EXCEPT !.table = t2]]
    BY <1>1, <1>2, <1>5 DEF Elapse
  <2> HIDE DEF e
  <2>3. t2 \in [DOMAIN t -> Entry] /\ DOMAIN t2 = DOMAIN t
    BY <1>2, <2>1
  <2> HIDE DEF t2
  <2>4. t2 \in Tables /\ node[n].uuid \notin DOMAIN t2
    BY <1>2, <2>3, TablesType
  <2>5. air' \subseteq Datagrams /\ UNCHANGED <<cards, filing, told, effort>>
    BY <1>3, <1>5 DEF Elapse
  <2> HIDE DEF t
  <2> QED
    BY <1>1, <2>2, <2>4, <2>5, TableInv
<1>6. CASE ListNodes(n)
  <2> DEFINE t2 == [u \in Recent(t) |-> t[u]]
  <2>1. Recent(t) \subseteq DOMAIN t
    BY DEF Recent
  <2>2. t2 \in [Recent(t) -> Entry] /\ DOMAIN t2 = Recent(t)
    BY <1>2, <2>1
  <2>3. node' = [node EXCEPT ![n] = [node[n] EXCEPT !.table = t2]]
    BY <1>1, <1>6 DEF ListNodes
  <2> HIDE DEF t2
  <2>4. t2 \in Tables /\ node[n].uuid \notin DOMAIN t2
    BY <1>2, <2>1, <2>2, TablesType
  <2>5. air' \subseteq Datagrams /\ UNCHANGED <<cards, filing, told, effort>>
    BY <1>3, <1>6 DEF ListNodes
  <2> HIDE DEF t
  <2> QED
    BY <1>1, <2>3, <2>4, <2>5, TableInv
<1> QED
  BY <1>4, <1>5, <1>6

\* Joining a session that is known.
LEMMA JoinInv ==
  ASSUME NetworkInv, NEW n \in Nodes, NEW u \in DOMAIN node[n].table, Join(n, u)
  PROVE  NetworkInv'
<1> DEFINE e == node[n].table[u]
           joined == [node[n] EXCEPT !.session = e.beacon.session]
           member == [joined EXCEPT !.role = "PARTICIPANT"]
<1>1. node[n].up
  BY DEF Join, Runs
<1>2. node[n] \in NodeState /\ node[n].beacon.uuid = node[n].uuid /\ effort' \in Efforts
  BY <1>1, RunningType DEF Join
<1>3. e.beacon.session \in 0..MaxMeets
  <2>1. node[n].table \in Tables
    BY <1>2 DEF NodeState
  <2>2. e \in Entry
    BY <2>1, TableIs
  <2> QED
    BY <2>2 DEF Entry, Beacons
<1>4. Becomes(n, joined) \/ Becomes(n, member)
  BY DEF Join
<1> HIDE DEF e
<1>5. /\ joined \in NodeState /\ joined.beacon = node[n].beacon
      /\ joined.up = node[n].up /\ joined.uuid = node[n].uuid /\ joined.table = node[n].table
  BY <1>2, <1>3 DEF NodeState
<1> HIDE DEF joined
<1>6. /\ member \in NodeState /\ member.beacon = node[n].beacon
      /\ member.up = node[n].up /\ member.uuid = node[n].uuid /\ member.table = node[n].table
  BY <1>5 DEF NodeState
<1> HIDE DEF member
<1>7. joined.beacon.uuid = joined.uuid /\ member.beacon.uuid = member.uuid
  BY <1>2, <1>5, <1>6
<1>8. UNCHANGED <<near, cards, filing, air, told>> /\ Runs(n)
  BY DEF Join
<1> QED
  BY <1>2, <1>4, <1>5, <1>6, <1>7, <1>8, RunsInv

LEMMA CardIs ==
  ASSUME NetworkInv, NEW n \in Nodes, OnFile(n)
  PROVE  cards[CardOf(n)].whole /\ cards[CardOf(n)].body \in 1..MaxBoots
BY DEF NetworkInv, Cards, OnFile

\* The first start of a node gives it its identity, every later one the one on
\* its card.
LEMMA BootInv ==
  ASSUME NetworkInv, NEW n \in Nodes, NEW at \in Addresses, Boot(n, at)
  PROVE  NetworkInv'
<1> DEFINE uuid == IF Read(cards, CardOf(n)) THEN Json(cards, CardOf(n)) ELSE effort.boots + 1
           y == [Down EXCEPT !.up = TRUE, !.uuid = uuid, !.at = at]
           x == Advertising(y, "AVAILABLE")
           ws == IF Read(cards, CardOf(n)) THEN <<>> ELSE SaveCard(n, uuid)
<1>1. effort \in Efforts /\ effort' \in Efforts /\ effort.boots + 1 \in 1..MaxBoots
  BY EffortType DEF Boot, NetworkInv, NetworkTyped
<1>2. Read(cards, CardOf(n)) <=> OnFile(n)
  BY CardIs DEF Read, Holds, OnFile
<1>3. uuid \in 1..MaxBoots /\ (OnFile(n) => uuid = cards[CardOf(n)].body)
  BY <1>1, <1>2, CardIs DEF Json
<1>4. node' = [node EXCEPT ![n] = x] /\ filing' = [filing EXCEPT ![n] = ws]
  BY DEF Boot, Becomes
<1> HIDE DEF uuid
<1>5. y \in NodeState /\ y.up /\ y.uuid = uuid /\ DOMAIN y.table = {}
  <2>1. uuid \in 0..MaxBoots
    BY <1>3, BoundsType
  <2> QED
    BY <2>1, DownType DEF NodeState
<1> HIDE DEF y
<1>6. x \in NodeState /\ x.up /\ x.uuid = uuid /\ x.beacon.uuid = uuid /\ DOMAIN x.table = {}
  BY <1>5, AdvertisingType DEF BeaconState
<1> HIDE DEF x
<1>7. (OnFile(n) => ws = <<>>) /\ (~OnFile(n) => ws = SaveCard(n, uuid) /\ ws # <<>>)
  BY <1>2, OneWrite
<1> DEFINE Writes == Seq([path : {CardOf(m) : m \in Nodes}, body : 1..MaxBoots, atomic : {TRUE}])
<1>8. ws \in Writes
  <2>1. SaveCard(n, uuid) = <<[path |-> CardOf(n), body |-> uuid, atomic |-> TRUE]>>
    BY OneWrite
  <2>2. [path |-> CardOf(n), body |-> uuid, atomic |-> TRUE]
          \in [path : {CardOf(m) : m \in Nodes}, body : 1..MaxBoots, atomic : {TRUE}]
    BY <1>3
  <2>3. SaveCard(n, uuid) \in Writes
    BY <2>1, <2>2
  <2> QED
    BY <2>3
<1> HIDE DEF ws
<1>9. UNCHANGED <<near, cards, air, told>>
  BY DEF Boot
<1>10. NetworkTyped'
  BY <1>1, <1>4, <1>6, <1>9 DEF NetworkInv, NetworkTyped
<1>11. filing' \in [Nodes -> Writes]
  BY <1>4, <1>8 DEF NetworkInv
<1>12. ASSUME NEW m \in Nodes PROVE Identified(m)'
  <2>1. Identified(m)
    BY DEF NetworkInv
  <2>2. CASE m # n
    <3>1. node'[m] = node[m] /\ filing'[m] = filing[m]
      BY <1>4, <2>2 DEF NetworkInv, NetworkTyped
    <3> QED
      BY <1>9, <2>1, <3>1 DEF Identified, OnFile
  <2>3. CASE m = n
    <3>1. node'[n] = x /\ filing'[n] = ws
      BY <1>4 DEF NetworkInv, NetworkTyped
    <3> QED
      BY <1>3, <1>6, <1>7, <1>9, <2>1, <2>3, <3>1 DEF Identified, OnFile
  <2> QED
    BY <2>2, <2>3
<1> QED
  BY <1>9, <1>10, <1>11, <1>12 DEF NetworkInv

\* What a node has to write of its card comes on disk, or part of it does and
\* the node dies.
LEMMA FilingInv ==
  ASSUME NetworkInv, NEW n \in Nodes,
         \/ FinishFiling(n)
         \/ Die(n)
  PROVE  NetworkInv'
<1> DEFINE u == node[n].uuid
           Writes == Seq([path : {CardOf(m) : m \in Nodes}, body : 1..MaxBoots, atomic : {TRUE}])
<1>1. node[n].up
  BY DEF FinishFiling, Die, NetworkInv, Identified
<1>2. u \in 1..MaxBoots /\ (filing[n] = <<>> \/ filing[n] = SaveCard(n, u))
  BY <1>1 DEF NetworkInv, Identified
<1>3. cards \in Cards
  BY DEF NetworkInv
<1>4. /\ Written(cards, n, u) \in Cards
      /\ DOMAIN Written(cards, n, u) = DOMAIN cards \cup {CardOf(n)}
      /\ Written(cards, n, u)[CardOf(n)].body = u
      /\ \A f \in DOMAIN cards \ {CardOf(n)} : Written(cards, n, u)[f] = cards[f]
  <2> HIDE DEF u
  <2> QED
    BY <1>2, <1>3, WrittenType
<1>5. cards' = cards \/ cards' = Written(cards, n, u)
  BY <1>2, <1>3, NothingCut, CardCut, CardWritten DEF FinishFiling, Die
<1>6. /\ FinishFiling(n) => cards' = Written(cards, n, u) /\ node' = node
      /\ Die(n) => node' = [node EXCEPT ![n] = Down]
  BY <1>2, <1>3, CardWritten DEF FinishFiling, Die, Becomes
<1>7. filing' = [filing EXCEPT ![n] = <<>>] /\ UNCHANGED <<air, told, effort>>
  BY DEF FinishFiling, Die
<1>8. filing' \in [Nodes -> Writes] /\ node' \in [Nodes -> NodeState]
  <2>1. <<>> \in Writes
    OBVIOUS
  <2> HIDE DEF Writes
  <2>2. filing \in [Nodes -> Writes] /\ node \in [Nodes -> NodeState]
    BY DEF NetworkInv, NetworkTyped, Writes
  <2> QED
    BY <1>6, <1>7, <2>1, <2>2, DownType
<1>9. NetworkTyped'
  BY <1>7, <1>8 DEF NetworkInv, NetworkTyped
<1>10. ASSUME NEW m \in Nodes PROVE Identified(m)'
  <2>1. Identified(m) /\ Identified(n)
    BY DEF NetworkInv
  <2>2. CASE m # n
    <3>1. node'[m] = node[m] /\ filing'[m] = filing[m] /\ told'[m] = told[m]
      BY <1>6, <1>7, <2>2 DEF NetworkInv, NetworkTyped
    <3>2. CardOf(m) # CardOf(n)
      BY <2>2, CardsDiffer
    <3>3. OnFile(m)' <=> OnFile(m)
      BY <1>4, <1>5, <3>2 DEF OnFile
    <3>4. OnFile(m) => cards'[CardOf(m)] = cards[CardOf(m)]
      BY <1>4, <1>5, <3>2 DEF OnFile
    <3> QED
      BY <2>1, <3>1, <3>3, <3>4 DEF Identified
  <2>3. CASE m = n
    <3>1. filing'[n] = <<>> /\ told'[n] = told[n]
      BY <1>7 DEF NetworkInv
    <3>2. CASE cards' = cards
      <4>1. Die(n) \/ filing[n] # <<>>
        BY DEF FinishFiling
      <4>2. CASE Die(n)
        <5>1. node'[n] = Down
          BY <1>6, <4>2 DEF NetworkInv, NetworkTyped
        <5> QED
          BY <2>1, <2>3, <3>1, <3>2, <5>1, DownType DEF Identified, OnFile
      <4>3. CASE FinishFiling(n)
        <5>1. OnFile(n)
          BY <1>6, <1>4, <3>2, <4>3 DEF OnFile
        <5> QED
          BY <1>6, <2>1, <2>3, <3>1, <3>2, <4>3, <5>1 DEF Identified, OnFile
      <4> QED
        BY <4>2, <4>3
    <3>3. CASE cards' = Written(cards, n, u)
      <4>1. OnFile(n)' /\ cards'[CardOf(n)].body = u
        BY <1>4, <3>3 DEF OnFile
      <4>2. told[n] \subseteq {u}
        BY <1>1, <2>1 DEF Identified
      <4>3. CASE Die(n)
        <5>1. node'[n] = Down
          BY <1>6, <4>3 DEF NetworkInv, NetworkTyped
        <5> QED
          BY <2>3, <3>1, <4>1, <4>2, <5>1, DownType DEF Identified
      <4>4. CASE FinishFiling(n)
        BY <1>1, <1>6, <2>1, <2>3, <3>1, <4>1, <4>2, <4>4 DEF Identified
      <4> QED
        BY <4>3, <4>4
    <3> QED
      BY <1>5, <3>2, <3>3
  <2> QED
    BY <2>2, <2>3
<1> QED
  BY <1>3, <1>4, <1>5, <1>8, <1>9, <1>10 DEF NetworkInv

\* A node says who its card says it is.
LEMMA BroadcastInv ==
  ASSUME NetworkInv, NEW n \in Nodes, Broadcast(n)
  PROVE  NetworkInv'
<1>1. node[n].up /\ filing[n] = <<>> /\ node[n] \in NodeState /\ effort \in Efforts
  BY RunningType DEF Broadcast, Runs
<1>2. effort' \in Efforts
  BY <1>1, EffortType DEF Broadcast
<1>3. node[n].beacon.uuid = node[n].uuid /\ node[n].uuid \in 1..MaxBoots /\ OnFile(n)
      /\ cards[CardOf(n)].body = node[n].uuid
  BY <1>1 DEF NetworkInv, Identified
<1>4. air' \subseteq Datagrams
  <2>1. node[n].beacon \in Beacons /\ node[n].at \in {""} \cup Addresses
    BY <1>1 DEF NodeState
  <2>2. Hearers(n) \subseteq Nodes
    BY DEF Hearers
  <2>3. \A m \in Nodes : [beacon |-> node[n].beacon, from |-> node[n].at, to |-> m] \in Datagrams
    BY <2>1 DEF Datagrams
  <2>4. air \subseteq Datagrams
    BY DEF NetworkInv, NetworkTyped
  <2> QED
    BY <2>2, <2>3, <2>4 DEF Broadcast
<1>5. /\ told' = [told EXCEPT ![n] = @ \cup {node[n].uuid}]
      /\ UNCHANGED <<near, cards, filing, node>>
  BY <1>3 DEF Broadcast
<1>6. told' \in [Nodes -> SUBSET (1..MaxBoots)] /\ told'[n] = told[n] \cup {node[n].uuid}
      /\ \A m \in Nodes \ {n} : told'[m] = told[m]
  BY <1>3, <1>5 DEF NetworkInv, NetworkTyped
<1>7. NetworkTyped'
  BY <1>2, <1>4, <1>5, <1>6 DEF NetworkInv, NetworkTyped
<1>8. ASSUME NEW m \in Nodes PROVE Identified(m)'
  <2>1. Identified(m)
    BY DEF NetworkInv
  <2>2. CASE m # n
    BY <1>5, <1>6, <2>1, <2>2 DEF Identified, OnFile
  <2>3. CASE m = n
    BY <1>3, <1>5, <1>6, <2>1, <2>3 DEF Identified, OnFile
  <2> QED
    BY <2>2, <2>3
<1> QED
  BY <1>5, <1>7, <1>8 DEF NetworkInv

NetworkNext ==
  \E n \in Nodes :
    \/ \E at \in Addresses : Boot(n, at) \/ AddPeer(n, at)
    \/ Rename(n) \/ FinishFiling(n) \/ Die(n) \/ Broadcast(n)
    \/ \E b \in air : Hear(n, b)
    \/ \E u \in DOMAIN node[n].table : Elapse(n, u) \/ Join(n, u)
    \/ ListNodes(n) \/ CreateSession(n) \/ LeaveSession(n)
    \/ \E on \in BOOLEAN : Capture(n, on)

LEMMA NetworkInvStep ==
  ASSUME NetworkInv, [NetworkNext]_networkVars
  PROVE  NetworkInv'
<1>1. CASE NetworkNext
  BY <1>1, BootInv, FilingInv, BroadcastInv, ListsInv, JoinInv, CallsInv DEF NetworkNext
<1>2. CASE UNCHANGED networkVars
  BY <1>2 DEF networkVars, NetworkInv, NetworkTyped, Identified, OnFile
<1> QED
  BY <1>1, <1>2

\* A step of the station is one of the network or leaves the network alone.
LEMMA StationNetwork ==
  ASSUME [StationNext]_stationVars
  PROVE  [NetworkNext]_networkVars
<1>1. CASE InNetwork
  BY <1>1 DEF StationNext, NetworkNext, InNetwork, InCapture, InOrientation, InStream, stationVars
<1>2. CASE ~InNetwork
  BY <1>2 DEF StationNext, InCapture, InOrientation, InStream, stationVars
<1> QED
  BY <1>1, <1>2

\* Who has only ever been told what is on the card sends one identity.
LEMMA NetworkInvKept ==
  ASSUME NetworkInv
  PROVE  IdentityKept
<1>1. ASSUME NEW n \in Nodes PROVE Cardinality(told[n]) <= 1
  <2>1. \E u : told[n] \subseteq {u}
    BY DEF NetworkInv, Identified
  <2>2. PICK u : told[n] = {} \/ told[n] = {u}
    BY <2>1
  <2>3. Cardinality({}) = 0 /\ Cardinality({u}) = 1
    BY FS_EmptySet, FS_Singleton
  <2> QED
    BY <2>2, <2>3
<1>2. ASSUME NEW n \in Nodes, NEW u \in DOMAIN node[n].table PROVE u \notin told[n]
  <2>1. Identified(n)
    BY DEF NetworkInv
  <2>2. node[n].up
    BY <2>1 DEF Identified
  <2>3. told[n] \subseteq {node[n].uuid} /\ u # node[n].uuid
    BY <2>1, <2>2 DEF Identified
  <2> QED
    BY <2>3
<1> QED
  BY <1>1, <1>2 DEF IdentityKept

\* Whenever a node dies - before, while or after it writes its identity - and
\* however often it is started again, it only ever sends one identifier, and
\* never lists itself: for any nodes, networks, addresses and bounds.
THEOREM IdentityStays == StationSpec => []IdentityKept
<1>1. StationInit => NetworkInv
  BY NetworkInvInit DEF StationInit
<1>2. NetworkInv /\ [StationNext]_stationVars => NetworkInv'
  BY NetworkInvStep, StationNetwork
<1>3. NetworkInv => IdentityKept
  BY NetworkInvKept
<1> QED
  BY <1>1, <1>2, <1>3, PTL DEF StationSpec
-----------------------------------------------------------------------------
(* The orientation of the sensors.                                          *)

Turns    == Angles \cup {Untold}
Sights   == Mounted \cup {"FUSED", "GEMINI", "VITURE"}
Pictures == UNION {[S -> Angles] : S \in SUBSET (Mounted \cup {"GEMINI"})}
PaneType == [set : Sets, capturing : BOOLEAN, maps : Pictures, fused : Pictures, shown : Pictures,
             display : Sights]
Panes    == {p \in PaneType : DOMAIN p.maps \subseteq p.set}

OrientationTyped ==
  /\ dialog \in [open : BOOLEAN, sensor : Sights, dial : Angles]
  /\ pane \in Panes
  /\ daemons \in [Mounted -> [turn : Angles, on : BOOLEAN]]
  /\ approved \in [Mounted -> Turns]

FilesOf(s) == {ProfileOf(s), TransformOf(s)}
Legible(d) == \A f \in DOMAIN d : d[f].body \in Turns

\* Writes of one turn to the files of one sensor, each file once.
Orders(s, a) == [path : FilesOf(s), body : {a}, atomic : {FALSE}]
Keeps(ws, s, a) ==
  /\ ws \in Seq(Orders(s, a))
  /\ \A i, j \in DOMAIN ws : ws[i].path = ws[j].path => i = j

\* What a daemon would read is what the user approved, if he did.
Agreed(s) == approved[s] # Untold => TurnRead(shelves, s) = approved[s]

\* While an accept is being written the dialog stays on its sensor; what is
\* written is what was approved, and nothing of another sensor.
BeingKept(s, a) ==
  /\ Keeps(keeping, s, a)
  /\ \E i \in DOMAIN keeping : keeping[i].path = TransformOf(s)
  /\ approved[s] \in {Untold, a}

OrientationInv ==
  /\ OrientationTyped
  /\ Legible(shelves)
  /\ Free => \A s \in Mounted : Agreed(s)
  /\ ~Free => /\ dialog.sensor \in Mounted
              /\ \E a \in Angles : BeingKept(dialog.sensor, a)
              /\ \A s \in Mounted \ {dialog.sensor} : Agreed(s)

-----------------------------------------------------------------------------
(* Angles and pictures *)

\* Turning by nothing changes no angle.
LEMMA AngleType ==
  /\ 0 \in Angles /\ Untold \notin Angles
  /\ \A a, b \in Angles : Plus(a, b) \in Angles
  /\ \A a \in Angles : Plus(0, a) = a
<1>1. Steps \in Nat \ {0}
  BY OrientationAssumption
<1>2. \A a, b \in 0..(Steps - 1) : (a + b) % Steps \in 0..(Steps - 1)
  BY <1>1
<1>3. \A a \in 0..(Steps - 1) : (0 + a) % Steps = a
  BY <1>1
<1> QED
  BY <1>1, <1>2, <1>3 DEF Angles, Untold, Plus

\* What a picture is made of.
LEMMA PictureIs ==
  ASSUME NEW c \in Pictures
  PROVE  /\ c \in [DOMAIN c -> Angles] /\ DOMAIN c \subseteq Mounted \cup {"GEMINI"}
         /\ \A s \in DOMAIN c : c[s] \in Angles
BY DEF Pictures

LEMMA PictureType ==
  ASSUME NEW S \in SUBSET (Mounted \cup {"GEMINI"}), NEW c \in [S -> Angles]
  PROVE  c \in Pictures /\ DOMAIN c = S
BY DEF Pictures

LEMMA NoPointsType == NoPoints \in Pictures /\ DOMAIN NoPoints = {}
<1>1. NoPoints \in [{} -> Angles]
  BY DEF NoPoints
<1> QED
  BY <1>1, PictureType

LEMMA OnlyType ==
  ASSUME NEW c \in Pictures, NEW s
  PROVE  Only(c, s) \in Pictures
<1>1. CASE s \in DOMAIN c
  <2>1. [x \in {s} |-> c[s]] \in [{s} -> Angles] /\ {s} \subseteq Mounted \cup {"GEMINI"}
    BY <1>1, PictureIs
  <2> QED
    BY <1>1, <2>1, PictureType DEF Only
<1>2. CASE s \notin DOMAIN c
  BY <1>2, NoPointsType DEF Only
<1> QED
  BY <1>1, <1>2

LEMMA TurnedType ==
  ASSUME NEW c \in Pictures, NEW a \in Angles, NEW s
  PROVE  /\ Turned(c, a) \in Pictures /\ DOMAIN Turned(c, a) = DOMAIN c
         /\ TurnedOf(c, s, a) \in Pictures /\ DOMAIN TurnedOf(c, s, a) = DOMAIN c
<1>1. \A x \in DOMAIN c : c[x] \in Angles /\ Plus(c[x], a) \in Angles
  BY PictureIs, AngleType
<1>2. Turned(c, a) \in [DOMAIN c -> Angles]
  BY <1>1 DEF Turned
<1>3. TurnedOf(c, s, a) \in [DOMAIN c -> Angles]
  BY <1>1 DEF TurnedOf
<1> QED
  BY <1>2, <1>3, PictureIs, PictureType

\* The pane's steps keep its type, its scanner and what its contexts hold.
LEMMA PaneOfType ==
  ASSUME NEW p \in Panes
  PROVE  PaneOf(p) \in Panes
<1>1. p \in PaneType /\ "FUSED" \in Sights
  BY DEF Panes, Sights
<1>2. PaneOf(p) \in PaneType /\ PaneOf(p).maps = p.maps /\ PaneOf(p).set = p.set
  <2>1. CASE Cardinality(p.set) = 1
    BY <1>1, <2>1 DEF PaneOf, PaneType
  <2>2. CASE Cardinality(p.set) # 1
    BY <1>1, <2>2 DEF PaneOf, PaneType
  <2> QED
    BY <2>1, <2>2
<1> QED
  BY <1>2 DEF Panes

LEMMA ShownAsType ==
  ASSUME NEW p \in Panes, NEW d \in Sights
  PROVE  ShownAs(p, d) \in Panes
<1>1. p \in PaneType
  BY DEF Panes
<1> DEFINE shown == IF d = "FUSED" /\ p.fused # NoPoints THEN p.fused
                    ELSE IF d \in p.set THEN Only(p.maps, d) ELSE p.shown
<1>2. shown \in Pictures
  BY <1>1, OnlyType DEF PaneType
<1>3. ShownAs(p, d) = p \/ ShownAs(p, d) = [p EXCEPT !.display = d, !.shown = shown]
  BY DEF ShownAs
<1> HIDE DEF shown
<1> QED
  BY <1>1, <1>2, <1>3 DEF Panes, PaneType

\* What a pane is made of.
LEMMA PaneParts ==
  ASSUME NEW p \in Panes
  PROVE  /\ p.set \in Sets /\ p.set \subseteq Mounted /\ p.set # {}
         /\ p.maps \in Pictures /\ p.fused \in Pictures /\ p.shown \in Pictures
         /\ p.display \in Sights /\ DOMAIN p.maps \subseteq p.set
BY OrientationAssumption DEF Panes, PaneType

\* Baking the dial in, and taking the daemons' points, keep its type as well.
LEMMA BakedType ==
  ASSUME OrientationTyped, NEW s \in Sights
  PROVE  Baked(pane, s) \in Panes
<1> DEFINE maps  == TurnedOf(pane.maps, s, dialog.dial)
           shown == IF pane.display # s THEN pane.shown
                    ELSE IF s \in pane.set THEN Only(maps, s) ELSE Turned(pane.shown, dialog.dial)
<1>1. dialog.dial \in Angles /\ pane \in Panes
  BY DEF OrientationTyped
<1>2. maps \in Pictures /\ DOMAIN maps = DOMAIN pane.maps
  BY <1>1, PaneParts, TurnedType
<1>3. shown \in Pictures
  BY <1>1, <1>2, PaneParts, TurnedType, OnlyType
<1>4. Baked(pane, s) = [pane EXCEPT !.maps = maps, !.shown = shown]
  BY DEF Baked
<1> HIDE DEF maps, shown
<1> QED
  BY <1>1, <1>2, <1>3, <1>4 DEF Panes, PaneType

LEMMA DeliveredType ==
  ASSUME OrientationTyped, NEW some, some \subseteq pane.set
  PROVE  [pane EXCEPT !.maps = Delivered(some)] \in Panes
<1>1. pane \in Panes /\ daemons \in [Mounted -> [turn : Angles, on : BOOLEAN]]
  BY DEF OrientationTyped
<1>2. DOMAIN pane.maps \cup some \subseteq pane.set /\ pane.set \subseteq Mounted
  BY <1>1, PaneParts
<1>3. Delivered(some) \in [DOMAIN pane.maps \cup some -> Angles]
  BY <1>1, <1>2 DEF Delivered
<1>4. Delivered(some) \in Pictures /\ DOMAIN Delivered(some) \subseteq pane.set
  BY <1>2, <1>3, PictureType
<1> QED
  BY <1>1, <1>4 DEF Panes, PaneType

-----------------------------------------------------------------------------
(* What an accept writes *)

\* A series that writes each path once leaves every body at its path.
LEMMA WritesApplied ==
  ASSUME NEW d, NEW ws, \A i, j \in DOMAIN ws : ws[i].path = ws[j].path => i = j
  PROVE  /\ DOMAIN Applied(d, ws) = DOMAIN d \cup {ws[i].path : i \in DOMAIN ws}
         /\ \A i \in DOMAIN ws : Applied(d, ws)[ws[i].path] = File(ws[i].body, TRUE)
         /\ \A f \in DOMAIN d : f \notin {ws[i].path : i \in DOMAIN ws} => Applied(d, ws)[f] = d[f]
<1>1. \A i \in DOMAIN ws : At(ws, ws[i].path) = {i}
  BY DEF At
<1>2. \A i : LastOf({i}) = i
  BY DEF LastOf
<1>3. \A i \in DOMAIN ws : Content(d, ws, ws[i].path) = File(ws[i].body, TRUE)
  <2> SUFFICES ASSUME NEW i \in DOMAIN ws
               PROVE  Content(d, ws, ws[i].path) = File(ws[i].body, TRUE)
    OBVIOUS
  <2>1. At(ws, ws[i].path) = {i} /\ LastOf({i}) = i
    BY <1>1, <1>2
  <2> QED
    BY <2>1 DEF Content
<1>4. \A f : f \notin {ws[i].path : i \in DOMAIN ws} => Content(d, ws, f) = d[f]
  BY DEF Content, At
<1> QED
  BY <1>3, <1>4, AppliedContent

\* Two disks that differ in the files of one sensor, and there in one turn.
Alike(d, e, s, a) ==
  /\ DOMAIN d \subseteq DOMAIN e
  /\ \A f \in DOMAIN e \ FilesOf(s) : f \in DOMAIN d /\ e[f] = d[f]
  /\ \A f \in DOMAIN e : e[f].body = a \/ (f \in DOMAIN d /\ e[f] = d[f])

\* What such a series is made of.
LEMMA KeepsIs ==
  ASSUME NEW ws, NEW s, NEW a, Keeps(ws, s, a)
  PROVE  /\ Len(ws) \in Nat /\ DOMAIN ws = 1..Len(ws)
         /\ \A i \in DOMAIN ws : ws[i].path \in FilesOf(s) /\ ws[i].body = a
<1>1. Len(ws) \in Nat /\ DOMAIN ws = 1..Len(ws) /\ \A i \in DOMAIN ws : ws[i] \in Orders(s, a)
  BY DEF Keeps
<1> QED
  BY <1>1 DEF Orders

\* Whatever of it is written, and however far, only the files of its sensor change.
LEMMA KeepsApplied ==
  ASSUME NEW d, NEW ws, NEW s, NEW a, Keeps(ws, s, a)
  PROVE  Alike(d, Applied(d, ws), s, a)
<1>1. /\ DOMAIN Applied(d, ws) = DOMAIN d \cup {ws[i].path : i \in DOMAIN ws}
      /\ \A i \in DOMAIN ws : Applied(d, ws)[ws[i].path] = File(ws[i].body, TRUE)
      /\ \A f \in DOMAIN d : f \notin {ws[i].path : i \in DOMAIN ws} => Applied(d, ws)[f] = d[f]
  BY WritesApplied DEF Keeps
<1>2. \A i \in DOMAIN ws : ws[i].path \in FilesOf(s) /\ Applied(d, ws)[ws[i].path].body = a
  <2>1. \A i \in DOMAIN ws : ws[i].path \in FilesOf(s) /\ ws[i].body = a
    BY KeepsIs
  <2>2. File(a, TRUE).body = a
    BY DEF File
  <2> QED
    BY <1>1, <2>1, <2>2
<1> QED
  BY <1>1, <1>2 DEF Alike

\* A beginning of such a series is one.
LEMMA KeepsPart ==
  ASSUME NEW ws, NEW s, NEW a, Keeps(ws, s, a), NEW n \in 1..(Len(ws) + 1)
  PROVE  Keeps(SubSeq(ws, 1, n - 1), s, a)
<1> DEFINE p == SubSeq(ws, 1, n - 1)
<1>1. ws \in Seq(Orders(s, a)) /\ Len(ws) \in Nat /\ DOMAIN ws = 1..Len(ws)
  BY DEF Keeps
<1>2. /\ p \in Seq(Orders(s, a)) /\ DOMAIN p \subseteq DOMAIN ws
      /\ \A i \in DOMAIN p : p[i] = ws[i]
  BY <1>1
<1> HIDE DEF p
<1>3. \A i, j \in DOMAIN p : p[i].path = p[j].path => i = j
  BY <1>2 DEF Keeps
<1> QED
  BY <1>2, <1>3 DEF Keeps, p

\* However much of an accept comes on disk, another sensor's files stay.
LEMMA KeepsCut ==
  ASSUME NEW d, NEW ws, NEW s, NEW a, Keeps(ws, s, a), NEW e \in Cuts(d, ws)
  PROVE  Alike(d, e, s, a)
<1> DEFINE Before(n) == Applied(d, SubSeq(ws, 1, n - 1))
           With(g, f, x) == [h \in DOMAIN g \cup {f} |-> IF h = f THEN x ELSE g[h]]
<1>1. Len(ws) \in Nat /\ DOMAIN ws = 1..Len(ws)
  BY KeepsIs
<1>2. \A n \in 1..(Len(ws) + 1) : Alike(d, Before(n), s, a)
  BY KeepsPart, KeepsApplied
<1>3. \/ \E n \in 1..(Len(ws) + 1) : e = Before(n)
      \/ \E n \in DOMAIN ws : \E file \in Torn(ws[n]) : e = With(Before(n), ws[n].path, file)
  <2>1. e \in {Before(n) : n \in 1..(Len(ws) + 1)} \cup
             UNION {{With(Before(n), ws[n].path, file) : file \in Torn(ws[n])} :
                      n \in {m \in DOMAIN ws : ~ws[m].atomic}}
    BY DEF Cuts
  <2> HIDE DEF Before, With
  <2> QED
    BY <2>1
<1> HIDE DEF Before
<1>4. ASSUME NEW n \in DOMAIN ws, NEW file \in Torn(ws[n]), e = With(Before(n), ws[n].path, file)
      PROVE  Alike(d, e, s, a)
  <2>1. ws[n].path \in FilesOf(s) /\ ws[n].body = a
    BY KeepsIs
  <2>2. ws[n].path[1] \notin Clouds
    BY <2>1 DEF FilesOf, ProfileOf, TransformOf, Clouds
  <2>3. file.body = a
    BY <2>1, <2>2 DEF Torn, File
  <2>4. Alike(d, Before(n), s, a)
    BY <1>1, <1>2
  <2>5. DOMAIN e = DOMAIN Before(n) \cup {ws[n].path} /\ e[ws[n].path] = file
        /\ \A f \in DOMAIN Before(n) \ {ws[n].path} : e[f] = Before(n)[f]
    BY <1>4
  <2> QED
    BY <2>1, <2>3, <2>4, <2>5 DEF Alike
<1> QED
  BY <1>2, <1>3, <1>4

\* No two sensors share a file.
LEMMA FilesDiffer ==
  ASSUME NEW s, NEW x, x # s
  PROVE  /\ ProfileOf(x) \notin FilesOf(s) /\ TransformOf(x) \notin FilesOf(s)
         /\ ProfileOf(s) # TransformOf(s)
BY DEF FilesOf, ProfileOf, TransformOf

\* Another sensor's daemon reads what it read before.
LEMMA AlikeReads ==
  ASSUME NEW d, NEW e, NEW s, NEW a, Alike(d, e, s, a), NEW x, x # s
  PROVE  TurnRead(e, x) = TurnRead(d, x)
<1>1. \A f \in {ProfileOf(x), TransformOf(x)} :
        (f \in DOMAIN e <=> f \in DOMAIN d) /\ (f \in DOMAIN d => e[f] = d[f])
  BY FilesDiffer DEF Alike
<1>2. \A f \in {ProfileOf(x), TransformOf(x)} :
        (Read(e, f) <=> Read(d, f)) /\ (Read(d, f) => Json(e, f) = Json(d, f))
  BY <1>1 DEF Read, Holds, Json
<1> QED
  BY <1>2 DEF TurnRead

LEMMA AlikeLegible ==
  ASSUME NEW d, NEW e, NEW s, NEW a \in Angles, Alike(d, e, s, a), Legible(d)
  PROVE  Legible(e)
BY DEF Legible, Alike, Turns

LEMMA TurnReadType ==
  ASSUME NEW d, Legible(d), NEW s
  PROVE  TurnRead(d, s) \in Angles
<1>1. \A f : Read(d, f) /\ Json(d, f) # Untold => Json(d, f) \in Angles
  BY DEF Legible, Read, Holds, Json, Turns
<1> QED
  BY <1>1, AngleType DEF TurnRead

\* What the daemon reads once the accept is on disk.
LEMMA KeptIsRead ==
  ASSUME NEW d, NEW ws, NEW s, NEW a \in Angles, Keeps(ws, s, a),
         NEW i \in DOMAIN ws, ws[i].path = TransformOf(s)
  PROVE  TurnRead(Applied(d, ws), s) = a
<1>1. /\ TransformOf(s) \in DOMAIN Applied(d, ws)
      /\ Applied(d, ws)[TransformOf(s)] = File(ws[i].body, TRUE) /\ ws[i].body = a
  <2>1. /\ DOMAIN Applied(d, ws) = DOMAIN d \cup {ws[j].path : j \in DOMAIN ws}
        /\ Applied(d, ws)[ws[i].path] = File(ws[i].body, TRUE)
    <3>1. \A j, k \in DOMAIN ws : ws[j].path = ws[k].path => j = k
      BY DEF Keeps
    <3>2. /\ DOMAIN Applied(d, ws) = DOMAIN d \cup {ws[j].path : j \in DOMAIN ws}
          /\ \A j \in DOMAIN ws : Applied(d, ws)[ws[j].path] = File(ws[j].body, TRUE)
          /\ \A f \in DOMAIN d : f \notin {ws[j].path : j \in DOMAIN ws} => Applied(d, ws)[f] = d[f]
      BY <3>1, WritesApplied
    <3> QED
      BY <3>2
  <2>2. ws[i].body = a
    BY KeepsIs
  <2> QED
    BY <2>1, <2>2
<1>2. Read(Applied(d, ws), TransformOf(s)) /\ Json(Applied(d, ws), TransformOf(s)) = a
  BY <1>1 DEF Read, Holds, Json, File
<1>3. a # Untold
  BY AngleType
<1> QED
  BY <1>2, <1>3 DEF TurnRead

\* What acceptOrientationDiagRotation writes is such a series, and it includes the daemon's file.
LEMMA KeptWritesKeeps ==
  ASSUME NEW s, NEW a, a = dialog.dial
  PROVE  /\ Keeps(KeptWrites(s), s, a) /\ KeptWrites(s) # <<>>
         /\ \E i \in DOMAIN KeptWrites(s) : KeptWrites(s)[i].path = TransformOf(s)
<1> DEFINE p == [path |-> ProfileOf(s), body |-> a, atomic |-> FALSE]
           t == [path |-> TransformOf(s), body |-> a, atomic |-> FALSE]
<1>1. KeptWrites(s) = <<p, t>> \/ KeptWrites(s) = <<t>>
  <2>1. <<>> \o <<t>> = <<t>> /\ <<p>> \o <<t>> = <<p, t>>
    <3> HIDE DEF p, t
    <3>1. <<p>> \in Seq({p, t}) /\ <<t>> \in Seq({p, t})
      OBVIOUS
    <3>2. <<>> \o <<t>> = <<t>>
      BY <3>1, ConcatEmptySeq
    <3>3. <<p>> \o <<t>> = <<p, t>>
      <4> DEFINE c == <<p>> \o <<t>>
      <4>1. c \in Seq({p, t}) /\ Len(c) = 2 /\ c[1] = p /\ c[2] = t
        BY <3>1, ConcatProperties
      <4> HIDE DEF c
      <4>2. c = <<p, t>>
        BY <4>1
      <4> QED
        BY <4>2 DEF c
    <3> QED
      BY <3>2, <3>3
  <2>2. InPlace(ProfileOf(s), Kept) = <<p>> /\ InPlace(TransformOf(s), Kept) = <<t>>
    BY DEF Kept, InPlace
  <2>3. KeptWrites(s) = <<p>> \o <<t>> \/ KeptWrites(s) = <<>> \o <<t>>
    BY <2>2 DEF KeptWrites
  <2> QED
    BY <2>1, <2>3
<1>2. /\ p.path = ProfileOf(s) /\ t.path = TransformOf(s) /\ p.path # t.path
      /\ p \in Orders(s, a) /\ t \in Orders(s, a)
  BY FilesDiffer DEF Orders, FilesOf
<1> HIDE DEF p, t
<1>3. ASSUME NEW ws, ws = <<p, t>>
      PROVE  Keeps(ws, s, a) /\ ws # <<>> /\ \E i \in DOMAIN ws : ws[i].path = TransformOf(s)
  <2>1. DOMAIN ws = {1, 2} /\ ws[1] = p /\ ws[2] = t /\ ws \in Seq(Orders(s, a))
    BY <1>2, <1>3
  <2> QED
    BY <1>2, <1>3, <2>1 DEF Keeps
<1>4. ASSUME NEW ws, ws = <<t>>
      PROVE  Keeps(ws, s, a) /\ ws # <<>> /\ \E i \in DOMAIN ws : ws[i].path = TransformOf(s)
  <2>1. DOMAIN ws = {1} /\ ws[1] = t /\ ws \in Seq(Orders(s, a))
    BY <1>2, <1>4
  <2> QED
    BY <1>2, <1>4, <2>1 DEF Keeps
<1> QED
  BY <1>1, <1>3, <1>4

-----------------------------------------------------------------------------
(* The steps of the orientation *)

LEMMA SightsAre ==
  /\ Mounted \subseteq Sights /\ {"FUSED", "GEMINI", "VITURE"} \subseteq Sights
  /\ \A set \in Sets : set \subseteq Mounted /\ (CHOOSE s \in set : TRUE) \in Sights
<1>1. Mounted \subseteq Sights /\ {"FUSED", "GEMINI", "VITURE"} \subseteq Sights
  BY DEF Sights
<1>2. ASSUME NEW set \in Sets PROVE set \subseteq Mounted /\ (CHOOSE s \in set : TRUE) \in Sights
  <2>1. set \subseteq Mounted /\ set # {}
    BY OrientationAssumption
  <2>2. (CHOOSE s \in set : TRUE) \in set
    BY <2>1
  <2> QED
    BY <1>1, <2>1, <2>2
<1> QED
  BY <1>1, <1>2

\* A pane whose contexts are empty.
LEMMA EmptiedType ==
  ASSUME NEW p \in Panes, NEW display \in Sights, NEW on \in BOOLEAN
  PROVE  /\ [p EXCEPT !.capturing = on, !.maps = NoPoints, !.shown = NoPoints] \in Panes
         /\ [p EXCEPT !.capturing = on, !.maps = NoPoints, !.fused = NoPoints, !.shown = NoPoints,
                      !.display = display] \in Panes
BY NoPointsType DEF Panes, PaneType

\* The inductive invariant holds at the start.
LEMMA OrientationInvInit ==
  ASSUME OrientationInit(ShippedTurns)
  PROVE  OrientationInv
<1>1. Legible(shelves)
  BY ShippedAssumption DEF OrientationInit, Legible, Turns
<1>2. daemons \in [Mounted -> [turn : Angles, on : BOOLEAN]]
  <2>1. \A s \in Mounted : TurnRead(ShippedTurns, s) \in Angles
    BY <1>1, TurnReadType DEF OrientationInit
  <2> QED
    BY <2>1 DEF OrientationInit
<1>3. dialog \in [open : BOOLEAN, sensor : Sights, dial : Angles]
  BY SightsAre, AngleType DEF OrientationInit
<1>4. pane \in Panes
  <2>1. PICK set \in Sets : pane =
          [set |-> set, capturing |-> FALSE, maps |-> NoPoints, fused |-> NoPoints, shown |-> NoPoints,
           display |-> IF Cardinality(set) = 1 THEN CHOOSE s \in set : TRUE ELSE "FUSED"]
    BY DEF OrientationInit
  <2>2. PICK display \in Sights :
          display = IF Cardinality(set) = 1 THEN CHOOSE s \in set : TRUE ELSE "FUSED"
    BY SightsAre
  <2>3. pane = [set |-> set, capturing |-> FALSE, maps |-> NoPoints, fused |-> NoPoints,
                shown |-> NoPoints, display |-> display]
    BY <2>1, <2>2
  <2> QED
    BY <2>3, NoPointsType DEF Panes, PaneType
<1>5. approved = [s \in Mounted |-> Untold] /\ keeping = <<>>
  BY DEF OrientationInit
<1> QED
  BY <1>1, <1>2, <1>3, <1>4, <1>5 DEF OrientationInv, OrientationTyped, Turns, Free, Agreed

\* A step that writes nothing and of which nothing is approved.
LEMMA StaysInv ==
  ASSUME OrientationInv, Free, UNCHANGED <<shelves, keeping, approved>>,
         dialog' \in [open : BOOLEAN, sensor : Sights, dial : Angles], pane' \in Panes,
         daemons' \in [Mounted -> [turn : Angles, on : BOOLEAN]]
  PROVE  OrientationInv'
BY DEF OrientationInv, OrientationTyped, Free, Agreed

LEMMA OrientationParts ==
  ASSUME OrientationInv
  PROVE  /\ OrientationTyped /\ Legible(shelves)
         /\ dialog \in [open : BOOLEAN, sensor : Sights, dial : Angles]
         /\ dialog.sensor \in Sights /\ dialog.dial \in Angles
         /\ pane \in Panes /\ daemons \in [Mounted -> [turn : Angles, on : BOOLEAN]]
         /\ approved \in [Mounted -> Turns]
BY DEF OrientationInv, OrientationTyped

\* The viewport and the dialog.
LEMMA ViewInv ==
  ASSUME OrientationInv,
         \/ \E d \in Mounted \cup {"FUSED"} : ShowSensor(d)
         \/ \E sample \in BOOLEAN : OpenDialog(sample)
         \/ CloseDialog
         \/ \E s \in Mounted : PickSensor(s)
  PROVE  OrientationInv'
<1> USE OrientationParts
<1>1. ASSUME NEW d \in Mounted \cup {"FUSED"}, ShowSensor(d) PROVE OrientationInv'
  <2>1. d \in Sights
    BY SightsAre
  <2>2. pane' \in Panes
    BY <1>1, <2>1, ShownAsType DEF ShowSensor
  <2> QED
    BY <1>1, <2>2, StaysInv DEF ShowSensor
<1>2. ASSUME NEW sample \in BOOLEAN, OpenDialog(sample) PROVE OrientationInv'
  <2>1. pane' \in Panes
    <3> DEFINE c == [s \in {"GEMINI"} |-> 0]
    <3>1. c \in [{"GEMINI"} -> Angles]
      BY AngleType
    <3>2. c \in Pictures
      BY <3>1, PictureType
    <3>3. pane' = pane \/ pane' = [pane EXCEPT !.shown = c]
      BY <1>2 DEF OpenDialog
    <3> HIDE DEF c
    <3> QED
      BY <3>2, <3>3 DEF Panes, PaneType
  <2>2. pane.display \in Sights
    BY PaneParts
  <2>3. dialog' \in [open : BOOLEAN, sensor : Sights, dial : Angles]
    BY <1>2, <2>2 DEF OpenDialog
  <2> QED
    BY <1>2, <2>1, <2>3, StaysInv DEF OpenDialog
<1>3. CASE CloseDialog
  <2>1. dialog' \in [open : BOOLEAN, sensor : Sights, dial : Angles]
    BY <1>3, AngleType DEF CloseDialog
  <2> QED
    BY <1>3, <2>1, StaysInv DEF CloseDialog
<1>4. ASSUME NEW s \in Mounted, PickSensor(s) PROVE OrientationInv'
  <2>1. s \in Sights
    BY SightsAre
  <2>2. dialog' \in [open : BOOLEAN, sensor : Sights, dial : Angles] /\ pane' \in Panes
    BY <1>4, <2>1, ShownAsType, AngleType DEF PickSensor
  <2> QED
    BY <1>4, <2>2, StaysInv DEF PickSensor
<1> QED
  BY <1>1, <1>2, <1>3, <1>4

\* Captures and restarts of daemons.
LEMMA TakeInv ==
  ASSUME OrientationInv,
         \/ StartTake
         \/ \E some \in SUBSET Mounted : TakeTick(some)
         \/ StopTake
         \/ \E s \in Mounted : RestartDaemon(s)
  PROVE  OrientationInv'
<1> USE OrientationParts
<1>0. \A s \in Mounted : TurnRead(shelves, s) \in Angles /\ daemons[s].turn \in Angles /\ daemons[s].on \in BOOLEAN
  BY TurnReadType
<1>1. CASE StartTake
  <2>1. pane' \in Panes
    <3>1. pane.display \in Sights
      BY PaneParts
    <3> QED
      BY <1>1, <3>1, EmptiedType DEF StartTake
  <2>2. daemons' \in [Mounted -> [turn : Angles, on : BOOLEAN]]
    <3>1. ASSUME NEW s \in Mounted
          PROVE  [turn |-> IF Reread(s) THEN TurnRead(shelves, s) ELSE daemons[s].turn,
                  on   |-> daemons[s].on \/ s \in pane.set] \in [turn : Angles, on : BOOLEAN]
      <4>1. PICK t \in Angles : t = IF Reread(s) THEN TurnRead(shelves, s) ELSE daemons[s].turn
        BY <1>0
      <4>2. PICK on \in BOOLEAN : on = (daemons[s].on \/ s \in pane.set)
        OBVIOUS
      <4>3. [turn |-> t, on |-> on] \in [turn : Angles, on : BOOLEAN]
        OBVIOUS
      <4> QED
        BY <4>1, <4>2, <4>3, Zenon
    <3> QED
      BY <1>1, <3>1 DEF StartTake
  <2> QED
    BY <1>1, <2>1, <2>2, StaysInv DEF StartTake
<1>2. ASSUME NEW some \in SUBSET Mounted, TakeTick(some) PROVE OrientationInv'
  <2>1. pane' \in Panes
    BY <1>2, DeliveredType, PaneOfType DEF TakeTick
  <2> QED
    BY <1>2, <2>1, StaysInv DEF TakeTick
<1>3. CASE StopTake
  <2> DEFINE p == PaneOf([pane EXCEPT !.maps = Delivered({})])
  <2>1. p \in Panes
    BY DeliveredType, PaneOfType
  <2>2. pane' = [p EXCEPT !.capturing = FALSE]
    BY <1>3 DEF StopTake
  <2> HIDE DEF p
  <2>3. pane' \in Panes
    BY <2>1, <2>2 DEF Panes, PaneType
  <2>4. daemons' \in [Mounted -> [turn : Angles, on : BOOLEAN]]
    <3>1. ASSUME NEW s \in Mounted
          PROVE  (IF s \in pane.set THEN [daemons[s] EXCEPT !.on = FALSE] ELSE daemons[s])
                    \in [turn : Angles, on : BOOLEAN]
      <4>1. daemons[s] \in [turn : Angles, on : BOOLEAN]
        OBVIOUS
      <4> QED
        BY <4>1
    <3> QED
      BY <1>3, <3>1 DEF StopTake
  <2> QED
    BY <1>3, <2>3, <2>4, StaysInv DEF StopTake
<1>4. ASSUME NEW s \in Mounted, RestartDaemon(s) PROVE OrientationInv'
  <2>1. [turn |-> TurnRead(shelves, s), on |-> FALSE] \in [turn : Angles, on : BOOLEAN]
    BY <1>0
  <2>2. daemons' \in [Mounted -> [turn : Angles, on : BOOLEAN]]
    BY <1>4, <2>1 DEF RestartDaemon
  <2> QED
    BY <1>4, <2>2, StaysInv DEF RestartDaemon
<1> QED
  BY <1>1, <1>2, <1>3, <1>4

\* The dial.
LEMMA DialInv ==
  ASSUME OrientationInv,
         \/ \E angle \in Angles : SetRotation(angle) \/ StepRotation(angle) \/ AutoLevel(angle)
         \/ ResetRotation
  PROVE  OrientationInv'
<1> USE OrientationParts
<1>1. ASSUME NEW angle \in Angles, Dialled(angle) PROVE OrientationInv'
  <2>1. dialog' \in [open : BOOLEAN, sensor : Sights, dial : Angles]
    BY <1>1 DEF Dialled
  <2> QED
    BY <1>1, <2>1, StaysInv DEF Dialled
<1>2. CASE ResetRotation
  <2>1. dialog' \in [open : BOOLEAN, sensor : Sights, dial : Angles]
    BY <1>2, AngleType DEF ResetRotation
  <2> QED
    BY <1>2, <2>1, StaysInv DEF ResetRotation
<1>3. \A angle \in Angles : Plus(dialog.dial, angle) \in Angles
  BY AngleType
<1> QED
  BY <1>1, <1>2, <1>3 DEF SetRotation, StepRotation, AutoLevel

\* What the user has seen when he accepts is what the dial adds to points that
\* nothing had turned.
LEMMA SeenIs ==
  ASSUME OrientationTyped, NEW s
  PROVE  Seen(s) \in {Untold, dialog.dial}
<1>1. CASE Previewed /\ pane.shown = [x \in {s} |-> 0]
  <2>1. Picture[s] = Plus(0, dialog.dial)
    BY <1>1 DEF Picture, Turned
  <2>2. Plus(0, dialog.dial) = dialog.dial
    BY AngleType DEF OrientationTyped
  <2> QED
    BY <2>1, <2>2 DEF Seen
<1>2. CASE ~(Previewed /\ pane.shown = [x \in {s} |-> 0])
  BY <1>2 DEF Seen
<1> QED
  BY <1>1, <1>2

\* An accept: from here on the writes are pending.
LEMMA AcceptInv ==
  ASSUME OrientationInv, Accept \/ AcceptFails
  PROVE  OrientationInv'
<1> USE OrientationParts
<1> DEFINE s == dialog.sensor
           a == dialog.dial
<1>1. s \in Sights /\ a \in Angles /\ Free /\ Baked(pane, s) \in Panes
  BY BakedType DEF Accept, AcceptFails
<1>2. CASE AcceptFails
  BY <1>1, <1>2, StaysInv DEF AcceptFails
<1>3. CASE Accept
  <2>1. dialog' \in [open : BOOLEAN, sensor : Sights, dial : Angles] /\ dialog'.sensor = s
    BY <1>3, AngleType DEF Accept
  <2>2. Seen(s) \in {Untold, a} /\ a \in Turns /\ Untold \in Turns
    BY <1>1, SeenIs DEF Turns
  <2>3. approved' = [x \in Mounted |-> IF x = s THEN Seen(s) ELSE approved[x]]
    BY <1>3 DEF Accept
  <2>4. OrientationTyped'
    <3>1. approved' \in [Mounted -> Turns]
      BY <2>2, <2>3
    <3> QED
      BY <1>1, <1>3, <2>1, <3>1 DEF Accept, OrientationTyped
  <2>5. \A x \in Mounted : Agreed(x)
    BY <1>1 DEF OrientationInv
  <2>6. \A x \in Mounted \ {s} : Agreed(x)'
    BY <1>3, <2>3, <2>5 DEF Accept, Agreed
  <2>7. CASE s \in Mounted
    <3>1. keeping' = KeptWrites(s)
      BY <1>3, <2>7 DEF Accept
    <3>2. /\ Keeps(KeptWrites(s), s, a) /\ KeptWrites(s) # <<>>
          /\ \E i \in DOMAIN KeptWrites(s) : KeptWrites(s)[i].path = TransformOf(s)
      BY KeptWritesKeeps
    <3>3. approved'[s] \in {Untold, a}
      BY <2>2, <2>3, <2>7
    <3>4. Keeps(keeping', s, a) /\ ~Free'
          /\ \E i \in DOMAIN keeping' : keeping'[i].path = TransformOf(s)
      BY <3>1, <3>2 DEF Free
    <3>5. PICK b \in Angles : b = a
      BY <1>1
    <3>6. BeingKept(dialog.sensor, b)'
      BY <2>1, <3>3, <3>4, <3>5 DEF BeingKept
    <3> QED
      BY <1>3, <2>1, <2>4, <2>6, <2>7, <3>4, <3>6 DEF OrientationInv, Accept
  <2>8. CASE s \notin Mounted
    <3>1. keeping' = <<>>
      BY <1>3, <2>8 DEF Accept
    <3> QED
      BY <1>3, <2>4, <2>6, <2>8, <3>1 DEF OrientationInv, Free, Accept
  <2> QED
    BY <2>7, <2>8
<1> QED
  BY <1>2, <1>3

\* The accept comes on disk, or part of it does and the application dies.
LEMMA KeepingInv ==
  ASSUME OrientationInv, FinishKeeping \/ Hit
  PROVE  OrientationInv'
<1> USE OrientationParts
<1> DEFINE s == dialog.sensor
<1>1. ~Free /\ s \in Mounted /\ \A x \in Mounted \ {s} : Agreed(x)
  BY DEF FinishKeeping, Hit, OrientationInv
<1>2. PICK a \in Angles : BeingKept(s, a)
  BY <1>1 DEF OrientationInv
<1>3. Keeps(keeping, s, a) /\ approved[s] \in {Untold, a}
  BY <1>2 DEF BeingKept
<1>4. Alike(shelves, shelves', s, a)
  BY <1>3, KeepsApplied, KeepsCut DEF FinishKeeping, Hit
<1>5. Legible(shelves') /\ Free'
  BY <1>4, AlikeLegible DEF FinishKeeping, Hit, Free
<1>6. \A x \in Mounted \ {s} : TurnRead(shelves', x) = TurnRead(shelves, x)
  BY <1>4, AlikeReads
<1>7. OrientationTyped'
  <2>1. CASE FinishKeeping
    BY <2>1 DEF FinishKeeping, OrientationTyped
  <2>2. CASE Hit
    <3>1. dialog' \in [open : BOOLEAN, sensor : Sights, dial : Angles]
      BY <2>2, SightsAre, AngleType DEF Hit
    <3>2. pane' \in Panes
      <4>1. PICK display \in Sights :
              display = IF Cardinality(pane.set) = 1 THEN CHOOSE x \in pane.set : TRUE ELSE "FUSED"
        BY PaneParts, SightsAre
      <4>2. pane' = [pane EXCEPT !.capturing = FALSE, !.maps = NoPoints, !.fused = NoPoints,
                                 !.shown = NoPoints, !.display = display]
        BY <2>2, <4>1 DEF Hit
      <4> QED
        BY <4>2, EmptiedType
    <3>3. approved' \in [Mounted -> Turns] /\ daemons' = daemons
      BY <2>2 DEF Hit, Turns
    <3> QED
      BY <3>1, <3>2, <3>3 DEF OrientationTyped
  <2> QED
    BY <2>1, <2>2
<1>8. ASSUME NEW x \in Mounted PROVE Agreed(x)'
  <2>1. CASE x # s
    <3>1. approved'[x] = approved[x] /\ Agreed(x)
      BY <1>1, <2>1 DEF FinishKeeping, Hit
    <3> QED
      BY <1>6, <2>1, <3>1 DEF Agreed
  <2>2. CASE x = s /\ FinishKeeping
    <3>1. PICK i \in DOMAIN keeping : keeping[i].path = TransformOf(s)
      BY <1>2 DEF BeingKept
    <3>2. TurnRead(shelves', s) = a
      BY <1>3, <2>2, <3>1, KeptIsRead DEF FinishKeeping
    <3> QED
      BY <1>3, <2>2, <3>2 DEF Agreed, FinishKeeping
  <2>3. CASE x = s /\ Hit
    <3>1. approved'[s] = Untold
      BY <1>1, <2>3 DEF Hit
    <3> QED
      BY <2>3, <3>1 DEF Agreed
  <2> QED
    BY <2>1, <2>2, <2>3
<1> QED
  BY <1>5, <1>7, <1>8 DEF OrientationInv

OrientationNext ==
  \/ \E d \in Mounted \cup {"FUSED"} : ShowSensor(d)
  \/ StartTake \/ StopTake
  \/ \E some \in SUBSET Mounted : TakeTick(some)
  \/ \E s \in Mounted : RestartDaemon(s) \/ PickSensor(s)
  \/ \E sample \in BOOLEAN : OpenDialog(sample)
  \/ CloseDialog \/ ResetRotation
  \/ \E angle \in Angles : SetRotation(angle) \/ StepRotation(angle) \/ AutoLevel(angle)
  \/ Accept \/ AcceptFails \/ FinishKeeping \/ Hit

LEMMA OrientationInvStep ==
  ASSUME OrientationInv, [OrientationNext]_orientationVars
  PROVE  OrientationInv'
<1>1. CASE OrientationNext
  BY <1>1, ViewInv, TakeInv, DialInv, AcceptInv, KeepingInv DEF OrientationNext
<1>2. CASE UNCHANGED orientationVars
  BY <1>2 DEF orientationVars, OrientationInv, OrientationTyped, Free, Agreed, BeingKept
<1> QED
  BY <1>1, <1>2

\* A step of the station is one of the orientation or leaves it alone.
LEMMA StationOrientation ==
  ASSUME [StationNext]_stationVars
  PROVE  [OrientationNext]_orientationVars
<1>1. CASE InOrientation
  BY <1>1 DEF StationNext, OrientationNext, InOrientation, InCapture, InNetwork, InStream, stationVars
<1>2. CASE ~InOrientation
  BY <1>2 DEF StationNext, InOrientation, InCapture, InNetwork, InStream, stationVars
<1> QED
  BY <1>1, <1>2

LEMMA OrientationInvTypes ==
  ASSUME OrientationInv
  PROVE  OrientationTypes
<1>1. /\ dialog \in [open : BOOLEAN, sensor : Sights, dial : Angles]
      /\ pane \in Panes /\ daemons \in [Mounted -> [turn : Angles, on : BOOLEAN]]
      /\ approved \in [Mounted -> Turns]
  BY OrientationParts
<1>2. \A c \in {pane.maps, pane.fused, pane.shown} : \A s \in DOMAIN c : c[s] \in Angles
  BY <1>1, PaneParts, PictureIs
<1>3. pane.set \in Sets /\ DOMAIN pane.maps \subseteq pane.set
  BY <1>1, PaneParts
<1> QED
  BY <1>1, <1>2, <1>3 DEF OrientationTypes, Sights, Turns

\* What a daemon reads at a start is what was approved.
LEMMA ReadsApproved ==
  ASSUME OrientationInv, [OrientationNext]_orientationVars
  PROVE  \A s \in Mounted : approved[s] # Untold /\ Reads(s) => daemons'[s].turn = approved[s]
<1> SUFFICES ASSUME NEW s \in Mounted, approved[s] # Untold, Reads(s)
             PROVE  daemons'[s].turn = approved[s]
  OBVIOUS
<1>1. daemons \in [Mounted -> [turn : Angles, on : BOOLEAN]]
  BY OrientationParts
<1>2. Free
  BY DEF Reads, RestartDaemon, StartTake
<1>3. TurnRead(shelves, s) = approved[s]
  BY <1>2 DEF OrientationInv, Agreed
<1>4. CASE RestartDaemon(s)
  <2>1. daemons'[s] = [turn |-> TurnRead(shelves, s), on |-> FALSE]
    BY <1>1, <1>4 DEF RestartDaemon
  <2> QED
    BY <1>3, <2>1
<1>5. CASE StartTake /\ Reread(s)
  <2>1. daemons'[s] = [turn |-> IF Reread(s) THEN TurnRead(shelves, s) ELSE daemons[s].turn,
                       on   |-> daemons[s].on \/ s \in pane.set]
    BY <1>5 DEF StartTake
  <2>2. PICK t, on : /\ t = IF Reread(s) THEN TurnRead(shelves, s) ELSE daemons[s].turn
                     /\ on = (daemons[s].on \/ s \in pane.set)
    OBVIOUS
  <2>3. daemons'[s] = [turn |-> t, on |-> on]
    BY <2>1, <2>2, Zenon
  <2>4. daemons'[s].turn = t
    BY <2>3
  <2> QED
    BY <1>3, <1>5, <2>2, <2>4
<1> QED
  BY <1>4, <1>5 DEF Reads

\* Every variable of the captures, the orientation and the network has its
\* type, whatever calls, scans, answers, datagrams and crashes come, in
\* whatever order.
THEOREM StationTypes == StationSpec => []StationTypeOK
<1>1. StationInit => OrientationInv /\ NetworkInv
  BY OrientationInvInit, NetworkInvInit DEF StationInit
<1>2. OrientationInv /\ NetworkInv /\ [StationNext]_stationVars => OrientationInv' /\ NetworkInv'
  BY OrientationInvStep, StationOrientation, NetworkInvStep, StationNetwork
<1>3. NetworkInv => NetworkTypes
  BY DEF NetworkInv, NetworkTyped, NetworkTypes, NodeState, Beacons, BeaconState
<1>4. OrientationInv => OrientationTypes
  BY OrientationInvTypes
<1>5. StationSpec => []TypeOK
  BY CaptureTypes
<1>6. TypeOK /\ OrientationTypes /\ NetworkTypes => StationTypeOK
  BY DEF StationTypeOK
<1> QED
  BY <1>1, <1>2, <1>3, <1>4, <1>5, <1>6, PTL DEF StationSpec

\* The turn a daemon reads when it is started, or when a capture starts, is
\* the one the user last accepted for its sensor: whatever was accepted for
\* other sensors, and wherever a crash has cut an accept off.
THEOREM AcceptedIsRead == StationSpec => AcceptedIsUsed
<1>1. StationInit => OrientationInv
  BY OrientationInvInit DEF StationInit
<1>2. OrientationInv /\ [StationNext]_stationVars => OrientationInv'
  BY OrientationInvStep, StationOrientation
<1>3. OrientationInv /\ [StationNext]_stationVars =>
        [\A s \in Mounted : approved[s] # Untold /\ Reads(s) => daemons'[s].turn = approved[s]]_orientationVars
  BY StationOrientation, ReadsApproved
<1> QED
  BY <1>1, <1>2, <1>3, PTL DEF StationSpec, AcceptedIsUsed
=============================================================================
