------------------------------ MODULE Discovery ------------------------------
(***************************************************************************)
(* Nodes find each other: each has an identity that it keeps in a file and *)
(* a beacon that says who it is and which session it is in; it sends the   *)
(* beacon to its local network and to the peers it was told of, and lists  *)
(* the nodes whose beacons it hears.  Beacons are datagrams: they are      *)
(* lost, late, and arrive in any order.                                    *)
(***************************************************************************)
EXTENDS StorageEngine

CONSTANTS
  Nodes, Addresses,
  Nets,    \* the local networks the nodes may be in: partitions of the nodes
  MaxBoots, MaxNames, MaxMeets, MaxPeers, MaxRounds, \* bounds: starts, renamings, sessions, peers, beacons
  MaxEffort \* bound on all of these together

ASSUME NetsAssumption   == \A net \in Nets : UNION net = Nodes
ASSUME DiscoveryBounds == {MaxBoots, MaxNames, MaxMeets, MaxPeers, MaxRounds, MaxEffort} \subseteq Nat

VARIABLES
  near,   \* the local networks
  cards,  \* node_identity.json of each node
  filing, \* what each node has still to write of it
  node,   \* the orchestrator of each node, with its discovery service
  air,    \* beacons under way
  told,   \* history: the identifiers each node has sent beacons with
  effort  \* starts, names, sessions, peers and beacons so far

networkVars == <<near, cards, filing, node, air, told, effort>>

Nobody    == 0 \* no identifier, no session
CardOf(n) == <<"node_identity.json", n>>
Beacon(uuid, state, session) == [uuid |-> uuid, state |-> state, session |-> session]
NoBeacon  == Beacon(Nobody, "AVAILABLE", Nobody)
NoTable   == [u \in {} |-> NoBeacon]
Down      == [up |-> FALSE, uuid |-> Nobody, at |-> "", role |-> "UNASSIGNED", session |-> Nobody,
              capturing |-> FALSE, beacon |-> NoBeacon, peers |-> {}, table |-> NoTable]

DiscoveryInit ==
  /\ near \in Nets
  /\ cards = [f \in {} |-> File(Nobody, TRUE)]
  /\ filing = [n \in Nodes |-> <<>>]
  /\ node = [n \in Nodes |-> Down]
  /\ air = {}
  /\ told = [n \in Nodes |-> {}]
  /\ effort = [boots |-> 0, names |-> 0, meets |-> 0, peers |-> 0, rounds |-> 0]

\* The node runs and is not in the middle of a call.
Runs(n) == node[n].up /\ filing[n] = <<>>
Effort(what, max) ==
  /\ effort[what] < max /\ effort.boots + effort.names + effort.meets + effort.peers + effort.rounds < MaxEffort
  /\ effort' = [effort EXCEPT ![what] = @ + 1]
Becomes(n, x) == node' = [node EXCEPT ![n] = x]

\* updateBeaconAvailability: the beacon says who the node is and, beside the
\* state it is given, the session it last joined or created.
Advertising(x, state) == [x EXCEPT !.beacon = Beacon(x.uuid, state, x.session)]

-----------------------------------------------------------------------------
(* The identity *)

\* Mutant: in place.
SaveCardTorn(n, uuid) == InPlace(CardOf(n), uuid)
\* saveToFileLocked; what else is in the file is left out.
SaveCard(n, uuid) == Atomically(CardOf(n), uuid)

\* The identity a node starts with: the one in its file, or a new one that it
\* writes there.
Boot(n, at) ==
  LET known == Read(cards, CardOf(n))
      uuid  == IF known THEN Json(cards, CardOf(n)) ELSE effort.boots + 1 IN
  /\ ~node[n].up /\ \A m \in Nodes : node[m].up => node[m].at # at
  /\ Effort("boots", MaxBoots)
  /\ Becomes(n, Advertising([Down EXCEPT !.up = TRUE, !.uuid = uuid, !.at = at], "AVAILABLE"))
  /\ filing' = [filing EXCEPT ![n] = IF known THEN <<>> ELSE SaveCard(n, uuid)]
  /\ UNCHANGED <<near, cards, air, told>>

\* setNodeDisplayName.  It says "AVAILABLE" in a session, too.
Rename(n) ==
  /\ Runs(n) /\ Effort("names", MaxNames)
  /\ filing' = [filing EXCEPT ![n] = SaveCard(n, node[n].uuid)]
  /\ Becomes(n, Advertising(node[n], IF node[n].capturing THEN "CAPTURING" ELSE "AVAILABLE"))
  /\ UNCHANGED <<near, cards, air, told>>

FinishFiling(n) ==
  /\ filing[n] # <<>>
  /\ cards' = Applied(cards, filing[n]) /\ filing' = [filing EXCEPT ![n] = <<>>]
  /\ UNCHANGED <<near, node, air, told, effort>>

\* The node is shut down or dies.
Die(n) ==
  /\ node[n].up
  /\ cards' \in Cuts(cards, filing[n]) /\ filing' = [filing EXCEPT ![n] = <<>>]
  /\ Becomes(n, Down)
  /\ UNCHANGED <<near, air, told, effort>>

-----------------------------------------------------------------------------
(* Beacons *)

AddPeer(n, at) ==
  /\ Runs(n) /\ at \notin node[n].peers /\ Effort("peers", MaxPeers)
  /\ Becomes(n, [node[n] EXCEPT !.peers = @ \cup {at}])
  /\ UNCHANGED <<near, cards, filing, air, told>>

\* Who hears a beacon of a node: its local network, itself included, and the
\* peers it was told of.
Hearers(n) == {m \in Nodes : \/ \E lan \in near : {n, m} \subseteq lan
                             \/ node[m].up /\ node[m].at \in node[n].peers}

\* One round of broadcastWorker.
Broadcast(n) ==
  /\ Runs(n) /\ Effort("rounds", MaxRounds)
  /\ air' = air \cup {[beacon |-> node[n].beacon, from |-> node[n].at, to |-> m] : m \in Hearers(n)}
  /\ told' = [told EXCEPT ![n] = @ \cup {node[n].beacon.uuid}]
  /\ UNCHANGED <<near, cards, filing, node>>

\* One round of listenWorker: the node's own beacons are ignored; of the
\* others the last to arrive counts.  A beacon that is lost is one that nobody
\* ever hears.
Hear(n, b) ==
  LET u == b.beacon.uuid
      t == node[n].table
      entry == [beacon |-> b.beacon, at |-> b.from, old |-> FALSE] IN
  /\ node[n].up /\ b \in air /\ b.to = n
  /\ air' = air \ {b}
  /\ node' = IF u = node[n].uuid THEN node
             ELSE [node EXCEPT ![n].table = [v \in DOMAIN t \cup {u} |-> IF v = u THEN entry ELSE t[v]]]
  /\ UNCHANGED <<near, cards, filing, told, effort>>

\* Who has been heard of in the last 20 s.
Recent(t) == {u \in DOMAIN t : ~t[u].old}

\* A node has not been heard of for 20 s; that it has not for 6 s changes only
\* a flag that nobody reads.
Elapse(n, u) ==
  /\ node[n].up /\ u \in Recent(node[n].table)
  /\ node' = [node EXCEPT ![n].table[u].old = TRUE]
  /\ UNCHANGED <<near, cards, filing, air, told, effort>>

\* getDiscoveredNodes forgets the others.
ListNodes(n) ==
  /\ Runs(n)
  /\ node' = [node EXCEPT ![n].table = [u \in Recent(@) |-> @[u]]]
  /\ node' # node
  /\ UNCHANGED <<near, cards, filing, air, told, effort>>

-----------------------------------------------------------------------------
(* Sessions: what the coordination service makes of them is in Coordination *)

CreateSession(n) ==
  LET x == [node[n] EXCEPT !.session = effort.meets + 1, !.role = "COORDINATOR", !.capturing = FALSE] IN
  /\ Runs(n) /\ Effort("meets", MaxMeets)
  /\ Becomes(n, Advertising(x, "IN_SESSION"))
  /\ UNCHANGED <<near, cards, filing, air, told>>

\* joinMultiNodeSession, with what a node in the list advertised.  The session
\* is set before the connection is made; the beacon is not updated.
Join(n, u) ==
  LET e == node[n].table[u]
      joined == [node[n] EXCEPT !.session = e.beacon.session] IN
  /\ Runs(n) /\ u \in Recent(node[n].table) /\ e.beacon.session # Nobody
  /\ node[n].session # e.beacon.session
  /\ \/ Becomes(n, joined) \* the connection fails
     \/ /\ \E m \in Nodes : node[m].up /\ node[m].at = e.at
        /\ Becomes(n, [joined EXCEPT !.role = "PARTICIPANT"])
  /\ UNCHANGED <<near, cards, filing, air, told, effort>>

LeaveSession(n) ==
  /\ Runs(n) /\ node[n].session # Nobody
  /\ Becomes(n, Advertising([node[n] EXCEPT !.session = Nobody, !.role = "UNASSIGNED", !.capturing = FALSE],
                            "AVAILABLE"))
  /\ UNCHANGED <<near, cards, filing, air, told, effort>>

\* startCapture and stopCapture of the coordinator, and the callbacks of its
\* participants.
Capture(n, on) ==
  /\ Runs(n) /\ node[n].role # "UNASSIGNED" /\ node[n].capturing # on
  /\ Becomes(n, Advertising([node[n] EXCEPT !.capturing = on], IF on THEN "CAPTURING" ELSE "IN_SESSION"))
  /\ UNCHANGED <<near, cards, filing, air, told, effort>>

NetworkTypes ==
  /\ \A n \in Nodes : /\ node[n].up \in BOOLEAN /\ node[n].uuid \in 0..MaxBoots
                      /\ node[n].role \in {"UNASSIGNED", "COORDINATOR", "PARTICIPANT"}
                      /\ node[n].session \in 0..MaxMeets
                      /\ node[n].beacon.state \in {"AVAILABLE", "IN_SESSION", "CAPTURING"}
  /\ told \in [Nodes -> SUBSET (1..MaxBoots)]

-----------------------------------------------------------------------------
(* Properties *)

\* A node is known by one identifier for ever: whenever it dies, while it
\* writes its identity, too, it comes back as the node it was, and nobody
\* lists itself (NodeIdentityManager::initialize makes up another one when the
\* file cannot be read; listenWorker knows its own beacons by the identifier).
IdentityKept ==
  /\ \A n \in Nodes : Cardinality(told[n]) <= 1
  /\ \A n \in Nodes : \A u \in DOMAIN node[n].table : u \notin told[n]
=============================================================================
