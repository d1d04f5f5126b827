--------------------------- MODULE MCCoordination ---------------------------
(* Instances of Coordination.  OneOwner: c creates every session.          *)
(* EachOwns: one session of each of two nodes.                             *)
EXTENDS Coordination, TLC
CONSTANTS c, p1, p2, s1, s2, MaxInvites, MaxOps, MaxSubmaps, MaxDrops, MaxRestarts

OneOwner == [s \in Session |-> c]
EachOwns == [s \in Session |-> IF s = s1 THEN c ELSE p1]
MCLimit  == [invites |-> MaxInvites, ops |-> MaxOps, submaps |-> MaxSubmaps,
             drops |-> MaxDrops, restarts |-> MaxRestarts]

\* Three instances in one run: captures and a restart between c and p1, a
\* capture of c and p1 beside heartbeats or with a connection that breaks and is
\* dialled again, or invitations and submaps among all three nodes.
Pulses == \E k \in Conn, n \in Node : \E msg \in InFlight(k, n) : msg.type = "HEARTBEAT"
Pair   == \A k \in Conn : p2 \notin ends[k]
FaultsOrRelay ==
  \/ /\ spent["submaps"] = 0 /\ spent["invites"] = 0 /\ Pair
     /\ \/ spent["drops"] = 0 /\ ~Pulses
        \/ /\ spent["ops"] <= 1 /\ spent["restarts"] = 0
           /\ Pulses => spent["drops"] = 0
  \/ spent["ops"] = 0 /\ spent["restarts"] = 0 /\ spent["drops"] = 0 /\ ~Pulses
=============================================================================
