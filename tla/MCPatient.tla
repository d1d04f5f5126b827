----------------------------- MODULE MCPatient ------------------------------
(* Instances of PatientCoordination: c creates sessions, p1 and p2 join.    *)
EXTENDS PatientCoordination, TLC
CONSTANTS c, p1, p2, MaxInvites, MaxOps, MaxSubmaps, MaxDrops, MaxRestarts

MCOwner == [s \in Session |-> c]
MCLimit == [invites |-> MaxInvites, ops |-> MaxOps, submaps |-> MaxSubmaps,
            drops |-> MaxDrops, restarts |-> MaxRestarts]
\* Two instances in one run: captures of all three nodes, whose operator is
\* patient and whose connections last, or c and p1 alone, who do not capture
\* and whose connections come and go; an invitation makes the first or none.
VARIABLE instance

CapturesNext ==
  /\ instance = "captures" /\ UNCHANGED instance
  /\ PatientNext
  /\ spent'["drops"] = 0 /\ spent'["invites"] = 0 /\ \A n \in Node : ~Heartbeat(n)
LinksNext ==
  /\ instance = "links" /\ UNCHANGED instance
  /\ Next
  /\ spent'["ops"] = 0 /\ \A k \in Conn : p2 \notin ends'[k]
  /\ spent'["invites"] # spent["invites"] => dials = 0

instanceVars == <<instance, vars>>
InstanceNext == CapturesNext \/ LinksNext

InstanceInit == instance \in {"captures", "links"} /\ Init
InstanceSpec == InstanceInit /\ [][InstanceNext]_instanceVars

CapturesOrLinks ==
  /\ InstanceSpec /\ LinksRun
  /\ \A n \in Node : WF_vars(instance = "links" /\ Heartbeat(n))

Participants == Permutations({p1, p2})
=============================================================================
