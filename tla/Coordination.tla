---------------------------- MODULE Coordination ----------------------------
(***************************************************************************)
(* The TCP coordination service of a multi-node scanning session           *)
(* (core/multi_node/coordination_service.cpp), one instance per node, and  *)
(* the calls its only client, the session orchestrator, makes on it.       *)
(*                                                                         *)
(* Threads and atomicity.  A node has one user-interface thread (create,   *)
(* invite, join, leave, prepare, start, stop, publish), one heartbeat      *)
(* thread and one worker per open socket.  An action below is what one of  *)
(* them does between two points where another thread can observe it: a     *)
(* handler that validates under session_mutex_, unlocks and acts later is  *)
(* two actions, with the validated message kept in handling.               *)
(*                                                                         *)
(* A socket is a connection k and the end n that holds its descriptor.     *)
(* Descriptor numbers are never reused here.  A connection delivers in     *)
(* order until it breaks; what is unread at an end when its worker leaves  *)
(* is lost.                                                                *)
(***************************************************************************)
EXTENDS Naturals, Sequences

CONSTANTS
  Node,     \* the AV Scan installations, by node_uuid
  Session,  \* session ids
  Owner,    \* Owner[s]: the node that creates session s
  None,     \* empty string, missing map entry, or descriptor -1
  Beating,  \* nodes whose 2 s heartbeat falls due in the scenario
  MaxConn,  \* bound: TCP connections ever dialled
  Limit     \* bounds, per kind of step, on the steps users and faults take

Bounded == {"invites", "ops", "submaps", "drops", "restarts"}

ASSUME OwnerType   == Owner \in [Session -> Node]
ASSUME BeatingType == Beating \in SUBSET Node
ASSUME MaxConnType == MaxConn \in Nat
ASSUME LimitType   == Limit \in [Bounded -> Nat]

VARIABLES
  session,    \* active_session_id_
  role,       \* session_role_
  coordUuid,  \* coordinator_uuid_
  capturing,  \* is_capturing_
  members,    \* session_members_: per node, a record or None
  peerSock,   \* peer_sockets_: uuid -> connection, or None
  coordSock,  \* coordinator_sock_
  joining,    \* session a joinSession call is half way through, or None
  dials,      \* number of connections dialled so far
  ends,       \* ends[k]: the two nodes of connection k ({} before the dial)
  broken,     \* connections that no longer carry data
  alive,      \* alive[k][n]: the worker of n's end of k runs (descriptor open)
  inbox,      \* inbox[k][n]: sent on k, not yet read by n's worker
  assoc,      \* associated_node_uuid of that worker
  handling,   \* message that worker has validated and not yet acted on
  created,    \* sessions created so far (ids are fresh)
  spent       \* steps taken of each bounded kind

nodeVars == <<session, role, coordUuid, capturing, members>>
sockVars == <<peerSock, coordSock, joining>>
connVars == <<dials, ends, broken, alive, inbox, assoc, handling>>
vars == <<nodeVars, sockVars, connVars, created, spent>>

Conn  == 1..MaxConn
Roles == {"UNASSIGNED", "SESSION_COORDINATOR", "SESSION_PARTICIPANT"}
CaptureStates == {"IDLE", "PREPARING", "READY", "CAPTURING", "STOPPED"}
Member == [connected : BOOLEAN, ready : BOOLEAN, state : CaptureStates]

MessageType == {"HELLO", "INVITE_SESSION", "JOIN_SESSION", "SESSION_STATUS",
                "LEAVE_SESSION", "PREPARE_CAPTURE", "READY_FOR_CAPTURE",
                "START_CAPTURE", "STOP_CAPTURE", "CSLAM_SUBMAP_UPDATE",
                "CSLAM_ALIGNMENT_UPDATE", "HEARTBEAT"}
Msg == [type : MessageType, src : Node, sess : Session \cup {None}]
M(t, n, s) == [type |-> t, src |-> n, sess |-> s]

ASSUME NoneFresh == None \notin Node \cup Session \cup Conn \cup Member \cup Msg

TypeOK ==
  /\ session   \in [Node -> Session \cup {None}]
  /\ role      \in [Node -> Roles]
  /\ coordUuid \in [Node -> Node \cup {None}]
  /\ capturing \in [Node -> BOOLEAN]
  /\ members   \in [Node -> [Node -> Member \cup {None}]]
  /\ peerSock  \in [Node -> [Node -> Conn \cup {None}]]
  /\ coordSock \in [Node -> Conn \cup {None}]
  /\ joining   \in [Node -> Session \cup {None}]
  /\ dials     \in 0..MaxConn
  /\ ends      \in [Conn -> SUBSET Node]
  /\ broken    \in SUBSET Conn
  /\ alive     \in [Conn -> [Node -> BOOLEAN]]
  /\ inbox     \in [Conn -> [Node -> Seq(Msg)]]
  /\ assoc     \in [Conn -> [Node -> Node \cup {None}]]
  /\ handling  \in [Conn -> [Node -> Msg \cup {None}]]
  /\ created   \in SUBSET Session
  /\ spent     \in [Bounded -> Nat]

Init ==
  /\ session   = [n \in Node |-> None]
  /\ role      = [n \in Node |-> "UNASSIGNED"]
  /\ coordUuid = [n \in Node |-> None]
  /\ capturing = [n \in Node |-> FALSE]
  /\ members   = [n \in Node |-> [m \in Node |-> None]]
  /\ peerSock  = [n \in Node |-> [m \in Node |-> None]]
  /\ coordSock = [n \in Node |-> None]
  /\ joining   = [n \in Node |-> None]
  /\ dials     = 0
  /\ ends      = [k \in Conn |-> {}]
  /\ broken    = {}
  /\ alive     = [k \in Conn |-> [n \in Node |-> FALSE]]
  /\ inbox     = [k \in Conn |-> [n \in Node |-> <<>>]]
  /\ assoc     = [k \in Conn |-> [n \in Node |-> None]]
  /\ handling  = [k \in Conn |-> [n \in Node |-> None]]
  /\ created   = {}
  /\ spent     = [b \in Bounded |-> 0]

-----------------------------------------------------------------------------
(* Sending.  A send names the ends it reaches; one on a closed or broken   *)
(* descriptor reaches nobody, and its failure is only a return value.      *)

\* The far end of n's descriptor k, if bytes written to it still arrive.
OutTo(n, k) ==
  IF k = None THEN {}
  ELSE {k} \X {m \in ends[k] \ {n} : alive[k][n] /\ k \notin broken}

\* The queues after msg is written to every end in tgt.
Post(q, tgt, msg) ==
  [k \in Conn |-> [m \in Node |->
     IF <<k, m>> \in tgt THEN Append(q[k][m], msg) ELSE q[k][m]]]

\* Ends reached by broadcastToMembers, leaving out the entry of node except
\* (None to leave out nobody): each distinct descriptor once.
Broadcast(n, ps, except) ==
  UNION {OutTo(n, k) :
           k \in {ps[n][m] : m \in Node \ {except}} \cup
                 (IF except # None /\ except = coordUuid[n]
                  THEN {} ELSE {coordSock[n]})}

\* The queues after n, if in a session, sends its C-SLAM alignment to tgt.
SendAlignment(n, q, tgt) ==
  IF session[n] = None THEN q
  ELSE Post(q, tgt, M("CSLAM_ALIGNMENT_UPDATE", n, session[n]))

\* The descriptor a participant uses to reach its coordinator.
CoordLink(n, ps) ==
  IF coordUuid[n] # None /\ ps[n][coordUuid[n]] # None
  THEN ps[n][coordUuid[n]] ELSE coordSock[n]

Spend(b) == /\ spent[b] < Limit[b]
            /\ spent' = [spent EXCEPT ![b] = @ + 1]

UiFree(n) == joining[n] = None
IsCoordinator(n) == role[n] = "SESSION_COORDINATOR" /\ session[n] # None

\* n opens connection k to m: both ends get a worker.
Dial(n, m, k) ==
  /\ dials < MaxConn
  /\ k = dials + 1
  /\ dials' = k
  /\ ends'  = [ends EXCEPT ![k] = {n, m}]
  /\ alive' = [alive EXCEPT ![k] = [p \in Node |-> p \in {n, m}]]

-----------------------------------------------------------------------------
(* Calls of the user-interface thread.                                     *)

NewMember == [connected |-> TRUE, ready |-> FALSE, state |-> "IDLE"]

CreateSession(n, s) ==
  /\ UiFree(n) /\ Owner[s] = n /\ s \notin created
  /\ created'   = created \cup {s}
  /\ session'   = [session EXCEPT ![n] = s]
  /\ role'      = [role EXCEPT ![n] = "SESSION_COORDINATOR"]
  /\ coordUuid' = [coordUuid EXCEPT ![n] = n]
  /\ capturing' = [capturing EXCEPT ![n] = FALSE]
  /\ members'   = [members EXCEPT ![n] =
                     [m \in Node |-> IF m = n
                        THEN [NewMember EXCEPT !.ready = TRUE] ELSE None]]
  /\ UNCHANGED <<sockVars, connVars, spent>>

\* A known descriptor of m is reused, even a dead one; else a new one is
\* dialled and recorded before m has said anything on it.
InvitePeer(n, m) ==
  /\ UiFree(n) /\ m # n /\ IsCoordinator(n)
  /\ Spend("invites")
  /\ LET hello  == M("HELLO", n, session[n])
         invite == M("INVITE_SESSION", n, session[n])
     IN  \/ /\ peerSock[n][m] # None
            /\ inbox' = LET tgt == OutTo(n, peerSock[n][m])
                        IN  Post(Post(inbox, tgt, hello), tgt, invite)
            /\ UNCHANGED <<dials, ends, alive, peerSock>>
         \/ /\ peerSock[n][m] = None
            /\ \E k \in Conn :
                 /\ Dial(n, m, k)
                 /\ peerSock' = [peerSock EXCEPT ![n][m] = k]
                 /\ inbox' = Post(Post(inbox, {<<k, m>>}, hello),
                                  {<<k, m>>}, invite)
  /\ UNCHANGED <<nodeVars, coordSock, joining, broken, assoc, handling, created>>

\* First half of joinSession: the address comes from the owner's beacon.
ConnectToCoordinator(n, s) ==
  /\ UiFree(n) /\ s \in created /\ Owner[s] # n
  /\ \E k \in Conn :
       /\ Dial(n, Owner[s], k)
       /\ coordSock' = [coordSock EXCEPT ![n] = k]
       /\ inbox' = Post(inbox, {<<k, Owner[s]>>}, M("HELLO", n, session[n]))
  /\ role'    = [role EXCEPT ![n] = "SESSION_PARTICIPANT"]
  /\ joining' = [joining EXCEPT ![n] = s]
  /\ UNCHANGED <<session, coordUuid, capturing, members, peerSock, broken,
                 assoc, handling, created, spent>>

\* Second half: the JOIN goes to the coordinator the node already knows, on
\* the descriptor it already has, and only else on the one just dialled.
AcceptSessionInvite(n) ==
  /\ joining[n] # None
  /\ session' = [session EXCEPT ![n] = joining[n]]
  /\ role'    = [role EXCEPT ![n] = "SESSION_PARTICIPANT"]
  /\ joining' = [joining EXCEPT ![n] = None]
  /\ inbox'   = Post(inbox, OutTo(n, CoordLink(n, peerSock)),
                     M("JOIN_SESSION", n, joining[n]))
  /\ UNCHANGED <<coordUuid, capturing, members, peerSock, coordSock, dials,
                 ends, broken, alive, assoc, handling, created, spent>>

\* coordinator_uuid_, peer_sockets_ and coordinator_sock_ survive a leave.
LeaveSession(n) ==
  /\ UiFree(n) /\ session[n] # None
  /\ Spend("ops")
  /\ session'   = [session EXCEPT ![n] = None]
  /\ role'      = [role EXCEPT ![n] = "UNASSIGNED"]
  /\ capturing' = [capturing EXCEPT ![n] = FALSE]
  /\ members'   = [members EXCEPT ![n] = [m \in Node |-> None]]
  /\ inbox'     = Post(inbox, OutTo(n, CoordLink(n, peerSock)),
                       M("LEAVE_SESSION", n, session[n]))
  /\ UNCHANGED <<coordUuid, sockVars, dials, ends, broken, alive, assoc,
                 handling, created>>

\* n's member table with every member's capture_state set to st.
AllIn(n, st) ==
  [m \in Node |-> IF members[n][m] = None THEN None
                  ELSE [members[n][m] EXCEPT !.state = st]]

\* Mutant: any member of a session may send PREPARE.
PrepareCaptureByAnyone(n) ==
  /\ UiFree(n) /\ session[n] # None
  /\ Spend("ops")
  /\ inbox' = Post(inbox, Broadcast(n, peerSock, None),
                   M("PREPARE_CAPTURE", n, session[n]))
  /\ UNCHANGED <<nodeVars, sockVars, dials, ends, broken, alive, assoc,
                 handling, created>>

PrepareCapture(n) ==
  /\ UiFree(n) /\ IsCoordinator(n)
  /\ Spend("ops")
  /\ members' = [members EXCEPT ![n] =
                   [m \in Node |->
                      IF m = n \/ members[n][m] = None THEN members[n][m]
                      ELSE [members[n][m] EXCEPT !.ready = FALSE,
                                                 !.state = "PREPARING"]]]
  /\ inbox'   = Post(inbox, Broadcast(n, peerSock, None),
                     M("PREPARE_CAPTURE", n, session[n]))
  /\ UNCHANGED <<session, role, coordUuid, capturing, sockVars, dials, ends,
                 broken, alive, assoc, handling, created>>

\* Mutant: START goes only to the members that have acknowledged PREPARE.
StartCaptureReadyOnly(n) ==
  /\ UiFree(n) /\ IsCoordinator(n) /\ ~capturing[n]
  /\ Spend("ops")
  /\ capturing' = [capturing EXCEPT ![n] = TRUE]
  /\ members'   = [members EXCEPT ![n] = AllIn(n, "CAPTURING")]
  /\ LET ready == {m \in Node : members[n][m] # None /\ members[n][m].ready}
     IN  inbox' = Post(inbox, UNION {OutTo(n, peerSock[n][m]) : m \in ready},
                       M("START_CAPTURE", n, session[n]))
  /\ UNCHANGED <<session, role, coordUuid, sockVars, dials, ends, broken,
                 alive, assoc, handling, created>>

\* A repeated call returns at the exchange.  Nothing looks at ready here.
StartCapture(n) ==
  /\ UiFree(n) /\ IsCoordinator(n) /\ ~capturing[n]
  /\ Spend("ops")
  /\ capturing' = [capturing EXCEPT ![n] = TRUE]
  /\ members'   = [members EXCEPT ![n] = AllIn(n, "CAPTURING")]
  /\ inbox'   = Post(inbox, Broadcast(n, peerSock, None),
                     M("START_CAPTURE", n, session[n]))
  /\ UNCHANGED <<session, role, coordUuid, sockVars, dials, ends, broken,
                 alive, assoc, handling, created>>

\* Mutant: the exchange that absorbs a repeated STOP is missing.
StopCaptureRepeats(n) ==
  /\ UiFree(n) /\ IsCoordinator(n)
  /\ Spend("ops")
  /\ capturing' = [capturing EXCEPT ![n] = FALSE]
  /\ members'   = [members EXCEPT ![n] = AllIn(n, "STOPPED")]
  /\ inbox'   = Post(inbox, Broadcast(n, peerSock, None),
                     M("STOP_CAPTURE", n, session[n]))
  /\ UNCHANGED <<session, role, coordUuid, sockVars, dials, ends, broken,
                 alive, assoc, handling, created>>

StopCapture(n) ==
  /\ UiFree(n) /\ IsCoordinator(n) /\ capturing[n]
  /\ Spend("ops")
  /\ capturing' = [capturing EXCEPT ![n] = FALSE]
  /\ members'   = [members EXCEPT ![n] = AllIn(n, "STOPPED")]
  /\ inbox'   = Post(inbox, Broadcast(n, peerSock, None),
                     M("STOP_CAPTURE", n, session[n]))
  /\ UNCHANGED <<session, role, coordUuid, sockVars, dials, ends, broken,
                 alive, assoc, handling, created>>

\* Streamed while capturing, and once more when a capture stops: then a
\* coordinator also evaluates overlaps and sends the alignment that results.
PublishSubmap(n) ==
  /\ UiFree(n) /\ session[n] # None
  /\ Spend("submaps")
  /\ LET tgt == Broadcast(n, peerSock, None)
         out == Post(inbox, tgt, M("CSLAM_SUBMAP_UPDATE", n, session[n]))
     IN  \/ inbox' = out
         \/ role[n] = "SESSION_COORDINATOR" /\ inbox' = SendAlignment(n, out, tgt)
  /\ UNCHANGED <<nodeVars, sockVars, dials, ends, broken, alive, assoc,
                 handling, created>>

\* Any node's user may ask for an evaluation.
TriggerOverlapEvaluation(n) ==
  /\ UiFree(n) /\ session[n] # None
  /\ Spend("submaps")
  /\ inbox' = SendAlignment(n, inbox, Broadcast(n, peerSock, None))
  /\ UNCHANGED <<nodeVars, sockVars, dials, ends, broken, alive, assoc,
                 handling, created>>

-----------------------------------------------------------------------------
(* The worker of n's end of k.  Every message first rebinds its source to  *)
(* this descriptor.                                                        *)

Reads(k, n, t) ==
  /\ alive[k][n] /\ handling[k][n] = None
  /\ inbox[k][n] # <<>>
  /\ Head(inbox[k][n]).type = t
  /\ peerSock' = [peerSock EXCEPT ![n][Head(inbox[k][n]).src] = k]
  /\ assoc'    = [assoc EXCEPT ![k][n] = Head(inbox[k][n]).src]

Source(k, n) == Head(inbox[k][n]).src
Rest(k, n)   == [inbox EXCEPT ![k][n] = Tail(@)]

\* Mutant: the comparison with the known coordinator is inverted.
AcceptsOthers(n, msg) ==
  /\ session[n] # None /\ msg.sess = session[n]
  /\ msg.type = "JOIN_SESSION" \/ coordUuid[n] # msg.src

\* The session test of JOIN, and the session and source test of commands.
Accepts(n, msg) ==
  /\ session[n] # None /\ msg.sess = session[n]
  /\ msg.type = "JOIN_SESSION" \/ coordUuid[n] \in {None, msg.src}

HandleHello(k, n) ==
  /\ Reads(k, n, "HELLO")
  /\ inbox'   = Rest(k, n)
  /\ members' = [members EXCEPT ![n][Source(k, n)] =
                   IF @ = None THEN NewMember ELSE [@ EXCEPT !.connected = TRUE]]
  /\ UNCHANGED <<session, role, coordUuid, capturing, coordSock, joining,
                 dials, ends, broken, alive, handling, created, spent>>

HandleInvite(k, n) ==
  /\ Reads(k, n, "INVITE_SESSION")
  /\ inbox'     = Rest(k, n)
  /\ coordUuid' = [coordUuid EXCEPT ![n] = Source(k, n)]
  /\ UNCHANGED <<session, role, capturing, members, coordSock, joining,
                 dials, ends, broken, alive, handling, created, spent>>

HandleJoin(k, n) ==
  /\ Reads(k, n, "JOIN_SESSION")
  /\ Accepts(n, Head(inbox[k][n]))
  /\ inbox'    = Rest(k, n)
  /\ members'  = [members EXCEPT ![n][Source(k, n)] =
                    [connected |-> TRUE, ready |-> TRUE,
                     state |-> IF capturing[n] THEN "CAPTURING" ELSE "IDLE"]]
  /\ handling' = [handling EXCEPT ![k][n] = Head(inbox[k][n])]
  /\ UNCHANGED <<session, role, coordUuid, capturing, coordSock, joining,
                 dials, ends, broken, alive, created, spent>>

\* The acknowledgement that follows the registration, outside its lock, and
\* the alignment a coordinator pushes to the new member after it (stored
\* submaps go the same way just before, and are not told apart from it).
SendSessionStatus(k, n) ==
  /\ handling[k][n] # None /\ handling[k][n].type = "JOIN_SESSION"
  /\ LET out == Post(inbox, OutTo(n, k),
                     M("SESSION_STATUS", n, handling[k][n].sess))
     IN  inbox' = IF role[n] = "SESSION_COORDINATOR"
                  THEN SendAlignment(n, out, OutTo(n, peerSock[n][handling[k][n].src]))
                  ELSE out
  /\ handling' = [handling EXCEPT ![k][n] = None]
  /\ UNCHANGED <<nodeVars, sockVars, dials, ends, broken, alive, assoc,
                 created, spent>>

\* is_capturing in the status is not read.
HandleSessionStatus(k, n) ==
  /\ Reads(k, n, "SESSION_STATUS")
  /\ inbox'     = Rest(k, n)
  /\ coordUuid' = [coordUuid EXCEPT ![n] = Source(k, n)]
  /\ UNCHANGED <<session, role, capturing, members, coordSock, joining,
                 dials, ends, broken, alive, handling, created, spent>>

\* Mutant: a member that leaves ends the capture.
HandleLeaveStops(k, n) ==
  /\ Reads(k, n, "LEAVE_SESSION")
  /\ inbox'     = Rest(k, n)
  /\ members'   = [members EXCEPT ![n][Source(k, n)] = None]
  /\ capturing' = [capturing EXCEPT ![n] = FALSE]
  /\ UNCHANGED <<session, role, coordUuid, coordSock, joining, dials, ends,
                 broken, alive, handling, created, spent>>

HandleLeave(k, n) ==
  /\ Reads(k, n, "LEAVE_SESSION")
  /\ inbox'   = Rest(k, n)
  /\ members' = [members EXCEPT ![n][Source(k, n)] = None]
  /\ UNCHANGED <<session, role, coordUuid, capturing, coordSock, joining,
                 dials, ends, broken, alive, handling, created, spent>>

\* The prepare callback always agrees, so an accepted PREPARE is answered.
HandlePrepare(k, n) ==
  /\ Reads(k, n, "PREPARE_CAPTURE")
  /\ Accepts(n, Head(inbox[k][n]))
  /\ inbox' = Post(Rest(k, n),
                   OutTo(n, CoordLink(n, [peerSock EXCEPT ![n][Source(k, n)] = k])),
                   M("READY_FOR_CAPTURE", n, session[n]))
  /\ UNCHANGED <<nodeVars, coordSock, joining, dials, ends, broken, alive,
                 handling, created, spent>>

\* Neither the session of the READY nor the PREPARE it answers is looked at.
HandleReady(k, n) ==
  /\ Reads(k, n, "READY_FOR_CAPTURE")
  /\ inbox'   = Rest(k, n)
  /\ members' = [members EXCEPT ![n][Source(k, n)] =
                   IF @ = None THEN None
                   ELSE [@ EXCEPT !.ready = TRUE, !.state = "READY"]]
  /\ UNCHANGED <<session, role, coordUuid, capturing, coordSock, joining,
                 dials, ends, broken, alive, handling, created, spent>>

\* START and STOP: validated here, executed by the exchange that follows.
HandleCommand(k, n, t) ==
  /\ t \in {"START_CAPTURE", "STOP_CAPTURE"}
  /\ Reads(k, n, t)
  /\ Accepts(n, Head(inbox[k][n]))
  /\ inbox'    = Rest(k, n)
  /\ handling' = [handling EXCEPT ![k][n] = Head(inbox[k][n])]
  /\ UNCHANGED <<nodeVars, coordSock, joining, dials, ends, broken, alive,
                 created, spent>>

ExecuteStart(k, n) ==
  /\ handling[k][n] # None /\ handling[k][n].type = "START_CAPTURE"
  /\ capturing' = [capturing EXCEPT ![n] = TRUE]
  /\ handling'  = [handling EXCEPT ![k][n] = None]
  /\ UNCHANGED <<session, role, coordUuid, members, sockVars, dials, ends,
                 broken, alive, inbox, assoc, created, spent>>

ExecuteStop(k, n) ==
  /\ handling[k][n] # None /\ handling[k][n].type = "STOP_CAPTURE"
  /\ capturing' = [capturing EXCEPT ![n] = FALSE]
  /\ handling'  = [handling EXCEPT ![k][n] = None]
  /\ UNCHANGED <<session, role, coordUuid, members, sockVars, dials, ends,
                 broken, alive, inbox, assoc, created, spent>>

\* A JOIN or command that fails its test leaves only the rebinding behind.
Discard(k, n) ==
  /\ \E t \in {"JOIN_SESSION", "PREPARE_CAPTURE", "START_CAPTURE", "STOP_CAPTURE"} :
       Reads(k, n, t)
  /\ ~Accepts(n, Head(inbox[k][n]))
  /\ inbox' = Rest(k, n)
  /\ UNCHANGED <<nodeVars, coordSock, joining, dials, ends, broken, alive,
                 handling, created, spent>>

\* A coordinator answers a submap with its alignment, to everybody, and then
\* relays the submap under its original source.
HandleSubmap(k, n) ==
  /\ Reads(k, n, "CSLAM_SUBMAP_UPDATE")
  /\ LET ps == [peerSock EXCEPT ![n][Source(k, n)] = k]
         out == SendAlignment(n, Rest(k, n), Broadcast(n, ps, None))
     IN  inbox' = IF role[n] = "SESSION_COORDINATOR"
                  THEN Post(out, Broadcast(n, ps, Source(k, n)), Head(inbox[k][n]))
                  ELSE Rest(k, n)
  /\ UNCHANGED <<nodeVars, coordSock, joining, dials, ends, broken, alive,
                 handling, created, spent>>

\* What it says is the C-SLAM engine's affair.
HandleAlignment(k, n) ==
  /\ Reads(k, n, "CSLAM_ALIGNMENT_UPDATE")
  /\ inbox' = Rest(k, n)
  /\ UNCHANGED <<nodeVars, coordSock, joining, dials, ends, broken, alive,
                 handling, created, spent>>

HandleHeartbeat(k, n) ==
  /\ Reads(k, n, "HEARTBEAT")
  /\ inbox'   = Rest(k, n)
  /\ members' = [members EXCEPT ![n][Source(k, n)] =
                   IF @ = None THEN None ELSE [@ EXCEPT !.connected = TRUE]]
  /\ UNCHANGED <<session, role, coordUuid, capturing, coordSock, joining,
                 dials, ends, broken, alive, handling, created, spent>>

-----------------------------------------------------------------------------
(* The heartbeat thread, and what the network and the machines do.         *)

\* Mutant: the heartbeat goes over peer_sockets_ alone.
HeartbeatToPeers(n) ==
  LET tgt == UNION {OutTo(n, peerSock[n][m]) : m \in Node}
      hb  == M("HEARTBEAT", n, session[n])
  IN  /\ n \in Beating /\ tgt # {}
      /\ \A e \in tgt : \A i \in 1..Len(inbox[e[1]][e[2]]) :
           inbox[e[1]][e[2]][i].type # "HEARTBEAT"
      /\ inbox' = Post(inbox, tgt, hb)
      /\ UNCHANGED <<nodeVars, sockVars, dials, ends, broken, alive, assoc,
                     handling, created, spent>>

\* At most one heartbeat of n is unread on a connection (the period is 2 s).
Heartbeat(n) ==
  LET tgt == Broadcast(n, peerSock, None)
      hb  == M("HEARTBEAT", n, session[n])
  IN  /\ n \in Beating /\ tgt # {}
      /\ \A e \in tgt : \A i \in 1..Len(inbox[e[1]][e[2]]) :
           inbox[e[1]][e[2]][i].type # "HEARTBEAT"
      /\ inbox' = Post(inbox, tgt, hb)
      /\ UNCHANGED <<nodeVars, sockVars, dials, ends, broken, alive, assoc,
                     handling, created, spent>>

NetworkDrop(k) ==
  /\ ends[k] # {} /\ k \notin broken
  /\ Spend("drops")
  /\ broken' = broken \cup {k}
  /\ UNCHANGED <<nodeVars, sockVars, dials, ends, alive, inbox, assoc,
                 handling, created>>

\* The worker sees the end of the connection: it closes the descriptor and
\* clears the entry of the last source it heard, whatever that entry holds.
WorkerExit(k, n) ==
  /\ alive[k][n] /\ k \in broken /\ handling[k][n] = None
  /\ alive' = [alive EXCEPT ![k][n] = FALSE]
  /\ inbox' = [inbox EXCEPT ![k][n] = <<>>]
  /\ LET p == assoc[k][n]
     IN  \/ /\ p = None
            /\ UNCHANGED <<members, peerSock, coordSock>>
         \/ /\ p # None
            /\ members' = [members EXCEPT ![n][p] =
                 IF @ = None THEN None ELSE [@ EXCEPT !.connected = FALSE]]
            /\ peerSock' = [peerSock EXCEPT ![n][p] = None]
            /\ coordSock' = [coordSock EXCEPT ![n] = IF @ = k THEN None ELSE @]
  /\ UNCHANGED <<session, role, coordUuid, capturing, joining, dials, ends,
                 broken, assoc, handling, created, spent>>

\* The process of n ends and is started again: nothing of the service is
\* kept, and its connections are reset.
Restart(n) ==
  LET dead == {k \in Conn : n \in ends[k]}
      wipe(f, v) == [k \in Conn |-> [f[k] EXCEPT ![n] = v]]
  IN  /\ Spend("restarts")
      /\ session'   = [session EXCEPT ![n] = None]
      /\ role'      = [role EXCEPT ![n] = "UNASSIGNED"]
      /\ coordUuid' = [coordUuid EXCEPT ![n] = None]
      /\ capturing' = [capturing EXCEPT ![n] = FALSE]
      /\ members'   = [members EXCEPT ![n] = [m \in Node |-> None]]
      /\ peerSock'  = [peerSock EXCEPT ![n] = [m \in Node |-> None]]
      /\ coordSock' = [coordSock EXCEPT ![n] = None]
      /\ joining'   = [joining EXCEPT ![n] = None]
      /\ broken'    = broken \cup dead
      /\ alive'     = wipe(alive, FALSE)
      /\ inbox'     = wipe(inbox, <<>>)
      /\ assoc'     = wipe(assoc, None)
      /\ handling'  = wipe(handling, None)
      /\ UNCHANGED <<dials, ends, created>>

-----------------------------------------------------------------------------
User(n) ==
  \/ \E s \in Session : CreateSession(n, s)
  \/ \E m \in Node : InvitePeer(n, m)
  \/ \E s \in Session : ConnectToCoordinator(n, s)
  \/ LeaveSession(n)
  \/ PrepareCapture(n)
  \/ StartCapture(n)
  \/ StopCapture(n)
  \/ PublishSubmap(n)
  \/ TriggerOverlapEvaluation(n)

Worker(k, n) ==
  \/ HandleHello(k, n)
  \/ HandleInvite(k, n)
  \/ HandleJoin(k, n)
  \/ SendSessionStatus(k, n)
  \/ HandleSessionStatus(k, n)
  \/ HandleLeave(k, n)
  \/ HandlePrepare(k, n)
  \/ HandleReady(k, n)
  \/ \E t \in MessageType : HandleCommand(k, n, t)
  \/ ExecuteStart(k, n)
  \/ ExecuteStop(k, n)
  \/ Discard(k, n)
  \/ HandleSubmap(k, n)
  \/ HandleAlignment(k, n)
  \/ HandleHeartbeat(k, n)

Next ==
  \/ \E n \in Node : User(n) \/ AcceptSessionInvite(n) \/ Heartbeat(n) \/ Restart(n)
  \/ \E k \in Conn, n \in Node : Worker(k, n) \/ WorkerExit(k, n)
  \/ \E k \in Conn : NetworkDrop(k)

Spec == Init /\ [][Next]_vars

\* Every worker, an exit that is due, the second half of a join, and the
\* heartbeat thread keep running; users, drops and restarts owe nothing.
LinksRun ==
  /\ \A n \in Node : WF_vars(AcceptSessionInvite(n))
  /\ \A k \in Conn, n \in Node :
       WF_vars(Worker(k, n)) /\ WF_vars(WorkerExit(k, n))
Fairness == LinksRun /\ \A n \in Node : WF_vars(Heartbeat(n))

FairSpec == Spec /\ Fairness

-----------------------------------------------------------------------------
(* Properties.                                                             *)

Commands == {"PREPARE_CAPTURE", "START_CAPTURE", "STOP_CAPTURE"}
InFlight(k, n) == {inbox[k][n][i] : i \in 1..Len(inbox[k][n])} \cup
                  ({handling[k][n]} \ {None})

\* Authority: a node that acts as coordinator created the session it is in,
\* through every order of create, join, leave, half-finished join and
\* restart; and every capture command in flight, or validated and about to be
\* executed, comes from the node that created its session.
OnlyOwnerCommands ==
  /\ \A n \in Node : IsCoordinator(n) => Owner[session[n]] = n
  /\ \A k \in Conn, n \in Node : \A msg \in InFlight(k, n) :
       msg.type \in Commands => msg.sess # None /\ msg.src = Owner[msg.sess]

\* Capture follows commands: is_capturing_ rises only when its node, as the
\* coordinator, starts a capture or executes a START of a session's owner;
\* it falls only when its node changes session (or restarts), stops its own
\* capture as coordinator, or executes a STOP of a session's owner.  Losing a
\* connection, a worker's exit, a reconnection or any other message never
\* changes it ("Network failure is NOT capture failure").
Executes(n, t) ==
  \E k \in Conn : /\ handling[k][n] # None /\ handling'[k][n] = None
                  /\ handling[k][n].type = t
                  /\ handling[k][n].src = Owner[handling[k][n].sess]
CaptureStep ==
  \A n \in Node :
    /\ ~capturing[n] /\ capturing'[n] =>
         IsCoordinator(n) \/ Executes(n, "START_CAPTURE")
    /\ capturing[n] /\ ~capturing'[n] =>
         \/ session'[n] # session[n] \/ role'[n] = "UNASSIGNED"
         \/ IsCoordinator(n) /\ members'[n][n].state = "STOPPED"
         \/ Executes(n, "STOP_CAPTURE")
CaptureFollowsCommands == [][CaptureStep]_vars

\* Healing: a participant whose connection to a node stays up is, from some
\* time on, bound there to a connection that carries data, whatever dead
\* entries, late worker exits and duplicate connections came before; its
\* heartbeats re-create the binding that the exit of an older worker erased.
Carries(n, k) == k # None /\ k \notin broken /\ alive[k][n]
HeartbeatHeals ==
  \A n \in Beating : \A m \in Node \ {n} :
    <>[](/\ coordSock[n] # None /\ coordSock[n] \notin broken
         /\ ends[coordSock[n]] = {n, m})
      => <>[](Carries(m, peerSock[m][n]))

-----------------------------------------------------------------------------
(* What documents and comments say and the code does not do.               *)

\* "Reconnecting resumes session membership and syncs metadata without
\* interrupting scanning": once everything sent has been handled, a member in
\* reach that still captures although the coordinator has stopped is at least
\* recorded as CAPTURING.
ReachableMember(m, n) ==
  /\ joining[n] = None /\ session[n] = session[m]
  /\ members[m][n] # None /\ members[m][n].connected
  /\ Carries(m, peerSock[m][n])
ReconnectSyncs ==
  (\A k \in Conn, n \in Node : InFlight(k, n) = {} /\ (k \in broken => ~alive[k][n])) =>
    \A m, n \in Node :
      IsCoordinator(m) /\ ReachableMember(m, n) /\ capturing[n] /\ ~capturing[m]
        => members[m][n].state = "CAPTURING"
=============================================================================
