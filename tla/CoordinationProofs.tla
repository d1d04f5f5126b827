------------------------- MODULE CoordinationProofs -------------------------
(* What holds of Coordination for every set of nodes and sessions and every *)
(* bound.                                                                  *)
EXTENDS PatientCoordination, FirstPositions, SequenceTheorems

Queues == [Conn -> [Node -> Seq(Msg)]]

\* A write appends one message to some queues.
LEMMA PostType ==
  ASSUME NEW q \in Queues, NEW tgt, NEW msg \in Msg
  PROVE  Post(q, tgt, msg) \in Queues
BY DEF Post, Queues

LEMMA MType ==
  ASSUME NEW t \in MessageType, NEW n \in Node, NEW s \in Session \cup {None}
  PROVE  M(t, n, s) \in Msg
BY DEF M, Msg

LEMMA HeadTailType ==
  ASSUME NEW S, NEW q \in Seq(S), q # <<>>
  PROVE  Head(q) \in S /\ Tail(q) \in Seq(S)
OBVIOUS

\* What a worker reads is a message of a node, and reading keeps the types.
LEMMA ReadType ==
  ASSUME TypeOK, NEW k \in Conn, NEW n \in Node, inbox[k][n] # <<>>
  PROVE  /\ Head(inbox[k][n]) \in Msg
         /\ Source(k, n) \in Node
         /\ Rest(k, n) \in Queues
<1>1. inbox \in Queues /\ inbox[k][n] \in Seq(Msg)
  BY DEF TypeOK, Queues
<1>2. Head(inbox[k][n]) \in Msg /\ Tail(inbox[k][n]) \in Seq(Msg)
  BY <1>1, HeadTailType
<1>3. Source(k, n) \in Node
  BY <1>2 DEF Source, Msg
<1> QED
  BY <1>1, <1>2, <1>3 DEF Rest, Queues

LEMMA ReadsType ==
  ASSUME TypeOK, NEW k \in Conn, NEW n \in Node, NEW t, Reads(k, n, t)
  PROVE  /\ Head(inbox[k][n]) \in Msg
         /\ Source(k, n) \in Node
         /\ Rest(k, n) \in Queues
         /\ peerSock' \in [Node -> [Node -> Conn \cup {None}]]
         /\ assoc' \in [Conn -> [Node -> Node \cup {None}]]
<1>1. /\ Head(inbox[k][n]) \in Msg
      /\ Source(k, n) \in Node
      /\ Rest(k, n) \in Queues
  BY ReadType DEF Reads
<1>2. Head(inbox[k][n]).src \in Node
  BY <1>1 DEF Source
<1> QED
  BY <1>1, <1>2 DEF Reads, TypeOK

LEMMA SpendType ==
  ASSUME TypeOK, NEW b \in Bounded, Spend(b)
  PROVE  spent' \in [Bounded -> Nat]
BY LimitType DEF TypeOK, Spend

LEMMA DialType ==
  ASSUME TypeOK, NEW n \in Node, NEW m \in Node, NEW k, Dial(n, m, k)
  PROVE  /\ k \in Conn
         /\ dials' \in 0..MaxConn
         /\ ends' \in [Conn -> SUBSET Node]
         /\ alive' \in [Conn -> [Node -> BOOLEAN]]
<1>1. k \in Conn /\ dials' \in 0..MaxConn
  BY MaxConnType DEF TypeOK, Dial, Conn
<1>2. {n, m} \in SUBSET Node
  OBVIOUS
<1>3. [p \in Node |-> p \in {n, m}] \in [Node -> BOOLEAN]
  OBVIOUS
<1> QED
  BY <1>1, <1>2, <1>3 DEF TypeOK, Dial

LEMMA InitType == Init => TypeOK
BY MaxConnType DEF Init, TypeOK, Roles, Bounded

LEMMA AlignmentType ==
  ASSUME TypeOK, NEW n \in Node, NEW q \in Queues, NEW tgt
  PROVE  SendAlignment(n, q, tgt) \in Queues
BY PostType, MType DEF SendAlignment, TypeOK, MessageType

\* Rewriting one entry, or one row, of the member table keeps its type.
Tables == [Node -> [Node -> Member \cup {None}]]

LEMMA MemberType ==
  ASSUME TypeOK, NEW n \in Node, NEW m \in Node, NEW r \in Member \cup {None}
  PROVE  [members EXCEPT ![n][m] = r] \in Tables
BY DEF TypeOK, Tables

LEMMA RowType ==
  ASSUME TypeOK, NEW n \in Node, NEW row \in [Node -> Member \cup {None}]
  PROVE  [members EXCEPT ![n] = row] \in Tables
BY DEF TypeOK, Tables

LEMMA EntryType ==
  ASSUME TypeOK, NEW n \in Node, NEW m \in Node, members[n][m] # None
  PROVE  /\ members[n][m] \in Member
         /\ [members[n][m] EXCEPT !.connected = TRUE] \in Member
         /\ [members[n][m] EXCEPT !.connected = FALSE] \in Member
         /\ [members[n][m] EXCEPT !.ready = TRUE, !.state = "READY"] \in Member
         /\ [members[n][m] EXCEPT !.ready = FALSE, !.state = "PREPARING"] \in Member
         /\ \A st \in CaptureStates : [members[n][m] EXCEPT !.state = st] \in Member
<1>1. members[n][m] \in Member
  BY DEF TypeOK
<1>2. "READY" \in CaptureStates /\ "PREPARING" \in CaptureStates
  BY DEF CaptureStates
<1> QED
  BY <1>1, <1>2 DEF Member

LEMMA NewMemberType == NewMember \in Member
BY DEF NewMember, Member, CaptureStates

LEMMA AllInType ==
  ASSUME TypeOK, NEW n \in Node, NEW st \in CaptureStates
  PROVE  AllIn(n, st) \in [Node -> Member \cup {None}]
BY EntryType DEF AllIn

THEOREM NextType == TypeOK /\ [Next]_vars => TypeOK'
<1> SUFFICES ASSUME TypeOK, [Next]_vars PROVE TypeOK'
  OBVIOUS
<1>1. ASSUME NEW n \in Node, NEW s \in Session, CreateSession(n, s) PROVE TypeOK'
  BY <1>1, NewMemberType
  DEF TypeOK, CreateSession, NewMember, Member, Roles, sockVars, connVars
<1>2. ASSUME NEW n \in Node, NEW m \in Node, InvitePeer(n, m) PROVE TypeOK'
  <2>1. /\ M("HELLO", n, session[n]) \in Msg
        /\ M("INVITE_SESSION", n, session[n]) \in Msg
    BY MType DEF TypeOK, MessageType
  <2>2. inbox' \in Queues
    <3>1. \A tgt : Post(Post(inbox, tgt, M("HELLO", n, session[n])), tgt,
                        M("INVITE_SESSION", n, session[n])) \in Queues
      BY <2>1, PostType DEF TypeOK, Queues
    <3> QED
      BY <1>2, <3>1 DEF InvitePeer
  <2>3. CASE peerSock[n][m] # None
    BY <1>2, <2>2, <2>3, SpendType DEF InvitePeer, TypeOK, Queues, Bounded, nodeVars
  <2>4. CASE peerSock[n][m] = None
    <3>1. PICK k \in Conn : Dial(n, m, k) /\ peerSock' = [peerSock EXCEPT ![n][m] = k]
      BY <1>2, <2>4 DEF InvitePeer
    <3>2. peerSock' \in [Node -> [Node -> Conn \cup {None}]]
      BY <3>1 DEF TypeOK
    <3>3. /\ dials' \in 0..MaxConn /\ ends' \in [Conn -> SUBSET Node]
          /\ alive' \in [Conn -> [Node -> BOOLEAN]]
      BY <3>1, DialType
    <3> QED
      BY <1>2, <2>2, <3>2, <3>3, SpendType
      DEF InvitePeer, TypeOK, Queues, Bounded, nodeVars
  <2> QED
    BY <2>3, <2>4
<1>3. ASSUME NEW n \in Node, NEW s \in Session, ConnectToCoordinator(n, s) PROVE TypeOK'
  <2>1. PICK k \in Conn :
          /\ Dial(n, Owner[s], k)
          /\ coordSock' = [coordSock EXCEPT ![n] = k]
          /\ inbox' = Post(inbox, {<<k, Owner[s]>>}, M("HELLO", n, session[n]))
    BY <1>3 DEF ConnectToCoordinator
  <2>2. /\ dials' \in 0..MaxConn /\ ends' \in [Conn -> SUBSET Node]
        /\ alive' \in [Conn -> [Node -> BOOLEAN]]
    BY <2>1, DialType, OwnerType
  <2>3. M("HELLO", n, session[n]) \in Msg
    BY MType DEF TypeOK, MessageType
  <2>4. inbox' \in Queues
    BY <2>1, <2>3, PostType DEF TypeOK, Queues
  <2>5. coordSock' \in [Node -> Conn \cup {None}]
    BY <2>1 DEF TypeOK
  <2> QED
    BY <1>3, <2>2, <2>4, <2>5 DEF ConnectToCoordinator, TypeOK, Queues, Roles
<1>4. ASSUME NEW n \in Node, AcceptSessionInvite(n) PROVE TypeOK'
  BY <1>4, PostType, MType
  DEF TypeOK, AcceptSessionInvite, Queues, MessageType, Roles
<1>5. ASSUME NEW n \in Node, LeaveSession(n) PROVE TypeOK'
  BY <1>5, PostType, MType, SpendType
  DEF TypeOK, LeaveSession, Queues, MessageType, Roles, Bounded, sockVars
<1>6. ASSUME NEW n \in Node, PrepareCapture(n) PROVE TypeOK'
  <2>1. members' \in Tables
    <3> DEFINE Row == [m \in Node |->
                         IF m = n \/ members[n][m] = None THEN members[n][m]
                         ELSE [members[n][m] EXCEPT !.ready = FALSE,
                                                    !.state = "PREPARING"]]
    <3>1. Row \in [Node -> Member \cup {None}]
      BY EntryType DEF TypeOK
    <3>2. members' = [members EXCEPT ![n] = Row]
      BY <1>6 DEF PrepareCapture
    <3> HIDE DEF Row
    <3> QED
      BY <3>1, <3>2, RowType
  <2>2. M("PREPARE_CAPTURE", n, session[n]) \in Msg
    BY MType DEF TypeOK, MessageType
  <2>3. inbox' \in Queues
    BY <1>6, <2>2, PostType DEF PrepareCapture, TypeOK, Queues
  <2> QED
    BY <1>6, <2>1, <2>3, SpendType
    DEF PrepareCapture, TypeOK, Tables, Queues, Bounded, sockVars
<1>7. ASSUME NEW n \in Node, StartCapture(n) PROVE TypeOK'
  <2>1. members' \in Tables
    <3>1. "CAPTURING" \in CaptureStates
      BY DEF CaptureStates
    <3> QED
      BY <1>7, <3>1, AllInType, RowType DEF StartCapture
  <2>2. M("START_CAPTURE", n, session[n]) \in Msg
    BY MType DEF TypeOK, MessageType
  <2>3. inbox' \in Queues
    BY <1>7, <2>2, PostType DEF StartCapture, TypeOK, Queues
  <2> QED
    BY <1>7, <2>1, <2>3, SpendType
    DEF StartCapture, TypeOK, Tables, Queues, Bounded, sockVars
<1>8. ASSUME NEW n \in Node, StopCapture(n) PROVE TypeOK'
  <2>1. members' \in Tables
    <3>1. "STOPPED" \in CaptureStates
      BY DEF CaptureStates
    <3> QED
      BY <1>8, <3>1, AllInType, RowType DEF StopCapture
  <2>2. M("STOP_CAPTURE", n, session[n]) \in Msg
    BY MType DEF TypeOK, MessageType
  <2>3. inbox' \in Queues
    BY <1>8, <2>2, PostType DEF StopCapture, TypeOK, Queues
  <2> QED
    BY <1>8, <2>1, <2>3, SpendType
    DEF StopCapture, TypeOK, Tables, Queues, Bounded, sockVars
<1>9. ASSUME NEW n \in Node, PublishSubmap(n) PROVE TypeOK'
  <2>1. M("CSLAM_SUBMAP_UPDATE", n, session[n]) \in Msg
    BY MType DEF TypeOK, MessageType
  <2>2. inbox' \in Queues
    <3>1. inbox \in Queues
      BY DEF TypeOK, Queues
    <3>2. Post(inbox, Broadcast(n, peerSock, None),
               M("CSLAM_SUBMAP_UPDATE", n, session[n])) \in Queues
      BY <2>1, <3>1, PostType
    <3> QED
      BY <1>9, <3>2, AlignmentType DEF PublishSubmap
  <2> QED
    BY <1>9, <2>2, SpendType
    DEF PublishSubmap, TypeOK, Queues, Bounded, nodeVars, sockVars
<1>10. ASSUME NEW n \in Node, Heartbeat(n) PROVE TypeOK'
  BY <1>10, PostType, MType
  DEF TypeOK, Heartbeat, Queues, MessageType, nodeVars, sockVars
<1>11. ASSUME NEW n \in Node, Restart(n) PROVE TypeOK'
  BY <1>11, SpendType
  DEF TypeOK, Restart, Bounded, Roles
<1>12. ASSUME NEW k \in Conn, NEW n \in Node, HandleHello(k, n) PROVE TypeOK'
  <2>1. /\ Source(k, n) \in Node /\ Rest(k, n) \in Queues
        /\ peerSock' \in [Node -> [Node -> Conn \cup {None}]]
        /\ assoc' \in [Conn -> [Node -> Node \cup {None}]]
    BY <1>12, ReadsType DEF HandleHello
  <2>2. members' \in Tables
    BY <1>12, <2>1, MemberType, NewMemberType, EntryType DEF HandleHello
  <2> QED
    BY <1>12, <2>1, <2>2 DEF HandleHello, TypeOK, Tables, Queues
<1>13. ASSUME NEW k \in Conn, NEW n \in Node, HandleInvite(k, n) PROVE TypeOK'
  BY <1>13, ReadsType
  DEF TypeOK, HandleInvite, Queues
<1>14. ASSUME NEW k \in Conn, NEW n \in Node, HandleJoin(k, n) PROVE TypeOK'
  <2> DEFINE Joined == [connected |-> TRUE, ready |-> TRUE,
                         state |-> IF capturing[n] THEN "CAPTURING" ELSE "IDLE"]
  <2>1. /\ Head(inbox[k][n]) \in Msg
        /\ Source(k, n) \in Node /\ Rest(k, n) \in Queues
        /\ peerSock' \in [Node -> [Node -> Conn \cup {None}]]
        /\ assoc' \in [Conn -> [Node -> Node \cup {None}]]
    BY <1>14, ReadsType DEF HandleJoin
  <2>2. Joined \in Member
    BY DEF Member, CaptureStates
  <2>3. members' = [members EXCEPT ![n][Source(k, n)] = Joined]
    BY <1>14 DEF HandleJoin
  <2> HIDE DEF Joined
  <2>4. members' \in Tables
    BY <2>1, <2>2, <2>3, MemberType
  <2>5. handling' \in [Conn -> [Node -> Msg \cup {None}]]
    BY <1>14, <2>1 DEF HandleJoin, TypeOK
  <2> QED
    BY <1>14, <2>1, <2>4, <2>5 DEF HandleJoin, TypeOK, Tables, Queues
<1>15. ASSUME NEW k \in Conn, NEW n \in Node, SendSessionStatus(k, n) PROVE TypeOK'
  <2>1. handling[k][n].sess \in Session \cup {None}
    BY <1>15 DEF SendSessionStatus, TypeOK, Msg
  <2>2. M("SESSION_STATUS", n, handling[k][n].sess) \in Msg
    BY <2>1, MType DEF MessageType
  <2>3. inbox \in Queues
    BY DEF TypeOK, Queues
  <2>4. Post(inbox, OutTo(n, k), M("SESSION_STATUS", n, handling[k][n].sess)) \in Queues
    BY <2>2, <2>3, PostType
  <2>5. inbox' \in Queues
    BY <1>15, <2>4, AlignmentType DEF SendSessionStatus
  <2> QED
    BY <1>15, <2>5 DEF SendSessionStatus, TypeOK, Queues, nodeVars, sockVars
<1>16. ASSUME NEW k \in Conn, NEW n \in Node, HandleSessionStatus(k, n) PROVE TypeOK'
  BY <1>16, ReadsType
  DEF TypeOK, HandleSessionStatus, Queues
<1>17. ASSUME NEW k \in Conn, NEW n \in Node, HandleLeave(k, n) PROVE TypeOK'
  <2>1. /\ Source(k, n) \in Node /\ Rest(k, n) \in Queues
        /\ peerSock' \in [Node -> [Node -> Conn \cup {None}]]
        /\ assoc' \in [Conn -> [Node -> Node \cup {None}]]
    BY <1>17, ReadsType DEF HandleLeave
  <2>2. members' \in Tables
    BY <1>17, <2>1, MemberType DEF HandleLeave
  <2> QED
    BY <1>17, <2>1, <2>2 DEF HandleLeave, TypeOK, Tables, Queues
<1>18. ASSUME NEW k \in Conn, NEW n \in Node, HandlePrepare(k, n) PROVE TypeOK'
  BY <1>18, ReadsType, PostType, MType
  DEF TypeOK, HandlePrepare, Queues, MessageType, nodeVars
<1>19. ASSUME NEW k \in Conn, NEW n \in Node, HandleReady(k, n) PROVE TypeOK'
  <2>1. /\ Source(k, n) \in Node /\ Rest(k, n) \in Queues
        /\ peerSock' \in [Node -> [Node -> Conn \cup {None}]]
        /\ assoc' \in [Conn -> [Node -> Node \cup {None}]]
    BY <1>19, ReadsType DEF HandleReady
  <2>2. members' \in Tables
    BY <1>19, <2>1, MemberType, EntryType DEF HandleReady
  <2> QED
    BY <1>19, <2>1, <2>2 DEF HandleReady, TypeOK, Tables, Queues
<1>20. ASSUME NEW k \in Conn, NEW n \in Node, NEW t \in MessageType, HandleCommand(k, n, t) PROVE TypeOK'
  BY <1>20, ReadsType
  DEF TypeOK, HandleCommand, Queues, nodeVars
<1>21. ASSUME NEW k \in Conn, NEW n \in Node, ExecuteStart(k, n) PROVE TypeOK'
  BY <1>21
  DEF TypeOK, ExecuteStart, sockVars
<1>22. ASSUME NEW k \in Conn, NEW n \in Node, ExecuteStop(k, n) PROVE TypeOK'
  BY <1>22
  DEF TypeOK, ExecuteStop, sockVars
<1>23. ASSUME NEW k \in Conn, NEW n \in Node, Discard(k, n) PROVE TypeOK'
  BY <1>23, ReadsType
  DEF TypeOK, Discard, Queues, nodeVars
<1>24. ASSUME NEW k \in Conn, NEW n \in Node, HandleSubmap(k, n) PROVE TypeOK'
  <2>1. /\ Head(inbox[k][n]) \in Msg /\ Rest(k, n) \in Queues
        /\ peerSock' \in [Node -> [Node -> Conn \cup {None}]]
        /\ assoc' \in [Conn -> [Node -> Node \cup {None}]]
    BY <1>24, ReadsType DEF HandleSubmap
  <2>2. inbox' \in Queues
    BY <1>24, <2>1, PostType, AlignmentType DEF HandleSubmap
  <2> QED
    BY <1>24, <2>1, <2>2 DEF HandleSubmap, TypeOK, Queues, nodeVars
<1>25. ASSUME NEW k \in Conn, NEW n \in Node, HandleHeartbeat(k, n) PROVE TypeOK'
  <2>1. /\ Source(k, n) \in Node /\ Rest(k, n) \in Queues
        /\ peerSock' \in [Node -> [Node -> Conn \cup {None}]]
        /\ assoc' \in [Conn -> [Node -> Node \cup {None}]]
    BY <1>25, ReadsType DEF HandleHeartbeat
  <2>2. members' \in Tables
    BY <1>25, <2>1, MemberType, EntryType DEF HandleHeartbeat
  <2> QED
    BY <1>25, <2>1, <2>2 DEF HandleHeartbeat, TypeOK, Tables, Queues
<1>26. ASSUME NEW k \in Conn, NEW n \in Node, WorkerExit(k, n) PROVE TypeOK'
  <2>1. /\ alive' \in [Conn -> [Node -> BOOLEAN]]
        /\ inbox' \in Queues
        /\ UNCHANGED <<session, role, coordUuid, capturing, joining, dials, ends,
                       broken, assoc, handling, created, spent>>
    BY <1>26 DEF WorkerExit, TypeOK, Queues
  <2>2. /\ members' \in Tables
        /\ peerSock' \in [Node -> [Node -> Conn \cup {None}]]
        /\ coordSock' \in [Node -> Conn \cup {None}]
    <3>1. CASE UNCHANGED <<members, peerSock, coordSock>>
      BY <3>1 DEF TypeOK, Tables
    <3>2. CASE assoc[k][n] # None /\ ~UNCHANGED <<members, peerSock, coordSock>>
      <4> DEFINE p == assoc[k][n]
      <4>1. p \in Node
        BY <3>2 DEF TypeOK
      <4>2. members' = [members EXCEPT ![n][p] =
              IF members[n][p] = None THEN None
              ELSE [members[n][p] EXCEPT !.connected = FALSE]]
        BY <1>26, <3>2 DEF WorkerExit
      <4>3. members' \in Tables
        BY <4>1, <4>2, MemberType, EntryType
      <4>4. /\ peerSock' = [peerSock EXCEPT ![n][p] = None]
            /\ coordSock' = [coordSock EXCEPT ![n] =
                              IF coordSock[n] = k THEN None ELSE coordSock[n]]
        BY <1>26, <3>2 DEF WorkerExit
      <4> QED
        BY <4>3, <4>4 DEF TypeOK
    <3> QED
      BY <1>26, <3>1, <3>2 DEF WorkerExit
  <2> QED
    BY <2>1, <2>2 DEF TypeOK, Tables, Queues
<1>27. ASSUME NEW k \in Conn, NetworkDrop(k) PROVE TypeOK'
  BY <1>27, SpendType
  DEF TypeOK, NetworkDrop, Bounded, nodeVars, sockVars
<1>28. ASSUME NEW n \in Node, TriggerOverlapEvaluation(n) PROVE TypeOK'
  BY <1>28, AlignmentType, SpendType
  DEF TypeOK, TriggerOverlapEvaluation, Queues, Bounded, nodeVars, sockVars
<1>29. ASSUME NEW k \in Conn, NEW n \in Node, HandleAlignment(k, n) PROVE TypeOK'
  BY <1>29, ReadsType
  DEF TypeOK, HandleAlignment, Queues, nodeVars
<1>30. CASE UNCHANGED vars
  BY <1>30 DEF TypeOK, vars, nodeVars, sockVars, connVars
<1> QED
  BY <1>1, <1>2, <1>3, <1>4, <1>5, <1>6, <1>7, <1>8, <1>9, <1>10, <1>11, <1>12, <1>13, <1>14, <1>15, <1>16, <1>17, <1>18, <1>19, <1>20, <1>21, <1>22, <1>23, <1>24, <1>25, <1>26, <1>27, <1>28, <1>29, <1>30
  DEF Next, User, Worker

\* Every reachable state is well typed: tables stay tables of known records,
\* and every entry names a node, a connection or a message of the system.
THEOREM TypeCorrect == Spec => []TypeOK
<1>1. Init => TypeOK
  BY InitType
<1>2. TypeOK /\ [Next]_vars => TypeOK'
  BY NextType
<1> QED
  BY <1>1, <1>2, PTL DEF Spec

-----------------------------------------------------------------------------
(* Traffic: where the messages that are in flight after a step come from.  *)

Contents(q) == {q[i] : i \in 1..Len(q)}

LEMMA AppendContents ==
  ASSUME NEW S, NEW q \in Seq(S), NEW x \in S
  PROVE  Contents(Append(q, x)) \subseteq Contents(q) \cup {x}
BY DEF Contents

LEMMA TailContents ==
  ASSUME NEW S, NEW q \in Seq(S), q # <<>>
  PROVE  Contents(Tail(q)) \subseteq Contents(q) /\ Head(q) \in Contents(q)
BY DEF Contents

LEMMA PostContents ==
  ASSUME NEW q \in Queues, NEW tgt, NEW msg \in Msg,
         NEW k \in Conn, NEW n \in Node, NEW x \in Contents(Post(q, tgt, msg)[k][n])
  PROVE  x \in Contents(q[k][n]) \/ (x = msg /\ <<k, n>> \in tgt)
<1>1. q[k][n] \in Seq(Msg)
  BY DEF Queues
<1>2. Contents(Append(q[k][n], msg)) \subseteq Contents(q[k][n]) \cup {msg}
  BY <1>1, AppendContents
<1> QED
  BY <1>2 DEF Post

LEMMA RestContents ==
  ASSUME TypeOK, NEW k \in Conn, NEW n \in Node, inbox[k][n] # <<>>,
         NEW k2 \in Conn, NEW n2 \in Node
  PROVE  /\ Contents(Rest(k, n)[k2][n2]) \subseteq Contents(inbox[k2][n2])
         /\ Head(inbox[k][n]) \in Contents(inbox[k][n])
<1>1. inbox \in Queues /\ inbox[k][n] \in Seq(Msg)
  BY DEF TypeOK, Queues
<1>2. /\ Contents(Tail(inbox[k][n])) \subseteq Contents(inbox[k][n])
      /\ Head(inbox[k][n]) \in Contents(inbox[k][n])
  BY <1>1, TailContents
<1> QED
  BY <1>1, <1>2 DEF Rest, Queues

LEMMA InFlightIs ==
  ASSUME NEW k, NEW n
  PROVE  /\ InFlight(k, n) = Contents(inbox[k][n]) \cup ({handling[k][n]} \ {None})
         /\ InFlight(k, n)' = Contents(inbox'[k][n]) \cup ({handling'[k][n]} \ {None})
BY DEF InFlight, Contents

\* Nothing a node sends reaches an end of its own.
LEMMA OutToOthers ==
  ASSUME NEW n, NEW ps, NEW except, NEW k, NEW m
  PROVE  /\ \A j : <<k, m>> \in OutTo(n, j) => m # n
         /\ <<k, m>> \in Broadcast(n, ps, except) => m # n
<1>1. \A j : <<k, m>> \in OutTo(n, j) => m # n
  BY DEF OutTo
<1>2. ASSUME <<k, m>> \in Broadcast(n, ps, except)
      PROVE  \E j : <<k, m>> \in OutTo(n, j)
  BY <1>2 DEF Broadcast
<1> QED
  BY <1>1, <1>2

\* A message is old, or a submap, or was just sent to another node by its
\* source, which is a coordinator naming its session if it is a command.
Fresh(msg, n) ==
  \/ msg.type = "CSLAM_SUBMAP_UPDATE"
  \/ /\ msg.src # n /\ msg.src \in Node
     /\ msg.type \in Commands =>
          IsCoordinator(msg.src) /\ msg.sess = session[msg.src]

NewTraffic ==
  \A j \in Conn, m \in Node : \A x \in InFlight(j, m)' :
    x \in InFlight(j, m) \/ Fresh(x, m)

\* Queues in which everything is old or fresh stay so when a fresh message is
\* posted, or an alignment sent.
Flowing(q) ==
  /\ q \in Queues
  /\ \A k \in Conn, n \in Node : \A x \in Contents(q[k][n]) :
       x \in Contents(inbox[k][n]) \/ Fresh(x, n)

LEMMA PostFlows ==
  ASSUME NEW q, Flowing(q), NEW tgt, NEW msg \in Msg,
         \A k \in Conn, n \in Node : <<k, n>> \in tgt => Fresh(msg, n)
  PROVE  Flowing(Post(q, tgt, msg))
<1>1. q \in Queues
  BY DEF Flowing
<1>2. Post(q, tgt, msg) \in Queues
  BY <1>1, PostType
<1>3. ASSUME NEW k \in Conn, NEW n \in Node,
             NEW x \in Contents(Post(q, tgt, msg)[k][n])
      PROVE  x \in Contents(inbox[k][n]) \/ Fresh(x, n)
  <2>1. x \in Contents(q[k][n]) \/ (x = msg /\ <<k, n>> \in tgt)
    BY <1>1, <1>3, PostContents
  <2> QED
    BY <2>1 DEF Flowing
<1> QED
  BY <1>2, <1>3 DEF Flowing

LEMMA AlignmentFlows ==
  ASSUME TypeOK, NEW q, Flowing(q), NEW tgt, NEW n \in Node,
         \A k \in Conn, m \in Node : <<k, m>> \in tgt => m # n
  PROVE  Flowing(SendAlignment(n, q, tgt))
<1> DEFINE align == M("CSLAM_ALIGNMENT_UPDATE", n, session[n])
<1>1. align \in Msg
  BY MType DEF TypeOK, MessageType
<1>2. \A k \in Conn, m \in Node : <<k, m>> \in tgt => Fresh(align, m)
  BY DEF Fresh, Commands, M
<1> HIDE DEF align
<1>3. Flowing(Post(q, tgt, align))
  BY <1>1, <1>2, PostFlows
<1> QED
  BY <1>3 DEF SendAlignment, align

LEMMA RestFlows ==
  ASSUME TypeOK, NEW k \in Conn, NEW n \in Node, inbox[k][n] # <<>>
  PROVE  Flowing(inbox) /\ Flowing(Rest(k, n))
BY ReadType, RestContents DEF Flowing, TypeOK, Queues

\* Traffic of a step whose new queues flow.
LEMMA FlowTraffic ==
  ASSUME Flowing(inbox'),
         \A k \in Conn, n \in Node : handling'[k][n] \in {None, handling[k][n]}
  PROVE  NewTraffic
<1> SUFFICES ASSUME NEW k \in Conn, NEW n \in Node, NEW x \in InFlight(k, n)'
             PROVE  x \in InFlight(k, n) \/ Fresh(x, n)
  BY DEF NewTraffic
<1>1. CASE x \in Contents(inbox'[k][n])
  BY <1>1, InFlightIs DEF Flowing
<1>2. CASE x \in {handling'[k][n]} \ {None}
  BY <1>2, InFlightIs
<1> QED
  BY <1>1, <1>2, InFlightIs

\* Traffic of a step that sends nothing.
LEMMA QuietTraffic ==
  ASSUME \A k \in Conn, n \in Node : Contents(inbox'[k][n]) \subseteq Contents(inbox[k][n]),
         \A k \in Conn, n \in Node :
           handling'[k][n] \in {None, handling[k][n]} \cup Contents(inbox[k][n])
  PROVE  NewTraffic
BY InFlightIs DEF NewTraffic

LEMMA Traffic == TypeOK /\ [Next]_vars => NewTraffic
<1> SUFFICES ASSUME TypeOK, [Next]_vars PROVE NewTraffic
  OBVIOUS
<1>0. Flowing(inbox)
  BY DEF Flowing, TypeOK, Queues
<1>1. ASSUME NEW n \in Node, NEW s \in Session, CreateSession(n, s) PROVE NewTraffic
  BY <1>1, QuietTraffic DEF CreateSession, connVars
<1>2. ASSUME NEW n \in Node, NEW m \in Node, InvitePeer(n, m) PROVE NewTraffic
  <2> DEFINE hello  == M("HELLO", n, session[n])
             invite == M("INVITE_SESSION", n, session[n])
             tgt == IF peerSock[n][m] # None THEN OutTo(n, peerSock[n][m])
                    ELSE {<<dials + 1, m>>}
  <2>1. hello \in Msg /\ invite \in Msg
    BY MType DEF TypeOK, MessageType
  <2>2. inbox' = Post(Post(inbox, tgt, hello), tgt, invite) /\ handling' = handling
    BY <1>2 DEF InvitePeer, Dial
  <2>3. \A j \in Conn, i \in Node :
          <<j, i>> \in tgt => Fresh(hello, i) /\ Fresh(invite, i)
    BY <1>2, OutToOthers DEF InvitePeer, Fresh, Commands, M
  <2> HIDE DEF tgt, hello, invite
  <2>4. Flowing(Post(inbox, tgt, hello))
    BY <1>0, <2>1, <2>3, PostFlows
  <2>5. Flowing(inbox')
    BY <2>1, <2>2, <2>3, <2>4, PostFlows
  <2> QED
    BY <2>2, <2>5, FlowTraffic
<1>3. ASSUME NEW n \in Node, NEW s \in Session, ConnectToCoordinator(n, s) PROVE NewTraffic
  <2> DEFINE hello == M("HELLO", n, session[n])
  <2>1. PICK k \in Conn : inbox' = Post(inbox, {<<k, Owner[s]>>}, hello)
    BY <1>3 DEF ConnectToCoordinator
  <2>2. hello \in Msg
    BY MType DEF TypeOK, MessageType
  <2>3. \A j \in Conn, m \in Node : <<j, m>> \in {<<k, Owner[s]>>} => Fresh(hello, m)
    BY <1>3, OwnerType DEF ConnectToCoordinator, Fresh, Commands, M
  <2>4. handling' = handling
    BY <1>3 DEF ConnectToCoordinator
  <2> HIDE DEF hello
  <2> QED
    BY <1>0, <2>1, <2>2, <2>3, <2>4, PostFlows, FlowTraffic
<1>4. ASSUME NEW n \in Node, AcceptSessionInvite(n) PROVE NewTraffic
  <2> DEFINE msg == M("JOIN_SESSION", n, joining[n])
             tgt == OutTo(n, CoordLink(n, peerSock))
  <2>1. msg \in Msg
    BY <1>4, MType DEF AcceptSessionInvite, TypeOK, MessageType
  <2>2. \A j \in Conn, m \in Node : <<j, m>> \in tgt => Fresh(msg, m)
    BY <1>4, OutToOthers DEF AcceptSessionInvite, Fresh, Commands, M
  <2>3. /\ inbox' = Post(inbox, tgt, msg)
        /\ \A j \in Conn, m \in Node : handling'[j][m] \in {None, handling[j][m]}
    BY <1>4 DEF AcceptSessionInvite, TypeOK
  <2> HIDE DEF msg, tgt
  <2> QED
    BY <1>0, <2>1, <2>2, <2>3, PostFlows, FlowTraffic
<1>5. ASSUME NEW n \in Node, LeaveSession(n) PROVE NewTraffic
  <2> DEFINE msg == M("LEAVE_SESSION", n, session[n])
             tgt == OutTo(n, CoordLink(n, peerSock))
  <2>1. msg \in Msg
    BY <1>5, MType DEF LeaveSession, TypeOK, MessageType
  <2>2. \A j \in Conn, m \in Node : <<j, m>> \in tgt => Fresh(msg, m)
    BY <1>5, OutToOthers DEF LeaveSession, Fresh, Commands, M
  <2>3. /\ inbox' = Post(inbox, tgt, msg)
        /\ \A j \in Conn, m \in Node : handling'[j][m] \in {None, handling[j][m]}
    BY <1>5 DEF LeaveSession, TypeOK
  <2> HIDE DEF msg, tgt
  <2> QED
    BY <1>0, <2>1, <2>2, <2>3, PostFlows, FlowTraffic
<1>6. ASSUME NEW n \in Node, PrepareCapture(n) PROVE NewTraffic
  <2> DEFINE msg == M("PREPARE_CAPTURE", n, session[n])
             tgt == Broadcast(n, peerSock, None)
  <2>1. msg \in Msg
    BY <1>6, MType DEF PrepareCapture, TypeOK, MessageType
  <2>2. \A j \in Conn, m \in Node : <<j, m>> \in tgt => Fresh(msg, m)
    BY <1>6, OutToOthers DEF PrepareCapture, Fresh, Commands, M
  <2>3. /\ inbox' = Post(inbox, tgt, msg)
        /\ \A j \in Conn, m \in Node : handling'[j][m] \in {None, handling[j][m]}
    BY <1>6 DEF PrepareCapture, TypeOK
  <2> HIDE DEF msg, tgt
  <2> QED
    BY <1>0, <2>1, <2>2, <2>3, PostFlows, FlowTraffic
<1>7. ASSUME NEW n \in Node, StartCapture(n) PROVE NewTraffic
  <2> DEFINE msg == M("START_CAPTURE", n, session[n])
             tgt == Broadcast(n, peerSock, None)
  <2>1. msg \in Msg
    BY <1>7, MType DEF StartCapture, TypeOK, MessageType
  <2>2. \A j \in Conn, m \in Node : <<j, m>> \in tgt => Fresh(msg, m)
    BY <1>7, OutToOthers DEF StartCapture, Fresh, Commands, M
  <2>3. /\ inbox' = Post(inbox, tgt, msg)
        /\ \A j \in Conn, m \in Node : handling'[j][m] \in {None, handling[j][m]}
    BY <1>7 DEF StartCapture, TypeOK
  <2> HIDE DEF msg, tgt
  <2> QED
    BY <1>0, <2>1, <2>2, <2>3, PostFlows, FlowTraffic
<1>8. ASSUME NEW n \in Node, StopCapture(n) PROVE NewTraffic
  <2> DEFINE msg == M("STOP_CAPTURE", n, session[n])
             tgt == Broadcast(n, peerSock, None)
  <2>1. msg \in Msg
    BY <1>8, MType DEF StopCapture, TypeOK, MessageType
  <2>2. \A j \in Conn, m \in Node : <<j, m>> \in tgt => Fresh(msg, m)
    BY <1>8, OutToOthers DEF StopCapture, Fresh, Commands, M
  <2>3. /\ inbox' = Post(inbox, tgt, msg)
        /\ \A j \in Conn, m \in Node : handling'[j][m] \in {None, handling[j][m]}
    BY <1>8 DEF StopCapture, TypeOK
  <2> HIDE DEF msg, tgt
  <2> QED
    BY <1>0, <2>1, <2>2, <2>3, PostFlows, FlowTraffic
<1>9. ASSUME NEW n \in Node, PublishSubmap(n) PROVE NewTraffic
  <2> DEFINE submap == M("CSLAM_SUBMAP_UPDATE", n, session[n])
             tgt == Broadcast(n, peerSock, None)
  <2>1. submap \in Msg
    BY MType DEF TypeOK, MessageType
  <2>2. \A j \in Conn, m \in Node : <<j, m>> \in tgt => Fresh(submap, m) /\ m # n
    BY OutToOthers DEF Fresh, M
  <2>3. /\ inbox' \in {Post(inbox, tgt, submap),
                       SendAlignment(n, Post(inbox, tgt, submap), tgt)}
        /\ handling' = handling
    BY <1>9 DEF PublishSubmap
  <2> HIDE DEF submap, tgt
  <2>4. Flowing(Post(inbox, tgt, submap))
    BY <1>0, <2>1, <2>2, PostFlows
  <2>5. Flowing(SendAlignment(n, Post(inbox, tgt, submap), tgt))
    BY <2>2, <2>4, AlignmentFlows
  <2> QED
    BY <2>3, <2>4, <2>5, FlowTraffic
<1>10. ASSUME NEW n \in Node, Heartbeat(n) PROVE NewTraffic
  <2> DEFINE msg == M("HEARTBEAT", n, session[n])
             tgt == Broadcast(n, peerSock, None)
  <2>1. msg \in Msg
    BY <1>10, MType DEF Heartbeat, TypeOK, MessageType
  <2>2. \A j \in Conn, m \in Node : <<j, m>> \in tgt => Fresh(msg, m)
    BY <1>10, OutToOthers DEF Heartbeat, Fresh, Commands, M
  <2>3. /\ inbox' = Post(inbox, tgt, msg)
        /\ \A j \in Conn, m \in Node : handling'[j][m] \in {None, handling[j][m]}
    BY <1>10 DEF Heartbeat, TypeOK
  <2> HIDE DEF msg, tgt
  <2> QED
    BY <1>0, <2>1, <2>2, <2>3, PostFlows, FlowTraffic
<1>11. ASSUME NEW n \in Node, Restart(n) PROVE NewTraffic
  <2>1. \A j \in Conn, m \in Node : /\ inbox'[j][m] \in {<<>>, inbox[j][m]}
                                     /\ handling'[j][m] \in {None, handling[j][m]}
    BY <1>11 DEF Restart, TypeOK
  <2>2. Contents(<<>>) = {}
    BY DEF Contents
  <2> QED
    BY <2>1, <2>2, QuietTraffic
<1>12. ASSUME NEW k \in Conn, NEW n \in Node, HandleHello(k, n) PROVE NewTraffic
  <2>1. /\ inbox[k][n] # <<>> /\ inbox' = Rest(k, n)
        /\ \A j \in Conn, m \in Node :
             handling'[j][m] \in {None, handling[j][m]} \cup Contents(inbox[j][m])
    BY <1>12 DEF HandleHello, Reads
  <2> QED
    BY <2>1, RestContents, QuietTraffic
<1>13. ASSUME NEW k \in Conn, NEW n \in Node, HandleInvite(k, n) PROVE NewTraffic
  <2>1. /\ inbox[k][n] # <<>> /\ inbox' = Rest(k, n)
        /\ \A j \in Conn, m \in Node :
             handling'[j][m] \in {None, handling[j][m]} \cup Contents(inbox[j][m])
    BY <1>13 DEF HandleInvite, Reads
  <2> QED
    BY <2>1, RestContents, QuietTraffic
<1>14. ASSUME NEW k \in Conn, NEW n \in Node, HandleJoin(k, n) PROVE NewTraffic
  <2>1. /\ inbox[k][n] # <<>> /\ inbox' = Rest(k, n)
        /\ handling' = [handling EXCEPT ![k][n] = Head(inbox[k][n])]
    BY <1>14 DEF HandleJoin, Reads
  <2>2. \A j \in Conn, m \in Node :
          handling'[j][m] \in {None, handling[j][m]} \cup Contents(inbox[j][m])
    BY <2>1, RestContents DEF TypeOK
  <2> QED
    BY <2>1, <2>2, RestContents, QuietTraffic
<1>15. ASSUME NEW k \in Conn, NEW n \in Node, SendSessionStatus(k, n) PROVE NewTraffic
  <2> DEFINE status == M("SESSION_STATUS", n, handling[k][n].sess)
             out == Post(inbox, OutTo(n, k), status)
             tgt == OutTo(n, peerSock[n][handling[k][n].src])
  <2>1. handling[k][n].sess \in Session \cup {None}
    BY <1>15 DEF SendSessionStatus, TypeOK, Msg
  <2>2. status \in Msg
    BY <2>1, MType DEF MessageType
  <2>3. \A j \in Conn, m \in Node :
          /\ <<j, m>> \in OutTo(n, k) => Fresh(status, m)
          /\ <<j, m>> \in tgt => m # n
    BY OutToOthers DEF Fresh, Commands, M
  <2>4. /\ inbox' \in {out, SendAlignment(n, out, tgt)}
        /\ \A j \in Conn, m \in Node : handling'[j][m] \in {None, handling[j][m]}
    BY <1>15 DEF SendSessionStatus, TypeOK
  <2> HIDE DEF status, tgt
  <2>5. Flowing(out)
    BY <1>0, <2>2, <2>3, PostFlows
  <2>6. Flowing(SendAlignment(n, out, tgt))
    BY <2>3, <2>5, AlignmentFlows
  <2> QED
    BY <2>4, <2>5, <2>6, FlowTraffic
<1>16. ASSUME NEW k \in Conn, NEW n \in Node, HandleSessionStatus(k, n) PROVE NewTraffic
  <2>1. /\ inbox[k][n] # <<>> /\ inbox' = Rest(k, n)
        /\ \A j \in Conn, m \in Node :
             handling'[j][m] \in {None, handling[j][m]} \cup Contents(inbox[j][m])
    BY <1>16 DEF HandleSessionStatus, Reads
  <2> QED
    BY <2>1, RestContents, QuietTraffic
<1>17. ASSUME NEW k \in Conn, NEW n \in Node, HandleLeave(k, n) PROVE NewTraffic
  <2>1. /\ inbox[k][n] # <<>> /\ inbox' = Rest(k, n)
        /\ \A j \in Conn, m \in Node :
             handling'[j][m] \in {None, handling[j][m]} \cup Contents(inbox[j][m])
    BY <1>17 DEF HandleLeave, Reads
  <2> QED
    BY <2>1, RestContents, QuietTraffic
<1>18. ASSUME NEW k \in Conn, NEW n \in Node, HandlePrepare(k, n) PROVE NewTraffic
  <2> DEFINE ready == M("READY_FOR_CAPTURE", n, session[n])
             tgt == OutTo(n, CoordLink(n, [peerSock EXCEPT ![n][Source(k, n)] = k]))
  <2>1. /\ inbox[k][n] # <<>> /\ inbox' = Post(Rest(k, n), tgt, ready)
        /\ handling' = handling
    BY <1>18 DEF HandlePrepare, Reads
  <2>2. ready \in Msg
    BY MType DEF TypeOK, MessageType
  <2>3. \A j \in Conn, m \in Node : <<j, m>> \in tgt => Fresh(ready, m)
    BY OutToOthers DEF Fresh, Commands, M
  <2>4. Flowing(Rest(k, n))
    BY <2>1, RestFlows
  <2> HIDE DEF ready, tgt
  <2>5. Flowing(inbox')
    BY <2>1, <2>2, <2>3, <2>4, PostFlows
  <2> QED
    BY <2>1, <2>5, FlowTraffic DEF TypeOK
<1>19. ASSUME NEW k \in Conn, NEW n \in Node, HandleReady(k, n) PROVE NewTraffic
  <2>1. /\ inbox[k][n] # <<>> /\ inbox' = Rest(k, n)
        /\ \A j \in Conn, m \in Node :
             handling'[j][m] \in {None, handling[j][m]} \cup Contents(inbox[j][m])
    BY <1>19 DEF HandleReady, Reads
  <2> QED
    BY <2>1, RestContents, QuietTraffic
<1>20. ASSUME NEW k \in Conn, NEW n \in Node, NEW t \in MessageType, HandleCommand(k, n, t) PROVE NewTraffic
  <2>1. /\ inbox[k][n] # <<>> /\ inbox' = Rest(k, n)
        /\ handling' = [handling EXCEPT ![k][n] = Head(inbox[k][n])]
    BY <1>20 DEF HandleCommand, Reads
  <2>2. \A j \in Conn, m \in Node :
          handling'[j][m] \in {None, handling[j][m]} \cup Contents(inbox[j][m])
    BY <2>1, RestContents DEF TypeOK
  <2> QED
    BY <2>1, <2>2, RestContents, QuietTraffic
<1>21. ASSUME NEW k \in Conn, NEW n \in Node, ExecuteStart(k, n) PROVE NewTraffic
  BY <1>21, QuietTraffic DEF ExecuteStart, TypeOK
<1>22. ASSUME NEW k \in Conn, NEW n \in Node, ExecuteStop(k, n) PROVE NewTraffic
  BY <1>22, QuietTraffic DEF ExecuteStop, TypeOK
<1>23. ASSUME NEW k \in Conn, NEW n \in Node, Discard(k, n) PROVE NewTraffic
  <2>1. /\ inbox[k][n] # <<>> /\ inbox' = Rest(k, n)
        /\ \A j \in Conn, m \in Node :
             handling'[j][m] \in {None, handling[j][m]} \cup Contents(inbox[j][m])
    BY <1>23 DEF Discard, Reads, nodeVars
  <2> QED
    BY <2>1, RestContents, QuietTraffic
<1>24. ASSUME NEW k \in Conn, NEW n \in Node, HandleSubmap(k, n) PROVE NewTraffic
  <2> DEFINE ps == [peerSock EXCEPT ![n][Source(k, n)] = k]
             all == Broadcast(n, ps, None)
             out == SendAlignment(n, Rest(k, n), all)
             msg == Head(inbox[k][n])
             relay == Broadcast(n, ps, Source(k, n))
  <2>1. /\ inbox[k][n] # <<>> /\ inbox' \in {Rest(k, n), Post(out, relay, msg)}
        /\ handling' = handling /\ msg.type = "CSLAM_SUBMAP_UPDATE"
    BY <1>24 DEF HandleSubmap, Reads
  <2>2. msg \in Msg
    BY <2>1, ReadType
  <2>3. \A j \in Conn, m \in Node :
          (<<j, m>> \in relay => Fresh(msg, m)) /\ (<<j, m>> \in all => m # n)
    BY <2>1, OutToOthers DEF Fresh
  <2>4. Flowing(Rest(k, n))
    BY <2>1, RestFlows
  <2> HIDE DEF msg, all, relay
  <2>5. Flowing(out)
    BY <2>3, <2>4, AlignmentFlows
  <2>6. Flowing(Post(out, relay, msg))
    BY <2>2, <2>3, <2>5, PostFlows
  <2> QED
    BY <2>1, <2>4, <2>6, FlowTraffic
<1>25. ASSUME NEW k \in Conn, NEW n \in Node, HandleHeartbeat(k, n) PROVE NewTraffic
  <2>1. /\ inbox[k][n] # <<>> /\ inbox' = Rest(k, n)
        /\ \A j \in Conn, m \in Node :
             handling'[j][m] \in {None, handling[j][m]} \cup Contents(inbox[j][m])
    BY <1>25 DEF HandleHeartbeat, Reads
  <2> QED
    BY <2>1, RestContents, QuietTraffic
<1>26. ASSUME NEW k \in Conn, NEW n \in Node, WorkerExit(k, n) PROVE NewTraffic
  <2>1. /\ handling' = handling
        /\ \A j \in Conn, m \in Node : inbox'[j][m] \in {<<>>, inbox[j][m]}
    BY <1>26 DEF WorkerExit, TypeOK
  <2>2. Contents(<<>>) = {}
    BY DEF Contents
  <2> QED
    BY <2>1, <2>2, QuietTraffic
<1>27. ASSUME NEW k \in Conn, NetworkDrop(k) PROVE NewTraffic
  BY <1>27, QuietTraffic DEF NetworkDrop
<1>28. ASSUME NEW n \in Node, TriggerOverlapEvaluation(n) PROVE NewTraffic
  <2> DEFINE tgt == Broadcast(n, peerSock, None)
  <2>1. /\ inbox' = SendAlignment(n, inbox, tgt) /\ handling' = handling
        /\ \A j \in Conn, m \in Node : <<j, m>> \in tgt => m # n
    BY <1>28, OutToOthers DEF TriggerOverlapEvaluation
  <2> HIDE DEF tgt
  <2> QED
    BY <1>0, <2>1, AlignmentFlows, FlowTraffic
<1>29. ASSUME NEW k \in Conn, NEW n \in Node, HandleAlignment(k, n) PROVE NewTraffic
  <2>1. /\ inbox[k][n] # <<>> /\ inbox' = Rest(k, n)
        /\ handling' = handling
    BY <1>29 DEF HandleAlignment, Reads
  <2> QED
    BY <2>1, RestFlows, FlowTraffic
<1>30. CASE UNCHANGED vars
  BY <1>30, QuietTraffic DEF vars, connVars
<1> QED
  BY <1>1, <1>2, <1>3, <1>4, <1>5, <1>6, <1>7, <1>8, <1>9, <1>10, <1>11, <1>12, <1>13, <1>14, <1>15, <1>16, <1>17, <1>18, <1>19, <1>20, <1>21, <1>22, <1>23, <1>24, <1>25, <1>26, <1>27, <1>28, <1>29, <1>30
  DEF Next, User, Worker

-----------------------------------------------------------------------------
(* Authority.                                                              *)

\* Who may act: a coordinator created its session, sessions in use have been
\* created, and a coordinator is in its own table.
Roster ==
  \A n \in Node :
    /\ IsCoordinator(n) => Owner[session[n]] = n /\ members[n][n] # None
    /\ {session[n], joining[n]} \subseteq created \cup {None}

\* What is in flight: submaps apart, only messages of other nodes, and the
\* commands among them name a session their source owns.
Lawful(msg, n) ==
  \/ msg.type = "CSLAM_SUBMAP_UPDATE"
  \/ /\ msg.src # n
     /\ msg.type \in Commands => msg.sess # None /\ msg.src = Owner[msg.sess]
LawfulTraffic ==
  \A k \in Conn, n \in Node : \A msg \in InFlight(k, n) : Lawful(msg, n)

Authority == TypeOK /\ Roster /\ LawfulTraffic

LEMMA InitAuthority == Init => Authority
<1> SUFFICES ASSUME Init PROVE Roster /\ LawfulTraffic
  BY InitType DEF Authority
<1>1. Roster
  BY DEF Init, Roster, IsCoordinator
<1>2. \A k \in Conn, n \in Node : InFlight(k, n) = {}
  <2>1. Contents(<<>>) = {}
    BY DEF Contents
  <2>2. \A k \in Conn, n \in Node : inbox[k][n] = <<>> /\ handling[k][n] = None
    BY DEF Init
  <2> QED
    BY <2>1, <2>2, InFlightIs
<1>3. LawfulTraffic
  BY <1>2 DEF LawfulTraffic
<1> QED
  BY <1>1, <1>3

\* The source of what n is about to read, unless it is a submap, is not n.
LEMMA ReadsFromOthers ==
  ASSUME Authority, NEW k \in Conn, NEW n \in Node, NEW t, Reads(k, n, t),
         t # "CSLAM_SUBMAP_UPDATE"
  PROVE  Source(k, n) \in Node \ {n}
<1>1. TypeOK /\ inbox[k][n] # <<>>
  BY DEF Authority, Reads
<1>2. Head(inbox[k][n]) \in InFlight(k, n) /\ Source(k, n) \in Node
  BY <1>1, RestContents, ReadType, InFlightIs
<1> QED
  BY <1>2 DEF Authority, LawfulTraffic, Lawful, Reads, Source

LEMMA NextLawful == Authority /\ [Next]_vars => LawfulTraffic'
<1> SUFFICES ASSUME Authority, [Next]_vars,
                    NEW k \in Conn, NEW n \in Node, NEW x \in InFlight(k, n)'
             PROVE  Lawful(x, n)
  BY DEF LawfulTraffic, Lawful
<1>1. x \in InFlight(k, n) \/ Fresh(x, n)
  BY Traffic DEF Authority, NewTraffic
<1>2. CASE x \in InFlight(k, n)
  BY <1>2 DEF Authority, LawfulTraffic
<1>3. CASE Fresh(x, n)
  BY <1>3 DEF Fresh, Lawful, Authority, Roster, IsCoordinator, Commands
<1> QED
  BY <1>1, <1>2, <1>3

LEMMA NextRoster == Authority /\ [Next]_vars => Roster'
<1> SUFFICES ASSUME Authority, [Next]_vars PROVE Roster'
  OBVIOUS
<1> USE DEF Roster, IsCoordinator
<1>1. ASSUME NEW n \in Node, NEW s \in Session, CreateSession(n, s) PROVE Roster'
  <2>1. /\ session' = [session EXCEPT ![n] = s]
        /\ role' = [role EXCEPT ![n] = "SESSION_COORDINATOR"]
        /\ joining' = joining /\ created' = created \cup {s} /\ Owner[s] = n
    BY <1>1 DEF CreateSession, sockVars
  <2>2. /\ members'[n][n] \in Member
        /\ \A m \in Node \ {n} : members'[m] = members[m]
    BY <1>1, NewMemberType DEF CreateSession, Authority, TypeOK, Member
  <2>3. members'[n][n] # None
    BY <2>2, NoneFresh
  <2> QED
    BY <2>1, <2>2, <2>3 DEF Authority, TypeOK
<1>2. ASSUME NEW n \in Node, NEW m \in Node, InvitePeer(n, m) PROVE Roster'
  BY <1>2 DEF InvitePeer, Authority, TypeOK, nodeVars
<1>3. ASSUME NEW n \in Node, NEW s \in Session, ConnectToCoordinator(n, s) PROVE Roster'
  BY <1>3 DEF ConnectToCoordinator, Authority, TypeOK
<1>4. ASSUME NEW n \in Node, AcceptSessionInvite(n) PROVE Roster'
  BY <1>4 DEF AcceptSessionInvite, Authority, TypeOK
<1>5. ASSUME NEW n \in Node, LeaveSession(n) PROVE Roster'
  BY <1>5 DEF LeaveSession, Authority, TypeOK, sockVars
<1>6. ASSUME NEW n \in Node, PrepareCapture(n) PROVE Roster'
  BY <1>6 DEF PrepareCapture, Authority, TypeOK, sockVars
<1>7. ASSUME NEW n \in Node, StartCapture(n) PROVE Roster'
  <2>1. members' = [members EXCEPT ![n] = AllIn(n, "CAPTURING")]
    BY <1>7 DEF StartCapture
  <2>2. members[n][n] # None => AllIn(n, "CAPTURING")[n] # None
    <3>1. "CAPTURING" \in CaptureStates
      BY DEF CaptureStates
    <3>2. members[n][n] # None =>
            [members[n][n] EXCEPT !.state = "CAPTURING"] \in Member
      BY <3>1, EntryType DEF Authority
    <3> QED
      BY <3>2, NoneFresh DEF AllIn
  <2> QED
    BY <1>7, <2>1, <2>2 DEF StartCapture, Authority, TypeOK, sockVars
<1>8. ASSUME NEW n \in Node, StopCapture(n) PROVE Roster'
  <2>1. members' = [members EXCEPT ![n] = AllIn(n, "STOPPED")]
    BY <1>8 DEF StopCapture
  <2>2. members[n][n] # None => AllIn(n, "STOPPED")[n] # None
    <3>1. "STOPPED" \in CaptureStates
      BY DEF CaptureStates
    <3>2. members[n][n] # None =>
            [members[n][n] EXCEPT !.state = "STOPPED"] \in Member
      BY <3>1, EntryType DEF Authority
    <3> QED
      BY <3>2, NoneFresh DEF AllIn
  <2> QED
    BY <1>8, <2>1, <2>2 DEF StopCapture, Authority, TypeOK, sockVars
<1>9. ASSUME NEW n \in Node, PublishSubmap(n) PROVE Roster'
  BY <1>9 DEF PublishSubmap, Authority, TypeOK, nodeVars, sockVars
<1>10. ASSUME NEW n \in Node, Heartbeat(n) PROVE Roster'
  BY <1>10 DEF Heartbeat, Authority, TypeOK, nodeVars, sockVars
<1>11. ASSUME NEW n \in Node, Restart(n) PROVE Roster'
  BY <1>11 DEF Restart, Authority, TypeOK
<1>12. ASSUME NEW k \in Conn, NEW n \in Node, HandleHello(k, n) PROVE Roster'
  BY <1>12, ReadsFromOthers DEF HandleHello, Authority, TypeOK
<1>13. ASSUME NEW k \in Conn, NEW n \in Node, HandleInvite(k, n) PROVE Roster'
  BY <1>13 DEF HandleInvite, Authority, TypeOK
<1>14. ASSUME NEW k \in Conn, NEW n \in Node, HandleJoin(k, n) PROVE Roster'
  BY <1>14, ReadsFromOthers DEF HandleJoin, Authority, TypeOK
<1>15. ASSUME NEW k \in Conn, NEW n \in Node, SendSessionStatus(k, n) PROVE Roster'
  BY <1>15 DEF SendSessionStatus, Authority, TypeOK, nodeVars, sockVars
<1>16. ASSUME NEW k \in Conn, NEW n \in Node, HandleSessionStatus(k, n) PROVE Roster'
  BY <1>16 DEF HandleSessionStatus, Authority, TypeOK
<1>17. ASSUME NEW k \in Conn, NEW n \in Node, HandleLeave(k, n) PROVE Roster'
  BY <1>17, ReadsFromOthers DEF HandleLeave, Authority, TypeOK
<1>18. ASSUME NEW k \in Conn, NEW n \in Node, HandlePrepare(k, n) PROVE Roster'
  BY <1>18 DEF HandlePrepare, Authority, TypeOK, nodeVars
<1>19. ASSUME NEW k \in Conn, NEW n \in Node, HandleReady(k, n) PROVE Roster'
  BY <1>19, ReadsFromOthers DEF HandleReady, Authority, TypeOK
<1>20. ASSUME NEW k \in Conn, NEW n \in Node, NEW t \in MessageType, HandleCommand(k, n, t) PROVE Roster'
  BY <1>20 DEF HandleCommand, Authority, TypeOK, nodeVars
<1>21. ASSUME NEW k \in Conn, NEW n \in Node, ExecuteStart(k, n) PROVE Roster'
  BY <1>21 DEF ExecuteStart, Authority, TypeOK, sockVars
<1>22. ASSUME NEW k \in Conn, NEW n \in Node, ExecuteStop(k, n) PROVE Roster'
  BY <1>22 DEF ExecuteStop, Authority, TypeOK, sockVars
<1>23. ASSUME NEW k \in Conn, NEW n \in Node, Discard(k, n) PROVE Roster'
  BY <1>23 DEF Discard, Authority, TypeOK, nodeVars
<1>24. ASSUME NEW k \in Conn, NEW n \in Node, HandleSubmap(k, n) PROVE Roster'
  BY <1>24 DEF HandleSubmap, Authority, TypeOK, nodeVars
<1>25. ASSUME NEW k \in Conn, NEW n \in Node, HandleHeartbeat(k, n) PROVE Roster'
  BY <1>25, ReadsFromOthers DEF HandleHeartbeat, Authority, TypeOK
<1>26. ASSUME NEW k \in Conn, NEW n \in Node, WorkerExit(k, n) PROVE Roster'
  <2>1. UNCHANGED <<session, role, joining, created>>
    BY <1>26 DEF WorkerExit
  <2>2. ASSUME NEW m \in Node, members[m][m] # None PROVE members'[m][m] # None
    <3>1. CASE members' = members
      BY <2>2, <3>1
    <3>2. CASE members' # members
      <4>1. /\ assoc[k][n] \in Node
            /\ members' = [members EXCEPT ![n][assoc[k][n]] =
                 IF members[n][assoc[k][n]] = None THEN None
                 ELSE [members[n][assoc[k][n]] EXCEPT !.connected = FALSE]]
        BY <1>26, <3>2 DEF WorkerExit, Authority, TypeOK
      <4>2. members[n][assoc[k][n]] # None =>
              [members[n][assoc[k][n]] EXCEPT !.connected = FALSE] # None
        <5>1. members[n][assoc[k][n]] # None =>
                [members[n][assoc[k][n]] EXCEPT !.connected = FALSE] \in Member
          BY <4>1, EntryType DEF Authority
        <5> QED
          BY <5>1, NoneFresh
      <4>3. members \in [Node -> [Node -> Member \cup {None}]]
        BY DEF Authority, TypeOK
      <4>4. CASE m = n /\ m = assoc[k][n]
        BY <2>2, <4>1, <4>2, <4>3, <4>4
      <4>5. CASE ~(m = n /\ m = assoc[k][n])
        BY <2>2, <4>1, <4>3, <4>5
      <4> QED
        BY <4>4, <4>5
    <3> QED
      BY <3>1, <3>2
  <2> QED
    BY <2>1, <2>2 DEF Authority
<1>27. ASSUME NEW k \in Conn, NetworkDrop(k) PROVE Roster'
  BY <1>27 DEF NetworkDrop, Authority, TypeOK, nodeVars, sockVars
<1>28. ASSUME NEW n \in Node, TriggerOverlapEvaluation(n) PROVE Roster'
  BY <1>28 DEF TriggerOverlapEvaluation, Authority, TypeOK, nodeVars, sockVars
<1>29. ASSUME NEW k \in Conn, NEW n \in Node, HandleAlignment(k, n) PROVE Roster'
  BY <1>29 DEF HandleAlignment, Authority, TypeOK, nodeVars
<1>30. CASE UNCHANGED vars
  BY <1>30 DEF Authority, vars, nodeVars, sockVars
<1> QED
  BY <1>1, <1>2, <1>3, <1>4, <1>5, <1>6, <1>7, <1>8, <1>9, <1>10, <1>11, <1>12, <1>13, <1>14, <1>15, <1>16, <1>17, <1>18, <1>19, <1>20, <1>21, <1>22, <1>23, <1>24, <1>25, <1>26, <1>27, <1>28, <1>29, <1>30
  DEF Next, User, Worker

THEOREM AuthorityHolds == Spec => []Authority
<1>1. Init => Authority
  BY InitAuthority
<1>2. Authority /\ [Next]_vars => Authority'
  BY NextType, NextRoster, NextLawful DEF Authority
<1> QED
  BY <1>1, <1>2, PTL DEF Spec

\* Only the node that created a session ever commands its captures.
THEOREM OwnerAuthority == Spec => []OnlyOwnerCommands
<1>1. Authority => OnlyOwnerCommands
  BY DEF Authority, Roster, LawfulTraffic, Lawful, OnlyOwnerCommands, Commands
<1> QED
  BY <1>1, AuthorityHolds, PTL

-----------------------------------------------------------------------------
(* Capture follows commands.                                               *)

\* Only these seven actions assign is_capturing_.
LEMMA CapturingSteps ==
  ASSUME [Next]_vars, capturing' # capturing
  PROVE  \/ \E n \in Node, s \in Session : CreateSession(n, s)
         \/ \E n \in Node : LeaveSession(n) \/ StartCapture(n) \/ StopCapture(n) \/ Restart(n)
         \/ \E k \in Conn, n \in Node : ExecuteStart(k, n) \/ ExecuteStop(k, n)
<1>1. ~ UNCHANGED vars
  BY DEF vars, nodeVars
<1>2. ASSUME NEW n \in Node PROVE
        /\ \A m \in Node : ~ InvitePeer(n, m)
        /\ \A s \in Session : ~ ConnectToCoordinator(n, s)
        /\ ~ AcceptSessionInvite(n) /\ ~ PrepareCapture(n)
        /\ ~ PublishSubmap(n) /\ ~ TriggerOverlapEvaluation(n) /\ ~ Heartbeat(n)
  BY DEF nodeVars, TriggerOverlapEvaluation, InvitePeer, ConnectToCoordinator, AcceptSessionInvite,
         PrepareCapture, PublishSubmap, Heartbeat
<1>3. ASSUME NEW k \in Conn, NEW n \in Node PROVE
        /\ ~ HandleHello(k, n) /\ ~ HandleInvite(k, n) /\ ~ HandleJoin(k, n)
        /\ ~ SendSessionStatus(k, n) /\ ~ HandleSessionStatus(k, n)
        /\ ~ HandleLeave(k, n) /\ ~ HandlePrepare(k, n) /\ ~ HandleReady(k, n)
  BY DEF nodeVars, HandleHello, HandleInvite, HandleJoin, SendSessionStatus,
         HandleSessionStatus, HandleLeave, HandlePrepare, HandleReady
<1>4. ASSUME NEW k \in Conn, NEW n \in Node PROVE
        /\ ~ \E t \in MessageType : HandleCommand(k, n, t)
        /\ ~ Discard(k, n) /\ ~ HandleSubmap(k, n) /\ ~ HandleAlignment(k, n)
        /\ ~ HandleHeartbeat(k, n)
        /\ ~ WorkerExit(k, n)
  <2>1. /\ ~ \E t \in MessageType : HandleCommand(k, n, t)
        /\ ~ Discard(k, n) /\ ~ HandleSubmap(k, n) /\ ~ HandleAlignment(k, n)
    BY DEF nodeVars, HandleCommand, Discard, HandleSubmap, HandleAlignment
  <2>2. ~ HandleHeartbeat(k, n)
    BY DEF HandleHeartbeat
  <2>3. ~ WorkerExit(k, n)
    BY DEF WorkerExit
  <2> QED
    BY <2>1, <2>2, <2>3
<1>5. ASSUME NEW n \in Node, User(n)
      PROVE  \/ \E s \in Session : CreateSession(n, s)
             \/ LeaveSession(n) \/ StartCapture(n) \/ StopCapture(n)
  BY <1>2, <1>5 DEF User
<1>6. ASSUME NEW k \in Conn, NEW n \in Node, Worker(k, n)
      PROVE  ExecuteStart(k, n) \/ ExecuteStop(k, n)
  BY <1>3, <1>4, <1>6 DEF Worker
<1>7. ASSUME NEW k \in Conn PROVE ~ NetworkDrop(k)
  BY DEF nodeVars, NetworkDrop
<1> QED
  BY <1>1, <1>2, <1>4, <1>5, <1>6, <1>7 DEF Next

\* A command about to be executed comes from the owner of its session.
LEMMA HeldCommand ==
  ASSUME Authority, NEW k \in Conn, NEW n \in Node, handling[k][n] # None,
         handling[k][n].type \in Commands
  PROVE  handling[k][n].src = Owner[handling[k][n].sess]
<1>1. handling[k][n] \in InFlight(k, n)
  BY InFlightIs
<1> QED
  BY <1>1 DEF Authority, LawfulTraffic, Lawful, Commands

LEMMA NextCapture == Authority /\ [Next]_vars => CaptureStep
<1> SUFFICES ASSUME Authority, [Next]_vars, capturing' # capturing
             PROVE  CaptureStep
  BY DEF CaptureStep
<1> USE DEF CaptureStep
<1>1. ASSUME NEW n \in Node, NEW s \in Session, CreateSession(n, s)
      PROVE  CaptureStep
  <2>1. session'[n] # session[n]
    BY <1>1, NoneFresh DEF CreateSession, Authority, TypeOK, Roster
  <2> QED
    BY <1>1, <2>1 DEF CreateSession, Authority, TypeOK
<1>2. ASSUME NEW n \in Node, LeaveSession(n) PROVE CaptureStep
  BY <1>2 DEF LeaveSession, Authority, TypeOK
<1>3. ASSUME NEW n \in Node, StartCapture(n) PROVE CaptureStep
  BY <1>3 DEF StartCapture, Authority, TypeOK
<1>4. ASSUME NEW n \in Node, StopCapture(n) PROVE CaptureStep
  <2>1. members'[n][n].state = "STOPPED"
    <3>1. members[n][n] \in Member
      BY <1>4, EntryType DEF StopCapture, Authority, Roster
    <3>2. members'[n] = AllIn(n, "STOPPED") /\ members[n][n] # None
      BY <1>4 DEF StopCapture, Authority, TypeOK, Roster
    <3> QED
      BY <3>1, <3>2 DEF AllIn, Member
  <2> QED
    BY <1>4, <2>1 DEF StopCapture, Authority, TypeOK
<1>5. ASSUME NEW n \in Node, Restart(n) PROVE CaptureStep
  BY <1>5 DEF Restart, Authority, TypeOK
<1>6. ASSUME NEW k \in Conn, NEW n \in Node, ExecuteStart(k, n) PROVE CaptureStep
  <2>1. Executes(n, "START_CAPTURE")
    BY <1>6, HeldCommand DEF ExecuteStart, Executes, Commands, Authority, TypeOK
  <2> QED
    BY <1>6, <2>1 DEF ExecuteStart, Authority, TypeOK
<1>7. ASSUME NEW k \in Conn, NEW n \in Node, ExecuteStop(k, n) PROVE CaptureStep
  <2>1. Executes(n, "STOP_CAPTURE")
    BY <1>7, HeldCommand DEF ExecuteStop, Executes, Commands, Authority, TypeOK
  <2> QED
    BY <1>7, <2>1 DEF ExecuteStop, Authority, TypeOK
<1> QED
  BY <1>1, <1>2, <1>3, <1>4, <1>5, <1>6, <1>7, CapturingSteps

\* Nothing but a command of the session's owner, a change of session or a
\* restart ever changes is_capturing_: not a lost connection, not a late
\* worker, not a reconnection.
THEOREM NetworkFailureIsNotCaptureFailure == Spec => CaptureFollowsCommands
<1>1. Authority /\ [Next]_vars => [CaptureStep]_vars
  BY NextCapture
<1> QED
  BY <1>1, AuthorityHolds, PTL DEF Spec, CaptureFollowsCommands

-----------------------------------------------------------------------------
(* The start and stop commands in a queue.                                 *)

UpTo(f, q, m) ==
  f = [i \in 0..m |-> IF i = 0 THEN <<>>
                      ELSE IF IsFlip(q[i]) THEN Append(f[i - 1], Flip(q[i])) ELSE f[i - 1]]

\* The recursive definition defines something.
LEMMA CanCount ==
  ASSUME NEW q, NEW n \in Nat
  PROVE  \E f : UpTo(f, q, n)
<1> DEFINE I == {m \in 1..n : ~\E f : UpTo(f, q, m)}
<1>1. \E f : UpTo(f, q, 0)
  <2> DEFINE f == [i \in 0..0 |-> <<>>]
  <2>1. UpTo(f, q, 0)
    BY DEF UpTo
  <2> QED
    BY <2>1
<1> SUFFICES ASSUME I # {}
             PROVE  FALSE
  BY <1>1
<1>2. PICK m \in I : \A j \in I : m <= j
  <2> HIDE DEF I
  <2>1. I \in SUBSET (1..n)
    BY DEF I
  <2> QED
    BY <2>1, FirstPosition
<1>3. \E f : UpTo(f, q, m - 1)
  <2>1. CASE m = 1
    BY <1>1, <2>1
  <2>2. CASE m # 1
    BY <1>2, <2>2
  <2> QED
    BY <2>1, <2>2
<1>4. PICK g : UpTo(g, q, m - 1)
  BY <1>3
<1> DEFINE f == [i \in 0..m |-> IF i = m THEN IF IsFlip(q[m]) THEN Append(g[m - 1], Flip(q[m])) ELSE g[m - 1]
                                ELSE g[i]]
<1>5. m \in 1..n
  BY <1>2
<1>6. f = [i \in 0..m |-> IF i = 0 THEN <<>>
                          ELSE IF IsFlip(q[i]) THEN Append(f[i - 1], Flip(q[i])) ELSE f[i - 1]]
  <2>1. ASSUME NEW i \in 0..m
        PROVE  f[i] = IF i = 0 THEN <<>>
                      ELSE IF IsFlip(q[i]) THEN Append(f[i - 1], Flip(q[i])) ELSE f[i - 1]
    <3>1. CASE i = m
      <4>1. m - 1 \in 0..m /\ m - 1 # m
        BY <1>5
      <4>2. f[i - 1] = g[m - 1]
        BY <3>1, <4>1
      <4> QED
        BY <1>5, <3>1, <4>2
    <3>2. CASE i # m
      <4>1. i \in 0..(m - 1) /\ f[i] = g[i]
        BY <1>5, <3>2
      <4>2. i # 0 => i - 1 \in 0..m /\ i - 1 # m
        BY <1>5, <3>2
      <4>3. i # 0 => f[i - 1] = g[i - 1]
        BY <4>2
      <4>4. g[i] = IF i = 0 THEN <<>>
                   ELSE IF IsFlip(q[i]) THEN Append(g[i - 1], Flip(q[i])) ELSE g[i - 1]
        BY <1>4, <4>1, Zenon DEF UpTo
      <4> HIDE DEF f
      <4> QED
        BY <4>1, <4>3, <4>4
    <3> QED
      BY <3>1, <3>2
  <2>2. f = [i \in 0..m |-> f[i]]
    OBVIOUS
  <2> HIDE DEF f
  <2> QED
    BY <2>1, <2>2
<1>7. UpTo(f, q, m)
  <2> HIDE DEF f
  <2> QED
    BY <1>6 DEF UpTo
<1> QED
  BY <1>2, <1>7

LEMMA FlipsAre ==
  ASSUME NEW q, Len(q) \in Nat
  PROVE  \E f : UpTo(f, q, Len(q)) /\ Flips(q) = f[Len(q)]
<1> DEFINE f[i \in 0..Len(q)] == IF i = 0 THEN <<>>
                                 ELSE IF IsFlip(q[i]) THEN Append(f[i - 1], Flip(q[i])) ELSE f[i - 1]
<1>1. Flips(q) = f[Len(q)]
  BY DEF Flips
<1>2. \E g : UpTo(g, q, Len(q))
  BY CanCount
<1>3. UpTo(f, q, Len(q))
  BY <1>2 DEF UpTo
<1> HIDE DEF f
<1> QED
  BY <1>1, <1>3

\* The value at a position, from the one before.
LEMMA FlipsZero ==
  ASSUME NEW q, NEW n \in Nat, NEW f, UpTo(f, q, n)
  PROVE  f[0] = <<>>
<1>1. 0 \in 0..n
  OBVIOUS
<1>2. \A i \in 0..n : f[i] = IF i = 0 THEN <<>>
                             ELSE IF IsFlip(q[i]) THEN Append(f[i - 1], Flip(q[i])) ELSE f[i - 1]
  BY Zenon DEF UpTo
<1> QED
  BY <1>1, <1>2

LEMMA FlipsStep ==
  ASSUME NEW q, NEW n \in Nat, NEW f, UpTo(f, q, n), NEW i \in 1..n
  PROVE  /\ IsFlip(q[i]) => f[i] = Append(f[i - 1], Flip(q[i]))
         /\ ~IsFlip(q[i]) => f[i] = f[i - 1]
<1>1. i \in 0..n /\ i # 0
  OBVIOUS
<1>2. \A j \in 0..n : f[j] = IF j = 0 THEN <<>>
                             ELSE IF IsFlip(q[j]) THEN Append(f[j - 1], Flip(q[j])) ELSE f[j - 1]
  BY Zenon DEF UpTo
<1> QED
  BY <1>1, <1>2

LEMMA FlipBoolean == \A x : Flip(x) \in BOOLEAN
BY DEF Flip

LEMMA AppendFlip ==
  ASSUME NEW s \in Seq(BOOLEAN), NEW x
  PROVE  Append(s, Flip(x)) \in Seq(BOOLEAN)
<1>1. PICK b \in BOOLEAN : b = Flip(x)
  BY FlipBoolean
<1>2. Append(s, b) \in Seq(BOOLEAN)
  OBVIOUS
<1> QED
  BY <1>1, <1>2, Zenon

LEMMA CountsType ==
  ASSUME NEW q, NEW n \in Nat, NEW f, UpTo(f, q, n)
  PROVE  \A i \in 0..n : f[i] \in Seq(BOOLEAN)
<1> DEFINE I == {m \in 1..n : f[m] \notin Seq(BOOLEAN)}
<1>1. f[0] \in Seq(BOOLEAN)
  <2>1. f[0] = <<>>
    BY FlipsZero
  <2> QED
    BY <2>1
<1> SUFFICES ASSUME I # {}
             PROVE  FALSE
  BY <1>1
<1>2. PICK m \in I : \A j \in I : m <= j
  <2> HIDE DEF I
  <2>1. I \in SUBSET (1..n)
    BY DEF I
  <2> QED
    BY <2>1, FirstPosition
<1>3. f[m - 1] \in Seq(BOOLEAN)
  <2>1. CASE m = 1
    BY <1>1, <2>1
  <2>2. CASE m # 1
    BY <1>2, <2>2
  <2> QED
    BY <2>1, <2>2
<1>4. m \in 1..n /\ f[m] \notin Seq(BOOLEAN)
  BY <1>2
<1>5. Append(f[m - 1], Flip(q[m])) \in Seq(BOOLEAN)
  BY <1>3, AppendFlip
<1> QED
  <2>1. /\ IsFlip(q[m]) => f[m] = Append(f[m - 1], Flip(q[m]))
        /\ ~IsFlip(q[m]) => f[m] = f[m - 1]
    BY <1>4, FlipsStep
  <2> QED
    BY <1>3, <1>4, <1>5, <2>1, Zenon

LEMMA FlipsType ==
  ASSUME NEW q, Len(q) \in Nat
  PROVE  Flips(q) \in Seq(BOOLEAN)
<1>1. PICK f : UpTo(f, q, Len(q)) /\ Flips(q) = f[Len(q)]
  BY FlipsAre
<1> QED
  BY <1>1, CountsType

\* A queue without commands.
LEMMA NoFlips ==
  ASSUME NEW q, Len(q) \in Nat, \A i \in 1..Len(q) : ~IsFlip(q[i])
  PROVE  Flips(q) = <<>>
<1>1. PICK f : UpTo(f, q, Len(q)) /\ Flips(q) = f[Len(q)]
  BY FlipsAre
<1>2. PICK n \in Nat : n = Len(q)
  OBVIOUS
<1> DEFINE I == {m \in 1..n : f[m] # <<>>}
<1>3. f[0] = <<>>
  BY <1>1, <1>2, FlipsZero
<1> SUFFICES ASSUME I # {}
             PROVE  FALSE
  BY <1>1, <1>2, <1>3
<1>4. PICK m \in I : \A j \in I : m <= j
  <2> HIDE DEF I
  <2>1. I \in SUBSET (1..n)
    BY DEF I
  <2> QED
    BY <2>1, FirstPosition
<1>5. f[m - 1] = <<>>
  <2>1. CASE m = 1
    BY <1>3, <2>1
  <2>2. CASE m # 1
    BY <1>4, <2>2
  <2> QED
    BY <2>1, <2>2
<1> QED
  <2>1. m \in 1..n /\ f[m] # <<>> /\ ~IsFlip(q[m])
    BY <1>2, <1>4
  <2>2. /\ IsFlip(q[m]) => f[m] = Append(f[m - 1], Flip(q[m]))
        /\ ~IsFlip(q[m]) => f[m] = f[m - 1]
    BY <1>1, <1>2, <2>1, FlipsStep
  <2> QED
    BY <1>5, <2>1, <2>2, Zenon

\* A message that is written goes to the end.
LEMMA FlipsAppend ==
  ASSUME NEW S, NEW q \in Seq(S), NEW x \in S
  PROVE  /\ IsFlip(x) => Flips(Append(q, x)) = Append(Flips(q), Flip(x))
         /\ ~IsFlip(x) => Flips(Append(q, x)) = Flips(q)
<1>1. PICK r : r = Append(q, x)
  OBVIOUS
<1>2. PICK n \in Nat : n = Len(q)
  OBVIOUS
<1>3. Len(r) = n + 1 /\ r[n + 1] = x /\ \A i \in 1..n : r[i] = q[i]
  BY <1>1, <1>2
<1>4. PICK f : UpTo(f, q, n) /\ Flips(q) = f[n]
  BY <1>2, FlipsAre
<1>5. PICK g : UpTo(g, r, n + 1) /\ Flips(r) = g[n + 1]
  BY <1>3, FlipsAre
<1>6. f[0] = g[0]
  <2>1. n + 1 \in Nat
    OBVIOUS
  <2>2. g[0] = <<>>
    BY <1>5, <2>1, FlipsZero
  <2> QED
    BY <1>4, <2>2, FlipsZero
<1>7. g[n] = f[n]
  <2> DEFINE I == {m \in 1..n : f[m] # g[m]}
  <2> SUFFICES ASSUME I # {}
               PROVE  FALSE
    BY <1>6
  <2>1. PICK m \in I : \A j \in I : m <= j
    <3> HIDE DEF I
    <3>1. I \in SUBSET (1..n)
      BY DEF I
    <3> QED
      BY <3>1, FirstPosition
  <2>2. f[m - 1] = g[m - 1]
    <3>1. CASE m = 1
      BY <1>6, <3>1
    <3>2. CASE m # 1
      BY <2>1, <3>2
    <3> QED
      BY <3>1, <3>2
  <2>3. m \in 1..n /\ m \in 1..(n + 1) /\ n + 1 \in Nat /\ r[m] = q[m] /\ f[m] # g[m]
    BY <1>3, <2>1
  <2>4. /\ IsFlip(q[m]) => f[m] = Append(f[m - 1], Flip(q[m]))
        /\ ~IsFlip(q[m]) => f[m] = f[m - 1]
    BY <1>4, <2>3, FlipsStep
  <2>5. /\ IsFlip(r[m]) => g[m] = Append(g[m - 1], Flip(r[m]))
        /\ ~IsFlip(r[m]) => g[m] = g[m - 1]
    BY <1>5, <2>3, FlipsStep
  <2> QED
    BY <2>2, <2>3, <2>4, <2>5, Zenon
<1>8. PICK k \in Nat : k = n + 1 /\ k \in 1..k /\ k - 1 = n
  OBVIOUS
<1>9. UpTo(g, r, k) /\ Flips(r) = g[k] /\ r[k] = x
  BY <1>3, <1>5, <1>8
<1>10. /\ IsFlip(r[k]) => g[k] = Append(g[k - 1], Flip(r[k]))
       /\ ~IsFlip(r[k]) => g[k] = g[k - 1]
  <2> DEFINE Here(i) == (IsFlip(r[i]) => g[i] = Append(g[i - 1], Flip(r[i]))) /\ (~IsFlip(r[i]) => g[i] = g[i - 1])
  <2>1. ASSUME NEW i \in 1..k
        PROVE  Here(i)
    BY <1>8, <1>9, FlipsStep
  <2>2. Here(k)
    <3> HIDE DEF Here
    <3> QED
      BY <1>8, <2>1
  <2> QED
    BY <2>2
<1> QED
  BY <1>1, <1>4, <1>7, <1>8, <1>9, <1>10, Zenon

\* A sequence with a new first element.
Cons(b, s) == <<b>> \o s

LEMMA ConsIs ==
  ASSUME NEW b \in BOOLEAN, NEW s \in Seq(BOOLEAN)
  PROVE  /\ Cons(b, s) \in Seq(BOOLEAN) /\ Cons(b, s) # <<>>
         /\ Head(Cons(b, s)) = b /\ Tail(Cons(b, s)) = s
         /\ \A x \in BOOLEAN : Append(Cons(b, s), x) = Cons(b, Append(s, x))
         /\ Cons(b, <<>>) = Append(<<>>, b)
<1>1. <<b>> \in Seq(BOOLEAN)
  OBVIOUS
<1>2. PICK t : t = <<b>> \o s
  OBVIOUS
<1>3. t \in Seq(BOOLEAN) /\ Len(t) = Len(s) + 1 /\ t[1] = b
  BY <1>1, <1>2
<1>4. \A i \in 1..Len(s) : t[i + 1] = s[i]
  BY <1>1, <1>2
<1>5. t # <<>> /\ Head(t) = b
  BY <1>3
<1>6. Tail(t) = s
  <2>1. Tail(t) \in Seq(BOOLEAN) /\ Len(Tail(t)) = Len(s) /\ \A i \in 1..Len(s) : Tail(t)[i] = s[i]
    BY <1>3, <1>4, <1>5
  <2> QED
    BY <2>1, SeqEqual
<1>7. ASSUME NEW x \in BOOLEAN
      PROVE  Append(t, x) = <<b>> \o Append(s, x)
  BY <1>1, <1>2
<1>8. <<b>> \o <<>> = Append(<<>>, b)
  OBVIOUS
<1> QED
  BY <1>2, <1>3, <1>5, <1>6, <1>7, <1>8, Zenon DEF Cons

\* A message that is read comes from the front.
LEMMA FlipsTail ==
  ASSUME NEW S, NEW q \in Seq(S), q # <<>>
  PROVE  /\ IsFlip(Head(q)) => Flips(q) = Cons(Flip(Head(q)), Flips(Tail(q)))
         /\ ~IsFlip(Head(q)) => Flips(q) = Flips(Tail(q))
<1>1. PICK r : r = Tail(q)
  OBVIOUS
<1>2. PICK n \in Nat : n = Len(r)
  BY <1>1
<1>3. Len(q) = n + 1 /\ Head(q) = q[1] /\ \A i \in 1..n : r[i] = q[i + 1]
  BY <1>1, <1>2
<1>4. PICK f : UpTo(f, r, n) /\ Flips(r) = f[n]
  BY <1>2, FlipsAre
<1>5. PICK g : UpTo(g, q, n + 1) /\ Flips(q) = g[n + 1]
  BY <1>3, FlipsAre
<1>6. \A i \in 0..n : f[i] \in Seq(BOOLEAN)
  BY <1>4, CountsType
<1>7. PICK b \in BOOLEAN : b = Flip(q[1])
  BY FlipBoolean
<1> DEFINE After(s, t) == (IsFlip(q[1]) => t = Cons(b, s)) /\ (~IsFlip(q[1]) => t = s)
<1>8. After(f[0], g[1])
  <2>1. f[0] = <<>> /\ g[0] = <<>>
    <3>1. n + 1 \in Nat
      OBVIOUS
    <3>2. g[0] = <<>>
      BY <1>5, <3>1, FlipsZero
    <3> QED
      BY <1>4, <3>2, FlipsZero
  <2>2. 1 \in 1..(n + 1) /\ 1 - 1 = 0 /\ n + 1 \in Nat
    OBVIOUS
  <2>3. /\ IsFlip(q[1]) => g[1] = Append(g[0], Flip(q[1]))
        /\ ~IsFlip(q[1]) => g[1] = g[0]
    BY <1>5, <2>2, FlipsStep
  <2>4. Cons(b, <<>>) = Append(<<>>, b)
    <3>1. <<>> \in Seq(BOOLEAN)
      OBVIOUS
    <3> QED
      BY <3>1, ConsIs
  <2> QED
    BY <1>7, <2>1, <2>3, <2>4, Zenon
<1>9. After(f[n], g[n + 1])
  <2> DEFINE I == {m \in 1..n : ~After(f[m], g[m + 1])}
  <2> SUFFICES ASSUME I # {}
               PROVE  FALSE
    <3> HIDE DEF After
    <3> QED
      BY <1>8
  <2>1. PICK m \in I : \A j \in I : m <= j
    <3> HIDE DEF I
    <3>1. I \in SUBSET (1..n)
      BY DEF I
    <3> QED
      BY <3>1, FirstPosition
  <2>2. After(f[m - 1], g[m])
    <3> HIDE DEF After
    <3>1. CASE m = 1
      BY <1>8, <3>1
    <3>2. CASE m # 1
      BY <2>1, <3>2
    <3> QED
      BY <3>1, <3>2
  <2>3. m \in 1..n /\ m + 1 \in 1..(n + 1) /\ n + 1 \in Nat /\ m + 1 - 1 = m /\ r[m] = q[m + 1]
    BY <1>3, <2>1
  <2>4. /\ IsFlip(r[m]) => f[m] = Append(f[m - 1], Flip(r[m]))
        /\ ~IsFlip(r[m]) => f[m] = f[m - 1]
    BY <1>4, <2>3, FlipsStep
  <2>5. /\ IsFlip(q[m + 1]) => g[m + 1] = Append(g[m], Flip(q[m + 1]))
        /\ ~IsFlip(q[m + 1]) => g[m + 1] = g[m]
    BY <1>5, <2>3, FlipsStep
  <2>6. PICK x \in BOOLEAN : x = Flip(r[m])
    BY FlipBoolean
  <2>7. f[m - 1] \in Seq(BOOLEAN)
    BY <1>6, <2>3
  <2>8. Append(Cons(b, f[m - 1]), x) = Cons(b, Append(f[m - 1], x))
    BY <2>7, ConsIs
  <2>9. After(f[m], g[m + 1])
    BY <2>2, <2>3, <2>4, <2>5, <2>6, <2>8, Zenon
  <2> QED
    <3> HIDE DEF After
    <3> QED
      BY <2>1, <2>9
<1> QED
  BY <1>1, <1>3, <1>4, <1>5, <1>7, <1>9, Zenon

-----------------------------------------------------------------------------
(* The patient operator's session while no connection breaks: one session, *)
(* and a star of connections around its coordinator.                       *)

Whole == broken = {}

\* Everybody who is in a session, or joining one, shares the coordinator's.
OneSession ==
  /\ created = {session[Coordinator]} \ {None}
  /\ \A n \in Node : session[n] \in {None, session[Coordinator]}
  /\ \A n \in Node : joining[n] \in {None, session[Coordinator]}
  /\ joining[Coordinator] = None
  /\ \A n \in Node : role[n] = "SESSION_COORDINATOR" => n = Coordinator
  /\ \A n \in Node : coordUuid[n] \in {None, Coordinator}

\* Each connection joins the coordinator and a node with no other connection.
Star ==
  /\ \A k \in Conn : k <= dials => \E n \in Node \ {Coordinator} : ends[k] = {Coordinator, n}
  /\ \A k \in Conn : k > dials => ends[k] = {}
  /\ \A j, k \in Conn : ends[j] = ends[k] /\ ends[j] # {} => j = k
  /\ \A k \in Conn, n \in Node : alive[k][n] <=> n \in ends[k]

\* The coordinator knows n by the connection n dialled, or will when it reads
\* the HELLO on it.
Greeting(k) == \E x \in Contents(inbox[k][Coordinator]) : x.type = "HELLO"
Linked(n)   == coordSock[n] # None => peerSock[Coordinator][n] = coordSock[n] \/ Greeting(coordSock[n])

Sockets ==
  /\ coordSock[Coordinator] = None
  /\ \A n \in Node : coordSock[n] # None => n \in ends[coordSock[n]]
  /\ \A n, m \in Node : peerSock[n][m] # None => n \in ends[peerSock[n][m]]
  /\ \A n \in Node : peerSock[Coordinator][n] # None =>
       n # Coordinator /\ n \in ends[peerSock[Coordinator][n]]
  /\ \A n \in Node \ {Coordinator} :
       coordSock[n] # None <=> joining[n] # None \/ session[n] # None
  /\ \A n \in Node : Linked(n)

\* What may be on its way to n over k.
Proper(k, n, x) ==
  /\ n \in ends[k]
  /\ n = Coordinator => x.src # Coordinator /\ x.src \in ends[k]
  /\ n = Coordinator /\ x.type \in {"HELLO", "JOIN_SESSION"} => coordSock[x.src] # None
  /\ n # Coordinator => x.type # "JOIN_SESSION"
  /\ x.type \in {"INVITE_SESSION", "SESSION_STATUS"} \cup Commands => x.src = Coordinator
  /\ x.type \in Commands => x.sess = session[Coordinator] /\ x.sess # None
Mail == \A k \in Conn, n \in Node : \A x \in InFlight(k, n) : Proper(k, n, x)

\* Who captures, who executes, who joins, and who is listed.
Duties ==
  /\ \A n \in Node : session[n] = None => ~capturing[n]
  /\ \A k \in Conn, n \in Node : handling[k][n] # None =>
       handling[k][n].type \in {"JOIN_SESSION", "START_CAPTURE", "STOP_CAPTURE"}
  /\ \A k \in Conn, n \in Node : Holds(k, n) => session[n] # None
  /\ \A n \in Node : joining[n] # None =>
       /\ session[n] = None /\ ~capturing[Coordinator]
       /\ \A k \in Conn : PendingOn(k, n) = <<>>
  /\ \A n \in Node \ {Coordinator} : members[Coordinator][n] # None => coordSock[n] # None

Patience == TypeOK /\ Whole /\ OneSession /\ Star /\ Sockets /\ Mail /\ Duties

LEMMA FlipsOfNothing == Flips(<<>>) = <<>>
<1>1. PICK q : q = <<>>
  OBVIOUS
<1>2. Len(q) \in Nat /\ \A i \in 1..Len(q) : ~IsFlip(q[i])
  BY <1>1
<1> QED
  BY <1>1, <1>2, NoFlips

LEMMA InitPatience == Init => Patience
<1> SUFFICES ASSUME Init
             PROVE  Patience
  OBVIOUS
<1> USE CoordinatorAssumption
<1>1. TypeOK /\ Whole
  BY InitType DEF Init, Whole
<1>2. OneSession
  BY DEF Init, OneSession
<1>3. Star
  BY DEF Init, Star, Conn
<1>4. Sockets
  BY DEF Init, Sockets, Linked
<1>5. ASSUME NEW k \in Conn, NEW n \in Node
      PROVE  InFlight(k, n) = {} /\ ~Holds(k, n) /\ PendingOn(k, n) = <<>>
  <2>1. Contents(<<>>) = {}
    BY DEF Contents
  <2>2. inbox[k][n] = <<>> /\ handling[k][n] = None
    BY DEF Init
  <2>3. InFlight(k, n) = {}
    <3>1. InFlight(k, n) = Contents(inbox[k][n]) \cup ({handling[k][n]} \ {None})
      BY InFlightIs
    <3> QED
      BY <2>1, <2>2, <3>1
  <2>4. ~Holds(k, n)
    BY <2>2 DEF Holds
  <2>5. PendingOn(k, n) = <<>>
    BY <2>2, <2>4, FlipsOfNothing, Zenon DEF PendingOn
  <2> QED
    BY <2>3, <2>4, <2>5
<1>6. Mail
  BY <1>5 DEF Mail
<1>7. Duties
  BY <1>5 DEF Init, Duties
<1> QED
  BY <1>1, <1>2, <1>3, <1>4, <1>6, <1>7 DEF Patience

\* A node other than the coordinator has at most one connection.
LEMMA OneLink ==
  ASSUME Patience, NEW n \in Node \ {Coordinator}, NEW j \in Conn, NEW k \in Conn,
         n \in ends[j], n \in ends[k]
  PROVE  j = k /\ ends[k] = {Coordinator, n}
<1>1. dials \in 0..MaxConn
  BY DEF Patience, TypeOK
<1>2. j <= dials /\ k <= dials
  BY <1>1, MaxConnType DEF Patience, Star, Conn
<1>3. ends[j] = {Coordinator, n} /\ ends[k] = {Coordinator, n}
  BY <1>2 DEF Patience, Star
<1> QED
  BY <1>3 DEF Patience, Star

\* Both ends of a connection.
LEMMA TwoEnds ==
  ASSUME Patience, NEW k \in Conn, NEW n \in ends[k]
  PROVE  /\ n \in Node /\ Coordinator \in ends[k]
         /\ n # Coordinator => ends[k] = {Coordinator, n}
         /\ \E m \in Node \ {Coordinator} : ends[k] = {Coordinator, m}
<1>1. dials \in 0..MaxConn
  BY DEF Patience, TypeOK
<1>2. k <= dials
  BY <1>1, MaxConnType DEF Patience, Star, Conn
<1>3. PICK m \in Node \ {Coordinator} : ends[k] = {Coordinator, m}
  BY <1>2 DEF Patience, Star
<1> QED
  BY <1>3, CoordinatorAssumption

\* A send goes to the other end.
LEMMA OutToIs ==
  ASSUME Patience, NEW n \in Node, NEW c, NEW k \in Conn, NEW m \in Node, <<k, m>> \in OutTo(n, c)
  PROVE  m # n /\ c = k /\ ends[k] = {n, m}
<1>1. c = k /\ m \in ends[k] /\ m # n /\ alive[k][n]
  BY DEF OutTo
<1>2. n \in ends[k]
  BY <1>1 DEF Patience, Star
<1>3. PICK i \in Node \ {Coordinator} : ends[k] = {Coordinator, i}
  BY <1>2, TwoEnds
<1> QED
  BY <1>1, <1>2, <1>3

LEMMA BroadcastIs ==
  ASSUME Patience, NEW n \in Node, NEW ps, NEW except, NEW k \in Conn, NEW m \in Node,
         <<k, m>> \in Broadcast(n, ps, except)
  PROVE  m # n /\ ends[k] = {n, m}
<1>1. PICK c : <<k, m>> \in OutTo(n, c)
  BY DEF Broadcast
<1> QED
  BY <1>1, OutToIs

-----------------------------------------------------------------------------
(* What a step does to the queues.                                         *)

\* What node n may write.
Honest(n, x) ==
  /\ x \in Msg
  /\ x.src = n \/ (x.type = "CSLAM_SUBMAP_UPDATE" /\ n = Coordinator)
  /\ x.type \in {"INVITE_SESSION", "SESSION_STATUS"} \cup Commands => n = Coordinator
  /\ x.type \in Commands => x.sess = session[Coordinator] /\ x.sess # None
  /\ x.type = "JOIN_SESSION" => n # Coordinator
  /\ x.type \in {"HELLO", "JOIN_SESSION"} => n = Coordinator \/ coordSock'[n] # None

\* Everything in the queues q is old, or comes from the other end.
Moves(q) ==
  /\ q \in Queues
  /\ \A k \in Conn, m \in Node : \A x \in Contents(q[k][m]) :
       \/ x \in Contents(inbox[k][m])
       \/ \E n \in Node : n # m /\ ends'[k] = {n, m} /\ Honest(n, x)

\* No HELLO to the coordinator is lost, and no command read or written.
Greets(q) == \A k \in Conn : \A x \in Contents(inbox[k][Coordinator]) :
               x.type = "HELLO" => x \in Contents(q[k][Coordinator])
Calm(q) == \A k \in Conn, m \in Node : Flips(q[k][m]) = Flips(inbox[k][m])

LEMMA AppendKeeps ==
  ASSUME NEW S, NEW q \in Seq(S), NEW x \in S
  PROVE  Contents(q) \subseteq Contents(Append(q, x)) /\ x \in Contents(Append(q, x))
<1>1. PICK r : r = Append(q, x)
  OBVIOUS
<1>2. PICK n \in Nat : n = Len(q)
  OBVIOUS
<1>3. Len(r) = n + 1 /\ r[n + 1] = x /\ \A i \in 1..n : r[i] = q[i]
  BY <1>1, <1>2
<1>4. Contents(r) = {r[i] : i \in 1..(n + 1)} /\ Contents(q) = {q[i] : i \in 1..n}
  BY <1>2, <1>3, Zenon DEF Contents
<1>5. Contents(q) \subseteq Contents(r) /\ x \in Contents(r)
  BY <1>3, <1>4
<1> QED
  BY <1>1, <1>5

LEMMA TailKeeps ==
  ASSUME NEW S, NEW q \in Seq(S), q # <<>>
  PROVE  \A x \in Contents(q) : x # Head(q) => x \in Contents(Tail(q))
<1> SUFFICES ASSUME NEW x \in Contents(q), x # Head(q)
             PROVE  x \in Contents(Tail(q))
  OBVIOUS
<1>1. PICK i \in 1..Len(q) : x = q[i]
  BY DEF Contents
<1>2. i # 1
  BY <1>1
<1>3. i - 1 \in 1..Len(Tail(q)) /\ Tail(q)[i - 1] = x
  BY <1>1, <1>2
<1> QED
  BY <1>3 DEF Contents

LEMMA PostMoves ==
  ASSUME NEW q, Moves(q), NEW tgt, NEW n \in Node, NEW msg, Honest(n, msg),
         \A k \in Conn, m \in Node : <<k, m>> \in tgt => n # m /\ ends'[k] = {n, m}
  PROVE  Moves(Post(q, tgt, msg))
<1>1. q \in Queues /\ msg \in Msg
  BY DEF Moves, Honest
<1>2. Post(q, tgt, msg) \in Queues
  BY <1>1, PostType
<1>3. ASSUME NEW k \in Conn, NEW m \in Node, NEW x \in Contents(Post(q, tgt, msg)[k][m])
      PROVE  \/ x \in Contents(inbox[k][m])
             \/ \E i \in Node : i # m /\ ends'[k] = {i, m} /\ Honest(i, x)
  <2>1. CASE x \in Contents(q[k][m])
    BY <2>1 DEF Moves
  <2>2. CASE x = msg /\ <<k, m>> \in tgt
    BY <2>2
  <2> QED
    BY <1>1, <1>3, <2>1, <2>2, PostContents
<1> QED
  BY <1>2, <1>3 DEF Moves

LEMMA PostGreets ==
  ASSUME NEW q \in Queues, Greets(q), NEW tgt, NEW msg \in Msg
  PROVE  Greets(Post(q, tgt, msg))
<1> DEFINE m == Coordinator
<1>0. m \in Node
  BY CoordinatorAssumption
<1> SUFFICES ASSUME NEW k \in Conn, NEW x \in Contents(inbox[k][m]), x.type = "HELLO"
             PROVE  x \in Contents(Post(q, tgt, msg)[k][m])
  BY DEF Greets
<1>1. x \in Contents(q[k][m])
  BY DEF Greets
<1>2. q[k][m] \in Seq(Msg)
  BY <1>0 DEF Queues
<1>3. x \in Contents(Append(q[k][m], msg))
  BY <1>1, <1>2, AppendKeeps
<1> QED
  BY <1>0, <1>1, <1>3 DEF Post

\* A write, seen from one queue.
LEMMA PostFlips ==
  ASSUME NEW q \in Queues, NEW tgt, NEW msg \in Msg, NEW k \in Conn, NEW m \in Node
  PROVE  /\ <<k, m>> \notin tgt \/ ~IsFlip(msg) => Flips(Post(q, tgt, msg)[k][m]) = Flips(q[k][m])
         /\ <<k, m>> \in tgt /\ IsFlip(msg) =>
              Flips(Post(q, tgt, msg)[k][m]) = Append(Flips(q[k][m]), Flip(msg))
<1>1. q[k][m] \in Seq(Msg)
  BY DEF Queues
<1>2. Post(q, tgt, msg)[k][m] = IF <<k, m>> \in tgt THEN Append(q[k][m], msg) ELSE q[k][m]
  BY DEF Post
<1>3. CASE <<k, m>> \in tgt
  <2>1. Post(q, tgt, msg)[k][m] = Append(q[k][m], msg)
    BY <1>2, <1>3, Zenon
  <2>2. /\ IsFlip(msg) => Flips(Append(q[k][m], msg)) = Append(Flips(q[k][m]), Flip(msg))
        /\ ~IsFlip(msg) => Flips(Append(q[k][m], msg)) = Flips(q[k][m])
    BY <1>1, FlipsAppend
  <2> QED
    BY <1>3, <2>1, <2>2, Zenon
<1>4. CASE <<k, m>> \notin tgt
  BY <1>2, <1>4, Zenon
<1> QED
  BY <1>3, <1>4, Zenon

LEMMA PostCalm ==
  ASSUME NEW q \in Queues, Calm(q), NEW tgt, NEW msg \in Msg, ~IsFlip(msg)
  PROVE  Calm(Post(q, tgt, msg))
<1> SUFFICES ASSUME NEW k \in Conn, NEW m \in Node
             PROVE  Flips(Post(q, tgt, msg)[k][m]) = Flips(inbox[k][m])
  BY DEF Calm
<1>1. Flips(Post(q, tgt, msg)[k][m]) = Flips(q[k][m])
  BY PostFlips
<1> QED
  BY <1>1, Zenon DEF Calm

LEMMA NowCarried ==
  ASSUME TypeOK
  PROVE  Moves(inbox) /\ Greets(inbox) /\ Calm(inbox)
BY CoordinatorAssumption DEF Moves, Greets, Calm, TypeOK, Queues

LEMMA RestMoves ==
  ASSUME TypeOK, NEW k \in Conn, NEW n \in Node, inbox[k][n] # <<>>
  PROVE  Moves(Rest(k, n))
BY ReadType, RestContents DEF Moves

LEMMA RestIs ==
  ASSUME TypeOK, NEW k \in Conn, NEW n \in Node, NEW j \in Conn, NEW m \in Node
  PROVE  Rest(k, n)[j][m] = IF j = k /\ m = n THEN Tail(inbox[j][m]) ELSE inbox[j][m]
BY DEF TypeOK, Rest

LEMMA RestGreets ==
  ASSUME TypeOK, NEW k \in Conn, NEW n \in Node, inbox[k][n] # <<>>,
         Head(inbox[k][n]).type # "HELLO" \/ n # Coordinator
  PROVE  Greets(Rest(k, n))
<1> DEFINE m == Coordinator
<1>0. m \in Node
  BY CoordinatorAssumption
<1> SUFFICES ASSUME NEW j \in Conn, NEW x \in Contents(inbox[j][m]), x.type = "HELLO"
             PROVE  x \in Contents(Rest(k, n)[j][m])
  BY DEF Greets
<1>1. CASE j = k /\ m = n
  <2>1. inbox[k][n] \in Seq(Msg) /\ x # Head(inbox[k][n])
    BY <1>1 DEF TypeOK
  <2>2. x \in Contents(Tail(inbox[k][n]))
    BY <1>1, <2>1, TailKeeps
  <2>3. Rest(k, n)[k][n] = Tail(inbox[k][n])
    BY RestIs
  <2> QED
    BY <1>1, <2>2, <2>3
<1>2. CASE ~(j = k /\ m = n)
  <2>1. Rest(k, n)[j][m] = inbox[j][m]
    BY <1>0, <1>2, RestIs
  <2> QED
    BY <2>1
<1> QED
  BY <1>1, <1>2

\* A read, seen from one queue.
LEMMA RestFlips ==
  ASSUME TypeOK, NEW k \in Conn, NEW n \in Node, inbox[k][n] # <<>>, NEW j \in Conn, NEW m \in Node
  PROVE  /\ <<j, m>> # <<k, n>> \/ ~IsFlip(Head(inbox[k][n])) => Flips(Rest(k, n)[j][m]) = Flips(inbox[j][m])
         /\ IsFlip(Head(inbox[k][n])) =>
              Flips(inbox[k][n]) = Cons(Flip(Head(inbox[k][n])), Flips(Rest(k, n)[k][n]))
<1>1. inbox[k][n] \in Seq(Msg)
  BY DEF TypeOK
<1>2. Rest(k, n)[k][n] = Tail(inbox[k][n])
  BY RestIs
<1>3. /\ IsFlip(Head(inbox[k][n])) =>
           Flips(inbox[k][n]) = Cons(Flip(Head(inbox[k][n])), Flips(Tail(inbox[k][n])))
      /\ ~IsFlip(Head(inbox[k][n])) => Flips(inbox[k][n]) = Flips(Tail(inbox[k][n]))
  BY <1>1, FlipsTail
<1>4. CASE j = k /\ m = n
  BY <1>2, <1>3, <1>4, Zenon
<1>5. CASE ~(j = k /\ m = n)
  <2>1. Rest(k, n)[j][m] = inbox[j][m]
    BY <1>5, RestIs
  <2> QED
    BY <1>2, <1>3, <2>1, Zenon
<1> QED
  BY <1>4, <1>5

LEMMA RestCalm ==
  ASSUME TypeOK, NEW k \in Conn, NEW n \in Node, inbox[k][n] # <<>>, ~IsFlip(Head(inbox[k][n]))
  PROVE  Calm(Rest(k, n))
BY RestFlips DEF Calm

-----------------------------------------------------------------------------
(* The kinds of steps: most neither start, stop, execute nor join.          *)

Carried(q) == Moves(q) /\ Greets(q) /\ Calm(q)
Written(n, tgt) == \A k \in Conn, m \in Node : <<k, m>> \in tgt => n # m /\ ends'[k] = {n, m}

LEMMA PostCarried ==
  ASSUME NEW q, Carried(q), NEW tgt, NEW n \in Node, NEW msg, Honest(n, msg), ~IsFlip(msg),
         Written(n, tgt)
  PROVE  Carried(Post(q, tgt, msg))
<1>1. q \in Queues /\ msg \in Msg
  BY DEF Carried, Moves, Honest
<1>2. Moves(Post(q, tgt, msg))
  BY PostMoves DEF Carried, Written
<1>3. Greets(Post(q, tgt, msg))
  BY <1>1, PostGreets DEF Carried
<1>4. Calm(Post(q, tgt, msg))
  BY <1>1, PostCalm DEF Carried
<1> QED
  BY <1>2, <1>3, <1>4 DEF Carried

LEMMA OutWritten ==
  ASSUME Patience, ends' = ends, NEW n \in Node
  PROVE  (\A c : Written(n, OutTo(n, c))) /\ (\A ps, except : Written(n, Broadcast(n, ps, except)))
<1>1. \A c : Written(n, OutTo(n, c))
  BY OutToIs DEF Written
<1>2. \A ps, except : Written(n, Broadcast(n, ps, except))
  BY BroadcastIs DEF Written
<1> QED
  BY <1>1, <1>2

\* Messages that any node may write at any time.
Chatter == {"CSLAM_SUBMAP_UPDATE", "CSLAM_ALIGNMENT_UPDATE", "HEARTBEAT", "READY_FOR_CAPTURE"}

LEMMA ChatterHonest ==
  ASSUME NEW n \in Node, NEW s \in Session \cup {None}, NEW t \in Chatter
  PROVE  Honest(n, M(t, n, s)) /\ ~IsFlip(M(t, n, s))
<1>1. t \in MessageType
  BY DEF Chatter, MessageType
<1>2. M(t, n, s) \in Msg
  BY <1>1, MType
<1>3. M(t, n, s).type = t /\ M(t, n, s).src = n
  BY DEF M
<1> QED
  BY <1>2, <1>3 DEF Honest, Chatter, IsFlip, Commands

LEMMA AlignmentCarried ==
  ASSUME TypeOK, NEW q, Carried(q), NEW tgt, NEW n \in Node, Written(n, tgt)
  PROVE  Carried(SendAlignment(n, q, tgt))
<1> DEFINE align == M("CSLAM_ALIGNMENT_UPDATE", n, session[n])
<1>1. Honest(n, align) /\ ~IsFlip(align)
  BY ChatterHonest DEF TypeOK, Chatter
<1> HIDE DEF align
<1>2. Carried(Post(q, tgt, align))
  BY <1>1, PostCarried
<1> QED
  BY <1>2 DEF SendAlignment, align

LEMMA NowCarriedToo == ASSUME TypeOK PROVE Carried(inbox)
BY NowCarried DEF Carried

LEMMA RestCarried ==
  ASSUME TypeOK, NEW k \in Conn, NEW n \in Node, inbox[k][n] # <<>>,
         ~IsFlip(Head(inbox[k][n])), Head(inbox[k][n]).type # "HELLO" \/ n # Coordinator
  PROVE  Carried(Rest(k, n))
BY RestMoves, RestGreets, RestCalm DEF Carried

\* The coordinator's socket table changes only to the other end's connection.
Binds == \A n, m \in Node : peerSock'[n][m] # peerSock[n][m] =>
           /\ peerSock'[n][m] \in Conn /\ n \in ends[peerSock'[n][m]]
           /\ n = Coordinator => m # Coordinator /\ m \in ends[peerSock'[n][m]]
\* Its member table lists only nodes that have dialled it.
Enrols == \A m \in Node \ {Coordinator} : members'[Coordinator][m] # None =>
            members[Coordinator][m] # None \/ coordSock[m] # None
\* A worker starts handling what it reads.
Takes == \A k \in Conn, n \in Node :
           \/ handling'[k][n] \in {None, handling[k][n]}
           \/ /\ handling[k][n] = None /\ handling'[k][n] \in Contents(inbox[k][n])
              /\ handling'[k][n].type \in {"JOIN_SESSION", "START_CAPTURE", "STOP_CAPTURE"}

Usual ==
  /\ UNCHANGED <<session, created, coordSock, joining, dials, ends, alive>>
  /\ \A n \in Node : role'[n] = "SESSION_COORDINATOR" => role[n] = "SESSION_COORDINATOR"
  /\ \A n \in Node : coordUuid'[n] \in {coordUuid[n], None, Coordinator}
  /\ Binds /\ Enrols /\ Takes
  /\ Moves(inbox')
  /\ \A n \in Node : Linked(n)'

\* No command is taken up or finished.
Tidy == \A k \in Conn, n \in Node :
          \/ handling'[k][n] = handling[k][n]
          \/ ~Holds(k, n) /\ handling'[k][n] = None
          \/ ~Holds(k, n) /\ handling'[k][n].type = "JOIN_SESSION"

Ordinary == Usual /\ capturing' = capturing /\ Calm(inbox') /\ Tidy

LEMMA LinkedKept ==
  ASSUME Patience, coordSock' = coordSock, Binds, Greets(inbox')
  PROVE  \A n \in Node : Linked(n)'
<1> SUFFICES ASSUME NEW n \in Node, coordSock[n] # None
             PROVE  \/ peerSock'[Coordinator][n] = coordSock[n]
                    \/ \E x \in Contents(inbox'[coordSock[n]][Coordinator]) : x.type = "HELLO"
  BY DEF Linked, Greeting, Contents
<1> USE CoordinatorAssumption
<1>1. n # Coordinator /\ coordSock[n] \in Conn /\ n \in ends[coordSock[n]]
  BY DEF Patience, Sockets, TypeOK
<1>2. CASE peerSock[Coordinator][n] = coordSock[n]
  <2>1. CASE peerSock'[Coordinator][n] # peerSock[Coordinator][n]
    <3>1. peerSock'[Coordinator][n] \in Conn /\ n \in ends[peerSock'[Coordinator][n]]
      BY <2>1 DEF Binds
    <3> QED
      BY <1>1, <3>1, OneLink
  <2> QED
    BY <1>2, <2>1
<1>3. CASE Greeting(coordSock[n])
  <2>1. PICK x \in Contents(inbox[coordSock[n]][Coordinator]) : x.type = "HELLO"
    BY <1>3 DEF Greeting
  <2> QED
    BY <1>1, <2>1 DEF Greets
<1> QED
  BY <1>2, <1>3 DEF Patience, Sockets, Linked

LEMMA ReadBinds ==
  ASSUME Patience, NEW k \in Conn, NEW n \in Node, NEW t, Reads(k, n, t)
  PROVE  /\ Binds
         /\ Source(k, n) \in Node
         /\ Head(inbox[k][n]).type = t
         /\ Proper(k, n, Head(inbox[k][n]))
         /\ Head(inbox[k][n]) \in Contents(inbox[k][n])
<1>1. /\ TypeOK /\ inbox[k][n] # <<>> /\ Head(inbox[k][n]).type = t
      /\ Source(k, n) \in Node
      /\ peerSock' = [peerSock EXCEPT ![n][Source(k, n)] = k]
  BY ReadsType DEF Patience, Reads, Source
<1>2. Head(inbox[k][n]) \in Contents(inbox[k][n])
  BY <1>1, RestContents
<1>3. Proper(k, n, Head(inbox[k][n]))
  BY <1>2, InFlightIs DEF Patience, Mail
<1>4. Binds
  <2> SUFFICES ASSUME NEW i \in Node, NEW m \in Node, peerSock'[i][m] # peerSock[i][m]
               PROVE  /\ peerSock'[i][m] \in Conn /\ i \in ends[peerSock'[i][m]]
                      /\ i = Coordinator => m # Coordinator /\ m \in ends[peerSock'[i][m]]
    BY DEF Binds
  <2>1. i = n /\ m = Source(k, n) /\ peerSock'[i][m] = k
    BY <1>1 DEF TypeOK
  <2> QED
    BY <1>3, <2>1 DEF Proper, Source
<1> QED
  BY <1>1, <1>2, <1>3, <1>4

\* A step that carries the queues and changes nothing that matters here.
LEMMA OrdinaryIs ==
  ASSUME Patience,
         UNCHANGED <<session, role, capturing, created, coordSock, joining, dials, ends, alive>>,
         \A n \in Node : coordUuid'[n] \in {coordUuid[n], Coordinator},
         Binds, Enrols, Takes, Tidy, Carried(inbox')
  PROVE  Ordinary
<1>1. \A n \in Node : Linked(n)'
  BY LinkedKept DEF Carried
<1> QED
  BY <1>1 DEF Ordinary, Usual, Carried

\* A send that does nothing else.
LEMMA SendOrdinary ==
  ASSUME Patience, UNCHANGED <<session, role, coordUuid, capturing>>, UNCHANGED sockVars,
         UNCHANGED <<dials, ends, alive, handling, created>>,
         Enrols, Carried(inbox')
  PROVE  Ordinary
BY OrdinaryIs DEF Binds, Takes, Tidy, sockVars

\* A read that does nothing else to the sockets, the queues and the sessions.
LEMMA ReadOrdinary ==
  ASSUME Patience, NEW k \in Conn, NEW n \in Node, NEW t, Reads(k, n, t),
         UNCHANGED <<session, role, capturing, created, coordSock, joining, dials, ends, alive, handling>>,
         \A i \in Node : coordUuid'[i] \in {coordUuid[i], Coordinator},
         Enrols, Carried(inbox')
  PROVE  Ordinary
<1>1. Binds
  BY ReadBinds
<1>2. Takes /\ Tidy
  BY DEF Takes, Tidy
<1> QED
  BY <1>1, <1>2, OrdinaryIs

LEMMA SameMembers ==
  ASSUME members' = members
  PROVE  Enrols
BY DEF Enrols

\* Reading a message of a type other than HELLO, START and STOP.
LEMMA ReadCarried ==
  ASSUME Patience, NEW k \in Conn, NEW n \in Node, NEW t, Reads(k, n, t),
         t \notin {"HELLO", "START_CAPTURE", "STOP_CAPTURE"}
  PROVE  Carried(Rest(k, n))
<1>1. TypeOK /\ inbox[k][n] # <<>> /\ Head(inbox[k][n]).type = t
  BY DEF Reads, Patience
<1>2. ~IsFlip(Head(inbox[k][n])) /\ Head(inbox[k][n]).type # "HELLO"
  BY <1>1 DEF IsFlip
<1> QED
  BY <1>1, <1>2, RestCarried

\* A coordinator is the Coordinator.
LEMMA TheCoordinator ==
  ASSUME Patience, NEW n \in Node, IsCoordinator(n)
  PROVE  n = Coordinator /\ session[Coordinator] # None
BY DEF Patience, OneSession, IsCoordinator

LEMMA UserOrdinary ==
  ASSUME Patience, NEW n \in Node,
         \/ PrepareCapture(n) \/ PublishSubmap(n) \/ TriggerOverlapEvaluation(n) \/ Heartbeat(n)
  PROVE  Ordinary
<1>0. TypeOK /\ Carried(inbox) /\ session[n] \in Session \cup {None}
  BY NowCarriedToo DEF Patience, TypeOK
<1>1. CASE PrepareCapture(n)
  <2> DEFINE msg == M("PREPARE_CAPTURE", n, session[n])
             tgt == Broadcast(n, peerSock, None)
  <2>1. n = Coordinator /\ session[n] # None
    BY <1>1, TheCoordinator DEF PrepareCapture
  <2>2. msg \in Msg /\ msg.type = "PREPARE_CAPTURE" /\ msg.src = n /\ msg.sess = session[n]
    BY <1>0, MType DEF MessageType, M
  <2>3. Honest(n, msg) /\ ~IsFlip(msg)
    BY <2>1, <2>2 DEF Honest, IsFlip
  <2>4. Written(n, tgt)
    BY <1>1, OutWritten DEF PrepareCapture
  <2>5. inbox' = Post(inbox, tgt, msg)
    BY <1>1 DEF PrepareCapture
  <2> HIDE DEF msg, tgt
  <2>6. Carried(inbox')
    BY <1>0, <2>3, <2>4, <2>5, PostCarried
  <2>7. Enrols
    <3>1. members' = [members EXCEPT ![n] =
                   [m \in Node |->
                      IF m = n \/ members[n][m] = None THEN members[n][m]
                      ELSE [members[n][m] EXCEPT !.ready = FALSE,
                                                 !.state = "PREPARING"]]]
      BY <1>1 DEF PrepareCapture
    <3>2. \A m \in Node : members[n][m] = None => members'[n][m] = None
      BY <1>0, <3>1 DEF TypeOK
    <3> QED
      BY <2>1, <3>2 DEF Enrols
  <2> QED
    BY <1>1, <2>6, <2>7, SendOrdinary DEF PrepareCapture
<1>2. CASE PublishSubmap(n)
  <2> DEFINE msg == M("CSLAM_SUBMAP_UPDATE", n, session[n])
             tgt == Broadcast(n, peerSock, None)
             out == Post(inbox, tgt, msg)
  <2>1. Honest(n, msg) /\ ~IsFlip(msg)
    BY <1>0, ChatterHonest DEF Chatter
  <2>2. Written(n, tgt)
    BY <1>2, OutWritten DEF PublishSubmap
  <2>3. inbox' = out \/ inbox' = SendAlignment(n, out, tgt)
    BY <1>2 DEF PublishSubmap
  <2> HIDE DEF msg, tgt
  <2>4. Carried(out)
    BY <1>0, <2>1, <2>2, PostCarried
  <2> HIDE DEF out
  <2>5. Carried(inbox')
    BY <1>0, <2>2, <2>3, <2>4, AlignmentCarried
  <2> QED
    BY <1>2, <2>5, SameMembers, SendOrdinary DEF PublishSubmap, nodeVars
<1>3. CASE TriggerOverlapEvaluation(n)
  <2> DEFINE tgt == Broadcast(n, peerSock, None)
  <2>1. Written(n, tgt)
    BY <1>3, OutWritten DEF TriggerOverlapEvaluation
  <2>2. inbox' = SendAlignment(n, inbox, tgt)
    BY <1>3 DEF TriggerOverlapEvaluation
  <2> HIDE DEF tgt
  <2>3. Carried(inbox')
    BY <1>0, <2>1, <2>2, AlignmentCarried
  <2> QED
    BY <1>3, <2>3, SameMembers, SendOrdinary DEF TriggerOverlapEvaluation, nodeVars
<1>4. CASE Heartbeat(n)
  <2> DEFINE msg == M("HEARTBEAT", n, session[n])
             tgt == Broadcast(n, peerSock, None)
  <2>1. Honest(n, msg) /\ ~IsFlip(msg)
    BY <1>0, ChatterHonest DEF Chatter
  <2>2. Written(n, tgt)
    BY <1>4, OutWritten DEF Heartbeat
  <2>3. inbox' = Post(inbox, tgt, msg)
    BY <1>4 DEF Heartbeat
  <2> HIDE DEF msg, tgt
  <2>4. Carried(inbox')
    BY <1>0, <2>1, <2>2, <2>3, PostCarried
  <2> QED
    BY <1>4, <2>4, SameMembers, SendOrdinary DEF Heartbeat, nodeVars
<1> QED
  BY <1>1, <1>2, <1>3, <1>4

\* An invitation over a connection that exists.
LEMMA InviteOrdinary ==
  ASSUME Patience, NEW n \in Node, NEW m \in Node, InvitePeer(n, m), peerSock[n][m] # None
  PROVE  Ordinary
<1> DEFINE hello  == M("HELLO", n, session[n])
           invite == M("INVITE_SESSION", n, session[n])
           tgt == OutTo(n, peerSock[n][m])
<1>0. TypeOK /\ Carried(inbox) /\ session[n] \in Session \cup {None}
  BY NowCarriedToo DEF Patience, TypeOK
<1>1. n = Coordinator
  BY TheCoordinator DEF InvitePeer
<1>2. /\ hello \in Msg /\ hello.type = "HELLO" /\ hello.src = n
      /\ invite \in Msg /\ invite.type = "INVITE_SESSION" /\ invite.src = n
  BY <1>0, MType DEF MessageType, M
<1>3. inbox' = Post(Post(inbox, tgt, hello), tgt, invite) /\ UNCHANGED <<dials, ends, alive, peerSock>>
  BY DEF InvitePeer
<1>4. Written(n, tgt)
  BY <1>3, OutWritten
<1> HIDE DEF hello, invite, tgt
<1>5. Honest(n, hello) /\ ~IsFlip(hello) /\ Honest(n, invite) /\ ~IsFlip(invite)
  BY <1>1, <1>2 DEF Honest, IsFlip, Commands
<1>6. Carried(Post(inbox, tgt, hello))
  BY <1>0, <1>4, <1>5, PostCarried
<1>7. Carried(inbox')
  BY <1>3, <1>4, <1>5, <1>6, PostCarried
<1> QED
  BY <1>3, <1>7, SameMembers, SendOrdinary DEF InvitePeer, nodeVars, sockVars

\* A member table in which one entry changes.
LEMMA OneMember ==
  ASSUME Patience, NEW n \in Node, NEW s \in Node, NEW r, members' = [members EXCEPT ![n][s] = r],
         n = Coordinator => r = None \/ members[n][s] # None \/ coordSock[s] # None
  PROVE  Enrols
<1>1. \A m \in Node : members'[Coordinator][m] = members[Coordinator][m]
                      \/ (n = Coordinator /\ m = s /\ members'[Coordinator][m] = r)
  BY CoordinatorAssumption DEF Patience, TypeOK
<1> QED
  BY <1>1 DEF Enrols

\* The HELLO that a node is waiting for, read.
LEMMA HelloOrdinary ==
  ASSUME Patience, NEW k \in Conn, NEW n \in Node, HandleHello(k, n)
  PROVE  Ordinary
<1> DEFINE s == Source(k, n)
<1>1. Reads(k, n, "HELLO") /\ inbox' = Rest(k, n)
  BY DEF HandleHello
<1>2. /\ Binds /\ s \in Node /\ Head(inbox[k][n]).type = "HELLO"
      /\ Proper(k, n, Head(inbox[k][n]))
  BY <1>1, ReadBinds
<1>3. TypeOK /\ inbox[k][n] # <<>> /\ ~IsFlip(Head(inbox[k][n]))
  BY <1>1, <1>2 DEF Patience, Reads, IsFlip
<1>4. Moves(Rest(k, n)) /\ Calm(Rest(k, n))
  BY <1>3, RestMoves, RestCalm
<1>5. Enrols
  <2>1. n = Coordinator => coordSock[s] # None
    BY <1>2 DEF Proper, Source
  <2> DEFINE r == IF members[n][s] = None THEN NewMember ELSE [members[n][s] EXCEPT !.connected = TRUE]
  <2>2. members' = [members EXCEPT ![n][s] = r]
    BY <1>2 DEF HandleHello
  <2> HIDE DEF r, s
  <2> QED
    BY <1>2, <2>1, <2>2, OneMember
<1>6. \A i \in Node : Linked(i)'
  <2>1. coordSock' = coordSock
    BY DEF HandleHello
  <2>2. CASE n # Coordinator
    BY <1>1, <1>2, <1>3, <2>1, <2>2, RestGreets, LinkedKept
  <2>3. CASE n = Coordinator
    <3> SUFFICES ASSUME NEW i \in Node, coordSock[i] # None
                 PROVE  \/ peerSock'[Coordinator][i] = coordSock[i]
                        \/ \E x \in Contents(inbox'[coordSock[i]][Coordinator]) : x.type = "HELLO"
      BY <2>1 DEF Linked, Greeting, Contents
    <3>1. i # Coordinator /\ coordSock[i] \in Conn /\ i \in ends[coordSock[i]]
      BY CoordinatorAssumption DEF Patience, Sockets, TypeOK
    <3>2. CASE coordSock[i] = k
      <4>1. s # Coordinator /\ s \in ends[k] /\ Coordinator \in ends[k]
        BY <1>2, <2>3 DEF Proper, Source
      <4>2. s = i
        <5>1. ends[k] = {Coordinator, i}
          BY <3>1, <3>2, OneLink
        <5> QED
          BY <4>1, <5>1
      <4>3. peerSock'[n][s] = k
        BY <1>1, <1>2, <1>3 DEF Reads, Source, TypeOK
      <4> QED
        BY <2>3, <3>2, <4>2, <4>3
    <3>3. CASE coordSock[i] # k
      <4>1. inbox'[coordSock[i]][Coordinator] = inbox[coordSock[i]][Coordinator]
        BY <1>1, <1>3, <3>1, <3>3, RestIs, CoordinatorAssumption
      <4>2. CASE Greeting(coordSock[i])
        BY <4>1, <4>2 DEF Greeting
      <4>3. CASE peerSock[Coordinator][i] = coordSock[i]
        <5>1. CASE peerSock'[Coordinator][i] # peerSock[Coordinator][i]
          <6>1. peerSock'[Coordinator][i] \in Conn /\ i \in ends[peerSock'[Coordinator][i]]
            BY <1>2, <5>1, CoordinatorAssumption DEF Binds
          <6> QED
            BY <3>1, <6>1, OneLink
        <5> QED
          BY <4>3, <5>1
      <4> QED
        BY <4>2, <4>3 DEF Patience, Sockets, Linked
    <3> QED
      BY <3>2, <3>3
  <2> QED
    BY <2>2, <2>3
<1>7. UNCHANGED <<session, role, coordUuid, capturing, created, coordSock, joining, dials, ends, alive, handling>>
  BY DEF HandleHello
<1> QED
  BY <1>1, <1>2, <1>4, <1>5, <1>6, <1>7 DEF Ordinary, Usual, Takes, Tidy

LEMMA JoinOrdinary ==
  ASSUME Patience, NEW k \in Conn, NEW n \in Node, HandleJoin(k, n)
  PROVE  Ordinary
<1> DEFINE s == Source(k, n)
<1>1. /\ Reads(k, n, "JOIN_SESSION") /\ inbox' = Rest(k, n)
      /\ handling' = [handling EXCEPT ![k][n] = Head(inbox[k][n])]
      /\ UNCHANGED <<session, role, coordUuid, capturing, created, coordSock, joining, dials, ends, alive>>
  BY DEF HandleJoin
<1>2. /\ Binds /\ s \in Node /\ Head(inbox[k][n]).type = "JOIN_SESSION"
      /\ Proper(k, n, Head(inbox[k][n])) /\ Head(inbox[k][n]) \in Contents(inbox[k][n])
  BY <1>1, ReadBinds
<1>3. Carried(inbox')
  BY <1>1, ReadCarried
<1>4. Enrols
  <2>1. n = Coordinator => coordSock[s] # None
    BY <1>2 DEF Proper, Source
  <2>2. PICK r : members' = [members EXCEPT ![n][s] = r]
    BY DEF HandleJoin
  <2> HIDE DEF s
  <2> QED
    BY <1>2, <2>1, <2>2, OneMember
<1>5. handling[k][n] = None /\ \A j \in Conn, m \in Node :
        handling'[j][m] = IF j = k /\ m = n THEN Head(inbox[k][n]) ELSE handling[j][m]
  BY <1>1 DEF Patience, TypeOK, Reads
<1>6. Takes
  BY <1>2, <1>5 DEF Takes
<1>7. Tidy
  BY <1>2, <1>5 DEF Tidy, Holds
<1> QED
  BY <1>1, <1>2, <1>3, <1>4, <1>6, <1>7, OrdinaryIs

LEMMA StatusOrdinary ==
  ASSUME Patience, NEW k \in Conn, NEW n \in Node, SendSessionStatus(k, n)
  PROVE  Ordinary
<1> DEFINE msg == M("SESSION_STATUS", n, handling[k][n].sess)
           out == Post(inbox, OutTo(n, k), msg)
<1>0. TypeOK /\ Carried(inbox)
  BY NowCarriedToo DEF Patience
<1>1. /\ handling[k][n] # None /\ handling[k][n].type = "JOIN_SESSION"
      /\ handling' = [handling EXCEPT ![k][n] = None]
      /\ UNCHANGED <<session, role, coordUuid, capturing, members, created, peerSock, coordSock, joining,
                     dials, ends, alive>>
  BY DEF SendSessionStatus, nodeVars, sockVars
<1>2. handling[k][n] \in Msg /\ n = Coordinator
  <2>1. handling[k][n] \in InFlight(k, n)
    BY <1>1, InFlightIs
  <2> QED
    BY <1>0, <1>1, <2>1 DEF Patience, Mail, Proper, TypeOK
<1>3. msg \in Msg /\ msg.type = "SESSION_STATUS" /\ msg.src = n
  BY <1>2, MType DEF MessageType, M, Msg
<1>4. \A c : Written(n, OutTo(n, c))
  BY <1>1, OutWritten
<1>5. inbox' = out \/ \E c : inbox' = SendAlignment(n, out, OutTo(n, c))
  BY DEF SendSessionStatus
<1> HIDE DEF msg
<1>6. Honest(n, msg) /\ ~IsFlip(msg)
  BY <1>2, <1>3 DEF Honest, IsFlip, Commands
<1>7. Carried(out)
  BY <1>0, <1>4, <1>6, PostCarried
<1> HIDE DEF out
<1>8. Carried(inbox')
  BY <1>0, <1>4, <1>5, <1>7, AlignmentCarried
<1>9. \A j \in Conn, m \in Node : handling'[j][m] = IF j = k /\ m = n THEN None ELSE handling[j][m]
  BY <1>0, <1>1 DEF TypeOK
<1>10. Takes /\ Tidy
  BY <1>1, <1>9 DEF Takes, Tidy, Holds, IsFlip
<1> QED
  BY <1>1, <1>8, <1>10, SameMembers, OrdinaryIs DEF Binds

LEMMA ReaderOrdinary ==
  ASSUME Patience, NEW k \in Conn, NEW n \in Node,
         \/ HandleInvite(k, n) \/ HandleSessionStatus(k, n) \/ HandleLeave(k, n) \/ HandleReady(k, n)
         \/ HandleAlignment(k, n) \/ HandleHeartbeat(k, n)
  PROVE  Ordinary
<1> DEFINE s == Source(k, n)
<1>1. CASE HandleInvite(k, n) \/ HandleSessionStatus(k, n)
  <2>1. PICK t : t \in {"INVITE_SESSION", "SESSION_STATUS"} /\ Reads(k, n, t)
    BY <1>1 DEF HandleInvite, HandleSessionStatus
  <2>2. Carried(Rest(k, n))
    BY <2>1, ReadCarried
  <2>3. s = Coordinator
    BY <2>1, ReadBinds DEF Proper, Source
  <2>4. /\ inbox' = Rest(k, n) /\ coordUuid' = [coordUuid EXCEPT ![n] = s]
        /\ UNCHANGED <<session, role, capturing, created, members, coordSock, joining, dials, ends, alive, handling>>
    BY <1>1 DEF HandleInvite, HandleSessionStatus
  <2>5. \A i \in Node : coordUuid'[i] \in {coordUuid[i], Coordinator}
    BY <2>3, <2>4 DEF Patience, TypeOK
  <2> QED
    BY <2>1, <2>2, <2>4, <2>5, SameMembers, ReadOrdinary
<1>2. CASE HandleLeave(k, n) \/ HandleReady(k, n) \/ HandleHeartbeat(k, n)
  <2>1. PICK t : t \in {"LEAVE_SESSION", "READY_FOR_CAPTURE", "HEARTBEAT"} /\ Reads(k, n, t)
    BY <1>2 DEF HandleLeave, HandleReady, HandleHeartbeat
  <2>2. Carried(Rest(k, n)) /\ s \in Node
    BY <2>1, ReadCarried, ReadBinds
  <2>3. /\ inbox' = Rest(k, n)
        /\ UNCHANGED <<session, role, coordUuid, capturing, created, coordSock, joining, dials, ends, alive, handling>>
    BY <1>2 DEF HandleLeave, HandleReady, HandleHeartbeat
  <2>4. Enrols
    <3>1. CASE HandleLeave(k, n)
      BY <2>2, <3>1, OneMember DEF HandleLeave
    <3>2. CASE HandleReady(k, n)
      <4> DEFINE r == IF members[n][s] = None THEN None
                      ELSE [members[n][s] EXCEPT !.ready = TRUE, !.state = "READY"]
      <4>1. members' = [members EXCEPT ![n][s] = r] /\ (members[n][s] = None => r = None)
        BY <2>2, <3>2 DEF HandleReady
      <4> HIDE DEF r, s
      <4> QED
        BY <2>2, <4>1, OneMember
    <3>3. CASE HandleHeartbeat(k, n)
      <4> DEFINE r == IF members[n][s] = None THEN None ELSE [members[n][s] EXCEPT !.connected = TRUE]
      <4>1. members' = [members EXCEPT ![n][s] = r] /\ (members[n][s] = None => r = None)
        BY <2>2, <3>3 DEF HandleHeartbeat
      <4> HIDE DEF r, s
      <4> QED
        BY <2>2, <4>1, OneMember
    <3> QED
      BY <1>2, <3>1, <3>2, <3>3
  <2> QED
    BY <2>1, <2>2, <2>3, <2>4, ReadOrdinary
<1>3. CASE HandleAlignment(k, n)
  <2>1. Carried(Rest(k, n)) /\ Reads(k, n, "CSLAM_ALIGNMENT_UPDATE")
    BY <1>3, ReadCarried DEF HandleAlignment
  <2> QED
    BY <1>3, <2>1, SameMembers, ReadOrdinary DEF HandleAlignment, nodeVars
<1> QED
  BY <1>1, <1>2, <1>3

LEMMA AnswerOrdinary ==
  ASSUME Patience, NEW k \in Conn, NEW n \in Node, HandlePrepare(k, n) \/ HandleSubmap(k, n)
  PROVE  Ordinary
<1>0. TypeOK /\ session[n] \in Session \cup {None}
  BY DEF Patience, TypeOK
<1>1. CASE HandlePrepare(k, n)
  <2> DEFINE msg == M("READY_FOR_CAPTURE", n, session[n])
  <2>1. Carried(Rest(k, n)) /\ Reads(k, n, "PREPARE_CAPTURE")
    BY <1>1, ReadCarried DEF HandlePrepare
  <2>2. Honest(n, msg) /\ ~IsFlip(msg)
    BY <1>0, ChatterHonest DEF Chatter
  <2>3. PICK c : inbox' = Post(Rest(k, n), OutTo(n, c), msg)
    BY <1>1 DEF HandlePrepare
  <2>4. Written(n, OutTo(n, c))
    BY <1>1, OutWritten DEF HandlePrepare
  <2> HIDE DEF msg
  <2>5. Carried(inbox')
    BY <2>1, <2>2, <2>3, <2>4, PostCarried
  <2> QED
    BY <1>1, <2>1, <2>5, SameMembers, ReadOrdinary DEF HandlePrepare, nodeVars
<1>2. CASE HandleSubmap(k, n)
  <2> DEFINE msg == Head(inbox[k][n])
             ps  == [peerSock EXCEPT ![n][Source(k, n)] = k]
             all == Broadcast(n, ps, None)
             but == Broadcast(n, ps, Source(k, n))
             out == SendAlignment(n, Rest(k, n), all)
  <2>1. Carried(Rest(k, n)) /\ Reads(k, n, "CSLAM_SUBMAP_UPDATE")
    BY <1>2, ReadCarried DEF HandleSubmap
  <2>2. msg \in Msg /\ msg.type = "CSLAM_SUBMAP_UPDATE"
    BY <1>0, <2>1, ReadsType DEF Reads
  <2>3. IF role[n] = "SESSION_COORDINATOR" THEN inbox' = Post(out, but, msg) ELSE inbox' = Rest(k, n)
    BY <1>2 DEF HandleSubmap
  <2>4. Written(n, all) /\ Written(n, but)
    BY <1>2, OutWritten DEF HandleSubmap
  <2>5. role[n] = "SESSION_COORDINATOR" => Honest(n, msg) /\ ~IsFlip(msg)
    BY <2>2 DEF Patience, OneSession, Honest, IsFlip, Commands
  <2> HIDE DEF msg, ps, all, but
  <2>6. Carried(out)
    BY <1>0, <2>1, <2>4, AlignmentCarried
  <2> HIDE DEF out
  <2>7. Carried(inbox')
    BY <2>1, <2>3, <2>4, <2>5, <2>6, PostCarried
  <2> QED
    BY <1>2, <2>1, <2>7, SameMembers, ReadOrdinary DEF HandleSubmap, nodeVars
<1> QED
  BY <1>1, <1>2

\* Only a node without connections restarts, and it had nothing to lose.
LEMMA RestartOrdinary ==
  ASSUME Patience, NEW n \in Node, Restart(n), Patient, Whole'
  PROVE  Ordinary
<1>0. TypeOK
  BY DEF Patience
<1>1. \A k \in Conn : n \notin ends[k]
  <2>1. broken' = broken \cup {k \in Conn : n \in ends[k]}
    BY DEF Restart
  <2> QED
    BY <2>1 DEF Whole
<1>2. session[n] = None /\ session' = session
  <2>1. session' = [session EXCEPT ![n] = None]
    BY DEF Restart
  <2>2. session'[n] = None
    BY <1>0, <2>1 DEF TypeOK
  <2>3. session[n] = None
    BY <2>2 DEF Patient
  <2> QED
    BY <1>0, <2>1, <2>3 DEF TypeOK
<1>3. coordSock[n] = None /\ joining[n] = None /\ capturing[n] = FALSE
      /\ \A m \in Node : peerSock[n][m] = None
  <2>1. coordSock[n] = None /\ \A m \in Node : peerSock[n][m] = None
    BY <1>0, <1>1 DEF Patience, Sockets, TypeOK
  <2>2. joining[n] = None
    BY <2>1 DEF Patience, Sockets, OneSession
  <2>3. capturing[n] = FALSE
    BY <1>0, <1>2 DEF Patience, Duties, TypeOK
  <2> QED
    BY <2>1, <2>2, <2>3
<1>4. UNCHANGED <<coordSock, joining, capturing, peerSock>>
  <2>1. /\ coordSock' = [coordSock EXCEPT ![n] = None]
        /\ joining' = [joining EXCEPT ![n] = None]
        /\ capturing' = [capturing EXCEPT ![n] = FALSE]
        /\ peerSock' = [peerSock EXCEPT ![n] = [m \in Node |-> None]]
    BY DEF Restart
  <2>2. peerSock[n] = [m \in Node |-> None]
    BY <1>0, <1>3 DEF TypeOK
  <2> QED
    BY <1>0, <1>3, <2>1, <2>2 DEF TypeOK
<1>5. \A k \in Conn : alive[k][n] = FALSE /\ inbox[k][n] = <<>> /\ handling[k][n] = None
  <2> SUFFICES ASSUME NEW k \in Conn
               PROVE  alive[k][n] = FALSE /\ inbox[k][n] = <<>> /\ handling[k][n] = None
    OBVIOUS
  <2>1. alive[k][n] = FALSE
    BY <1>0, <1>1 DEF Patience, Star, TypeOK
  <2>2. InFlight(k, n) = {}
    BY <1>1 DEF Patience, Mail, Proper
  <2>3. Contents(inbox[k][n]) = {} /\ handling[k][n] = None
    <3>1. InFlight(k, n) = Contents(inbox[k][n]) \cup ({handling[k][n]} \ {None})
      BY InFlightIs
    <3> QED
      BY <2>2, <3>1
  <2>4. inbox[k][n] \in Seq(Msg)
    BY <1>0 DEF TypeOK
  <2>5. inbox[k][n] = <<>>
    <3>1. PICK q \in Seq(Msg) : q = inbox[k][n]
      BY <2>4
    <3>2. q # <<>> => 1 \in 1..Len(q)
      OBVIOUS
    <3>3. q # <<>> => q[1] \in Contents(q)
      BY <3>2, Zenon DEF Contents
    <3> QED
      BY <2>3, <3>1, <3>3
  <2> QED
    BY <2>1, <2>3, <2>5
<1>6. UNCHANGED <<alive, inbox, handling>>
  <2> DEFINE wipe(f, v) == [k \in Conn |-> [f[k] EXCEPT ![n] = v]]
  <2>1. alive' = wipe(alive, FALSE) /\ inbox' = wipe(inbox, <<>>) /\ handling' = wipe(handling, None)
    BY DEF Restart
  <2>2. alive \in [Conn -> [Node -> BOOLEAN]] /\ inbox \in [Conn -> [Node -> Seq(Msg)]]
        /\ handling \in [Conn -> [Node -> Msg \cup {None}]]
    BY <1>0 DEF TypeOK
  <2>3. wipe(alive, FALSE) = alive
    BY <1>5, <2>2
  <2>4. wipe(inbox, <<>>) = inbox
    BY <1>5, <2>2
  <2>5. wipe(handling, None) = handling
    BY <1>5, <2>2
  <2> QED
    BY <2>1, <2>3, <2>4, <2>5
<1>7. UNCHANGED <<dials, ends, created>>
  BY DEF Restart
<1>8. Binds /\ Takes /\ Tidy
  BY <1>4, <1>6 DEF Binds, Takes, Tidy
<1>9. Enrols
  <2>1. members' = [members EXCEPT ![n] = [m \in Node |-> None]]
    BY DEF Restart
  <2> QED
    BY <1>0, <2>1, CoordinatorAssumption DEF Enrols, TypeOK
<1>10. Carried(inbox')
  BY <1>0, <1>6, <1>7, NowCarriedToo
<1>11. \A i \in Node : Linked(i)'
  BY <1>4, <1>8, <1>10, LinkedKept DEF Carried
<1>12. /\ \A i \in Node : role'[i] = "SESSION_COORDINATOR" => role[i] = "SESSION_COORDINATOR"
       /\ \A i \in Node : coordUuid'[i] \in {coordUuid[i], None, Coordinator}
  <2>1. role' = [role EXCEPT ![n] = "UNASSIGNED"] /\ coordUuid' = [coordUuid EXCEPT ![n] = None]
    BY DEF Restart
  <2> QED
    BY <1>0, <2>1 DEF TypeOK
<1> QED
  BY <1>2, <1>4, <1>6, <1>7, <1>8, <1>9, <1>10, <1>11, <1>12 DEF Ordinary, Usual, Carried

\* What a worker does with START and STOP.
Take(k, n)    == \E t \in {"START_CAPTURE", "STOP_CAPTURE"} : HandleCommand(k, n, t)
Execute(k, n) == ExecuteStart(k, n) \/ ExecuteStop(k, n)
Refuse(k, n)  == Discard(k, n) /\ IsFlip(Head(inbox[k][n]))

LEMMA DiscardOrdinary ==
  ASSUME Patience, NEW k \in Conn, NEW n \in Node, Discard(k, n), ~IsFlip(Head(inbox[k][n]))
  PROVE  Ordinary
<1>1. PICK t \in {"JOIN_SESSION", "PREPARE_CAPTURE", "START_CAPTURE", "STOP_CAPTURE"} : Reads(k, n, t)
  BY DEF Discard
<1>2. t \notin {"HELLO", "START_CAPTURE", "STOP_CAPTURE"}
  BY <1>1 DEF IsFlip, Reads
<1>3. Carried(Rest(k, n))
  BY <1>1, <1>2, ReadCarried
<1> QED
  BY <1>1, <1>3, SameMembers, ReadOrdinary DEF Discard, nodeVars

LEMMA StillOrdinary ==
  ASSUME Patience, UNCHANGED vars
  PROVE  Ordinary
<1>1. Carried(inbox')
  BY NowCarriedToo DEF vars, connVars, Patience
<1> QED
  BY <1>1, SameMembers, SendOrdinary DEF vars, nodeVars, connVars

LEMMA PatientSteps ==
  ASSUME Patience, [PatientNext]_vars, Whole', ~Ordinary
  PROVE  /\ Patient
         /\ \/ \E n \in Node, s \in Session : CreateSession(n, s) \/ ConnectToCoordinator(n, s)
            \/ \E n, m \in Node : InvitePeer(n, m) /\ peerSock[n][m] = None
            \/ \E n \in Node : AcceptSessionInvite(n) \/ StartCapture(n) \/ StopCapture(n)
            \/ \E k \in Conn, n \in Node : Take(k, n) \/ Execute(k, n) \/ Refuse(k, n)
<1>0. Next /\ Patient
  BY StillOrdinary DEF PatientNext
<1>1. \A n \in Node : ~LeaveSession(n)
  <2> SUFFICES ASSUME NEW n \in Node, LeaveSession(n)
               PROVE  FALSE
    OBVIOUS
  <2>1. session[n] # None /\ session'[n] = None
    BY DEF LeaveSession, Patience, TypeOK
  <2> QED
    BY <1>0, <2>1 DEF Patient
<1>2. \A n \in Node : ~PrepareCapture(n) /\ ~PublishSubmap(n) /\ ~TriggerOverlapEvaluation(n) /\ ~Heartbeat(n)
  BY UserOrdinary
<1>3. \A n \in Node : ~Restart(n)
  BY <1>0, RestartOrdinary
<1>4. \A k \in Conn : ~NetworkDrop(k) /\ \A n \in Node : ~WorkerExit(k, n)
  BY DEF NetworkDrop, WorkerExit, Patience, Whole
<1>5. ASSUME NEW k \in Conn, NEW n \in Node, Worker(k, n)
      PROVE  Take(k, n) \/ Execute(k, n) \/ Refuse(k, n)
  <2>1. /\ ~HandleHello(k, n) /\ ~HandleInvite(k, n) /\ ~HandleJoin(k, n) /\ ~SendSessionStatus(k, n)
        /\ ~HandleSessionStatus(k, n) /\ ~HandleLeave(k, n) /\ ~HandlePrepare(k, n) /\ ~HandleReady(k, n)
        /\ ~HandleSubmap(k, n) /\ ~HandleAlignment(k, n) /\ ~HandleHeartbeat(k, n)
    BY HelloOrdinary, JoinOrdinary, StatusOrdinary, ReaderOrdinary, AnswerOrdinary
  <2>2. Discard(k, n) => Refuse(k, n)
    BY DiscardOrdinary DEF Refuse
  <2>3. (\E t \in MessageType : HandleCommand(k, n, t)) => Take(k, n)
    BY DEF HandleCommand, Take
  <2> QED
    BY <1>5, <2>1, <2>2, <2>3 DEF Worker, Execute
<1>6. \A n, m \in Node : InvitePeer(n, m) => peerSock[n][m] = None
  BY InviteOrdinary
<1> QED
  BY <1>0, <1>1, <1>2, <1>3, <1>4, <1>5, <1>6 DEF Next, User

-----------------------------------------------------------------------------
(* What a usual step keeps, and that the commands' steps are usual.         *)

LEMMA MailNext ==
  ASSUME Patience, Moves(inbox'), Takes,
         \A k \in Conn : ends[k] # {} => ends'[k] = ends[k],
         \A k \in Conn : ends'[k] # {} => Coordinator \in ends'[k],
         \A n \in Node : coordSock[n] # None => coordSock'[n] # None,
         session[Coordinator] # None => session'[Coordinator] = session[Coordinator]
  PROVE  Mail'
<1> SUFFICES ASSUME NEW k \in Conn, NEW n \in Node, NEW x \in InFlight(k, n)'
             PROVE  Proper(k, n, x)'
  BY DEF Mail
<1>1. x \in InFlight(k, n) \/ \E i \in Node : i # n /\ ends'[k] = {i, n} /\ Honest(i, x)
  <2>1. CASE x \in Contents(inbox'[k][n])
    BY <2>1, InFlightIs DEF Moves
  <2>2. CASE x = handling'[k][n] /\ x # None
    BY <2>2, InFlightIs DEF Takes
  <2> QED
    BY <2>1, <2>2, InFlightIs
<1>2. CASE x \in InFlight(k, n)
  <2>1. Proper(k, n, x) /\ x \in Msg
    <3>1. TypeOK
      BY DEF Patience
    <3>2. inbox[k][n] \in Seq(Msg) /\ handling[k][n] \in Msg \cup {None}
      BY <3>1 DEF TypeOK
    <3>3. Contents(inbox[k][n]) \subseteq Msg
      BY <3>2 DEF Contents
    <3> QED
      BY <1>2, <3>2, <3>3, InFlightIs DEF Patience, Mail
  <2>2. ends'[k] = ends[k] /\ x.src \in Node
    BY <2>1 DEF Proper, Msg
  <2> QED
    BY <2>1, <2>2 DEF Proper
<1>3. CASE \E i \in Node : i # n /\ ends'[k] = {i, n} /\ Honest(i, x)
  <2>1. PICK i \in Node : i # n /\ ends'[k] = {i, n} /\ Honest(i, x)
    BY <1>3
  <2>2. i = Coordinator \/ n = Coordinator
    BY <2>1
  <2> QED
    BY <2>1, <2>2 DEF Proper, Honest, Commands
<1> QED
  BY <1>1, <1>2, <1>3

LEMMA UsualKeeps ==
  ASSUME Patience, Usual
  PROVE  /\ OneSession' /\ Star' /\ Sockets' /\ Mail'
         /\ \A n \in Node \ {Coordinator} : members'[Coordinator][n] # None => coordSock'[n] # None
         /\ \A k \in Conn, n \in Node : handling'[k][n] # None =>
              handling'[k][n].type \in {"JOIN_SESSION", "START_CAPTURE", "STOP_CAPTURE"}
<1> USE CoordinatorAssumption
<1>1. UNCHANGED <<session, created, coordSock, joining, dials, ends, alive>>
  BY DEF Usual
<1>2. OneSession'
  BY <1>1 DEF Patience, OneSession, Usual
<1>3. Star'
  BY <1>1 DEF Patience, Star
<1>4. Sockets'
  <2>1. \A n, m \in Node : peerSock'[n][m] # None => n \in ends[peerSock'[n][m]]
    BY DEF Patience, Sockets, Usual, Binds
  <2>2. \A n \in Node : peerSock'[Coordinator][n] # None =>
          n # Coordinator /\ n \in ends[peerSock'[Coordinator][n]]
    BY DEF Patience, Sockets, Usual, Binds
  <2>3. \A n \in Node : Linked(n)'
    BY DEF Usual
  <2> QED
    BY <1>1, <2>1, <2>2, <2>3 DEF Patience, Sockets
<1>5. Mail'
  <2>1. \A k \in Conn : ends'[k] # {} => Coordinator \in ends'[k]
    BY <1>1, TwoEnds
  <2> QED
    BY <1>1, <2>1, MailNext DEF Usual
<1>6. \A n \in Node \ {Coordinator} : members'[Coordinator][n] # None => coordSock'[n] # None
  BY <1>1 DEF Usual, Enrols, Patience, Duties
<1>7. ASSUME NEW k \in Conn, NEW n \in Node, handling'[k][n] # None
      PROVE  handling'[k][n].type \in {"JOIN_SESSION", "START_CAPTURE", "STOP_CAPTURE"}
  BY <1>7 DEF Usual, Takes, Patience, Duties
<1> QED
  BY <1>2, <1>3, <1>4, <1>5, <1>6, <1>7

LEMMA CaptureUsual ==
  ASSUME Patience, NEW n \in Node, StartCapture(n) \/ StopCapture(n)
  PROVE  /\ Usual /\ n = Coordinator /\ handling' = handling
         /\ capturing' = [capturing EXCEPT ![n] = ~capturing[n]]
         /\ \E msg \in Msg : /\ IsFlip(msg) /\ Flip(msg) = ~capturing[n]
                             /\ inbox' = Post(inbox, Broadcast(n, peerSock, None), msg)
<1> DEFINE start == M("START_CAPTURE", n, session[n])
           stop  == M("STOP_CAPTURE", n, session[n])
           tgt   == Broadcast(n, peerSock, None)
<1>0. TypeOK /\ Moves(inbox) /\ Greets(inbox) /\ session[n] \in Session \cup {None}
  BY NowCarried DEF Patience, TypeOK
<1>1. n = Coordinator /\ session[n] # None
  BY TheCoordinator DEF StartCapture, StopCapture
<1>2. /\ UNCHANGED <<session, role, coordUuid, peerSock, coordSock, joining, dials, ends, alive, handling, created>>
  BY DEF StartCapture, StopCapture, sockVars
<1>3. Written(n, tgt)
  BY <1>2, OutWritten
<1>4. /\ start \in Msg /\ start.type = "START_CAPTURE" /\ start.src = n /\ start.sess = session[n]
      /\ stop \in Msg /\ stop.type = "STOP_CAPTURE" /\ stop.src = n /\ stop.sess = session[n]
  BY <1>0, MType DEF MessageType, M
<1>5. \/ ~capturing[n] /\ inbox' = Post(inbox, tgt, start) /\ capturing' = [capturing EXCEPT ![n] = TRUE]
      \/ capturing[n] /\ inbox' = Post(inbox, tgt, stop) /\ capturing' = [capturing EXCEPT ![n] = FALSE]
  BY DEF StartCapture, StopCapture
<1>6. \E st : members' = [members EXCEPT ![n] = AllIn(n, st)]
  BY DEF StartCapture, StopCapture
<1> HIDE DEF start, stop, tgt
<1>7. Honest(n, start) /\ Honest(n, stop) /\ IsFlip(start) /\ IsFlip(stop) /\ Flip(start) /\ ~Flip(stop)
  BY <1>1, <1>4 DEF Honest, IsFlip, Commands, Flip
<1>8. PICK msg \in {start, stop} : inbox' = Post(inbox, tgt, msg) /\ (msg = start <=> ~capturing[n])
  <2>1. start # stop
    BY <1>4
  <2> QED
    BY <1>5, <2>1
<1>9. Moves(inbox') /\ Greets(inbox')
  <2>1. msg \in Msg /\ Honest(n, msg)
    BY <1>4, <1>7, <1>8
  <2>2. inbox \in Queues
    BY <1>0 DEF Moves
  <2>3. Moves(inbox')
    BY <1>0, <1>3, <1>8, <2>1, PostMoves DEF Written
  <2>4. Greets(inbox')
    BY <1>0, <1>8, <2>1, <2>2, PostGreets
  <2> QED
    BY <2>3, <2>4
<1>10. Enrols
  <2>1. PICK st : members' = [members EXCEPT ![n] = AllIn(n, st)]
    BY <1>6
  <2>2. members'[n] = AllIn(n, st)
    BY <1>0, <2>1 DEF TypeOK
  <2>3. \A m \in Node : members[n][m] = None => members'[n][m] = None
    BY <2>2 DEF AllIn
  <2> QED
    BY <1>1, <2>3 DEF Enrols
<1>11. Binds /\ Takes
  BY <1>2 DEF Binds, Takes
<1>12. \A i \in Node : Linked(i)'
  BY <1>2, <1>9, <1>11, LinkedKept
<1>13. Usual
  BY <1>2, <1>9, <1>10, <1>11, <1>12 DEF Usual
<1>14. capturing' = [capturing EXCEPT ![n] = ~capturing[n]]
  <2>1. capturing[n] \in BOOLEAN
    BY <1>0 DEF TypeOK
  <2>2. CASE capturing[n] = TRUE
    BY <1>5, <2>2
  <2>3. CASE capturing[n] = FALSE
    BY <1>5, <2>3
  <2> QED
    BY <2>1, <2>2, <2>3
<1>15. Flip(msg) = ~capturing[n]
  <2>1. start # stop
    BY <1>4
  <2>2. Flip(msg) <=> ~capturing[n]
    BY <1>7, <1>8, <2>1
  <2> QED
    BY <2>2 DEF Flip
<1>16. msg \in Msg /\ IsFlip(msg)
  BY <1>4, <1>7, <1>8
<1> QED
  BY <1>1, <1>2, <1>8, <1>13, <1>14, <1>15, <1>16 DEF tgt

\* A worker takes a command that it accepts, or refuses it.
LEMMA TakeUsual ==
  ASSUME Patience, NEW k \in Conn, NEW n \in Node, Take(k, n) \/ Refuse(k, n)
  PROVE  /\ Usual /\ capturing' = capturing /\ n # Coordinator
         /\ inbox[k][n] # <<>> /\ IsFlip(Head(inbox[k][n])) /\ inbox' = Rest(k, n)
         /\ handling[k][n] = None /\ n \in ends[k]
         /\ Take(k, n) => session[n] # None /\ handling' = [handling EXCEPT ![k][n] = Head(inbox[k][n])]
         /\ Refuse(k, n) => session[n] = None /\ handling' = handling
<1> DEFINE msg == Head(inbox[k][n])
<1>0. TypeOK
  BY DEF Patience
<1>1. PICK t : Reads(k, n, t) /\ IsFlip(msg)
  BY DEF Take, Refuse, HandleCommand, Discard, Reads, IsFlip
<1>2. /\ Binds /\ msg.type = t /\ Proper(k, n, msg) /\ msg \in Contents(inbox[k][n])
  BY <1>1, ReadBinds
<1>3. /\ UNCHANGED <<session, role, coordUuid, capturing, members, created, coordSock, joining, dials, ends, alive>>
      /\ inbox' = Rest(k, n) /\ inbox[k][n] # <<>> /\ handling[k][n] = None
      /\ handling' = [handling EXCEPT ![k][n] = msg] \/ handling' = handling
  BY <1>1 DEF Take, Refuse, HandleCommand, Discard, nodeVars, Reads
<1>4. msg.src = Coordinator /\ n # Coordinator /\ msg.sess = session[Coordinator] /\ msg.sess # None /\ n \in ends[k]
  BY <1>1, <1>2 DEF Proper, IsFlip, Commands
<1>5. Accepts(n, msg) <=> session[n] # None
  BY <1>4 DEF Patience, OneSession, Accepts
<1>6. /\ Take(k, n) => session[n] # None /\ handling' = [handling EXCEPT ![k][n] = msg]
      /\ Refuse(k, n) => session[n] = None /\ handling' = handling
  BY <1>5 DEF Take, Refuse, HandleCommand, Discard
<1>7. Takes
  <2>1. \A j \in Conn, m \in Node : handling'[j][m] = handling[j][m]
                                  \/ (j = k /\ m = n /\ handling'[j][m] = msg)
    BY <1>0, <1>3 DEF TypeOK
  <2>2. msg.type \in {"JOIN_SESSION", "START_CAPTURE", "STOP_CAPTURE"}
    BY <1>1 DEF IsFlip
  <2> HIDE DEF msg
  <2> QED
    BY <1>2, <1>3, <2>1, <2>2 DEF Takes
<1>8. Moves(inbox') /\ Greets(inbox')
  <2>1. msg.type # "HELLO"
    BY <1>1 DEF IsFlip
  <2> QED
    BY <1>0, <1>3, <2>1, RestMoves, RestGreets
<1>9. \A i \in Node : Linked(i)'
  BY <1>2, <1>3, <1>8, LinkedKept
<1>10. Usual
  BY <1>2, <1>3, <1>7, <1>8, <1>9, SameMembers DEF Usual
<1> QED
  BY <1>1, <1>3, <1>4, <1>6, <1>10

LEMMA ExecuteUsual ==
  ASSUME Patience, NEW k \in Conn, NEW n \in Node, Execute(k, n)
  PROVE  /\ Usual /\ Calm(inbox') /\ inbox' = inbox
         /\ Holds(k, n) /\ n # Coordinator /\ session[n] # None /\ n \in ends[k]
         /\ handling' = [handling EXCEPT ![k][n] = None]
         /\ capturing' = [capturing EXCEPT ![n] = Flip(handling[k][n])]
<1> DEFINE msg == handling[k][n]
<1>0. TypeOK /\ Carried(inbox)
  BY NowCarriedToo DEF Patience
<1>1. /\ msg # None /\ msg.type \in {"START_CAPTURE", "STOP_CAPTURE"}
      /\ UNCHANGED <<session, role, coordUuid, members, inbox, created, peerSock, coordSock, joining, dials, ends, alive>>
      /\ handling' = [handling EXCEPT ![k][n] = None]
  BY DEF Execute, ExecuteStart, ExecuteStop, sockVars
<1>2. \/ msg.type = "START_CAPTURE" /\ capturing' = [capturing EXCEPT ![n] = TRUE]
      \/ msg.type = "STOP_CAPTURE" /\ capturing' = [capturing EXCEPT ![n] = FALSE]
  BY DEF Execute, ExecuteStart, ExecuteStop
<1>3. capturing' = [capturing EXCEPT ![n] = Flip(msg)]
  <2>1. msg.type = "START_CAPTURE" => Flip(msg) = TRUE
    BY DEF Flip
  <2>2. msg.type = "STOP_CAPTURE" => Flip(msg) = FALSE
    BY DEF Flip
  <2> HIDE DEF msg
  <2> QED
    BY <1>2, <2>1, <2>2
<1>4. Holds(k, n)
  BY <1>1 DEF Holds, IsFlip
<1>5. Proper(k, n, msg)
  <2>1. msg \in InFlight(k, n)
    BY <1>1, InFlightIs
  <2> QED
    BY <2>1 DEF Patience, Mail
<1>6. n # Coordinator /\ n \in ends[k]
  BY <1>1, <1>5 DEF Proper, Commands
<1>7. session[n] # None
  BY <1>4 DEF Patience, Duties
<1>8. Takes /\ Binds
  BY <1>0, <1>1 DEF Takes, Binds, TypeOK
<1>9. Carried(inbox')
  BY <1>0, <1>1, NowCarriedToo
<1>10. \A i \in Node : Linked(i)'
  BY <1>1, <1>8, <1>9, LinkedKept DEF Carried
<1>11. Usual
  BY <1>1, <1>8, <1>9, <1>10, SameMembers DEF Usual, Carried
<1> QED
  BY <1>1, <1>3, <1>4, <1>6, <1>7, <1>9, <1>11 DEF Carried

-----------------------------------------------------------------------------
(* The steps that are not usual: create, dial and join.                     *)

LEMMA CreateKeeps ==
  ASSUME Patience, NEW n \in Node, NEW s \in Session, CreateSession(n, s), Patient
  PROVE  /\ n = Coordinator /\ session[n] = None /\ \A m \in Node : session[m] = None /\ joining[m] = None
         /\ session' = [session EXCEPT ![n] = s] /\ capturing' = [capturing EXCEPT ![n] = FALSE]
         /\ UNCHANGED <<inbox, handling, ends, dials, joining>>
         /\ OneSession' /\ Star' /\ Sockets' /\ Mail' /\ Duties'
<1> USE CoordinatorAssumption, NoneFresh
<1>0. TypeOK
  BY DEF Patience
<1>1. /\ n = Coordinator /\ s \notin created /\ created' = created \cup {s}
      /\ session' = [session EXCEPT ![n] = s]
      /\ role' = [role EXCEPT ![n] = "SESSION_COORDINATOR"]
      /\ coordUuid' = [coordUuid EXCEPT ![n] = n]
      /\ capturing' = [capturing EXCEPT ![n] = FALSE]
      /\ members' = [members EXCEPT ![n] = [m \in Node |-> IF m = n THEN [NewMember EXCEPT !.ready = TRUE] ELSE None]]
      /\ UNCHANGED <<peerSock, coordSock, joining, dials, ends, broken, alive, inbox, assoc, handling>>
  BY DEF CreateSession, sockVars, connVars
<1>2. session[n] = None
  <2> SUFFICES ASSUME session[n] # None
               PROVE  FALSE
    OBVIOUS
  <2>1. session'[n] = session[n] /\ session'[n] = s
    BY <1>0, <1>1 DEF Patient, TypeOK
  <2> QED
    BY <1>1, <2>1 DEF Patience, OneSession
<1>3. created = {} /\ \A m \in Node : session[m] = None /\ joining[m] = None
  BY <1>1, <1>2 DEF Patience, OneSession
<1>4. s # None /\ \A m \in Node : session'[m] = IF m = n THEN s ELSE None
  BY <1>0, <1>1, <1>3 DEF TypeOK
<1>5. OneSession'
  <2>1. created' = {session'[Coordinator]} \ {None}
    BY <1>1, <1>3, <1>4
  <2>2. \A m \in Node : role'[m] = "SESSION_COORDINATOR" => m = Coordinator
    BY <1>0, <1>1 DEF Patience, OneSession, TypeOK
  <2>3. \A m \in Node : coordUuid'[m] \in {None, Coordinator}
    BY <1>0, <1>1 DEF Patience, OneSession, TypeOK
  <2> QED
    BY <1>1, <1>3, <1>4, <2>1, <2>2, <2>3 DEF OneSession
<1>6. Star'
  BY <1>1 DEF Patience, Star
<1>7. Sockets'
  <2>1. \A m \in Node : Linked(m)'
    BY <1>1 DEF Patience, Sockets, Linked, Greeting, Contents
  <2>2. \A m \in Node \ {Coordinator} : coordSock'[m] # None <=> joining'[m] # None \/ session'[m] # None
    BY <1>1, <1>3, <1>4 DEF Patience, Sockets
  <2> QED
    BY <1>1, <2>1, <2>2 DEF Patience, Sockets
<1>8. Mail'
  <2>1. Moves(inbox') /\ Takes
    BY <1>0, <1>1, NowCarried DEF Takes
  <2>2. \A k \in Conn : ends'[k] # {} => Coordinator \in ends'[k]
    BY <1>1, TwoEnds
  <2> QED
    BY <1>1, <1>2, <2>1, <2>2, MailNext
<1>9. Duties'
  <2>1. \A m \in Node : session'[m] = None => ~capturing'[m]
    BY <1>0, <1>1, <1>3, <1>4 DEF Patience, Duties, TypeOK
  <2>2. \A m \in Node \ {Coordinator} : members'[Coordinator][m] = None
    BY <1>0, <1>1 DEF TypeOK
  <2>3. \A k \in Conn, m \in Node : Holds(k, m)' => Holds(k, m)
    BY <1>1 DEF Holds, IsFlip
  <2>4. \A k \in Conn, m \in Node : ~Holds(k, m)'
    BY <1>3, <2>3 DEF Patience, Duties
  <2>5. \A m \in Node : joining'[m] = None
    BY <1>1, <1>3
  <2> QED
    BY <1>1, <2>1, <2>2, <2>4, <2>5 DEF Patience, Duties
<1> QED
  BY <1>1, <1>2, <1>3, <1>5, <1>6, <1>7, <1>8, <1>9

\* The ends of a connection between the coordinator and m.
Joins(pair, m) == pair = {Coordinator, m}

\* A new connection goes to a node that had none.
LEMMA DialKeeps ==
  ASSUME Patience, NEW m \in Node \ {Coordinator}, NEW n, NEW i,
         (n = Coordinator /\ i = m) \/ (n = m /\ i = Coordinator),
         NEW k \in Conn, Dial(n, i, k), Patient
  PROVE  /\ Star' /\ ~capturing[Coordinator] /\ ends[k] = {} /\ Joins(ends'[k], m)
         /\ \A j \in Conn : ends[j] # {} => ends'[j] = ends[j]
         /\ \A j \in Conn : ends'[j] # {} => Coordinator \in ends'[j]
         /\ \A j \in Conn : m \notin ends[j] /\ inbox[j][m] = <<>> /\ handling[j][m] = None
         /\ coordSock[m] = None /\ session[m] = None /\ joining[m] = None
<1> USE CoordinatorAssumption
<1>0. TypeOK /\ dials \in 0..MaxConn
  BY DEF Patience, TypeOK
<1>1. k = dials + 1 /\ dials' = k /\ dials' # dials
  BY <1>0, MaxConnType DEF Dial
<1>2. /\ \A j \in Conn : ends'[j] = IF j = k THEN {Coordinator, m} ELSE ends[j]
      /\ \A j \in Conn, p \in Node : alive'[j][p] <=> IF j = k THEN p \in {Coordinator, m} ELSE alive[j][p]
  <2>1. /\ ends' = [ends EXCEPT ![k] = {n, i}]
        /\ alive' = [alive EXCEPT ![k] = [p \in Node |-> p \in {n, i}]]
    BY Zenon DEF Dial
  <2>2. \A j \in Conn : ends'[j] = IF j = k THEN {n, i} ELSE ends[j]
    BY <1>0, <2>1 DEF TypeOK
  <2>3. \A j \in Conn, p \in Node : alive'[j][p] <=> IF j = k THEN p \in {n, i} ELSE alive[j][p]
    BY <1>0, <2>1 DEF TypeOK
  <2> QED
    BY <2>2, <2>3
<1>3. ~capturing[Coordinator] /\ \A j \in Conn : ends[j] # {Coordinator, m}
  <2>1. ends'[dials'] = {Coordinator, m}
    BY <1>1, <1>2
  <2> QED
    BY <1>1, <2>1 DEF Patient
<1>4. \A j \in Conn : m \notin ends[j]
  BY <1>3, TwoEnds
<1>5. ends[k] = {} /\ \A j \in Conn : ends'[j] = IF j = k THEN {Coordinator, m} ELSE ends[j]
  <2>1. k > dials
    BY <1>0, <1>1, MaxConnType
  <2> QED
    BY <1>0, <1>2, <2>1 DEF Patience, Star, TypeOK
<1>6. Star'
  <2>1. ASSUME NEW j \in Conn, j <= dials'
        PROVE  \E p \in Node \ {Coordinator} : ends'[j] = {Coordinator, p}
    <3>1. CASE j = k
      BY <1>5, <3>1
    <3>2. CASE j # k
      <4>1. j <= dials
        BY <1>0, <1>1, <2>1, <3>2, MaxConnType DEF Conn
      <4> QED
        BY <1>5, <3>2, <4>1 DEF Patience, Star
    <3> QED
      BY <3>1, <3>2
  <2>2. ASSUME NEW j \in Conn, j > dials'
        PROVE  ends'[j] = {}
    <3>1. j > dials /\ j # k
      BY <1>0, <1>1, <2>2, MaxConnType DEF Conn
    <3> QED
      BY <1>5, <3>1 DEF Patience, Star
  <2>3. ASSUME NEW j \in Conn, NEW l \in Conn, ends'[j] = ends'[l], ends'[j] # {}
        PROVE  j = l
    BY <1>3, <1>5, <2>3 DEF Patience, Star
  <2>4. \A j \in Conn, p \in Node : alive'[j][p] <=> p \in ends'[j]
    BY <1>2, <1>5 DEF Patience, Star
  <2> QED
    BY <2>1, <2>2, <2>3, <2>4 DEF Star
<1>7. ASSUME NEW j \in Conn
      PROVE  inbox[j][m] = <<>> /\ handling[j][m] = None
  <2>1. InFlight(j, m) = {}
    BY <1>4 DEF Patience, Mail, Proper
  <2>2. InFlight(j, m) = Contents(inbox[j][m]) \cup ({handling[j][m]} \ {None})
    BY InFlightIs
  <2>3. Contents(inbox[j][m]) = {} /\ handling[j][m] = None
    BY <2>1, <2>2
  <2>4. PICK q \in Seq(Msg) : q = inbox[j][m]
    BY <1>0 DEF TypeOK
  <2>5. q # <<>> => 1 \in 1..Len(q)
    OBVIOUS
  <2>6. q # <<>> => q[1] \in Contents(q)
    BY <2>5, Zenon DEF Contents
  <2> QED
    BY <2>3, <2>4, <2>6
<1>8. coordSock[m] = None /\ session[m] = None /\ joining[m] = None
  <2>1. coordSock[m] \in Conn \cup {None}
    BY <1>0 DEF TypeOK
  <2>2. coordSock[m] = None
    BY <1>4, <2>1 DEF Patience, Sockets
  <2> QED
    BY <2>2 DEF Patience, Sockets
<1>9. \A j \in Conn : ends'[j] # {} => Coordinator \in ends'[j]
  BY <1>5, TwoEnds
<1> QED
  BY <1>3, <1>4, <1>5, <1>6, <1>7, <1>8, <1>9 DEF Joins

\* Commands neither read, written nor executed.
LEMMA PendingSame ==
  ASSUME NEW k, NEW n, Flips(inbox'[k][n]) = Flips(inbox[k][n]),
         \/ handling'[k][n] = handling[k][n]
         \/ ~Holds(k, n) /\ handling'[k][n] = None
         \/ ~Holds(k, n) /\ handling'[k][n].type = "JOIN_SESSION"
  PROVE  (Holds(k, n)' <=> Holds(k, n)) /\ PendingOn(k, n)' = PendingOn(k, n)
<1>1. Holds(k, n)' <=> Holds(k, n)
  BY DEF Holds, IsFlip
<1>2. CASE Holds(k, n)
  <2>1. handling'[k][n] = handling[k][n]
    BY <1>2
  <2>2. PendingOn(k, n) = <<Flip(handling[k][n])>> \o Flips(inbox[k][n])
    BY <1>2, Zenon DEF PendingOn
  <2>3. PendingOn(k, n)' = <<Flip(handling'[k][n])>> \o Flips(inbox'[k][n])
    BY <1>1, <1>2, Zenon DEF PendingOn
  <2> QED
    BY <1>1, <2>1, <2>2, <2>3, Zenon
<1>3. CASE ~Holds(k, n)
  <2>1. PendingOn(k, n) = Flips(inbox[k][n])
    BY <1>3, Zenon DEF PendingOn
  <2>2. PendingOn(k, n)' = Flips(inbox'[k][n])
    BY <1>1, <1>3, Zenon DEF PendingOn
  <2> QED
    BY <1>1, <2>1, <2>2, Zenon
<1> QED
  BY <1>2, <1>3

LEMMA CalmPending ==
  ASSUME Calm(inbox'), handling' = handling
  PROVE  \A k \in Conn, n \in Node : (Holds(k, n)' <=> Holds(k, n)) /\ PendingOn(k, n)' = PendingOn(k, n)
<1> SUFFICES ASSUME NEW k \in Conn, NEW n \in Node
             PROVE  (Holds(k, n)' <=> Holds(k, n)) /\ PendingOn(k, n)' = PendingOn(k, n)
  OBVIOUS
<1>1. Flips(inbox'[k][n]) = Flips(inbox[k][n]) /\ handling'[k][n] = handling[k][n]
  BY DEF Calm
<1> QED
  BY <1>1, PendingSame

\* An end without messages.
LEMMA NothingPending ==
  ASSUME NEW k, NEW n, inbox[k][n] = <<>>, handling[k][n] = None
  PROVE  PendingOn(k, n) = <<>>
<1>1. ~Holds(k, n)
  BY DEF Holds
<1> QED
  BY <1>1, FlipsOfNothing, Zenon DEF PendingOn

LEMMA ConnectKeeps ==
  ASSUME Patience, NEW n \in Node, NEW s \in Session, ConnectToCoordinator(n, s), Patient
  PROVE  /\ n # Coordinator /\ joining[n] = None /\ joining' = [joining EXCEPT ![n] = s]
         /\ UNCHANGED <<session, capturing, handling>> /\ Calm(inbox')
         /\ OneSession' /\ Star' /\ Sockets' /\ Mail' /\ Duties'
<1> USE CoordinatorAssumption, NoneFresh
<1> DEFINE hello == M("HELLO", n, session[n])
<1>0. TypeOK /\ Carried(inbox)
  BY NowCarriedToo DEF Patience
<1>1. PICK k \in Conn : /\ Dial(n, Owner[s], k)
                        /\ coordSock' = [coordSock EXCEPT ![n] = k]
                        /\ inbox' = Post(inbox, {<<k, Owner[s]>>}, hello)
  BY DEF ConnectToCoordinator
<1>2. /\ n # Coordinator /\ Owner[s] = Coordinator /\ s = session[Coordinator] /\ s # None
      /\ role' = [role EXCEPT ![n] = "SESSION_PARTICIPANT"]
      /\ joining' = [joining EXCEPT ![n] = s]
      /\ UNCHANGED <<session, coordUuid, capturing, members, peerSock, handling, created>>
  <2>1. s \in created /\ Owner[s] # n /\ Owner[s] = Coordinator
    BY DEF ConnectToCoordinator
  <2>2. s = session[Coordinator] /\ s # None
    BY <2>1 DEF Patience, OneSession
  <2> QED
    BY <2>1, <2>2 DEF ConnectToCoordinator
<1>3. /\ Star' /\ ~capturing[Coordinator] /\ ends[k] = {} /\ ends'[k] = {Coordinator, n}
      /\ \A j \in Conn : ends[j] # {} => ends'[j] = ends[j]
      /\ \A j \in Conn : ends'[j] # {} => Coordinator \in ends'[j]
      /\ \A j \in Conn : n \notin ends[j] /\ inbox[j][n] = <<>> /\ handling[j][n] = None
      /\ coordSock[n] = None /\ session[n] = None /\ joining[n] = None
  <2>1. Owner[s] = Coordinator /\ n \in Node \ {Coordinator}
    BY <1>2
  <2>2. /\ Star' /\ ~capturing[Coordinator] /\ ends[k] = {} /\ Joins(ends'[k], n)
        /\ \A j \in Conn : ends[j] # {} => ends'[j] = ends[j]
        /\ \A j \in Conn : ends'[j] # {} => Coordinator \in ends'[j]
        /\ \A j \in Conn : n \notin ends[j] /\ inbox[j][n] = <<>> /\ handling[j][n] = None
        /\ coordSock[n] = None /\ session[n] = None /\ joining[n] = None
    BY <1>1, <2>1, DialKeeps
  <2> QED
    BY <2>2 DEF Joins
<1>4. \A m \in Node : coordSock'[m] = IF m = n THEN k ELSE coordSock[m]
  BY <1>0, <1>1 DEF TypeOK
<1>5. k # None
  BY <1>1
<1>6. hello \in Msg /\ hello.type = "HELLO" /\ hello.src = n
  BY <1>0, MType DEF TypeOK, MessageType, M
<1>7. PICK tgt : tgt = {<<k, Coordinator>>}
  OBVIOUS
<1>8. inbox' = Post(inbox, tgt, hello)
  BY <1>1, <1>2, <1>7
<1> HIDE DEF hello
<1>9. Honest(n, hello) /\ ~IsFlip(hello)
  BY <1>4, <1>5, <1>6 DEF Honest, IsFlip, Commands
<1>10. Written(n, tgt)
  BY <1>2, <1>3, <1>7 DEF Written
<1>11. Carried(inbox')
  BY <1>0, <1>8, <1>9, <1>10, PostCarried
<1>12. \E x \in Contents(inbox'[k][Coordinator]) : x.type = "HELLO"
  <2>1. inbox[k][Coordinator] \in Seq(Msg)
    BY <1>0 DEF TypeOK
  <2>2. inbox'[k][Coordinator] = Append(inbox[k][Coordinator], hello)
    BY <1>7, <1>8 DEF Post
  <2>3. hello \in Contents(inbox'[k][Coordinator])
    BY <1>6, <2>1, <2>2, AppendKeeps
  <2> QED
    BY <1>6, <2>3
<1>13. OneSession'
  <2>1. \A m \in Node : role'[m] = "SESSION_COORDINATOR" => m = Coordinator
    BY <1>0, <1>2 DEF Patience, OneSession, TypeOK
  <2>2. \A m \in Node : joining'[m] = IF m = n THEN s ELSE joining[m]
    BY <1>0, <1>2 DEF TypeOK
  <2> QED
    BY <1>2, <2>1, <2>2 DEF Patience, OneSession
<1>14. Sockets'
  <2>1. \A m \in Node : Linked(m)'
    <3> SUFFICES ASSUME NEW m \in Node, coordSock'[m] # None
                 PROVE  \/ peerSock'[Coordinator][m] = coordSock'[m]
                        \/ \E x \in Contents(inbox'[coordSock'[m]][Coordinator]) : x.type = "HELLO"
      BY DEF Linked, Greeting, Contents
    <3>1. CASE m = n
      <4>1. coordSock'[m] = k
        BY <1>4, <3>1
      <4> QED
        BY <1>12, <4>1, Zenon
    <3>2. CASE m # n
      <4>1. coordSock'[m] = coordSock[m] /\ coordSock[m] \in Conn
        BY <1>0, <1>4, <3>2 DEF TypeOK
      <4>2. CASE Greeting(coordSock[m])
        BY <1>11, <4>1, <4>2 DEF Greeting, Carried, Greets
      <4>3. CASE peerSock[Coordinator][m] = coordSock[m]
        BY <1>2, <4>1, <4>3
      <4> QED
        BY <4>1, <4>2, <4>3 DEF Patience, Sockets, Linked
    <3> QED
      BY <3>1, <3>2
  <2>2. \A m \in Node : coordSock'[m] # None => m \in ends'[coordSock'[m]]
    <3> SUFFICES ASSUME NEW m \in Node, coordSock'[m] # None
                 PROVE  m \in ends'[coordSock'[m]]
      OBVIOUS
    <3>1. CASE m = n
      BY <1>3, <1>4, <3>1
    <3>2. CASE m # n
      <4>1. coordSock'[m] = coordSock[m] /\ coordSock[m] \in Conn
        BY <1>0, <1>4, <3>2 DEF TypeOK
      <4>2. m \in ends[coordSock[m]]
        BY <4>1 DEF Patience, Sockets
      <4> QED
        BY <1>3, <4>1, <4>2
    <3> QED
      BY <3>1, <3>2
  <2>3. \A i, m \in Node : peerSock[i][m] # None => peerSock[i][m] \in Conn
    BY <1>0 DEF TypeOK
  <2>4. \A i, m \in Node : peerSock'[i][m] # None => i \in ends'[peerSock'[i][m]]
    BY <1>2, <1>3, <2>3 DEF Patience, Sockets
  <2>5. \A m \in Node : peerSock'[Coordinator][m] # None =>
          m # Coordinator /\ m \in ends'[peerSock'[Coordinator][m]]
    BY <1>2, <1>3, <2>3 DEF Patience, Sockets
  <2>6. \A m \in Node \ {Coordinator} : coordSock'[m] # None <=> joining'[m] # None \/ session'[m] # None
    <3>1. \A m \in Node : joining'[m] = IF m = n THEN s ELSE joining[m]
      BY <1>0, <1>2 DEF TypeOK
    <3> QED
      BY <1>2, <1>4, <1>5, <3>1 DEF Patience, Sockets
  <2>7. coordSock'[Coordinator] = None
    BY <1>2, <1>4 DEF Patience, Sockets
  <2> QED
    BY <2>1, <2>2, <2>4, <2>5, <2>6, <2>7 DEF Sockets
<1>15. Mail'
  <2>1. Takes
    BY <1>2 DEF Takes
  <2>2. \A m \in Node : coordSock[m] # None => coordSock'[m] # None
    BY <1>4, <1>5
  <2> QED
    BY <1>2, <1>3, <1>11, <2>1, <2>2, MailNext DEF Carried
<1>16. Duties'
  <2>1. \A j \in Conn, m \in Node : (Holds(j, m)' <=> Holds(j, m)) /\ PendingOn(j, m)' = PendingOn(j, m)
    BY <1>2, <1>11, CalmPending DEF Carried
  <2>2. \A m \in Node : joining'[m] # None => m = n \/ joining[m] # None
    BY <1>0, <1>2 DEF TypeOK
  <2>3. \A j \in Conn : PendingOn(j, n) = <<>>
    BY <1>3, NothingPending
  <2>4. \A m \in Node : joining'[m] # None =>
          /\ session'[m] = None /\ ~capturing'[Coordinator]
          /\ \A j \in Conn : PendingOn(j, m)' = <<>>
    BY <1>2, <1>3, <2>1, <2>2, <2>3 DEF Patience, Duties
  <2>5. \A m \in Node \ {Coordinator} : members'[Coordinator][m] # None => coordSock'[m] # None
    BY <1>2, <1>4, <1>5 DEF Patience, Duties
  <2> QED
    BY <1>2, <2>1, <2>4, <2>5 DEF Patience, Duties
<1> QED
  BY <1>2, <1>3, <1>11, <1>13, <1>14, <1>15, <1>16 DEF Carried

LEMMA InviteKeeps ==
  ASSUME Patience, NEW n \in Node, NEW m \in Node, InvitePeer(n, m), peerSock[n][m] = None, Patient
  PROVE  /\ UNCHANGED <<session, capturing, handling, joining>> /\ Calm(inbox')
         /\ OneSession' /\ Star' /\ Sockets' /\ Mail' /\ Duties'
<1> USE CoordinatorAssumption, NoneFresh
<1> DEFINE hello  == M("HELLO", n, session[n])
           invite == M("INVITE_SESSION", n, session[n])
<1>0. TypeOK /\ Carried(inbox)
  BY NowCarriedToo DEF Patience
<1>1. PICK k \in Conn : /\ Dial(n, m, k)
                        /\ peerSock' = [peerSock EXCEPT ![n][m] = k]
                        /\ inbox' = Post(Post(inbox, {<<k, m>>}, hello), {<<k, m>>}, invite)
  BY DEF InvitePeer
<1>2. /\ n = Coordinator /\ m # Coordinator
      /\ UNCHANGED <<session, role, coordUuid, capturing, members, coordSock, joining, handling, created>>
  BY TheCoordinator DEF InvitePeer, nodeVars
<1>3. /\ Star' /\ ends[k] = {} /\ ends'[k] = {Coordinator, m}
      /\ \A j \in Conn : ends[j] # {} => ends'[j] = ends[j]
      /\ \A j \in Conn : ends'[j] # {} => Coordinator \in ends'[j]
      /\ coordSock[m] = None
  <2>1. n = Coordinator /\ m \in Node \ {Coordinator}
    BY <1>2
  <2>2. /\ Star' /\ ends[k] = {} /\ Joins(ends'[k], m)
        /\ \A j \in Conn : ends[j] # {} => ends'[j] = ends[j]
        /\ \A j \in Conn : ends'[j] # {} => Coordinator \in ends'[j]
        /\ coordSock[m] = None
    BY <1>1, <2>1, DialKeeps
  <2> QED
    BY <2>2 DEF Joins
<1>4. \A i, j \in Node : peerSock'[i][j] = IF i = n /\ j = m THEN k ELSE peerSock[i][j]
  BY <1>0, <1>1 DEF TypeOK
<1>5. /\ hello \in Msg /\ hello.type = "HELLO" /\ hello.src = n
      /\ invite \in Msg /\ invite.type = "INVITE_SESSION" /\ invite.src = n
  BY <1>0, MType DEF TypeOK, MessageType, M
<1>6. PICK tgt : tgt = {<<k, m>>}
  OBVIOUS
<1>7. inbox' = Post(Post(inbox, tgt, hello), tgt, invite)
  BY <1>1, <1>6, Zenon
<1> HIDE DEF hello, invite
<1>8. Honest(n, hello) /\ ~IsFlip(hello) /\ Honest(n, invite) /\ ~IsFlip(invite)
  BY <1>2, <1>5 DEF Honest, IsFlip, Commands
<1>9. Written(n, tgt)
  BY <1>2, <1>3, <1>6 DEF Written
<1>10. Carried(inbox')
  <2>1. Carried(Post(inbox, tgt, hello))
    BY <1>0, <1>8, <1>9, PostCarried
  <2> QED
    BY <1>7, <1>8, <1>9, <2>1, PostCarried
<1>11. OneSession'
  BY <1>2 DEF Patience, OneSession
<1>12. Sockets'
  <2>1. \A i \in Node : Linked(i)'
    <3> SUFFICES ASSUME NEW i \in Node, coordSock[i] # None
                 PROVE  \/ peerSock'[Coordinator][i] = coordSock[i]
                        \/ \E x \in Contents(inbox'[coordSock[i]][Coordinator]) : x.type = "HELLO"
      BY <1>2 DEF Linked, Greeting, Contents
    <3>1. coordSock[i] \in Conn /\ i # m
      BY <1>0, <1>3 DEF TypeOK
    <3>2. CASE Greeting(coordSock[i])
      BY <1>10, <3>1, <3>2 DEF Greeting, Carried, Greets
    <3>3. CASE peerSock[Coordinator][i] = coordSock[i]
      BY <1>4, <3>1, <3>3
    <3> QED
      BY <3>2, <3>3 DEF Patience, Sockets, Linked
  <2>2. \A i \in Node : coordSock'[i] # None => i \in ends'[coordSock'[i]]
    <3> SUFFICES ASSUME NEW i \in Node, coordSock[i] # None
                 PROVE  i \in ends'[coordSock[i]]
      BY <1>2
    <3>1. coordSock[i] \in Conn /\ i \in ends[coordSock[i]]
      BY <1>0 DEF TypeOK, Patience, Sockets
    <3> QED
      BY <1>3, <3>1
  <2>3. ASSUME NEW i \in Node, NEW j \in Node, peerSock'[i][j] # None
        PROVE  /\ i \in ends'[peerSock'[i][j]]
               /\ i = Coordinator => j # Coordinator /\ j \in ends'[peerSock'[i][j]]
    <3>1. CASE i = n /\ j = m
      <4>1. peerSock'[i][j] = k
        BY <1>4, <3>1
      <4> QED
        BY <1>2, <1>3, <3>1, <4>1
    <3>2. CASE ~(i = n /\ j = m)
      <4>1. peerSock'[i][j] = peerSock[i][j] /\ peerSock[i][j] \in Conn
        BY <1>0, <1>4, <2>3, <3>2 DEF TypeOK
      <4>2. /\ i \in ends[peerSock[i][j]]
            /\ i = Coordinator => j # Coordinator /\ j \in ends[peerSock[i][j]]
        BY <2>3, <4>1 DEF Patience, Sockets
      <4> QED
        BY <1>3, <4>1, <4>2
    <3> QED
      BY <3>1, <3>2
  <2> QED
    BY <1>2, <2>1, <2>2, <2>3 DEF Patience, Sockets
<1>13. Mail'
  <2>1. Takes
    BY <1>2 DEF Takes
  <2> QED
    BY <1>2, <1>3, <1>10, <2>1, MailNext DEF Carried
<1>14. Duties'
  <2>1. \A j \in Conn, i \in Node : (Holds(j, i)' <=> Holds(j, i)) /\ PendingOn(j, i)' = PendingOn(j, i)
    BY <1>2, <1>10, CalmPending DEF Carried
  <2> QED
    BY <1>2, <2>1 DEF Patience, Duties
<1> QED
  BY <1>2, <1>3, <1>10, <1>11, <1>12, <1>13, <1>14 DEF Carried

LEMMA AcceptKeeps ==
  ASSUME Patience, NEW n \in Node, AcceptSessionInvite(n)
  PROVE  /\ n # Coordinator /\ session[n] = None /\ joining[n] # None /\ joining[n] = session[Coordinator]
         /\ session' = [session EXCEPT ![n] = joining[n]]
         /\ UNCHANGED <<capturing, handling, ends>> /\ Calm(inbox')
         /\ OneSession' /\ Star' /\ Sockets' /\ Mail' /\ Duties'
<1> USE CoordinatorAssumption, NoneFresh
<1> DEFINE join == M("JOIN_SESSION", n, joining[n])
<1>0. TypeOK /\ Carried(inbox)
  BY NowCarriedToo DEF Patience
<1>1. /\ joining[n] # None
      /\ session' = [session EXCEPT ![n] = joining[n]]
      /\ role' = [role EXCEPT ![n] = "SESSION_PARTICIPANT"]
      /\ joining' = [joining EXCEPT ![n] = None]
      /\ UNCHANGED <<coordUuid, capturing, members, peerSock, coordSock, dials, ends, alive, handling, created>>
  BY DEF AcceptSessionInvite
<1>2. /\ n # Coordinator /\ joining[n] = session[Coordinator] /\ session[n] = None /\ ~capturing[Coordinator]
      /\ coordSock[n] # None
  BY <1>1 DEF Patience, OneSession, Duties, Sockets
<1>3. join \in Msg /\ join.type = "JOIN_SESSION" /\ join.src = n
  BY <1>0, MType DEF TypeOK, MessageType, M
<1>4. PICK c : inbox' = Post(inbox, OutTo(n, c), join)
  BY DEF AcceptSessionInvite
<1> HIDE DEF join
<1>5. Honest(n, join) /\ ~IsFlip(join)
  BY <1>1, <1>2, <1>3 DEF Honest, IsFlip, Commands
<1>6. Carried(inbox')
  <2>1. Written(n, OutTo(n, c))
    BY <1>1, OutWritten
  <2> QED
    BY <1>0, <1>4, <1>5, <2>1, PostCarried
<1>7. /\ \A m \in Node : session'[m] = IF m = n THEN joining[n] ELSE session[m]
      /\ \A m \in Node : joining'[m] = IF m = n THEN None ELSE joining[m]
  BY <1>0, <1>1 DEF TypeOK
<1>8. OneSession'
  <2>1. \A m \in Node : role'[m] = "SESSION_COORDINATOR" => m = Coordinator
    BY <1>0, <1>1 DEF Patience, OneSession, TypeOK
  <2> QED
    BY <1>1, <1>2, <1>7, <2>1 DEF Patience, OneSession
<1>9. Star'
  BY <1>1 DEF Patience, Star
<1>10. Sockets'
  <2>1. \A i \in Node : Linked(i)'
    BY <1>1, <1>6, LinkedKept DEF Binds, Carried
  <2>2. \A m \in Node \ {Coordinator} : coordSock'[m] # None <=> joining'[m] # None \/ session'[m] # None
    BY <1>1, <1>2, <1>7 DEF Patience, Sockets
  <2> QED
    BY <1>1, <2>1, <2>2 DEF Patience, Sockets
<1>11. Mail'
  <2>1. Takes
    BY <1>1 DEF Takes
  <2>2. \A k \in Conn : ends'[k] # {} => Coordinator \in ends'[k]
    BY <1>1, TwoEnds
  <2> QED
    BY <1>1, <1>2, <1>6, <1>7, <2>1, <2>2, MailNext DEF Carried
<1>12. Duties'
  <2>1. \A j \in Conn, i \in Node : (Holds(j, i)' <=> Holds(j, i)) /\ PendingOn(j, i)' = PendingOn(j, i)
    BY <1>1, <1>6, CalmPending DEF Carried
  <2>2. \A m \in Node : session'[m] = None => session[m] = None
    BY <1>1, <1>7
  <2>3. \A m \in Node : joining'[m] # None => m # n /\ joining[m] # None
    BY <1>7
  <2> QED
    BY <1>1, <1>7, <2>1, <2>2, <2>3 DEF Patience, Duties
<1> QED
  BY <1>1, <1>2, <1>6, <1>8, <1>9, <1>10, <1>11, <1>12 DEF Carried

-----------------------------------------------------------------------------
(* The invariant, and what is pending after each step.                      *)

LEMMA OrdinaryPending ==
  ASSUME Ordinary
  PROVE  \A k \in Conn, n \in Node : (Holds(k, n)' <=> Holds(k, n)) /\ PendingOn(k, n)' = PendingOn(k, n)
<1> SUFFICES ASSUME NEW k \in Conn, NEW n \in Node
             PROVE  (Holds(k, n)' <=> Holds(k, n)) /\ PendingOn(k, n)' = PendingOn(k, n)
  OBVIOUS
<1>1. Flips(inbox'[k][n]) = Flips(inbox[k][n])
  BY DEF Ordinary, Calm
<1>2. \/ handling'[k][n] = handling[k][n]
      \/ ~Holds(k, n) /\ handling'[k][n] = None
      \/ ~Holds(k, n) /\ handling'[k][n].type = "JOIN_SESSION"
  BY DEF Ordinary, Tidy
<1> QED
  BY <1>1, <1>2, PendingSame

\* A coordinator's command goes to everybody it broadcasts to.
LEMMA CommandPending ==
  ASSUME Patience, NEW msg \in Msg, IsFlip(msg), NEW tgt, inbox' = Post(inbox, tgt, msg), handling' = handling,
         NEW k \in Conn, NEW n \in Node
  PROVE  /\ Holds(k, n)' <=> Holds(k, n)
         /\ PendingOn(k, n) \in Seq(BOOLEAN)
         /\ <<k, n>> \notin tgt => PendingOn(k, n)' = PendingOn(k, n)
         /\ <<k, n>> \in tgt => PendingOn(k, n)' = Append(PendingOn(k, n), Flip(msg))
<1>0. inbox \in Queues /\ inbox[k][n] \in Seq(Msg)
  BY DEF Patience, TypeOK, Queues
<1>1. PICK s \in Seq(BOOLEAN) : s = Flips(inbox[k][n])
  BY <1>0, FlipsType
<1>2. PICK b \in BOOLEAN : b = Flip(handling[k][n])
  BY FlipBoolean
<1>3. PICK x \in BOOLEAN : x = Flip(msg)
  BY FlipBoolean
<1>4. PICK t : t = Flips(inbox'[k][n])
  OBVIOUS
<1>5. /\ <<k, n>> \notin tgt => t = s
      /\ <<k, n>> \in tgt => t = Append(s, x)
  BY <1>0, <1>1, <1>3, <1>4, PostFlips, Zenon
<1>6. Holds(k, n)' <=> Holds(k, n)
  BY DEF Holds
<1>7. PICK u : u = IF Holds(k, n) THEN Cons(b, s) ELSE s
  OBVIOUS
<1>8. PendingOn(k, n) = u
  BY <1>1, <1>2, <1>7, Zenon DEF PendingOn, Cons
<1>9. PendingOn(k, n)' = IF Holds(k, n) THEN Cons(b, t) ELSE t
  <2>1. handling'[k][n] = handling[k][n]
    OBVIOUS
  <2> QED
    BY <1>2, <1>4, <1>6, <2>1, Zenon DEF PendingOn, Cons
<1>10. Cons(b, s) \in Seq(BOOLEAN) /\ Append(Cons(b, s), x) = Cons(b, Append(s, x))
  BY ConsIs
<1>11. u \in Seq(BOOLEAN) /\ Append(u, x) = IF Holds(k, n) THEN Cons(b, Append(s, x)) ELSE Append(s, x)
  <2>1. CASE Holds(k, n)
    BY <1>7, <1>10, <2>1, Zenon
  <2>2. CASE ~Holds(k, n)
    <3>1. u = s
      BY <1>7, <2>2
    <3> QED
      BY <2>2, <3>1, Zenon
  <2> QED
    BY <2>1, <2>2
<1>12. <<k, n>> \notin tgt => PendingOn(k, n)' = u
  BY <1>5, <1>7, <1>9, Zenon
<1>13. <<k, n>> \in tgt => PendingOn(k, n)' = Append(u, x)
  <2> SUFFICES ASSUME <<k, n>> \in tgt
               PROVE  PendingOn(k, n)' = Append(u, x)
    OBVIOUS
  <2>1. t = Append(s, x)
    BY <1>5
  <2>2. CASE Holds(k, n)
    <3>1. Append(u, x) = Cons(b, Append(s, x))
      BY <1>11, <2>2, Zenon
    <3>2. PendingOn(k, n)' = Cons(b, t)
      BY <1>9, <2>2, Zenon
    <3> QED
      BY <2>1, <3>1, <3>2, Zenon
  <2>3. CASE ~Holds(k, n)
    <3>1. Append(u, x) = Append(s, x)
      BY <1>11, <2>3, Zenon
    <3>2. PendingOn(k, n)' = t
      BY <1>9, <2>3, Zenon
    <3> QED
      BY <2>1, <3>1, <3>2, Zenon
  <2> QED
    BY <2>2, <2>3
<1> QED
  BY <1>3, <1>6, <1>8, <1>11, <1>12, <1>13, Zenon

\* Taking a command up moves it from the queue to the worker.
LEMMA TakePending ==
  ASSUME Patience, NEW k \in Conn, NEW n \in Node, Take(k, n), NEW j \in Conn, NEW m \in Node
  PROVE  PendingOn(j, m)' = PendingOn(j, m) /\ (Holds(j, m)' => Holds(j, m) \/ m = n)
<1> DEFINE msg == Head(inbox[k][n])
<1>0. TypeOK
  BY DEF Patience
<1>1. /\ inbox[k][n] # <<>> /\ IsFlip(msg) /\ inbox' = Rest(k, n)
      /\ handling[k][n] = None /\ handling' = [handling EXCEPT ![k][n] = msg]
  BY TakeUsual
<1>2. CASE <<j, m>> # <<k, n>>
  <2>1. Flips(inbox'[j][m]) = Flips(inbox[j][m]) /\ handling'[j][m] = handling[j][m]
    <3>1. Flips(Rest(k, n)[j][m]) = Flips(inbox[j][m])
      BY <1>0, <1>1, <1>2, RestFlips
    <3>2. handling'[j][m] = handling[j][m]
      BY <1>0, <1>1, <1>2 DEF TypeOK
    <3> QED
      BY <1>1, <3>1, <3>2, Zenon
  <2> QED
    BY <2>1, PendingSame
<1>3. CASE j = k /\ m = n
  <2>1. msg \in Msg /\ msg # None /\ handling'[k][n] = msg
    BY <1>0, <1>1, ReadType, NoneFresh DEF TypeOK
  <2>2. ~Holds(k, n) /\ Holds(k, n)'
    BY <1>1, <2>1 DEF Holds, IsFlip
  <2>3. Flips(inbox[k][n]) = Cons(Flip(msg), Flips(inbox'[k][n]))
    <3>1. Flips(inbox[k][n]) = Cons(Flip(msg), Flips(Rest(k, n)[k][n]))
      BY <1>0, <1>1, RestFlips
    <3> QED
      BY <1>1, <3>1, Zenon
  <2>4. PendingOn(k, n) = Flips(inbox[k][n])
    BY <2>2, Zenon DEF PendingOn
  <2> HIDE DEF msg
  <2>5. PendingOn(k, n)' = Cons(Flip(msg), Flips(inbox'[k][n]))
    BY <2>1, <2>2, Zenon DEF PendingOn, Cons
  <2> QED
    BY <1>3, <2>3, <2>4, <2>5, Zenon
<1> QED
  BY <1>2, <1>3

\* Executing one removes it.
LEMMA ExecutePending ==
  ASSUME Patience, NEW k \in Conn, NEW n \in Node, Execute(k, n), NEW j \in Conn, NEW m \in Node
  PROVE  /\ Holds(j, m)' => Holds(j, m)
         /\ <<j, m>> # <<k, n>> => PendingOn(j, m)' = PendingOn(j, m)
         /\ PendingOn(k, n)' \in Seq(BOOLEAN)
         /\ PendingOn(k, n) = Cons(Flip(handling[k][n]), PendingOn(k, n)')
<1>0. TypeOK
  BY DEF Patience
<1>1. inbox' = inbox /\ Holds(k, n) /\ handling' = [handling EXCEPT ![k][n] = None]
  BY ExecuteUsual
<1>2. \A i \in Conn, p \in Node : handling'[i][p] = IF i = k /\ p = n THEN None ELSE handling[i][p]
  BY <1>0, <1>1 DEF TypeOK
<1>3. Holds(j, m)' => Holds(j, m)
  BY <1>2 DEF Holds
<1>4. ~Holds(k, n)'
  BY <1>2 DEF Holds
<1>5. <<j, m>> # <<k, n>> => PendingOn(j, m)' = PendingOn(j, m)
  <2>1. Flips(inbox'[j][m]) = Flips(inbox[j][m])
    BY <1>1
  <2> QED
    BY <1>2, <2>1, PendingSame
<1>6. PendingOn(k, n)' = Flips(inbox[k][n])
  BY <1>1, <1>4, Zenon DEF PendingOn
<1>7. PendingOn(k, n) = Cons(Flip(handling[k][n]), Flips(inbox[k][n]))
  BY <1>1, Zenon DEF PendingOn, Cons
<1>8. Flips(inbox[k][n]) \in Seq(BOOLEAN)
  BY <1>0, FlipsType DEF TypeOK
<1> QED
  BY <1>3, <1>5, <1>6, <1>7, <1>8, Zenon

\* Refusing one concerns a node that is not in the session.
LEMMA RefusePending ==
  ASSUME Patience, NEW k \in Conn, NEW n \in Node, Refuse(k, n), NEW j \in Conn, NEW m \in Node
  PROVE  /\ Holds(j, m)' <=> Holds(j, m)
         /\ <<j, m>> # <<k, n>> => PendingOn(j, m)' = PendingOn(j, m)
         /\ PendingOn(k, n) # <<>>
<1> DEFINE msg == Head(inbox[k][n])
<1>0. TypeOK
  BY DEF Patience
<1>1. /\ inbox[k][n] # <<>> /\ IsFlip(msg) /\ inbox' = Rest(k, n)
      /\ handling[k][n] = None /\ handling' = handling
  BY TakeUsual
<1>2. Holds(j, m)' <=> Holds(j, m)
  BY <1>1 DEF Holds
<1>3. <<j, m>> # <<k, n>> => PendingOn(j, m)' = PendingOn(j, m)
  <2> SUFFICES ASSUME <<j, m>> # <<k, n>>
               PROVE  PendingOn(j, m)' = PendingOn(j, m)
    OBVIOUS
  <2>1. Flips(Rest(k, n)[j][m]) = Flips(inbox[j][m])
    BY <1>0, <1>1, RestFlips
  <2>2. Flips(inbox'[j][m]) = Flips(inbox[j][m]) /\ handling'[j][m] = handling[j][m]
    BY <1>1, <2>1, Zenon
  <2> QED
    BY <2>2, PendingSame
<1>4. PendingOn(k, n) # <<>>
  <2>1. ~Holds(k, n)
    BY <1>1 DEF Holds
  <2>2. PendingOn(k, n) = Flips(inbox[k][n])
    BY <2>1, Zenon DEF PendingOn
  <2>3. PICK b \in BOOLEAN : b = Flip(msg)
    BY FlipBoolean
  <2>4. Rest(k, n)[k][n] \in Seq(Msg)
    BY <1>0, <1>1, ReadType DEF Queues
  <2>5. PICK s \in Seq(BOOLEAN) : s = Flips(Rest(k, n)[k][n])
    BY <2>4, FlipsType
  <2>6. Flips(inbox[k][n]) = Cons(b, s)
    <3>1. Flips(inbox[k][n]) = Cons(Flip(msg), Flips(Rest(k, n)[k][n]))
      BY <1>0, <1>1, RestFlips
    <3> QED
      BY <2>3, <2>5, <3>1, Zenon
  <2>7. Cons(b, s) # <<>>
    BY ConsIs
  <2> QED
    BY <2>2, <2>6, <2>7, Zenon
<1> QED
  BY <1>2, <1>3, <1>4

LEMMA OrdinaryDuties ==
  ASSUME Patience, Ordinary
  PROVE  Duties'
<1>1. UNCHANGED <<session, joining, capturing>>
  BY DEF Ordinary, Usual
<1>2. /\ \A n \in Node \ {Coordinator} : members'[Coordinator][n] # None => coordSock'[n] # None
      /\ \A k \in Conn, n \in Node : handling'[k][n] # None =>
           handling'[k][n].type \in {"JOIN_SESSION", "START_CAPTURE", "STOP_CAPTURE"}
  BY UsualKeeps DEF Ordinary
<1>3. \A k \in Conn, n \in Node : (Holds(k, n)' <=> Holds(k, n)) /\ PendingOn(k, n)' = PendingOn(k, n)
  BY OrdinaryPending
<1> QED
  BY <1>1, <1>2, <1>3 DEF Patience, Duties

LEMMA CaptureDuties ==
  ASSUME Patience, NEW n \in Node, StartCapture(n) \/ StopCapture(n), Patient
  PROVE  Duties' /\ Settled
<1> USE CoordinatorAssumption
<1>0. TypeOK
  BY DEF Patience
<1>1. /\ Usual /\ n = Coordinator /\ handling' = handling /\ capturing' = [capturing EXCEPT ![n] = ~capturing[n]]
  BY CaptureUsual
<1>2. /\ \A m \in Node \ {Coordinator} : members'[Coordinator][m] # None => coordSock'[m] # None
      /\ \A k \in Conn, m \in Node : handling'[k][m] # None =>
           handling'[k][m].type \in {"JOIN_SESSION", "START_CAPTURE", "STOP_CAPTURE"}
  BY <1>1, UsualKeeps
<1>3. Settled
  <2>1. capturing'[Coordinator] # capturing[Coordinator]
    <3>1. capturing[n] \in BOOLEAN /\ capturing'[n] = ~capturing[n]
      BY <1>0, <1>1 DEF TypeOK
    <3> QED
      BY <1>1, <3>1
  <2> QED
    BY <2>1 DEF Patient
<1>4. \A m \in Node : session'[m] = session[m] /\ joining'[m] = None
  BY <1>1, <1>3 DEF Usual, Settled
<1>5. session[n] # None
  BY TheCoordinator DEF StartCapture, StopCapture
<1>6. \A m \in Node : session'[m] = None => ~capturing'[m]
  BY <1>0, <1>1, <1>4, <1>5 DEF Patience, Duties, TypeOK
<1>7. \A k \in Conn, m \in Node : Holds(k, m)' => session'[m] # None
  BY <1>1, <1>4 DEF Holds, Patience, Duties
<1> QED
  BY <1>2, <1>3, <1>4, <1>6, <1>7 DEF Duties

LEMMA WorkerDuties ==
  ASSUME Patience, NEW k \in Conn, NEW n \in Node, Take(k, n) \/ Execute(k, n) \/ Refuse(k, n)
  PROVE  Duties'
<1>0. TypeOK
  BY DEF Patience
<1>1. Usual /\ n # Coordinator /\ n \in ends[k]
  BY TakeUsual, ExecuteUsual
<1>2. /\ \A m \in Node \ {Coordinator} : members'[Coordinator][m] # None => coordSock'[m] # None
      /\ \A j \in Conn, m \in Node : handling'[j][m] # None =>
           handling'[j][m].type \in {"JOIN_SESSION", "START_CAPTURE", "STOP_CAPTURE"}
  BY <1>1, UsualKeeps
<1>3. UNCHANGED <<session, joining>>
  BY <1>1 DEF Usual
<1>4. capturing'[Coordinator] = capturing[Coordinator]
      /\ \A m \in Node : session[m] = None => ~capturing'[m]
  <2>1. CASE capturing' = capturing
    BY <2>1 DEF Patience, Duties
  <2>2. CASE Execute(k, n)
    <3>1. \E b : capturing' = [capturing EXCEPT ![n] = b] /\ session[n] # None
      BY <2>2, ExecuteUsual
    <3> QED
      BY <1>0, <1>1, <3>1, CoordinatorAssumption DEF Patience, Duties, TypeOK
  <2> QED
    BY <2>1, <2>2, TakeUsual
<1>5. \A j \in Conn, m \in Node : Holds(j, m)' => session[m] # None
  BY TakePending, TakeUsual, ExecutePending, RefusePending DEF Patience, Duties
<1>6. ASSUME NEW m \in Node, joining[m] # None, NEW j \in Conn
      PROVE  PendingOn(j, m)' = <<>>
  <2>1. session[m] = None /\ \A i \in Conn : PendingOn(i, m) = <<>>
    BY <1>6 DEF Patience, Duties
  <2>2. CASE Take(k, n)
    BY <2>1, <2>2, TakePending
  <2>3. CASE Execute(k, n)
    <3>1. m # n
      BY <2>1, <2>3, ExecuteUsual
    <3> QED
      BY <2>1, <2>3, <3>1, ExecutePending
  <2>4. CASE Refuse(k, n)
    <3>1. m # n
      BY <2>1, <2>4, RefusePending
    <3> QED
      BY <2>1, <2>4, <3>1, RefusePending
  <2> QED
    BY <2>2, <2>3, <2>4
<1> QED
  BY <1>2, <1>3, <1>4, <1>5, <1>6 DEF Patience, Duties

LEMMA NextPatience == Patience /\ [PatientNext]_vars /\ Whole' => Patience'
<1> SUFFICES ASSUME Patience, [PatientNext]_vars, Whole'
             PROVE  Patience'
  OBVIOUS
<1>1. TypeOK'
  BY NextType DEF Patience, PatientNext
<1>2. OneSession' /\ Star' /\ Sockets' /\ Mail' /\ Duties'
  <2>1. CASE Ordinary
    BY <2>1, UsualKeeps, OrdinaryDuties DEF Ordinary
  <2>2. CASE ~Ordinary
    <3>1. Patient
      BY <2>2, PatientSteps
    <3>2. ASSUME NEW n \in Node, NEW s \in Session, CreateSession(n, s) \/ ConnectToCoordinator(n, s)
          PROVE  OneSession' /\ Star' /\ Sockets' /\ Mail' /\ Duties'
      BY <3>1, <3>2, CreateKeeps, ConnectKeeps
    <3>3. ASSUME NEW n \in Node, NEW m \in Node, InvitePeer(n, m), peerSock[n][m] = None
          PROVE  OneSession' /\ Star' /\ Sockets' /\ Mail' /\ Duties'
      BY <3>1, <3>3, InviteKeeps
    <3>4. ASSUME NEW n \in Node, AcceptSessionInvite(n)
          PROVE  OneSession' /\ Star' /\ Sockets' /\ Mail' /\ Duties'
      BY <3>4, AcceptKeeps
    <3>5. ASSUME NEW n \in Node, StartCapture(n) \/ StopCapture(n)
          PROVE  OneSession' /\ Star' /\ Sockets' /\ Mail' /\ Duties'
      BY <3>1, <3>5, CaptureUsual, UsualKeeps, CaptureDuties
    <3>6. ASSUME NEW k \in Conn, NEW n \in Node, Take(k, n) \/ Execute(k, n) \/ Refuse(k, n)
          PROVE  OneSession' /\ Star' /\ Sockets' /\ Mail' /\ Duties'
      <4>1. Usual
        BY <3>6, TakeUsual, ExecuteUsual
      <4> QED
        BY <3>6, <4>1, UsualKeeps, WorkerDuties
    <3> QED
      BY <2>2, <3>2, <3>3, <3>4, <3>5, <3>6, PatientSteps
  <2> QED
    BY <2>1, <2>2
<1> QED
  BY <1>1, <1>2 DEF Patience

-----------------------------------------------------------------------------
(* What is pending at a node, and which nodes a command reaches.           *)

LEMMA Idle ==
  ASSUME TypeOK, NEW k \in Conn, NEW n \in Node, InFlight(k, n) = {}
  PROVE  PendingOn(k, n) = <<>>
<1>1. InFlight(k, n) = Contents(inbox[k][n]) \cup ({handling[k][n]} \ {None})
  BY InFlightIs
<1>2. Contents(inbox[k][n]) = {} /\ handling[k][n] = None
  BY <1>1
<1>3. PICK q \in Seq(Msg) : q = inbox[k][n]
  BY DEF TypeOK
<1>4. q # <<>> => 1 \in 1..Len(q)
  OBVIOUS
<1>5. q # <<>> => q[1] \in Contents(q)
  BY <1>4, Zenon DEF Contents
<1>6. inbox[k][n] = <<>>
  BY <1>2, <1>3, <1>5
<1> QED
  BY <1>2, <1>6, NothingPending

LEMMA Unlinked ==
  ASSUME Patience, NEW k \in Conn, NEW n \in Node, n \notin ends[k]
  PROVE  PendingOn(k, n) = <<>>
<1>1. InFlight(k, n) = {} /\ TypeOK
  BY DEF Patience, Mail, Proper
<1> QED
  BY <1>1, Idle

LEMMA PendingAtIs ==
  ASSUME NEW n, NEW links, links = {k \in Conn : PendingOn(k, n) # <<>>}
  PROVE  PendingAt(n) = IF links = {} THEN <<>> ELSE PendingOn(CHOOSE k \in links : TRUE, n)
BY DEF PendingAt

\* A follower's commands come over the connection it dialled.
FollowersDialled == \A n \in Followers :
  /\ coordSock[n] \in Conn /\ n \in ends[coordSock[n]]
  /\ PendingAt(n) = PendingOn(coordSock[n], n)

LEMMA FollowerPending == Patience => FollowersDialled
<1> SUFFICES ASSUME Patience, NEW n \in Followers
             PROVE  /\ coordSock[n] \in Conn /\ n \in ends[coordSock[n]]
                    /\ PendingAt(n) = PendingOn(coordSock[n], n)
  BY DEF FollowersDialled
<1>1. n \in Node \ {Coordinator} /\ session[n] # None
  BY DEF Followers
<1>2. coordSock[n] \in Conn /\ n \in ends[coordSock[n]]
  BY <1>1 DEF Patience, Sockets, TypeOK
<1>3. PICK links : links = {j \in Conn : PendingOn(j, n) # <<>>}
  OBVIOUS
<1>4. PendingAt(n) = IF links = {} THEN <<>> ELSE PendingOn(CHOOSE j \in links : TRUE, n)
  BY <1>3, PendingAtIs, Zenon
<1>5. PICK k \in Conn : k = coordSock[n]
  BY <1>2
<1>6. \A j \in Conn : j # k => PendingOn(j, n) = <<>>
  BY <1>1, <1>2, <1>5, OneLink, Unlinked
<1> SUFFICES PendingAt(n) = PendingOn(k, n)
  BY <1>2, <1>5
<1>7. CASE PendingOn(k, n) = <<>>
  <2>1. links = {}
    BY <1>6, <1>3, <1>7
  <2>2. PendingAt(n) = <<>>
    BY <1>4, <2>1, Zenon
  <2> QED
    BY <1>7, <2>2, Zenon
<1>8. CASE PendingOn(k, n) # <<>>
  <2>1. links = {k}
    BY <1>6, <1>3, <1>8
  <2>2. links # {} /\ (CHOOSE j \in links : TRUE) = k
    BY <2>1
  <2> QED
    BY <1>4, <2>2, Zenon
<1> QED
  BY <1>7, <1>8

LEMMA FollowerPendingNext == Patience' => FollowersDialled'
BY FollowerPending, PTL

LEMMA PendingAtSame ==
  ASSUME NEW n, \A k \in Conn : PendingOn(k, n)' = PendingOn(k, n)
  PROVE  PendingAt(n)' = PendingAt(n)
<1>1. PICK links : links = {j \in Conn : PendingOn(j, n) # <<>>}
  OBVIOUS
<1>2. links = {j \in Conn : PendingOn(j, n)' # <<>>}
  BY <1>1
<1>3. PendingAt(n) = IF links = {} THEN <<>> ELSE PendingOn(CHOOSE j \in links : TRUE, n)
  BY <1>1, Zenon DEF PendingAt
<1>4. PendingAt(n)' = IF links = {} THEN <<>> ELSE PendingOn(CHOOSE j \in links : TRUE, n)'
  BY <1>2, Zenon DEF PendingAt
<1>5. links # {} => (CHOOSE j \in links : TRUE) \in Conn
  BY <1>1
<1>6. CASE links = {}
  <2>1. PendingAt(n) = <<>> /\ PendingAt(n)' = <<>>
    BY <1>3, <1>4, <1>6, Zenon
  <2> QED
    BY <2>1
<1>7. CASE links # {}
  <2>1. PICK k \in Conn : k = CHOOSE j \in links : TRUE
    BY <1>5, <1>7
  <2>2. PendingAt(n) = PendingOn(k, n) /\ PendingAt(n)' = PendingOn(k, n)'
    BY <1>3, <1>4, <1>7, <2>1, Zenon
  <2> QED
    BY <2>2
<1> QED
  BY <1>6, <1>7

\* Once joins have settled, the coordinator's broadcast reaches every follower.
LEMMA Reached ==
  ASSUME Patience, Settled, NEW n \in Followers
  PROVE  <<coordSock[n], n>> \in Broadcast(Coordinator, peerSock, None)
<1> USE CoordinatorAssumption, NoneFresh
<1>1. PICK k : k = coordSock[n]
  OBVIOUS
<1>2. k \in Conn /\ n \in ends[k] /\ n \in Node \ {Coordinator}
  BY <1>1, FollowerPending DEF FollowersDialled, Followers
<1>3. peerSock[Coordinator][n] = k
  <2>1. ~Greeting(k)
    BY <1>2, InFlightIs DEF Greeting, Settled, Handshake
  <2>2. coordSock[n] # None
    BY <1>1, <1>2
  <2> QED
    BY <1>1, <1>2, <2>1, <2>2 DEF Patience, Sockets, Linked
<1>4. Coordinator \in ends[k] /\ alive[k][Coordinator] /\ k \notin broken
  BY <1>2, TwoEnds DEF Patience, Star, Whole
<1>5. <<k, n>> \in OutTo(Coordinator, k)
  BY <1>2, <1>4 DEF OutTo
<1>6. k \in {peerSock[Coordinator][m] : m \in Node \ {None}}
  BY <1>2, <1>3
<1> QED
  BY <1>1, <1>5, <1>6 DEF Broadcast

LEMMA PendingType ==
  ASSUME Patience, NEW k \in Conn, NEW n \in Node
  PROVE  PendingOn(k, n) \in Seq(BOOLEAN)
<1>1. PICK s \in Seq(BOOLEAN) : s = Flips(inbox[k][n])
  BY FlipsType DEF Patience, TypeOK
<1>2. PICK b \in BOOLEAN : b = Flip(handling[k][n])
  BY FlipBoolean
<1>3. Cons(b, s) \in Seq(BOOLEAN)
  BY ConsIs
<1>4. CASE Holds(k, n)
  BY <1>1, <1>2, <1>3, <1>4, Zenon DEF PendingOn, Cons
<1>5. CASE ~Holds(k, n)
  BY <1>1, <1>5, Zenon DEF PendingOn
<1> QED
  BY <1>4, <1>5

-----------------------------------------------------------------------------
(* Every step of the service is a step of the abstract coordinated capture. *)

\* The abstract state, as the refinement mapping has it.
Locally == [n \in Node |-> n # Coordinator /\ capturing[n]]
Awaited == [n \in Node |-> IF n \in Followers THEN PendingAt(n) ELSE <<>>]

LEMMA LocallyIs ==
  ASSUME TypeOK, NEW n \in Node
  PROVE  Locally[n] \in BOOLEAN /\ (Locally[n] <=> n # Coordinator /\ capturing[n])
BY DEF Locally

LEMMA StutterMaps ==
  ASSUME Patience, capturing' = capturing, Followers' = Followers,
         \A n \in Followers, k \in Conn : PendingOn(k, n)' = PendingOn(k, n)
  PROVE  UNCHANGED Abstract!absVars
<1>1. ASSUME NEW n \in Node
      PROVE  (IF n \in Followers' THEN PendingAt(n)' ELSE <<>>) = IF n \in Followers THEN PendingAt(n) ELSE <<>>
  <2>1. CASE n \in Followers
    <3>1. PendingAt(n)' = PendingAt(n)
      BY <2>1, PendingAtSame
    <3> QED
      BY <2>1, <3>1, Zenon
  <2>2. CASE n \notin Followers
    BY <2>2, Zenon
  <2> QED
    BY <2>1, <2>2
<1>2. Awaited' = Awaited
  BY <1>1, Zenon DEF Awaited
<1>3. Locally' = Locally
  BY DEF Locally
<1> QED
  BY <1>2, <1>3, Zenon DEF Abstract!absVars, Awaited, Locally

LEMMA InitMaps == Init => Abstract!AbsInit
<1> SUFFICES ASSUME Init
             PROVE  Abstract!AbsInit
  OBVIOUS
<1>1. Followers = {}
  BY DEF Init, Followers
<1>2. capturing = [n \in Node |-> FALSE] /\ capturing[Coordinator] = FALSE
  BY CoordinatorAssumption DEF Init
<1>3. Locally = [n \in Node |-> FALSE]
  BY <1>2 DEF Locally
<1>4. Awaited = [n \in Node |-> <<>>]
  BY <1>1, Zenon DEF Awaited
<1> QED
  BY <1>1, <1>2, <1>3, <1>4, Zenon DEF Abstract!AbsInit, Awaited, Locally

\* START and STOP are one Command to all followers.
LEMMA CommandMaps ==
  ASSUME Patience, Patience', NEW n \in Node, StartCapture(n) \/ StopCapture(n), Patient
  PROVE  Abstract!Command
<1> USE CoordinatorAssumption
<1> DEFINE tgt == Broadcast(n, peerSock, None)
<1>0. TypeOK
  BY DEF Patience
<1>1. /\ Usual /\ n = Coordinator /\ handling' = handling
      /\ capturing' = [capturing EXCEPT ![n] = ~capturing[n]]
  BY CaptureUsual
<1>2. PICK msg \in Msg : IsFlip(msg) /\ Flip(msg) = ~capturing[n] /\ inbox' = Post(inbox, tgt, msg)
  BY CaptureUsual
<1>3. Settled
  BY CaptureDuties
<1>4. Followers' = Followers /\ coordSock' = coordSock
  BY <1>1 DEF Usual, Followers
<1>5. capturing'[Coordinator] = ~capturing[Coordinator]
  BY <1>0, <1>1 DEF TypeOK
<1>6. Locally' = Locally
  BY <1>0, <1>1 DEF Locally, TypeOK
<1>7. ASSUME NEW m \in Followers
      PROVE  PendingAt(m)' = Append(PendingAt(m), ~capturing[Coordinator])
  <2>1. PICK k : k = coordSock[m]
    OBVIOUS
  <2>2. k \in Conn /\ m \in Node /\ PendingAt(m) = PendingOn(k, m)
    BY <2>1, FollowerPending DEF FollowersDialled, Followers
  <2>3. PendingAt(m)' = PendingOn(k, m)'
    <3>1. coordSock'[m] = k
      BY <1>4, <2>1
    <3> QED
      BY <1>4, <3>1, FollowerPendingNext DEF FollowersDialled
  <2>4. <<k, m>> \in tgt
    BY <1>1, <1>3, <2>1, Reached
  <2>5. PendingOn(k, m)' = Append(PendingOn(k, m), Flip(msg))
    <3> HIDE DEF tgt
    <3> QED
      BY <1>1, <1>2, <2>2, <2>4, CommandPending
  <2>6. Flip(msg) = ~capturing[Coordinator]
    BY <1>1, <1>2, Zenon
  <2> QED
    BY <2>2, <2>3, <2>5, <2>6, Zenon
<1>8. ASSUME NEW m \in Node
      PROVE  (IF m \in Followers' THEN PendingAt(m)' ELSE <<>>) =
             IF m \in Followers THEN Append(Awaited[m], ~capturing[Coordinator]) ELSE Awaited[m]
  <2>1. Awaited[m] = IF m \in Followers THEN PendingAt(m) ELSE <<>>
    BY Zenon DEF Awaited
  <2>2. CASE m \in Followers
    BY <1>4, <1>7, <2>1, <2>2, Zenon
  <2>3. CASE m \notin Followers
    BY <1>4, <2>1, <2>3, Zenon
  <2> QED
    BY <2>2, <2>3
<1>9. Awaited' = [m \in Node |-> IF m \in Followers THEN Append(Awaited[m], ~capturing[Coordinator]) ELSE Awaited[m]]
  BY <1>8, Zenon DEF Awaited
<1> QED
  BY <1>4, <1>5, <1>6, <1>9, Zenon DEF Abstract!Command, Awaited, Locally

\* Executing START or STOP is an Execute of the oldest pending command.
LEMMA ExecuteMaps ==
  ASSUME Patience, Patience', NEW k \in Conn, NEW n \in Node, Execute(k, n)
  PROVE  Abstract!Execute(n)
<1> USE CoordinatorAssumption
<1>0. TypeOK
  BY DEF Patience
<1>1. /\ Usual /\ n # Coordinator /\ session[n] # None /\ n \in ends[k]
      /\ capturing' = [capturing EXCEPT ![n] = Flip(handling[k][n])]
  BY ExecuteUsual
<1>2. Followers' = Followers /\ coordSock' = coordSock /\ n \in Followers
  BY <1>1 DEF Usual, Followers
<1>3. coordSock[n] = k
  BY <1>1, <1>2, FollowerPending, OneLink DEF FollowersDialled
<1>4. /\ PendingAt(n) = PendingOn(k, n) /\ PendingAt(n)' = PendingOn(k, n)'
  <2>1. PendingAt(n) = PendingOn(coordSock[n], n)
    BY <1>2, FollowerPending DEF FollowersDialled
  <2>2. coordSock'[n] = k
    BY <1>2, <1>3
  <2>3. PendingAt(n)' = PendingOn(k, n)'
    BY <1>2, <2>2, FollowerPendingNext DEF FollowersDialled
  <2> QED
    BY <1>3, <2>1, <2>3, Zenon
<1>5. PICK b \in BOOLEAN : b = Flip(handling[k][n])
  BY FlipBoolean
<1>6. PICK s \in Seq(BOOLEAN) : s = PendingAt(n)'
  BY <1>4, ExecutePending
<1>7. PendingAt(n) = Cons(b, s)
  BY <1>4, <1>5, <1>6, ExecutePending, Zenon
<1>8. PendingAt(n) # <<>> /\ Head(PendingAt(n)) = b /\ Tail(PendingAt(n)) = s
  <2>1. Cons(b, s) # <<>> /\ Head(Cons(b, s)) = b /\ Tail(Cons(b, s)) = s
    BY ConsIs
  <2> QED
    BY <1>7, <2>1, Zenon
<1>9. ASSUME NEW m \in Followers, m # n
      PROVE  PendingAt(m)' = PendingAt(m)
  <2>1. m \in Node /\ \A j \in Conn : PendingOn(j, m)' = PendingOn(j, m)
    BY <1>9, ExecutePending DEF Followers
  <2> QED
    BY <2>1, PendingAtSame
<1>10. Awaited[n] = PendingAt(n)
  BY <1>2, Zenon DEF Awaited
<1>11. Awaited' = [Awaited EXCEPT ![n] = Tail(Awaited[n])]
  <2>1. ASSUME NEW m \in Node
        PROVE  (IF m \in Followers' THEN PendingAt(m)' ELSE <<>>) =
               IF m = n THEN s ELSE (IF m \in Followers THEN PendingAt(m) ELSE <<>>)
    <3>1. CASE m = n
      BY <1>2, <1>6, <3>1, Zenon
    <3>2. CASE m # n /\ m \in Followers
      BY <1>2, <1>9, <3>2, Zenon
    <3>3. CASE m # n /\ m \notin Followers
      BY <1>2, <3>3, Zenon
    <3> QED
      BY <3>1, <3>2, <3>3
  <2>2. \A m \in Node : Awaited[m] = IF m \in Followers THEN PendingAt(m) ELSE <<>>
    BY Zenon DEF Awaited
  <2>3. Awaited' = [m \in Node |-> IF m = n THEN s ELSE Awaited[m]]
    BY <2>1, <2>2, Zenon DEF Awaited
  <2>4. Awaited = [m \in Node |-> Awaited[m]]
    BY DEF Awaited
  <2>5. [Awaited EXCEPT ![n] = s] = [m \in Node |-> IF m = n THEN s ELSE Awaited[m]]
    BY <2>4
  <2>6. s = Tail(Awaited[n])
    BY <1>8, <1>10, Zenon
  <2> QED
    BY <2>3, <2>5, <2>6, Zenon
<1>12. Locally' = [Locally EXCEPT ![n] = Head(Awaited[n])]
  <2>1. capturing' = [capturing EXCEPT ![n] = b]
    BY <1>1, <1>5
  <2>2. \A m \in Node : capturing'[m] = IF m = n THEN b ELSE capturing[m]
    BY <1>0, <2>1 DEF TypeOK
  <2>3. \A m \in Node : Locally'[m] = IF m = n THEN b ELSE Locally[m]
    BY <1>0, <1>1, <2>2 DEF Locally, TypeOK
  <2>4. Locally' = [m \in Node |-> Locally'[m]] /\ Locally = [m \in Node |-> Locally[m]]
    BY DEF Locally
  <2>5. Locally' = [Locally EXCEPT ![n] = b]
    BY <2>3, <2>4
  <2>6. b = Head(Awaited[n])
    BY <1>8, <1>10, Zenon
  <2> QED
    BY <2>5, <2>6
<1>13. Awaited[n] # <<>>
  BY <1>8, <1>10
<1>14. capturing'[Coordinator] = capturing[Coordinator]
  BY <1>0, <1>1 DEF TypeOK
<1> QED
  BY <1>2, <1>11, <1>12, <1>13, <1>14, Zenon DEF Abstract!Execute, Awaited, Locally

\* The second half of joinSession is a Join.
LEMMA JoinMaps ==
  ASSUME Patience, NEW n \in Node, AcceptSessionInvite(n)
  PROVE  Abstract!Join(n)
<1> USE CoordinatorAssumption
<1>0. TypeOK
  BY DEF Patience
<1>1. /\ n # Coordinator /\ session[n] = None /\ joining[n] # None /\ joining[n] = session[Coordinator]
      /\ session' = [session EXCEPT ![n] = joining[n]]
      /\ UNCHANGED <<capturing, handling, ends>> /\ Calm(inbox')
  BY AcceptKeeps
<1>2. /\ \A m \in Node : session'[m] = IF m = n THEN joining[n] ELSE session[m]
  BY <1>0, <1>1 DEF TypeOK
<1>3. Followers' = Followers \cup {n} /\ n \notin Followers
  BY <1>1, <1>2 DEF Followers
<1>4. ~capturing[Coordinator] /\ \A k \in Conn : PendingOn(k, n) = <<>>
  BY <1>1 DEF Patience, Duties
<1>5. \A k \in Conn, m \in Node : PendingOn(k, m)' = PendingOn(k, m)
  BY <1>1, CalmPending
<1>6. PendingAt(n)' = <<>>
  <2>1. PICK links : links = {k \in Conn : PendingOn(k, n) # <<>>}
    OBVIOUS
  <2>2. links = {}
    BY <1>4, <2>1
  <2>3. PendingAt(n) = IF links = {} THEN <<>> ELSE PendingOn(CHOOSE j \in links : TRUE, n)
    BY <2>1, PendingAtIs, Zenon
  <2>4. PendingAt(n) = <<>>
    BY <2>2, <2>3, Zenon
  <2>5. PendingAt(n)' = PendingAt(n)
    BY <1>5, PendingAtSame
  <2> QED
    BY <2>4, <2>5, Zenon
<1>7. ASSUME NEW m \in Node
      PROVE  (IF m \in Followers' THEN PendingAt(m)' ELSE <<>>) = IF m \in Followers THEN PendingAt(m) ELSE <<>>
  <2>1. CASE m = n
    BY <1>3, <1>6, <2>1, Zenon
  <2>2. CASE m # n /\ m \in Followers
    <3>1. PendingAt(m)' = PendingAt(m)
      BY <1>5, PendingAtSame
    <3>2. m \in Followers'
      BY <1>3, <2>2
    <3> QED
      BY <2>2, <3>1, <3>2, Zenon
  <2>3. CASE m # n /\ m \notin Followers
    <3>1. m \notin Followers'
      BY <1>3, <2>3
    <3> QED
      BY <2>3, <3>1, Zenon
  <2> QED
    BY <2>1, <2>2, <2>3
<1>8. Awaited' = Awaited
  BY <1>7, Zenon DEF Awaited
<1>9. Awaited[n] = <<>>
  BY <1>3, Zenon DEF Awaited
<1>10. Locally' = Locally
  BY <1>1 DEF Locally
<1>11. ~Locally[n]
  BY <1>1 DEF Locally, Patience, Duties
<1> QED
  BY <1>1, <1>3, <1>4, <1>8, <1>9, <1>10, <1>11, Zenon DEF Abstract!Join, Awaited, Locally

LEMMA StepMaps == Patience /\ Patience' /\ [PatientNext]_vars => [Abstract!AbsNext]_(Abstract!absVars)
<1> SUFFICES ASSUME Patience, Patience', [PatientNext]_vars
             PROVE  [Abstract!AbsNext]_(Abstract!absVars)
  OBVIOUS
<1> USE CoordinatorAssumption
<1>0. Whole'
  BY DEF Patience
<1>1. CASE Ordinary
  <2>1. Followers' = Followers /\ capturing' = capturing
    BY <1>1 DEF Ordinary, Usual, Followers
  <2>2. \A n \in Followers, k \in Conn : PendingOn(k, n)' = PendingOn(k, n)
    BY <1>1, OrdinaryPending DEF Followers
  <2> QED
    BY <2>1, <2>2, StutterMaps
<1>2. CASE ~Ordinary
  <2>0. Patient
    BY <1>0, <1>2, PatientSteps
  <2>1. ASSUME NEW n \in Node, NEW s \in Session, CreateSession(n, s)
        PROVE  UNCHANGED Abstract!absVars
    <3>1. /\ n = Coordinator /\ \A m \in Node : session[m] = None
          /\ session' = [session EXCEPT ![n] = s] /\ capturing' = [capturing EXCEPT ![n] = FALSE]
      BY <2>0, <2>1, CreateKeeps
    <3>2. Followers = {} /\ Followers' = {}
      BY <3>1 DEF Followers, Patience, TypeOK
    <3>3. capturing' = capturing
      BY <3>1 DEF Patience, TypeOK, Duties
    <3> QED
      BY <3>2, <3>3, StutterMaps
  <2>2. ASSUME NEW n \in Node, NEW s \in Session, ConnectToCoordinator(n, s)
        PROVE  UNCHANGED Abstract!absVars
    <3>1. UNCHANGED <<session, capturing, handling>> /\ Calm(inbox')
      BY <2>0, <2>2, ConnectKeeps
    <3>2. Followers' = Followers
      BY <3>1 DEF Followers
    <3>3. \A m \in Followers, k \in Conn : PendingOn(k, m)' = PendingOn(k, m)
      BY <3>1, CalmPending DEF Followers
    <3> QED
      BY <3>1, <3>2, <3>3, StutterMaps
  <2>3. ASSUME NEW n \in Node, NEW m \in Node, InvitePeer(n, m), peerSock[n][m] = None
        PROVE  UNCHANGED Abstract!absVars
    <3>1. UNCHANGED <<session, capturing, handling>> /\ Calm(inbox')
      BY <2>0, <2>3, InviteKeeps
    <3>2. Followers' = Followers
      BY <3>1 DEF Followers
    <3>3. \A i \in Followers, k \in Conn : PendingOn(k, i)' = PendingOn(k, i)
      BY <3>1, CalmPending DEF Followers
    <3> QED
      BY <3>1, <3>2, <3>3, StutterMaps
  <2>4. ASSUME NEW n \in Node, AcceptSessionInvite(n)
        PROVE  Abstract!AbsNext
    BY <2>4, JoinMaps DEF Abstract!AbsNext
  <2>5. ASSUME NEW n \in Node, StartCapture(n) \/ StopCapture(n)
        PROVE  Abstract!AbsNext
    BY <2>0, <2>5, CommandMaps DEF Abstract!AbsNext
  <2>6. ASSUME NEW k \in Conn, NEW n \in Node, Take(k, n) \/ Refuse(k, n)
        PROVE  UNCHANGED Abstract!absVars
    <3>1. Usual /\ capturing' = capturing /\ (Refuse(k, n) => session[n] = None)
      BY <2>6, TakeUsual
    <3>2. Followers' = Followers
      BY <3>1 DEF Usual, Followers
    <3>3. ASSUME NEW m \in Followers, NEW j \in Conn
          PROVE  PendingOn(j, m)' = PendingOn(j, m)
      <4>1. m \in Node /\ session[m] # None
        BY DEF Followers
      <4>2. CASE Take(k, n)
        BY <4>1, <4>2, TakePending
      <4>3. CASE Refuse(k, n)
        <5>1. m # n
          BY <3>1, <4>1, <4>3
        <5> QED
          BY <4>1, <4>3, <5>1, RefusePending
      <4> QED
        BY <2>6, <4>2, <4>3
    <3> QED
      BY <3>1, <3>2, <3>3, StutterMaps
  <2>7. ASSUME NEW k \in Conn, NEW n \in Node, Execute(k, n)
        PROVE  Abstract!AbsNext
    BY <2>7, ExecuteMaps DEF Abstract!AbsNext
  <2> QED
    BY <1>0, <1>2, <2>1, <2>2, <2>3, <2>4, <2>5, <2>6, <2>7, PatientSteps
<1> QED
  BY <1>1, <1>2

-----------------------------------------------------------------------------
(* The theorems.                                                           *)

\* The abstract promises, about the mapped state.
Track == INSTANCE CoordinatedCaptureProofs WITH
  leader   <- capturing[Coordinator],
  follower <- Followers,
  local    <- [n \in Node |-> n # Coordinator /\ capturing[n]],
  pending  <- [n \in Node |-> IF n \in Followers THEN PendingAt(n) ELSE <<>>]

\* Whoever the coordinator lists is in its session and has nothing pending.
LEMMA QuietAgreement == Patience /\ Track!Echo => QuiescentAgreement
<1> SUFFICES ASSUME Patience, Track!Echo, Quiet, IsCoordinator(Coordinator),
                    NEW n \in Node, members[Coordinator][n] # None
             PROVE  session[n] = session[Coordinator] /\ capturing[n] = capturing[Coordinator]
  BY DEF QuiescentAgreement
<1>1. CASE n = Coordinator
  BY <1>1
<1>2. CASE n # Coordinator
  <2>1. coordSock[n] # None
    BY <1>2 DEF Patience, Duties
  <2>2. session[n] # None
    BY <1>2, <2>1 DEF Patience, Sockets, Quiet, Settled
  <2>3. session[n] = session[Coordinator] /\ n \in Followers
    BY <1>2, <2>2 DEF Patience, OneSession, Followers
  <2>4. PICK k : k = coordSock[n]
    OBVIOUS
  <2>5. k \in Conn /\ PendingAt(n) = PendingOn(k, n)
    BY <2>3, <2>4, FollowerPending DEF FollowersDialled
  <2>6. PendingOn(k, n) = <<>>
    BY <2>5, Idle DEF Quiet, Patience
  <2>7. Awaited[n] = <<>>
    BY <2>3, <2>5, <2>6, Zenon DEF Awaited
  <2>8. Locally[n] = capturing[Coordinator]
    BY <2>3, <2>7, Zenon DEF Track!Echo, Awaited, Locally
  <2>9. Locally[n] <=> capturing[n]
    BY <1>2 DEF Locally
  <2>10. capturing[n] \in BOOLEAN /\ capturing[Coordinator] \in BOOLEAN
    BY CoordinatorAssumption DEF Patience, TypeOK
  <2>11. Locally[n] \in BOOLEAN
    BY <2>8, <2>10
  <2> QED
    BY <2>3, <2>8, <2>9, <2>10, <2>11
<1> QED
  BY <1>1, <1>2

\* A patiently operated session keeps its shape: one session in a star around
\* the coordinator, with no command, join or greeting out of place.
LEMMA PatienceHolds == PatientSpec /\ [](broken = {}) => []Patience
<1>1. broken = {} => Whole
  BY DEF Whole
<1> QED
  BY <1>1, InitPatience, NextPatience, PTL DEF PatientSpec

\* Operated patiently, and as long as no connection breaks, the service
\* implements CoordinatedCapture: the sockets, the HELLO, INVITE, JOIN and
\* STATUS messages, the two-step handlers of START and STOP and the exchange on
\* is_capturing_ amount to a coordinator whose followers execute each of its
\* commands once and in order.
THEOREM CaptureIsCoordinated ==
  PatientSpec /\ [](broken = {}) => ImplementsCoordinatedCapture
<1> QED
  BY PatienceHolds, InitMaps, StepMaps, PTL DEF PatientSpec, ImplementsCoordinatedCapture, Abstract!AbsSpec

\* Once everything sent has been handled, every node the coordinator lists is
\* in its session and captures exactly when the coordinator does.
THEOREM FollowersAgree ==
  PatientSpec /\ [](broken = {}) => []QuiescentAgreement
<1>1. Abstract!AbsInit => Track!AbsInit
  BY Zenon DEF Abstract!AbsInit, Track!AbsInit
<1>2. [Abstract!AbsNext]_(Abstract!absVars) => [Track!AbsNext]_(Track!absVars)
  BY Zenon DEF Abstract!AbsNext, Abstract!absVars, Abstract!Join, Abstract!Command, Abstract!Execute,
               Track!AbsNext, Track!absVars, Track!Join, Track!Command, Track!Execute
<1>3. Abstract!AbsSpec => Track!AbsSpec
  BY <1>1, <1>2, PTL DEF Abstract!AbsSpec, Track!AbsSpec
<1>4. PatientSpec /\ [](broken = {}) => Abstract!AbsSpec
  BY CaptureIsCoordinated DEF ImplementsCoordinatedCapture
<1>5. Track!AbsSpec => [](Track!Echo /\ Track!NoRedundantCommand)
  BY Track!FollowersTrack
<1> QED
  BY <1>3, <1>4, <1>5, PatienceHolds, QuietAgreement, PTL
=============================================================================
