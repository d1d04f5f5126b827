-------------------------- MODULE SubmapStreaming ---------------------------
(***************************************************************************)
(* Submaps on their way through a session that everybody has joined:       *)
(* threads that hold a node's members_mutex_ while they write to           *)
(* connections with room for so much, and threads that need it to read on. *)
(*                                                                         *)
(* A message is written and read in units, a submap in several.  Writing   *)
(* blocks for as long as the connection is full: the sockets have no send  *)
(* time-out, and no connection breaks here (Coordination has those that    *)
(* do).  send_mutex_ is taken under members_mutex_ by all that is modelled,*)
(* so nobody waits for it.                                                 *)
(***************************************************************************)
EXTENDS Naturals, Sequences

CONSTANTS
  Hub,        \* the coordinator
  Members,    \* the participants, each with one connection to it
  Crews,      \* sets of nodes that may capture together
  Size,       \* units of a submap; any other message has one
  Room,       \* units that one direction of a connection holds
  MaxSubmaps, \* bound: submaps a node publishes
  Beaters,    \* nodes whose heartbeats are looked at
  MaxBeats    \* bound: heartbeats of each

ASSUME StreamAssumption ==
  /\ Hub \notin Members /\ Beaters \cup UNION Crews \subseteq {Hub} \cup Members
  /\ {Size, Room} \subseteq Nat \ {0} /\ {MaxSubmaps, MaxBeats} \subseteq Nat

All      == {Hub} \cup Members
Peers(h) == IF h = Hub THEN Members ELSE {Hub}
Links    == {l \in All \X All : l[2] \in Peers(l[1])}
\* A node's user interface and heartbeat, and a reader for each connection.
Threads  == (All \X {"ui", "beat"}) \cup Links

VARIABLES
  crew,    \* the nodes that capture
  pipe,    \* pipe[<<h, q>>]: the units h has written to q that q has not read
  mutex,   \* members_mutex_ of each node: who broadcasts, and how far it is
  todo,    \* what each thread has to broadcast
  heard,   \* the message each reader has read and not handled
  merged,  \* merged[h][n]: the last submap of n that h's engine has taken in
  taken,   \* the submaps each node has published
  beats    \* the heartbeats of each node

streamVars == <<crew, pipe, mutex, todo, heard, merged, taken, beats>>

Submap(n, i) == [type |-> "submap", of |-> n, take |-> i]
Alignment    == [type |-> "alignment"]
Pulse        == [type |-> "heartbeat"]
Part         == [type |-> "part"]  \* of a submap, before its last unit
Silence      == [type |-> "none"]
Units(m)     == IF m.type = "submap" THEN [i \in 1..Size |-> IF i = Size THEN m ELSE Part]
                ELSE <<m>>

To(m, peers)   == [msg |-> m, peers |-> peers] \* a call of broadcastToMembers
Unheld         == [by |-> <<>>, rest |-> {}, to |-> {}, units |-> <<>>]
Held(t, peers) == [by |-> t, rest |-> peers, to |-> {}, units |-> <<>>]

StreamInit ==
  /\ crew \in Crews
  /\ pipe   = [l \in Links |-> <<>>]
  /\ mutex  = [h \in All |-> Unheld]
  /\ todo   = [t \in Threads |-> <<>>]
  /\ heard  = [t \in Links |-> Silence]
  /\ merged = [h \in All |-> [n \in All |-> 0]]
  /\ taken  = [n \in All |-> 0]
  /\ beats  = [h \in Beaters |-> 0]

-----------------------------------------------------------------------------
(* Writing *)

\* onTelemetryTick and, of the last submap, stopCapture: the map goes into the
\* node's own engine and to its peers; when a capture stops the coordinator
\* announces the alignment too.
Publish(n) ==
  LET i == taken[n] + 1 IN
  /\ todo[<<n, "ui">>] = <<>> /\ i <= MaxSubmaps
  /\ taken'  = [taken EXCEPT ![n] = i]
  /\ merged' = [merged EXCEPT ![n][n] = i]
  /\ todo'   = [todo EXCEPT ![<<n, "ui">>] = <<To(Submap(n, i), Peers(n))>> \o
                  (IF n = Hub /\ i = MaxSubmaps THEN <<To(Alignment, Peers(n))>> ELSE <<>>)]
  /\ UNCHANGED <<crew, pipe, mutex, heard, beats>>

\* heartbeatWorker
Beat(h) ==
  /\ todo[<<h, "beat">>] = <<>> /\ beats[h] < MaxBeats
  /\ beats' = [beats EXCEPT ![h] = @ + 1]
  /\ todo'  = [todo EXCEPT ![<<h, "beat">>] = <<To(Pulse, Peers(h))>>]
  /\ UNCHANGED <<crew, pipe, mutex, heard, merged, taken>>

\* broadcastToMembers takes members_mutex_, writes to one peer after another,
\* in no particular order, and gives it back.
Lock(t) ==
  /\ todo[t] # <<>> /\ mutex[t[1]] = Unheld
  /\ mutex' = [mutex EXCEPT ![t[1]] = Held(t, Head(todo[t]).peers)]
  /\ UNCHANGED <<crew, pipe, todo, heard, merged, taken, beats>>

Write(h, q) ==
  LET m     == mutex[h]
      first == m.units = <<>>
      units == IF first THEN Units(Head(todo[m.by]).msg) ELSE m.units IN
  /\ m # Unheld
  /\ IF first THEN q \in m.rest ELSE q \in m.to
  /\ Len(pipe[<<h, q>>]) < Room
  /\ pipe'  = [pipe EXCEPT ![<<h, q>>] = Append(@, Head(units))]
  /\ mutex' = [mutex EXCEPT ![h] = [m EXCEPT !.rest = @ \ {q}, !.to = {q}, !.units = Tail(units)]]
  /\ UNCHANGED <<crew, todo, heard, merged, taken, beats>>

Unlock(h) ==
  LET m == mutex[h] IN
  /\ m # Unheld /\ m.rest = {} /\ m.units = <<>>
  /\ mutex' = [mutex EXCEPT ![h] = Unheld]
  /\ todo'  = [todo EXCEPT ![m.by] = Tail(@)]
  /\ UNCHANGED <<crew, pipe, heard, merged, taken, beats>>

-----------------------------------------------------------------------------
(* Reading *)

\* clientConnectionWorker of h, for what q sends: it reads on when it is done
\* with the message before.
Receive(h, q) ==
  LET unit == Head(pipe[<<q, h>>]) IN
  /\ todo[<<h, q>>] = <<>> /\ heard[<<h, q>>] = Silence /\ pipe[<<q, h>>] # <<>>
  /\ pipe'  = [pipe EXCEPT ![<<q, h>>] = Tail(@)]
  /\ heard' = [heard EXCEPT ![<<h, q>>] = IF unit = Part THEN Silence ELSE unit]
  /\ UNCHANGED <<crew, mutex, todo, merged, taken, beats>>

\* Mutant: the coordinator keeps the submap to itself.
AnswersAlone(h, m) ==
  IF h # Hub \/ m.type # "submap" THEN <<>> ELSE <<To(Alignment, Members)>>
\* What a submap makes its reader send: the coordinator announces the
\* alignment to all its members, then relays the submap to all others.
Answers(h, m) ==
  IF h # Hub \/ m.type # "submap" THEN <<>>
  ELSE <<To(Alignment, Members), To(m, Members \ {m.of})>>

\* A message binds its sender to the connection, for which the reader needs
\* members_mutex_; then it is handled.
Handle(h, q) ==
  LET m == heard[<<h, q>>] IN
  /\ m # Silence /\ mutex[h] = Unheld
  /\ heard'  = [heard EXCEPT ![<<h, q>>] = Silence]
  /\ merged' = IF m.type = "submap" THEN [merged EXCEPT ![h][m.of] = m.take] ELSE merged
  /\ todo'   = [todo EXCEPT ![<<h, q>>] = Answers(h, m)]
  /\ UNCHANGED <<crew, pipe, mutex, taken, beats>>

RunOn ==
  \/ \E t \in Threads : Lock(t)
  \/ \E h \in All : Unlock(h)
  \/ \E l \in Links : Write(l[1], l[2])
  \/ \E l \in Links : Receive(l[1], l[2])
  \/ \E l \in Links : Handle(l[1], l[2])

StreamNext ==
  \/ \E n \in crew : Publish(n)
  \/ \E h \in Beaters : Beat(h)
  \/ RunOn

\* Some thread that can run does.  That is enough: what a session sends is
\* bounded, so nobody who waits for a mutex is passed over for ever.
StreamFairness == WF_streamVars(RunOn)

StreamSpec == StreamInit /\ [][StreamNext]_streamVars /\ StreamFairness

-----------------------------------------------------------------------------
(* Properties *)

\* Again and again every node has the last submap of every other ("so that all
\* N scanners in the session maintain a live merged point cloud!"): what is
\* published is bounded, so nodes that stay behind can only be nodes that wait
\* for each other.
LiveMergedCloud == []<>(\A h, n \in All : merged[h][n] = taken[n])
=============================================================================
