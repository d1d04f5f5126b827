---------------------------- MODULE CSlamSession ----------------------------
(***************************************************************************)
(* The C-SLAM engines of a coordinator and its participants, kept in step  *)
(* by submaps and alignment updates.  Each host has a user-interface        *)
(* thread and one worker per connection; at the coordinator they share one *)
(* engine and write to the same connections, and an update is serialised   *)
(* under the engine's mutex and sent after it is released.                  *)
(***************************************************************************)
EXTENDS CSlamEngine

CONSTANTS
  Host,        \* scanners that run the program; the others are simulated
  Coord,       \* the host that creates the session
  Clouds,      \* Clouds[n]: the clouds scanner n may have recorded
  Triggering,  \* hosts whose user presses "snap"
  MaxCreates, MaxPublish, MaxTriggers, MaxClears, MaxLeaves, MaxSims  \* bounds

ASSUME HostAssumption == Coord \in Host /\ Host \subseteq Scanner /\ None \notin Scanner
ASSUME CloudsAssumption == Clouds \in [Scanner -> SUBSET Cloud]
ASSUME BoundsAssumption ==
  {MaxCreates, MaxPublish, MaxTriggers, MaxClears, MaxLeaves, MaxSims} \subseteq Nat

Participant == Host \ {Coord}

VARIABLES
  engine,   \* cslam_engine_ of each host
  member,   \* hosts that take themselves to be in the session
  bound,    \* participants the coordinator has a connection bound to
  up, down, \* up[p], down[p]: what participant p sent, and what was sent to it
  thread,   \* what the worker of a connection (or the coordinator's user
            \* interface, thread[Coord]) still has to do
  latest,   \* history: the cloud each host last published into the session
  announced,\* history: the alignment the coordinator last set out to broadcast
  spent     \* what the bounds have left for each kind of call

engines == <<engine, latest, announced>>
network == <<member, bound, up, down>>
vars == <<engine, member, bound, up, down, thread, latest, announced, spent>>

Idle == [stage |-> "idle"]

SubmapMessage    == [type : {"SUBMAP"}, scanner : Scanner, cloud : Cloud]
AlignmentMessage == [type : {"ALIGNMENT"}, state : AlignmentState]
JoinMessage      == [type : {"HELLO"}] \cup [type : {"JOIN"}, session : Nat]

ASSUME NoneAssumption == None \notin Submap \cup Item \cup SubmapMessage

Thread == [stage : {"idle", "create"}]
          \cup [stage : {"push"}, todo : Seq(Scanner), owed : SUBSET Scanner]
          \cup [stage : {"pushing"}, todo : Seq(Scanner), owed : SUBSET Scanner, msg : SubmapMessage]
          \cup [stage : {"greet"}, msg : AlignmentMessage]
          \cup [stage : {"evaluate"}, relay : SubmapMessage \cup {None}]
          \cup [stage : {"announce"}, relay : SubmapMessage \cup {None}, msg : AlignmentMessage]
          \cup [stage : {"relay"}, msg : SubmapMessage]

SubmapOf(n, e)  == [type |-> "SUBMAP", scanner |-> n, cloud |-> e.sub[n].cloud]
AlignmentOf(e)  == [type |-> "ALIGNMENT", state |-> Alignment(e)]

Kinds == {"creates", "publishes", "triggers", "clears", "leaves", "sims"}
Bound == [creates |-> MaxCreates, publishes |-> MaxPublish, triggers |-> MaxTriggers,
          clears |-> MaxClears, leaves |-> MaxLeaves, sims |-> MaxSims]
Spend(k) == spent[k] < Bound[k] /\ spent' = [spent EXCEPT ![k] = @ + 1]

\* The session a JOIN must name; it changes when the new anchor is registered.
SessionId == IF thread[Coord].stage = "create" THEN spent["creates"] - 1 ELSE spent["creates"]

UiFree(n) == n = Coord => thread[Coord] = Idle

Init ==
  /\ engine = [n \in Host |-> Empty]
  /\ member = {} /\ bound = {}
  /\ up   = [p \in Participant |-> <<>>]
  /\ down = [p \in Participant |-> <<>>]
  /\ thread = [n \in Host |-> Idle]
  /\ latest = [n \in Host |-> {}]
  /\ announced = Alignment(Empty)
  /\ spent  = [k \in Kinds |-> 0]

Broadcast(to, m) == [p \in Participant |-> IF p \in to THEN Append(down[p], m) ELSE down[p]]
Continue(t, next) == thread' = [thread EXCEPT ![t] = next]

----------------------------------------------------------------------------
(* The user interface.                                                      *)

\* createSession clears the engine and registers the coordinator as the anchor
\* in two steps; a worker may ingest a submap in between.
CreateSession ==
  /\ UiFree(Coord) /\ Spend("creates")
  /\ engine' = [engine EXCEPT ![Coord] = Empty]
  /\ latest' = [latest EXCEPT ![Coord] = {}]
  /\ Continue(Coord, [stage |-> "create"])
  /\ UNCHANGED <<announced, network>>

RegisterAnchor ==
  /\ thread[Coord].stage = "create"
  /\ engine' = [engine EXCEPT ![Coord] = RegisterScanner(@, Coord, TRUE)]
  /\ member' = member \cup {Coord}
  /\ Continue(Coord, Idle)
  /\ UNCHANGED <<latest, announced, bound, up, down, spent>>

\* joinSession: a participant joins once; what a second connection of a pair
\* does is the subject of Coordination.
JoinSession(p) ==
  /\ Coord \in member /\ p \notin member /\ p \notin bound /\ up[p] = <<>>
  /\ engine' = [engine EXCEPT ![p] = Empty]
  /\ latest' = [latest EXCEPT ![p] = {}]
  /\ member' = member \cup {p}
  /\ up'     = [up EXCEPT ![p] = <<[type |-> "HELLO"], [type |-> "JOIN", session |-> SessionId]>>]
  /\ UNCHANGED <<announced, bound, down, thread, spent>>

LeaveSession(p) ==
  /\ p \in member /\ Spend("leaves")
  /\ member' = member \ {p}
  /\ engine' = [engine EXCEPT ![p] = Empty]
  /\ latest' = [latest EXCEPT ![p] = {}]
  /\ UNCHANGED <<announced, bound, up, down, thread>>

\* publishLocalSubmap: while streaming the engine does not evaluate; the last
\* submap of a capture forces it, and the coordinator's announces the result.
\* What a host has recorded only grows.  With an empty engine and no session
\* only the simulation of a scanner begins by publishing.
PublishLocalSubmap(n, cloud, force) ==
  /\ UiFree(n)
  /\ \/ n \in member
     \/ Known(engine[n]) # {}
     \/ ~force /\ spent["sims"] < MaxSims
  /\ Spend("publishes")
  /\ latest[n] \subseteq cloud
  /\ engine' = [engine EXCEPT ![n] = IngestSubmap(@, n, cloud, force)]
  /\ latest' = IF n \in member THEN [latest EXCEPT ![n] = cloud] ELSE latest
  /\ LET m == [type |-> "SUBMAP", scanner |-> n, cloud |-> cloud]
     IN  IF n = Coord
         THEN down' = Broadcast(IF n \in member THEN bound ELSE {}, m) /\ UNCHANGED up
         ELSE /\ up' = IF n \in member THEN [up EXCEPT ![n] = Append(@, m)] ELSE up
              /\ UNCHANGED down
  /\ IF n = Coord /\ force THEN Continue(n, [stage |-> "evaluate", relay |-> None])
     ELSE UNCHANGED thread
  /\ UNCHANGED <<announced, member, bound>>

\* triggerCslamOverlapEvaluation, by any host in whatever role it has.
TriggerOverlapEvaluation(n) ==
  /\ n \in Triggering /\ UiFree(n) /\ Spend("triggers")
  /\ IF n = Coord
     THEN /\ Continue(n, [stage |-> "evaluate", relay |-> None])
          /\ UNCHANGED <<engine, up>>
     ELSE /\ engine' = [engine EXCEPT ![n] = Snap(@)]
          /\ up' = IF n \in member THEN [up EXCEPT ![n] = Append(@, AlignmentOf(engine'[n]))]
                   ELSE up
          /\ UNCHANGED thread
  /\ UNCHANGED <<latest, announced, member, bound, down>>

\* addSimulatedCslamScanner touches the local engine only.  An overlapping
\* scanner sees what the first one sees.
AddSimulatedScanner(n, s, cloud, overlapping) ==
  /\ UiFree(n) /\ Known(engine[n]) # {} /\ s \notin Known(engine[n]) /\ Spend("sims")
  /\ LET first == engine[n].sub[Head(engine[n].order)].cloud
         seen  == IF overlapping /\ first # {} THEN first ELSE cloud
     IN  engine' = [engine EXCEPT ![n] = IngestSubmap(@, s, seen, overlapping)]
  /\ UNCHANGED <<latest, announced, network, thread>>

\* Mutant: the table is cleared and the list of scanners is not.
ClearTableOnly(n) ==
  /\ UiFree(n) /\ Spend("clears")
  /\ engine' = [engine EXCEPT ![n].sub = Empty.sub]
  /\ UNCHANGED <<latest, announced, network, thread>>

ClearScanners(n) ==
  /\ UiFree(n) /\ Spend("clears")
  /\ engine' = [engine EXCEPT ![n] = Empty]
  /\ UNCHANGED <<latest, announced, network, thread>>

----------------------------------------------------------------------------
(* The coordinator's workers.  A worker reads its next message only when it *)
(* has finished with the one before.                                        *)

Reads(p, type) == thread[p] = Idle /\ up[p] # <<>> /\ Head(up[p]).type = type
Consume(p) == up' = [up EXCEPT ![p] = Tail(@)]

HandleHello(p) ==
  /\ Reads(p, "HELLO") /\ Consume(p)
  /\ bound' = bound \cup {p}
  /\ UNCHANGED <<engines, member, down, thread, spent>>

\* Mutant: the newcomer is sent the alignment and no submap.
HandleJoinWithoutPush(p) ==
  /\ Reads(p, "JOIN") /\ Head(up[p]).session = SessionId /\ Consume(p)
  /\ engine' = [engine EXCEPT ![Coord] = RegisterScanner(@, p, FALSE)]
  /\ Continue(p, [stage |-> "push", todo |-> <<>>, owed |-> {}])
  /\ UNCHANGED <<latest, announced, member, bound, down, spent>>

\* The joined callback: register, take a copy of what there is, then go through
\* it and push every submap, one serialisation and one send each; the alignment
\* comes last.
HandleJoin(p) ==
  /\ Reads(p, "JOIN") /\ Head(up[p]).session = SessionId /\ Consume(p)
  /\ engine' = [engine EXCEPT ![Coord] = RegisterScanner(@, p, FALSE)]
  /\ LET e == engine'[Coord]
     IN  Continue(p, [stage |-> "push", todo |-> e.order,
                      owed |-> {n \in Known(e) \ {p} : e.sub[n].cloud # {}}])
  /\ UNCHANGED <<latest, announced, member, bound, down, spent>>

DropJoin(p) ==
  /\ Reads(p, "JOIN") /\ Head(up[p]).session # SessionId /\ Consume(p)
  /\ UNCHANGED <<engines, member, bound, down, thread, spent>>

\* The newcomer's own and the empty ones are passed over.  A submap cleared
\* meanwhile is sent empty and dropped by its reader.
SerializeSubmap(p) ==
  /\ thread[p].stage = "push" /\ thread[p].todo # <<>>
  /\ LET n    == Head(thread[p].todo)
         rest == Tail(thread[p].todo)
         owed == thread[p].owed
     IN  IF n \in owed \cap Known(engine[Coord])
         THEN Continue(p, [stage |-> "pushing", todo |-> rest, owed |-> owed,
                           msg |-> SubmapOf(n, engine[Coord])])
         ELSE Continue(p, [stage |-> "push", todo |-> rest, owed |-> owed])
  /\ UNCHANGED <<engines, network, spent>>

SendSubmap(p) ==
  /\ thread[p].stage = "pushing"
  /\ down' = [down EXCEPT ![p] = Append(@, thread[p].msg)]
  /\ Continue(p, [stage |-> "push", todo |-> thread[p].todo, owed |-> thread[p].owed])
  /\ UNCHANGED <<engines, member, bound, up, spent>>

SerializeGreeting(p) ==
  /\ thread[p].stage = "push" /\ thread[p].todo = <<>>
  /\ Continue(p, [stage |-> "greet", msg |-> AlignmentOf(engine[Coord])])
  /\ UNCHANGED <<engines, network, spent>>

SendGreeting(p) ==
  /\ thread[p].stage = "greet"
  /\ down' = [down EXCEPT ![p] = Append(@, thread[p].msg)]
  /\ Continue(p, Idle)
  /\ UNCHANGED <<engines, member, bound, up, spent>>

HandleSubmap(p) ==
  /\ Reads(p, "SUBMAP") /\ Consume(p)
  /\ LET m == Head(up[p])
     IN  /\ engine' = [engine EXCEPT ![Coord] = IngestSubmap(@, m.scanner, m.cloud, TRUE)]
         /\ Continue(p, [stage |-> "evaluate", relay |-> m])
  /\ UNCHANGED <<latest, announced, member, bound, down, spent>>

\* evaluateAndSnapOverlaps and serializeAlignmentState take the mutex in turn;
\* nothing in between changes what the second would write but another ingest,
\* which evaluates by itself.
Evaluate(t) ==
  /\ thread[t].stage = "evaluate"
  /\ engine' = [engine EXCEPT ![Coord] = Snap(@)]
  /\ Continue(t, [stage |-> "announce", relay |-> thread[t].relay,
                  msg |-> AlignmentOf(engine'[Coord])])
  /\ announced' = IF Coord \in member THEN Alignment(engine'[Coord]) ELSE announced
  /\ UNCHANGED <<latest, network, spent>>

\* Mutant: the coordinator applies its own announcement when it sends it.
AnnounceToSelf(t) ==
  /\ thread[t].stage = "announce"
  /\ down' = IF Coord \in member THEN Broadcast(bound, thread[t].msg) ELSE down
  /\ engine' = [engine EXCEPT ![Coord] = ApplyAlignment(@, thread[t].msg.state)]
  /\ Continue(t, IF thread[t].relay = None THEN Idle
                 ELSE [stage |-> "relay", msg |-> thread[t].relay])
  /\ UNCHANGED <<latest, announced, member, bound, up, spent>>

\* Mutant: the announcement leaves out the scanner whose submap caused it.
AnnounceToOthers(t) ==
  /\ thread[t].stage = "announce"
  /\ down' = IF Coord \in member THEN Broadcast(bound \ {t}, thread[t].msg) ELSE down
  /\ Continue(t, IF thread[t].relay = None THEN Idle
                 ELSE [stage |-> "relay", msg |-> thread[t].relay])
  /\ UNCHANGED <<engines, member, bound, up, spent>>

Announce(t) ==
  /\ thread[t].stage = "announce"
  /\ down' = IF Coord \in member THEN Broadcast(bound, thread[t].msg) ELSE down
  /\ Continue(t, IF thread[t].relay = None THEN Idle
                 ELSE [stage |-> "relay", msg |-> thread[t].relay])
  /\ UNCHANGED <<engines, member, bound, up, spent>>

\* Mutant: the relay goes back to its sender instead of the others.
RelayToSender(p) ==
  /\ thread[p].stage = "relay"
  /\ down' = Broadcast(bound \cap {p}, thread[p].msg)
  /\ Continue(p, Idle)
  /\ UNCHANGED <<engines, member, bound, up, spent>>

Relay(p) ==
  /\ thread[p].stage = "relay"
  /\ down' = Broadcast(bound \ {p}, thread[p].msg)
  /\ Continue(p, Idle)
  /\ UNCHANGED <<engines, member, bound, up, spent>>

\* Whoever sent it, an alignment is applied.
HandleAlignment(p) ==
  /\ Reads(p, "ALIGNMENT") /\ Consume(p)
  /\ engine' = [engine EXCEPT ![Coord] = ApplyAlignment(@, Head(up[p]).state)]
  /\ UNCHANGED <<latest, announced, member, bound, down, thread, spent>>

----------------------------------------------------------------------------
(* A participant's worker.                                                  *)

Receive(p) ==
  /\ down[p] # <<>>
  /\ LET m == Head(down[p])
     IN  engine' = [engine EXCEPT ![p] =
           IF m.type = "SUBMAP" THEN IngestSubmap(@, m.scanner, m.cloud, TRUE)
           ELSE ApplyAlignment(@, m.state)]
  /\ down' = [down EXCEPT ![p] = Tail(@)]
  /\ UNCHANGED <<latest, announced, member, bound, up, thread, spent>>

----------------------------------------------------------------------------
User ==
  \/ CreateSession
  \/ \E p \in Participant : JoinSession(p) \/ LeaveSession(p)
  \/ \E n \in Host : \/ TriggerOverlapEvaluation(n) \/ ClearScanners(n)
                     \/ \E x \in Clouds[n], force \in BOOLEAN : PublishLocalSubmap(n, x, force)
                     \/ \E s \in Scanner \ Host : \E x \in Clouds[s], o \in BOOLEAN :
                          AddSimulatedScanner(n, s, x, o)

Work(t) == \/ Evaluate(t) \/ Announce(t)
           \/ /\ t # Coord
              /\ \/ HandleHello(t) \/ HandleJoin(t) \/ DropJoin(t) \/ HandleSubmap(t) \/ HandleAlignment(t)
                 \/ SerializeSubmap(t) \/ SendSubmap(t)
                 \/ SerializeGreeting(t) \/ SendGreeting(t) \/ Relay(t)

Next == User \/ RegisterAnchor
        \/ (\E t \in Host : Work(t)) \/ (\E p \in Participant : Receive(p))

Spec == Init /\ [][Next]_vars

\* Threads that can run do; users need not act.
Fairness == /\ WF_vars(RegisterAnchor)
            /\ \A t \in Host : WF_vars(Work(t))
            /\ \A p \in Participant : WF_vars(Receive(p))
FairSpec == Spec /\ Fairness

\* The sessions in which the coordinator's threads take turns: one finishes
\* the sends of its update before another begins.
TakesTurns ==
  /\ \A t, u \in Host : (thread'[t] # Idle /\ thread'[u] # Idle) => t = u
  /\ latest'[Coord] # latest[Coord] => \A t \in Host : thread[t] = Idle
OrderlySpec == Init /\ [][Next /\ TakesTurns]_vars

----------------------------------------------------------------------------
TypeOK ==
  /\ engine \in [Host -> Engine]
  /\ member \in SUBSET Host /\ bound \in SUBSET Participant
  /\ up     \in [Participant -> Seq(JoinMessage \cup SubmapMessage \cup AlignmentMessage)]
  /\ down   \in [Participant -> Seq(SubmapMessage \cup AlignmentMessage)]
  /\ thread \in [Host -> Thread]
  /\ latest \in [Host -> Cloud]
  /\ announced \in AlignmentState
  /\ spent  \in [Kinds -> Nat]

\* The coordinator's indices count its scanners in join order, and every two
\* scanners it has not aligned are drawn a separation distance apart, whatever
\* joins, submaps, clears and new sessions interleave.
CoordinatorInJoinOrder == JoinOrdered(engine[Coord])
CoordinatorApart       == UnalignedApart(engine[Coord])
\* In the first session the coordinator's map has one anchor, its first scanner,
\* and one frame.
CoordinatorOneMap == spent["creates"] <= 1 => OneMap(engine[Coord])

\* A scanner that has snapped to the coordinator's map stays there until the
\* map is cleared: no update that was overtaken takes it back.
LocksPersist ==
  [][\A n \in Scanner :
       (n \in Known(engine[Coord]) /\ engine[Coord].sub[n].state = "LOCKED") =>
         \/ engine[Coord]' = Empty
         \/ engine[Coord]'.sub[n].state = "LOCKED"
            /\ engine[Coord]'.sub[n].frame = engine[Coord].sub[n].frame]_vars

\* Everything sent has been handled.
Quiet == /\ \A t \in Host : thread[t] = Idle
         /\ \A p \in Participant : up[p] = <<>> /\ down[p] = <<>>

Follows(p) == p \in member /\ p \in bound

\* When quiet, every participant has every cloud published into the session.
CloudsAgree ==
  Quiet => \A p \in Participant, n \in Host :
    (Follows(p) /\ latest[n] # {}) =>
      n \in Known(engine[p]) /\ engine[p].sub[n].cloud = latest[n]

\* When quiet, and when the coordinator has announced what its engine holds,
\* every participant's alignment is the coordinator's.
ReplicasAgree ==
  (Quiet /\ announced = Alignment(engine[Coord]) /\ Snap(engine[Coord]) = engine[Coord]) =>
    \A p \in Participant, n \in Known(engine[Coord]) :
      Follows(p) => /\ n \in Known(engine[p])
                    /\ ItemOf(engine[p].sub[n]) = ItemOf(engine[Coord].sub[n])

\* A published cloud reaches every participant that stays.
CloudsSpread ==
  \A p \in Participant, n \in Host : \A x \in Clouds[n] :
    (latest[n] = x /\ p \in member)
      ~> (p \notin member \/ (n \in Known(engine[p]) /\ x \subseteq engine[p].sub[n].cloud))
=============================================================================
