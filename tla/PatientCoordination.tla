------------------------ MODULE PatientCoordination -------------------------
(***************************************************************************)
(* Coordination under the operating procedure the dialog suggests: nodes   *)
(* join between captures, captures start and stop when no join handshake   *)
(* is under way, and nobody leaves.  Under it the service implements       *)
(* CoordinatedCapture, over any number of connections used in turn, as     *)
(* long as each pair of nodes uses one.                                    *)
(***************************************************************************)
EXTENDS Coordination

CONSTANT Coordinator  \* the node that creates the sessions
ASSUME CoordinatorAssumption == Coordinator \in Node /\ \A s \in Session : Owner[s] = Coordinator

Handshake == {"HELLO", "INVITE_SESSION", "JOIN_SESSION", "SESSION_STATUS"}
Settled ==
  /\ \A n \in Node : joining[n] = None
  /\ \A k \in Conn, n \in Node : \A msg \in InFlight(k, n) :
       msg.type \notin Handshake

\* The start and stop commands in a queue, oldest first; TRUE is a start.
IsFlip(msg) == msg.type \in {"START_CAPTURE", "STOP_CAPTURE"}
Flip(msg)   == msg.type = "START_CAPTURE"
Flips(q) ==
  LET upTo[i \in 0..Len(q)] == IF i = 0 THEN <<>>
                               ELSE IF IsFlip(q[i]) THEN Append(upTo[i - 1], Flip(q[i]))
                               ELSE upTo[i - 1]
  IN  upTo[Len(q)]

\* Those n has not executed: the one it has validated, and the unread ones.
Holds(k, n)     == handling[k][n] # None /\ IsFlip(handling[k][n])
PendingOn(k, n) == IF Holds(k, n) THEN <<Flip(handling[k][n])>> \o Flips(inbox[k][n]) ELSE Flips(inbox[k][n])
PendingAt(n) ==
  LET links == {k \in Conn : PendingOn(k, n) # <<>>}
  IN  IF links = {} THEN <<>> ELSE PendingOn(CHOOSE k \in links : TRUE, n)

\* What a patient operator makes of a step: no start or stop before joins
\* have settled, no dial during a capture, no second dial, no leave.
Patient ==
  /\ capturing'[Coordinator] # capturing[Coordinator] => Settled
  /\ dials' # dials => /\ ~capturing[Coordinator]
                       /\ \A n \in Node : PendingAt(n) = <<>>
                       /\ \A k \in Conn : ends[k] # ends'[dials']
  /\ \A n \in Node : session[n] # None => session'[n] = session[n]

PatientNext == Next /\ Patient
PatientSpec == Init /\ [][PatientNext]_vars

Followers == {n \in Node \ {Coordinator} : session[n] # None}

\* The service implements the abstract coordinated capture: the handshake
\* brings a node in before the next START, and FIFO delivery, validation and
\* the exchange make each follower execute every command once and in order.
Abstract == INSTANCE CoordinatedCapture WITH
  leader   <- capturing[Coordinator],
  follower <- Followers,
  local    <- [n \in Node |-> n # Coordinator /\ capturing[n]],
  pending  <- [n \in Node |-> IF n \in Followers THEN PendingAt(n) ELSE <<>>]
ImplementsCoordinatedCapture == Abstract!AbsSpec

\* Once everything sent has been handled, every node the coordinator lists is
\* in its session and captures exactly when the coordinator does.
Quiet == /\ Settled
         /\ \A k \in Conn, n \in Node : InFlight(k, n) = {}
QuiescentAgreement ==
  Quiet /\ IsCoordinator(Coordinator) =>
    \A n \in Node : members[Coordinator][n] # None =>
      /\ session[n] = session[Coordinator]
      /\ capturing[n] = capturing[Coordinator]

\* A started capture reaches every follower unless it is stopped first, and
\* a stopped one ends at every follower unless it is started again.
StartReachesFollowers ==
  \A n \in Node \ {Coordinator} :
    /\ (capturing[Coordinator] /\ n \in Followers)
          ~> (capturing[n] \/ ~capturing[Coordinator])
    /\ (~capturing[Coordinator] /\ n \in Followers)
          ~> (~capturing[n] \/ capturing[Coordinator])
=============================================================================
