------------------------- MODULE CoordinatedCapture -------------------------
(***************************************************************************)
(* What a coordinated capture promises, without sockets or messages: the   *)
(* coordinator starts and stops a capture, and every follower executes     *)
(* each of its commands once and in order, each in its own time.           *)
(***************************************************************************)
EXTENDS Naturals, Sequences

CONSTANT Node

VARIABLES
  leader,    \* the coordinator is capturing
  follower,  \* the nodes that take part
  local,     \* local[n]: follower n is capturing
  pending    \* pending[n]: commands (TRUE is start) n has not executed yet

absVars == <<leader, follower, local, pending>>

AbsTypeOK ==
  /\ leader   \in BOOLEAN
  /\ follower \in SUBSET Node
  /\ local    \in [Node -> BOOLEAN]
  /\ pending  \in [Node -> Seq(BOOLEAN)]

AbsInit ==
  /\ leader   = FALSE
  /\ follower = {}
  /\ local    = [n \in Node |-> FALSE]
  /\ pending  = [n \in Node |-> <<>>]

\* A node joins between captures.
Join(n) ==
  /\ ~leader /\ n \notin follower /\ pending[n] = <<>> /\ ~local[n]
  /\ follower' = follower \cup {n}
  /\ UNCHANGED <<leader, local, pending>>

Command ==
  /\ leader'  = ~leader
  /\ pending' = [n \in Node |-> IF n \in follower
                                THEN Append(pending[n], ~leader) ELSE pending[n]]
  /\ UNCHANGED <<follower, local>>

Execute(n) ==
  /\ pending[n] # <<>>
  /\ local'   = [local EXCEPT ![n] = Head(pending[n])]
  /\ pending' = [pending EXCEPT ![n] = Tail(@)]
  /\ UNCHANGED <<leader, follower>>

AbsNext == Command \/ \E n \in Node : Join(n) \/ Execute(n)
AbsSpec == AbsInit /\ [][AbsNext]_absVars

\* A follower that has executed everything agrees with the coordinator.
Echo == \A n \in follower : pending[n] = <<>> => local[n] = leader

\* No command is redundant: the ones a follower still has to execute alternate,
\* and the next one changes what it is doing.  The exchanges that make the
\* handlers idempotent never absorb anything in a patiently operated session.
NoRedundantCommand ==
  \A n \in follower :
    /\ pending[n] # <<>> => Head(pending[n]) # local[n]
    /\ \A i \in 1..Len(pending[n]) - 1 : pending[n][i] # pending[n][i + 1]
=============================================================================
