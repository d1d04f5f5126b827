------------------------------ MODULE IpcStream ------------------------------
(***************************************************************************)
(* What the client of a daemon makes of the bytes on its socket.  Answers  *)
(* arrive in order and carry no reference to their request: one that comes *)
(* after its reader gave up is taken for the answer to a later request.    *)
(* A line reader and a block reader that meet the other's format leave the *)
(* answer torn.                                                            *)
(***************************************************************************)
EXTENDS SensorDaemon, Sequences

CONSTANT LineLimit  \* the longest trajectory that fits in a line of 65536 bytes
ASSUME LineLimitAssumption == LineLimit \in Nat

Request == {"PING", "START", "STOP", "TELEMETRY", "TRAJECTORY", "NEW", "ALL"}
Binary  == {"NEW", "ALL"}      \* answered by a block, the others by a line
Found   == {"PING", "START", "STOP"}  \* searched for in the line, not parsed

\* An answer names the request it answers.
Answer == [to : Request, pts : SUBSET Point, torn : BOOLEAN]
AnswerTo(d, request) == [to |-> request, pts |-> Carried(d, request), torn |-> FALSE]

Tear(in) == IF in = <<>> THEN in ELSE <<[Head(in) EXCEPT !.torn = TRUE]>> \o Tail(in)

\* A reading: the verdict, the points it returns and what it leaves.  "more"
\* is a line that has not ended yet.
Reading(v, pts, rest) == [verdict |-> v, pts |-> pts, rest |-> rest]

\* A block has no end of line but by chance; a line that began in a block may
\* still hold the word looked for, but is not JSON.  Of a line that is too long
\* the reader takes what it has room for; the rest may be too long again.
TooLong(a) == a.to = "TRAJECTORY" /\ Cardinality(a.pts) > LineLimit
ReadLine(request, in, dirty) ==
  LET a == Head(in)
  IN  IF a.to \in Binary
      THEN {Reading("more", {}, Tail(in)), Reading("bad", {}, Tear(in))}
      ELSE IF TooLong(a)
      THEN {Reading("bad", {}, r) : r \in {Tear(in)} \cup (IF a.torn THEN {Tail(in)} ELSE {})}
      ELSE IF a.to = request /\ ~a.torn /\ (dirty => request \in Found)
           THEN {Reading("ok", a.pts, Tail(in))}
           ELSE {Reading("bad", {}, Tail(in))}

\* The eight bytes of a header; a line is longer than the headers read from it.
ReadBlock(request, in) ==
  LET a == Head(in)
  IN  IF a.to \notin Binary THEN {Reading("bad", {}, Tear(in))}
      ELSE IF a.torn THEN {Reading("bad", {}, r) : r \in {in, Tail(in), Tear(Tail(in))}}
      ELSE IF a.to = request THEN {Reading("ok", a.pts, Tail(in))}
      ELSE {Reading("bad", {}, IF a.pts = {} THEN Tail(in) ELSE Tear(in))}

Readings(request, in, dirty) ==
  IF request \in Binary THEN ReadBlock(request, in) ELSE ReadLine(request, in, dirty)
=============================================================================
