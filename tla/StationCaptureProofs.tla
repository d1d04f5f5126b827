------------------------ MODULE StationCaptureProofs ------------------------
(* Captures of any number of sensors, with any number of late answers,      *)
(* crashes and failed starts: what is in flight between the bridge and a    *)
(* sensor's daemon, and what follows from it.                               *)
EXTENDS Station, TLAPS, SequenceTheorems, FiniteSetTheorems

-----------------------------------------------------------------------------
(* What has been asked of a daemon and not been read: the requests whose    *)
(* answers are on their way, then those the daemon has not served.          *)

Names(answers) == [i \in 1..Len(answers) |-> answers[i].to]
Asked(l)       == Names(l.toClient) \o l.toDaemon

Has(q, r)      == \E i \in 1..Len(q) : q[i] = r
Behind(q, a, b) == \E i, j \in 1..Len(q) : i < j /\ q[i] = a /\ q[j] = b

Pinging  == {"ping", "reping"}
Starting == {"connect", "respawn", "start"} \cup Pinging
Ticking  == {"telemetry", "trajectory", "new"}
Stopping == {"all", "halt", "collect", "hush"}

\* What holds of a sensor whatever the bridge does: nothing is asked behind a
\* PING, no STOP behind a START, no new points behind all of them, and no STOP
\* is left in a connection that has been closed.
Sound(d, l, o, c) ==
  LET q == Asked(l) IN
  /\ l.state = "closed" => q = <<>>
  /\ l.state = "broken" => l.toDaemon = <<>> /\ ~d.alive
  /\ \A r \in Request : ~Behind(q, "PING", r)
  /\ ~Behind(q, "START", "STOP")
  /\ ~Behind(q, "ALL", "NEW")
  /\ \A i \in 1..Len(o) : o[i] # <<>> /\ ~Has(o[i], "STOP")
  /\ c.running => c.connected /\ ~Has(q, "START")

\* ... and when the call the bridge makes of it is at this step: a PING is in
\* flight only while it is waited for; what is pinged or started has no STOP
\* in flight; the backend's START goes to a connection with nothing in it; a
\* sensor that runs records until its STOP is sent.
Placed(d, l, c, at, half, sent) ==
  LET q == Asked(l) IN
  /\ Has(q, "PING") => at \in Pinging /\ sent
  /\ c.connected \/ l.state = "closed" \/ at \in Pinging
  /\ at \in Starting => ~c.running /\ (half = "backend" => c.connected)
  /\ at \in Starting \ {"start"} => ~Has(q, "STOP")
  /\ at = "respawn" => l.state = "closed"
  /\ at = "start" => c.connected
  /\ at = "start" /\ half = "backend" =>
       /\ q = <<>> \/ (q = <<"START">> /\ sent)
       /\ l.toClient # <<>> /\ d.alive => d.capturing
  /\ at \in Ticking \cup {"all", "halt"} => c.running
  /\ c.running /\ ~(at = "halt" /\ sent) => ~Has(q, "STOP") /\ (d.alive => d.capturing)
  /\ c.running /\ ~(at = "all" /\ sent) /\ at # "halt" => ~Has(q, "ALL")
  /\ at \in {"collect", "hush"} => ~c.running /\ ~Has(q, "START")

\* Where the call is with which the bridge visits a sensor.
Visited(s) == ui.op # "idle" /\ Head(ui.todo) = s
AtOf(s)    == IF Visited(s) /\ ui.at # "enter" THEN ui.at ELSE "rest"

Fits(d, l, o, c, at, half, sent) == Sound(d, l, o, c) /\ Placed(d, l, c, at, half, sent)

InStep(s) == Fits(daemon[s], link[s], orphans[s], client[s], AtOf(s), ui.half, ui.sent)

\* The bridge visits the sensors one after another; who runs has been started
\* and not yet been stopped.
In(q)       == {q[i] : i \in 1..Len(q)}
Distinct(q) == \A i, j \in 1..Len(q) : q[i] = q[j] => i = j
Running     == {s \in Sensor : client[s].running}

Flow ==
  /\ Distinct(ui.todo) /\ Distinct(ui.started)
  /\ ui.op # "idle" => ui.todo # <<>>
  /\ ui.op = "idle" => /\ ui = Resting
                       /\ bridge.state = "CAPTURING" => Running = Sensor
                       /\ bridge.state # "CAPTURING" => Running = {}
  /\ ui.op = "start" => /\ ui.at \in {"enter"} \cup Starting /\ bridge.state # "CAPTURING"
                        /\ In(ui.started) \cup In(ui.todo) = Sensor
                        /\ In(ui.started) \cap In(ui.todo) = {}
                        /\ Running = In(ui.started)
                        /\ ui.at = "enter" => ui.half = "adapter"
  /\ ui.op = "tick" => /\ ui.at \in {"enter"} \cup Ticking /\ bridge.state = "CAPTURING"
                       /\ Running = Sensor
  /\ ui.op \in {"stop", "rollback"} =>
       /\ ui.at \in {"enter"} \cup Stopping
       /\ ui.op = "stop" <=> bridge.state = "CAPTURING"
       /\ Running = In(ui.todo) \ (IF ui.at \in {"collect", "hush"} THEN {Head(ui.todo)} ELSE {})

CaptureInv == TypeOK /\ Flow /\ \A s \in Sensor : InStep(s)

-----------------------------------------------------------------------------
(* The queue of a connection.                                               *)

LEMMA NamesOf ==
  ASSUME NEW in \in Seq(Answer)
  PROVE  /\ Names(in) \in Seq(Request) /\ Len(Names(in)) = Len(in)
         /\ \A i \in 1..Len(in) : Names(in)[i] = in[i].to
         /\ Names(in) = <<>> <=> in = <<>>
         /\ in # <<>> => Names(Tail(in)) = Tail(Names(in))
<1>1. Len(in) \in Nat /\ \A i \in 1..Len(in) : in[i] \in Answer
  OBVIOUS
<1>2. \A i \in 1..Len(in) : in[i].to \in Request
  BY <1>1 DEF Answer
<1>3. Names(in) \in [1..Len(in) -> Request]
  BY <1>2 DEF Names
<1>4. Names(in) \in Seq(Request) /\ Len(Names(in)) = Len(in)
  BY <1>1, <1>3, SeqDef
<1>5. \A i \in 1..Len(in) : Names(in)[i] = in[i].to
  BY DEF Names
<1>6. Names(in) = <<>> <=> in = <<>>
  BY <1>4, EmptySeq
<1>7. ASSUME in # <<>> PROVE Names(Tail(in)) = Tail(Names(in))
  <2>1. Tail(in) \in Seq(Answer) /\ Len(Tail(in)) = Len(in) - 1
        /\ \A i \in 1..Len(Tail(in)) : Tail(in)[i] = in[i + 1]
    BY <1>7, HeadTailProperties
  <2>2. Tail(Names(in)) \in Seq(Request) /\ Len(Tail(Names(in))) = Len(in) - 1
        /\ \A i \in 1..Len(in) - 1 : Tail(Names(in))[i] = Names(in)[i + 1]
    BY <1>4, <1>6, <1>7, HeadTailProperties
  <2>3. \A i \in 1..Len(in) - 1 : i + 1 \in 1..Len(in)
    BY <1>1
  <2>4. \A i \in 1..Len(in) - 1 : Tail(Names(in))[i] = Tail(in)[i].to
    BY <2>1, <2>2, <2>3, <1>5
  <2>5. Names(Tail(in)) = [i \in 1..Len(in) - 1 |-> Tail(in)[i].to]
    BY <2>1 DEF Names
  <2>6. Tail(Names(in)) = [i \in 1..Len(in) - 1 |-> Tail(Names(in))[i]]
    BY <2>2, LenProperties
  <2>7. [i \in 1..Len(in) - 1 |-> Tail(in)[i].to] = [i \in 1..Len(in) - 1 |-> Tail(Names(in))[i]]
    BY <2>4, Zenon
  <2> QED BY <2>5, <2>6, <2>7
<1> QED BY <1>4, <1>5, <1>6, <1>7

Orphans == Seq(Seq(Request))

\* A queue of which some has been taken away holds nothing it did not hold,
\* in no other order.
Less(p, q) == /\ \A x : Has(p, x) => Has(q, x)
              /\ \A a, b : Behind(p, a, b) => Behind(q, a, b)

LEMMA LessTail ==
  ASSUME NEW q \in Seq(Request), q # <<>>
  PROVE  /\ Tail(q) \in Seq(Request) /\ Less(Tail(q), q)
         /\ \A x : Has(Tail(q), x) => Behind(q, Head(q), x)
<1>1. /\ Tail(q) \in Seq(Request) /\ Len(q) \in Nat \ {0} /\ Len(Tail(q)) = Len(q) - 1
      /\ \A i \in 1..Len(Tail(q)) : Tail(q)[i] = q[i + 1]
      /\ Head(q) = q[1]
  BY HeadTailProperties, EmptySeq
<1>2. \A i \in 1..Len(Tail(q)) : i + 1 \in 1..Len(q) /\ 1 \in 1..Len(q) /\ 1 < i + 1
  BY <1>1
<1>3. \A i, j \in 1..Len(Tail(q)) : i < j => i + 1 < j + 1
  BY <1>1
<1>4. \A x : Has(Tail(q), x) => Has(q, x)
  BY <1>1, <1>2 DEF Has
<1>5. \A a, b : Behind(Tail(q), a, b) => Behind(q, a, b)
  BY <1>1, <1>2, <1>3 DEF Behind
<1>6. \A x : Has(Tail(q), x) => Behind(q, Head(q), x)
  BY <1>1, <1>2 DEF Has, Behind
<1> QED BY <1>1, <1>4, <1>5, <1>6 DEF Less

LEMMA MoreAppend ==
  ASSUME NEW q \in Seq(Request), NEW r \in Request
  PROVE  /\ Append(q, r) \in Seq(Request)
         /\ \A x : Has(Append(q, r), x) => Has(q, x) \/ x = r
         /\ \A a, b : Behind(Append(q, r), a, b) => Behind(q, a, b) \/ (Has(q, a) /\ b = r)
<1>1. /\ Append(q, r) \in Seq(Request) /\ Len(q) \in Nat /\ Len(Append(q, r)) = Len(q) + 1
      /\ \A i \in 1..Len(q) : Append(q, r)[i] = q[i]
      /\ Append(q, r)[Len(q) + 1] = r
  OBVIOUS
<1>2. \A i \in 1..Len(Append(q, r)) : i \in 1..Len(q) \/ i = Len(q) + 1
  BY <1>1
<1>3. \A i, j \in 1..Len(Append(q, r)) : i < j => i \in 1..Len(q)
  BY <1>1
<1>4. \A x : Has(Append(q, r), x) => Has(q, x) \/ x = r
  BY <1>1, <1>2 DEF Has
<1>5. \A a, b : Behind(Append(q, r), a, b) => Behind(q, a, b) \/ (Has(q, a) /\ b = r)
  BY <1>1, <1>2, <1>3 DEF Has, Behind
<1> QED BY <1>1, <1>4, <1>5

LEMMA NothingInEmpty == \A x, y : ~Has(<<>>, x) /\ ~Behind(<<>>, x, y)
  BY DEF Has, Behind

LEMMA AskedType ==
  ASSUME NEW l \in Link
  PROVE  /\ l.toClient \in Seq(Answer) /\ l.toDaemon \in Seq(Request)
         /\ Names(l.toClient) \in Seq(Request) /\ Asked(l) \in Seq(Request)
         /\ Asked(l) = <<>> <=> l.toClient = <<>> /\ l.toDaemon = <<>>
<1>1. l.toClient \in Seq(Answer) /\ l.toDaemon \in Seq(Request)
  BY DEF Link
<1>2. Names(l.toClient) \in Seq(Request) /\ (Names(l.toClient) = <<>> <=> l.toClient = <<>>)
  BY <1>1, NamesOf
<1>3. Names(l.toClient) \o l.toDaemon \in Seq(Request)
      /\ Len(Names(l.toClient) \o l.toDaemon) = Len(Names(l.toClient)) + Len(l.toDaemon)
  BY <1>1, <1>2
<1>4. Len(Names(l.toClient)) \in Nat /\ Len(l.toDaemon) \in Nat
  BY <1>1, <1>2
<1>5. \A q \in Seq(Request) : q = <<>> <=> Len(q) = 0
  BY EmptySeq
<1>6. Names(l.toClient) \o l.toDaemon = <<>> <=> Names(l.toClient) = <<>> /\ l.toDaemon = <<>>
  BY <1>1, <1>2, <1>3, <1>4, <1>5
<1> QED BY <1>1, <1>2, <1>3, <1>6 DEF Asked

\* Sending appends.
LEMMA AskedSend ==
  ASSUME NEW l \in Link, NEW r \in Request
  PROVE  Asked([l EXCEPT !.toDaemon = Append(@, r)]) = Append(Asked(l), r)
<1>1. l.toDaemon \in Seq(Request) /\ Names(l.toClient) \in Seq(Request)
  BY AskedType
<1>2. /\ [l EXCEPT !.toDaemon = Append(@, r)].toDaemon = Append(l.toDaemon, r)
      /\ [l EXCEPT !.toDaemon = Append(@, r)].toClient = l.toClient
  BY DEF Link
<1>3. \A p, q \in Seq(Request) : p \o Append(q, r) = Append(p \o q, r)
  OBVIOUS
<1> QED BY <1>1, <1>2, <1>3 DEF Asked

\* Reading takes the first away, or nothing.
LEMMA AskedRead ==
  ASSUME NEW l \in Link, l.toClient # <<>>, NEW rest \in Seq(Answer),
         Names(rest) = Tail(Names(l.toClient))
  PROVE  /\ Asked([l EXCEPT !.toClient = rest]) = Tail(Asked(l))
         /\ Asked(l) # <<>> /\ Head(Asked(l)) = Head(l.toClient).to
<1>1. /\ l.toClient \in Seq(Answer) /\ l.toDaemon \in Seq(Request)
      /\ Names(l.toClient) \in Seq(Request) /\ Names(l.toClient) # <<>>
  BY AskedType, NamesOf
<1>2. /\ [l EXCEPT !.toClient = rest].toDaemon = l.toDaemon
      /\ [l EXCEPT !.toClient = rest].toClient = rest
  BY DEF Link
<1>3. \A p, q \in Seq(Request) : p # <<>> =>
        Tail(p \o q) = Tail(p) \o q /\ Head(p \o q) = Head(p) /\ p \o q # <<>>
  <2> SUFFICES ASSUME NEW p \in Seq(Request), NEW q \in Seq(Request), p # <<>>
               PROVE  Tail(p \o q) = Tail(p) \o q /\ Head(p \o q) = Head(p) /\ p \o q # <<>>
    OBVIOUS
  <2>1. Len(p) \in Nat \ {0} /\ Len(q) \in Nat
    BY EmptySeq
  <2>2. /\ p \o q \in Seq(Request) /\ Len(p \o q) = Len(p) + Len(q)
        /\ \A i \in 1..Len(p) + Len(q) :
             (p \o q)[i] = IF i <= Len(p) THEN p[i] ELSE q[i - Len(p)]
    BY <2>1
  <2>3. p \o q # <<>>
    BY <2>1, <2>2, EmptySeq
  <2>4. Tail(p \o q) \in Seq(Request) /\ Len(Tail(p \o q)) = Len(p) + Len(q) - 1
        /\ \A i \in 1..Len(Tail(p \o q)) : Tail(p \o q)[i] = (p \o q)[i + 1]
        /\ Head(p \o q) = (p \o q)[1]
    BY <2>2, <2>3, HeadTailProperties
  <2>5. Tail(p) \in Seq(Request) /\ Len(Tail(p)) = Len(p) - 1
        /\ \A i \in 1..Len(Tail(p)) : Tail(p)[i] = p[i + 1]
        /\ Head(p) = p[1]
    BY HeadTailProperties
  <2>6. Tail(p) \o q \in Seq(Request) /\ Len(Tail(p) \o q) = Len(p) - 1 + Len(q)
        /\ \A i \in 1..Len(p) - 1 + Len(q) :
             (Tail(p) \o q)[i] = IF i <= Len(p) - 1 THEN Tail(p)[i] ELSE q[i - (Len(p) - 1)]
    BY <2>1, <2>5
  <2>7. \A i \in 1..Len(p) + Len(q) - 1 : Tail(p \o q)[i] = (Tail(p) \o q)[i]
    BY <2>1, <2>2, <2>4, <2>5, <2>6
  <2>8. Head(p \o q) = Head(p)
    BY <2>1, <2>2, <2>4, <2>5
  <2> QED BY <2>1, <2>3, <2>4, <2>6, <2>7, <2>8, SeqEqual
<1>4. Head(Names(l.toClient)) = Head(l.toClient).to
  <2>1. Len(l.toClient) \in Nat \ {0} /\ Head(l.toClient) = l.toClient[1]
    BY <1>1, EmptySeq
  <2>2. Head(Names(l.toClient)) = Names(l.toClient)[1]
    BY <1>1
  <2>3. 1 \in 1..Len(l.toClient)
    BY <2>1
  <2>4. Names(l.toClient)[1] = l.toClient[1].to
    BY <1>1, <2>3, NamesOf
  <2> QED BY <2>1, <2>2, <2>4
<1>5. Asked([l EXCEPT !.toClient = rest]) = Tail(Names(l.toClient)) \o l.toDaemon
  BY <1>2 DEF Asked
<1>6. /\ Tail(Asked(l)) = Tail(Names(l.toClient)) \o l.toDaemon
      /\ Head(Asked(l)) = Head(Names(l.toClient)) /\ Asked(l) # <<>>
  BY <1>1, <1>3 DEF Asked
<1> QED BY <1>4, <1>5, <1>6

-----------------------------------------------------------------------------
(* The steps of the bridge, as one sensor sees them.                        *)

\* While the bridge is elsewhere it does not matter what it does.
LEMMA Elsewhere ==
  ASSUME NEW d, NEW l, NEW o, NEW c, NEW half, NEW sent, NEW half2, NEW sent2,
         Fits(d, l, o, c, "rest", half, sent)
  PROVE  Fits(d, l, o, c, "rest", half2, sent2)
BY DEF Fits, Placed, Pinging, Starting, Ticking, Stopping

LEMMA Entering ==
  ASSUME NEW d, NEW l, NEW o, NEW c, NEW half, NEW sent,
         Fits(d, l, o, c, "rest", half, sent)
  PROVE  /\ ~c.running /\ c.connected /\ l.state # "closed" =>
              Fits(d, l, o, c, "start", "adapter", FALSE)
         /\ ~c.running /\ ~(c.connected /\ l.state # "closed") =>
              Fits(d, l, o, c, "connect", "adapter", FALSE)
         /\ c.running => /\ Fits(d, l, o, c, "telemetry", half, FALSE)
                         /\ Fits(d, l, o, c, "all", half, FALSE)
BY NothingInEmpty DEF Fits, Placed, Sound, Pinging, Starting, Ticking, Stopping

LEMMA Collecting ==
  ASSUME NEW d, NEW l, NEW o, NEW c, NEW half, NEW sent,
         Fits(d, l, o, c, "collect", half, sent)
  PROVE  Fits(d, l, o, c, "hush", half, FALSE) /\ Fits(d, l, o, c, "rest", half, FALSE)
BY DEF Fits, Placed, Sound, Pinging, Starting, Ticking, Stopping

Opened(l) == IF l.state = "closed" THEN Fresh ELSE l

LEMMA NewLinks ==
  /\ Fresh \in Link /\ Fresh.state = "open"
  /\ Closed \in Link /\ Closed.state = "closed"
  /\ \A l \in {Fresh, Closed} : l.toDaemon = <<>> /\ l.toClient = <<>> /\ Asked(l) = <<>>
<1>1. <<>> \in Seq(Request) /\ <<>> \in Seq(Answer)
  OBVIOUS
<1>2. /\ Fresh \in Link /\ Fresh.state = "open" /\ Fresh.toDaemon = <<>> /\ Fresh.toClient = <<>>
      /\ Closed \in Link /\ Closed.state = "closed" /\ Closed.toDaemon = <<>> /\ Closed.toClient = <<>>
  BY <1>1 DEF Fresh, Closed, Link
<1>3. Asked(Fresh) = <<>> /\ Asked(Closed) = <<>>
  BY <1>2, AskedType
<1> QED BY <1>2, <1>3

LEMMA Connecting ==
  ASSUME NEW d, NEW l \in Link, NEW o, NEW c, NEW half, NEW sent,
         Fits(d, l, o, c, "connect", half, sent)
  PROVE  /\ Opened(l) \in Link
         /\ Fits(d, Opened(l), o, c, "ping", half, FALSE)
         /\ l.state = "closed" => Fits(d, l, o, c, "respawn", half, FALSE)
<1>1. Fresh \in Link /\ Asked(Fresh) = <<>> /\ Fresh.state = "open"
      /\ Fresh.toDaemon = <<>> /\ Fresh.toClient = <<>>
  BY NewLinks
<1>2. Opened(l) \in Link
  BY <1>1 DEF Opened
<1>3. Fits(d, Opened(l), o, c, "ping", half, FALSE)
  <2>1. CASE l.state = "closed"
    BY <1>1, <2>1, NothingInEmpty DEF Opened, Fits, Placed, Sound, Pinging, Starting, Ticking, Stopping
  <2>2. CASE l.state # "closed"
    BY <2>2 DEF Opened, Fits, Placed, Sound, Pinging, Starting, Ticking, Stopping
  <2> QED BY <2>1, <2>2
<1>4. l.state = "closed" => Fits(d, l, o, c, "respawn", half, FALSE)
  BY DEF Fits, Placed, Sound, Pinging, Starting, Ticking, Stopping
<1> QED BY <1>2, <1>3, <1>4

LEMMA Respawning ==
  ASSUME NEW d, NEW l \in Link, NEW o, NEW c, NEW half, NEW sent, NEW d2,
         Fits(d, l, o, c, "respawn", half, sent)
  PROVE  Opened(l) \in Link /\ Fits(d2, Opened(l), o, c, "reping", half, FALSE)
<1>1. Fresh \in Link /\ Asked(Fresh) = <<>> /\ Fresh.state = "open"
      /\ Fresh.toDaemon = <<>> /\ Fresh.toClient = <<>>
  BY NewLinks
<1>2. l.state = "closed"
  BY DEF Fits, Placed
<1> QED BY <1>1, <1>2, NothingInEmpty DEF Opened, Fits, Placed, Sound, Pinging, Starting, Ticking, Stopping

LEMMA Sending ==
  ASSUME NEW d, NEW l \in Link, NEW o, NEW c, NEW half \in {"adapter", "backend"},
         NEW at \in DOMAIN RequestAt,
         Fits(d, l, o, c, at, half, FALSE)
  PROVE  /\ Fits(d, l, o, c, at, half, TRUE)
         /\ l.state = "open" =>
              LET l2 == [l EXCEPT !.toDaemon = Append(@, RequestAt[at])]
              IN  l2 \in Link /\ Fits(d, l2, o, c, at, half, TRUE)
<1>1. at \in {"ping", "reping", "start", "telemetry", "trajectory", "new", "all", "halt", "hush"}
  BY DEF RequestAt
<1>2. Fits(d, l, o, c, at, half, TRUE)
  BY <1>1 DEF Fits, Placed, Sound, Pinging, Starting, Ticking, Stopping
<1>3. ASSUME l.state = "open"
      PROVE  LET l2 == [l EXCEPT !.toDaemon = Append(@, RequestAt[at])]
             IN  l2 \in Link /\ Fits(d, l2, o, c, at, half, TRUE)
  <2> DEFINE r == RequestAt[at]
             l2 == [l EXCEPT !.toDaemon = Append(@, r)]
             q == Asked(l)
             q2 == Append(q, r)
  <2>1. /\ r \in Request
        /\ at \in Pinging <=> r = "PING"
        /\ at = "start" <=> r = "START"
        /\ at \in {"halt", "hush"} <=> r = "STOP"
        /\ at = "new" <=> r = "NEW"
        /\ at = "all" <=> r = "ALL"
    BY <1>1 DEF RequestAt, Request, Pinging
  <2>2. /\ l2 \in Link /\ l2.state = "open" /\ l2.toClient = l.toClient
        /\ Asked(l2) = q2 /\ q \in Seq(Request)
    <3>1. l.toDaemon \in Seq(Request) /\ Append(l.toDaemon, r) \in Seq(Request) /\ q \in Seq(Request)
      BY <2>1, AskedType
    <3>2. l2 \in Link
      BY <3>1 DEF Link
    <3>3. l2.state = "open" /\ l2.toClient = l.toClient
      BY <1>3 DEF Link
    <3>4. Asked(l2) = q2
      BY <2>1, AskedSend
    <3> QED BY <3>1, <3>2, <3>3, <3>4
  <2>3. /\ \A x : Has(q2, x) => Has(q, x) \/ x = r
        /\ \A a, b : Behind(q2, a, b) => Behind(q, a, b) \/ (Has(q, a) /\ b = r)
    BY <2>1, <2>2, MoreAppend
  <2>4. q = <<>> /\ r = "START" => q2 = <<"START">>
    OBVIOUS
  <2>5. Sound(d, l, o, c) /\ Placed(d, l, c, at, half, FALSE)
    BY DEF Fits
  <2> HIDE DEF l2, q2, r
  <2>6. Sound(d, l2, o, c)
    BY <1>1, <1>3, <2>1, <2>2, <2>3, <2>5
    DEF Sound, Placed, Pinging, Starting, Ticking, Stopping
  <2>7. Placed(d, l2, c, at, half, TRUE)
    BY <1>1, <1>3, <2>1, <2>2, <2>3, <2>4, <2>5
    DEF Sound, Placed, Pinging, Starting, Ticking, Stopping
  <2> QED BY <2>2, <2>6, <2>7 DEF Fits, l2, r
<1> QED BY <1>2, <1>3

-----------------------------------------------------------------------------
(* What a reading leaves: the first k answers are gone, and of the others   *)
(* one at most has been torn.                                               *)

Left(rest, in, k) ==
  /\ Len(rest) = Len(in) - k
  /\ \A i \in 1..Len(rest) : /\ rest[i].to = in[i + k].to
                             /\ rest[i].torn \/ rest[i] = in[i + k]

LEMMA TailLeaves ==
  ASSUME NEW in \in Seq(Answer), in # <<>>
  PROVE  Tail(in) \in Seq(Answer) /\ Left(Tail(in), in, 1)
<1>1. /\ Tail(in) \in Seq(Answer) /\ Len(Tail(in)) = Len(in) - 1
      /\ \A i \in 1..Len(Tail(in)) : Tail(in)[i] = in[i + 1]
  BY HeadTailProperties
<1> QED BY <1>1 DEF Left

LEMMA TearLeaves ==
  ASSUME NEW in \in Seq(Answer)
  PROVE  Tear(in) \in Seq(Answer) /\ Left(Tear(in), in, 0)
<1>0. Len(in) \in Nat /\ \A i \in 1..Len(in) : in[i] = in[i + 0]
  OBVIOUS
<1>1. CASE in = <<>>
  BY <1>0, <1>1 DEF Tear, Left
<1>2. CASE in # <<>>
  <2> DEFINE a == [Head(in) EXCEPT !.torn = TRUE]
  <2>1. /\ Tail(in) \in Seq(Answer) /\ Len(Tail(in)) = Len(in) - 1
        /\ \A i \in 1..Len(Tail(in)) : Tail(in)[i] = in[i + 1]
        /\ Head(in) = in[1] /\ Head(in) \in Answer /\ Len(in) \in Nat \ {0}
    BY <1>2, HeadTailProperties, EmptySeq
  <2>2. a \in Answer /\ a.to = in[1].to /\ a.torn
    BY <2>1 DEF Answer
  <2> HIDE DEF a
  <2>3. <<a>> \in Seq(Answer) /\ Len(<<a>>) = 1 /\ <<a>>[1] = a
    BY <2>2
  <2>4. /\ <<a>> \o Tail(in) \in Seq(Answer)
        /\ Len(<<a>> \o Tail(in)) = 1 + (Len(in) - 1)
        /\ \A i \in 1..1 + (Len(in) - 1) : (<<a>> \o Tail(in))[i] = IF i <= 1 THEN <<a>>[i] ELSE Tail(in)[i - 1]
    BY <2>1, <2>3, ConcatProperties
  <2>5. \A i \in 2..Len(in) : (<<a>> \o Tail(in))[i] = in[i]
    <3> SUFFICES ASSUME NEW i \in 2..Len(in) PROVE (<<a>> \o Tail(in))[i] = in[i]
      OBVIOUS
    <3>1. i - 1 \in 1..Len(Tail(in)) /\ i \in 1..1 + (Len(in) - 1) /\ ~(i <= 1) /\ (i - 1) + 1 = i
      BY <2>1
    <3> QED BY <2>1, <2>4, <3>1
  <2>6. (<<a>> \o Tail(in))[1] = a
    BY <2>1, <2>3, <2>4
  <2>7. Tear(in) = <<a>> \o Tail(in)
    BY <1>2 DEF Tear, a
  <2>8. Len(Tear(in)) = Len(in)
    BY <2>1, <2>4, <2>7
  <2>9. \A i \in 1..Len(in) : Tear(in)[i].to = in[i].to /\ (Tear(in)[i].torn \/ Tear(in)[i] = in[i])
    BY <2>1, <2>2, <2>5, <2>6, <2>7
  <2>10. \A i \in 1..Len(in) : i + 0 = i
    BY <1>0
  <2> QED BY <1>0, <2>4, <2>7, <2>8, <2>9, <2>10 DEF Left
<1> QED BY <1>1, <1>2

LEMMA TearTailLeaves ==
  ASSUME NEW in \in Seq(Answer), in # <<>>
  PROVE  Tear(Tail(in)) \in Seq(Answer) /\ Left(Tear(Tail(in)), in, 1)
<1>1. Tail(in) \in Seq(Answer) /\ Left(Tail(in), in, 1)
  BY TailLeaves
<1>2. Tear(Tail(in)) \in Seq(Answer) /\ Left(Tear(Tail(in)), Tail(in), 0)
  BY <1>1, TearLeaves
<1>3. \A i \in 1..Len(Tear(Tail(in))) : i + 0 = i
  BY <1>2
<1>4. Len(Tail(in)) - 0 = Len(Tail(in))
  BY <1>1
<1> QED BY <1>1, <1>2, <1>3, <1>4 DEF Left

\* Who gets its answer got the one at the head of the connection, whole.
LEMMA ReadingLeaves ==
  ASSUME NEW request \in Request, NEW in \in Seq(Answer), in # <<>>, NEW dirty \in BOOLEAN,
         NEW r \in Readings(request, in, dirty)
  PROVE  /\ r.rest \in Seq(Answer) /\ r.pts \in SUBSET Point
         /\ Left(r.rest, in, 0) \/ Left(r.rest, in, 1)
         /\ r.verdict = "ok" => /\ Head(in).to = request /\ ~Head(in).torn
                                /\ r.pts = Head(in).pts /\ r.rest = Tail(in)
<1> DEFINE Lefts == {in, Tail(in), Tear(in), Tear(Tail(in))}
           Bad == \E v \in {"more", "bad"}, rest \in Lefts : r = Reading(v, {}, rest)
           Good == r = Reading("ok", Head(in).pts, Tail(in)) /\ Head(in).to = request /\ ~Head(in).torn
<1>1. Head(in).pts \in SUBSET Point
  <2>1. Head(in) \in Answer
    BY HeadTailProperties
  <2> QED BY <2>1 DEF Answer
<1>2. Bad \/ Good
  <2>1. CASE r \in ReadBlock(request, in)
    <3>1. CASE Head(in).to \notin Binary
      BY <2>1, <3>1 DEF ReadBlock
    <3>2. CASE Head(in).to \in Binary /\ Head(in).torn
      BY <2>1, <3>2 DEF ReadBlock
    <3>3. CASE Head(in).to \in Binary /\ ~Head(in).torn /\ Head(in).to = request
      BY <2>1, <3>3 DEF ReadBlock
    <3>4. CASE Head(in).to \in Binary /\ ~Head(in).torn /\ Head(in).to # request
      <4>1. r = Reading("bad", {}, IF Head(in).pts = {} THEN Tail(in) ELSE Tear(in))
        BY <2>1, <3>4 DEF ReadBlock
      <4> QED BY <4>1
    <3> QED BY <3>1, <3>2, <3>3, <3>4
  <2>2. CASE r \in ReadLine(request, in, dirty)
    <3>1. CASE Head(in).to \in Binary
      BY <2>2, <3>1 DEF ReadLine
    <3>2. CASE Head(in).to \notin Binary /\ TooLong(Head(in))
      <4>1. \E rest \in {Tear(in), Tail(in)} : r = Reading("bad", {}, rest)
        BY <2>2, <3>2 DEF ReadLine
      <4> QED BY <4>1
    <3>3. CASE Head(in).to \notin Binary /\ ~TooLong(Head(in))
      BY <2>2, <3>3 DEF ReadLine
    <3> QED BY <3>1, <3>2, <3>3
  <2> QED BY <2>1, <2>2 DEF Readings
<1>3. Lefts \subseteq Seq(Answer) /\ \A rest \in Lefts : Left(rest, in, 0) \/ Left(rest, in, 1)
  <2>1. Left(in, in, 0)
    BY DEF Left
  <2> QED BY <2>1, TailLeaves, TearLeaves, TearTailLeaves
<1>4. CASE Bad
  <2>1. PICK v \in {"more", "bad"}, rest \in Lefts : r = Reading(v, {}, rest)
    BY <1>4
  <2>2. r.verdict = v /\ r.pts = {} /\ r.rest = rest
    BY <2>1 DEF Reading
  <2> HIDE DEF Lefts
  <2> QED BY <1>3, <2>2
<1>5. CASE Good
  <2>1. r.verdict = "ok" /\ r.pts = Head(in).pts /\ r.rest = Tail(in)
    BY <1>5 DEF Reading
  <2> QED BY <1>1, <1>5, <2>1, TailLeaves
<1> QED BY <1>2, <1>4, <1>5

\* The names of what is left.
LEMMA LeftNames ==
  ASSUME NEW in \in Seq(Answer), in # <<>>, NEW rest \in Seq(Answer)
  PROVE  /\ Left(rest, in, 0) => Names(rest) = Names(in)
         /\ Left(rest, in, 1) => Names(rest) = Tail(Names(in))
<1>1. /\ Names(rest) \in Seq(Request) /\ Len(Names(rest)) = Len(rest)
      /\ \A i \in 1..Len(rest) : Names(rest)[i] = rest[i].to
  BY NamesOf
<1>2. /\ Names(in) \in Seq(Request) /\ Len(Names(in)) = Len(in) /\ Len(in) \in Nat \ {0}
      /\ \A i \in 1..Len(in) : Names(in)[i] = in[i].to
  BY NamesOf, EmptySeq
<1>3. ASSUME Left(rest, in, 0) PROVE Names(rest) = Names(in)
  <2>1. Len(rest) = Len(in) /\ \A i \in 1..Len(rest) : i + 0 = i
    BY <1>2, <1>3 DEF Left
  <2>2. \A i \in 1..Len(rest) : rest[i].to = in[i].to
    BY <1>3, <2>1 DEF Left
  <2> QED BY <1>1, <1>2, <2>1, <2>2, SeqEqual
<1>4. ASSUME Left(rest, in, 1) PROVE Names(rest) = Tail(Names(in))
  <2>1. /\ Tail(Names(in)) \in Seq(Request) /\ Len(Tail(Names(in))) = Len(in) - 1
        /\ \A i \in 1..Len(in) - 1 : Tail(Names(in))[i] = Names(in)[i + 1]
    BY <1>2, NamesOf, HeadTailProperties
  <2>2. Len(rest) = Len(in) - 1 /\ \A i \in 1..Len(in) - 1 : rest[i].to = in[i + 1].to
    BY <1>4 DEF Left
  <2>3. \A i \in 1..Len(in) - 1 : i + 1 \in 1..Len(in)
    BY <1>2
  <2>4. \A i \in 1..Len(in) - 1 : Names(rest)[i] = Tail(Names(in))[i]
    BY <1>1, <1>2, <2>1, <2>2, <2>3
  <2> QED BY <1>1, <2>1, <2>2, <2>4, SeqEqual
<1> QED BY <1>3, <1>4

-----------------------------------------------------------------------------
(* What an answer, or its not coming, makes of a sensor.                    *)

LEMMA AnswerTaken ==
  ASSUME NEW d, NEW l \in Link, NEW o, NEW c, NEW at, NEW half, NEW sent,
         Fits(d, l, o, c, at, half, sent),
         l.toClient # <<>>, NEW rest \in Seq(Answer),
         Left(rest, l.toClient, 0) \/ Left(rest, l.toClient, 1)
  PROVE  LET l2 == [l EXCEPT !.toClient = rest]
         IN  l2 \in Link /\ Fits(d, l2, o, c, at, half, sent)
<1> DEFINE l2 == [l EXCEPT !.toClient = rest]
           q == Asked(l)
<1>1. l.toClient \in Seq(Answer) /\ l.toDaemon \in Seq(Request) /\ q \in Seq(Request) /\ q # <<>>
  BY AskedType
<1>2. l2 \in Link /\ l2.state = l.state /\ l2.toDaemon = l.toDaemon /\ l2.toClient = rest
  BY DEF Link
<1> HIDE DEF l2
<1>3. Asked(l2) \in {q, Tail(q)}
  <2>1. CASE Left(rest, l.toClient, 0)
    <3>1. Names(rest) = Names(l.toClient)
      BY <1>1, <2>1, LeftNames
    <3> QED BY <1>2, <3>1 DEF Asked
  <2>2. CASE Left(rest, l.toClient, 1)
    <3>1. Names(rest) = Tail(Names(l.toClient))
      BY <1>1, <2>2, LeftNames
    <3> QED BY <3>1, AskedRead DEF l2
  <2> QED BY <2>1, <2>2
<1>4. Less(Asked(l2), q)
  <2>1. Less(q, q)
    BY DEF Less
  <2> QED BY <1>1, <1>3, <2>1, LessTail
<1>5. q = <<"START">> => Tail(q) = <<>>
  OBVIOUS
<1>6. Sound(d, l, o, c) /\ Placed(d, l, c, at, half, sent)
  BY DEF Fits
<1>7. l.state # "closed"
  BY <1>1, <1>6 DEF Sound
<1> HIDE DEF q
<1>8. Sound(d, l2, o, c)
  BY <1>2, <1>4, <1>6, <1>7 DEF Sound, Less, q
<1>9. q = <<"START">> => Asked(l2) \in {<<>>, <<"START">>}
  BY <1>3, <1>5
<1>10. Placed(d, l2, c, at, half, sent)
  BY <1>1, <1>2, <1>4, <1>6, <1>7, <1>9 DEF Placed, Less, Pinging, Starting, Ticking, Stopping, q
<1> QED BY <1>2, <1>8, <1>10 DEF Fits, l2

\* A PING that is answered has nothing behind it.
LEMMA Pinged ==
  ASSUME NEW d, NEW l \in Link, NEW o, NEW c, NEW at \in Pinging, NEW half, NEW c2,
         Fits(d, l, o, c, at, half, TRUE),
         l.toClient # <<>>, Head(l.toClient).to = "PING",
         c2.running = c.running, c2.connected \/ (c2 = c /\ half = "backend")
  PROVE  LET l2 == [l EXCEPT !.toClient = Tail(l.toClient)]
         IN  l2 \in Link /\ Fits(d, l2, o, c2, "start", half, FALSE)
<1> DEFINE l2 == [l EXCEPT !.toClient = Tail(l.toClient)]
           q == Asked(l)
<1>1. /\ l.toClient \in Seq(Answer) /\ Tail(l.toClient) \in Seq(Answer)
      /\ Left(Tail(l.toClient), l.toClient, 1)
  BY AskedType, TailLeaves
<1>2. /\ l2 \in Link /\ l2.state = l.state /\ l2.toDaemon = l.toDaemon
  BY <1>1 DEF Link
<1>3. /\ Names(Tail(l.toClient)) = Tail(Names(l.toClient)) /\ q \in Seq(Request)
  BY <1>1, LeftNames, AskedType
<1>4. Asked(l2) = Tail(q) /\ Head(q) = "PING" /\ q # <<>>
  BY <1>1, <1>3, AskedRead
<1>5. Sound(d, l, o, c) /\ Placed(d, l, c, at, half, TRUE)
  BY DEF Fits
<1> HIDE DEF l2
<1>6. Asked(l2) = <<>>
  <2>1. Asked(l2) \in Seq(Request) /\ \A x : Has(Asked(l2), x) => Behind(q, "PING", x)
    BY <1>3, <1>4, LessTail
  <2>2. \A r \in Request : ~Has(Asked(l2), r)
    BY <1>5, <2>1 DEF Sound
  <2>3. ASSUME Asked(l2) # <<>> PROVE FALSE
    <3>1. 1 \in 1..Len(Asked(l2)) /\ Asked(l2)[1] \in Request
      BY <2>1, <2>3, EmptySeq
    <3> QED BY <2>2, <3>1 DEF Has
  <2> QED BY <2>3
<1>7. l2.toClient = <<>> /\ l2.toDaemon = <<>>
  BY <1>2, <1>6, AskedType
<1>8. Sound(d, l2, o, c2)
  BY <1>2, <1>5, <1>6, <1>7, NothingInEmpty DEF Sound, Placed, Starting, Pinging
<1>9. Placed(d, l2, c2, "start", half, FALSE)
  BY <1>2, <1>5, <1>6, <1>7, NothingInEmpty DEF Placed, Pinging, Starting, Ticking, Stopping
<1> QED BY <1>2, <1>8, <1>9 DEF Fits, l2

\* A connection that is closed leaves behind what the daemon had not read.
Abandoned(l, o) == IF l.toDaemon = <<>> THEN o ELSE Append(o, l.toDaemon)

LEMMA PingLost ==
  ASSUME NEW d, NEW l \in Link, NEW o \in Orphans, NEW c, NEW at \in Pinging, NEW half,
         NEW half2, NEW sent2,
         Fits(d, l, o, c, at, half, TRUE)
  PROVE  /\ Abandoned(l, o) \in Orphans
         /\ Fits(d, Closed, Abandoned(l, o), c, "respawn", half, FALSE)
         /\ Fits(d, Closed, Abandoned(l, o), c, "rest", half2, sent2)
<1> DEFINE o2 == Abandoned(l, o)
<1>0. o2 = IF l.toDaemon = <<>> THEN o ELSE Append(o, l.toDaemon)
  BY DEF Abandoned
<1> HIDE DEF o2
<1>1. l.toDaemon \in Seq(Request) /\ Names(l.toClient) \in Seq(Request)
  BY AskedType
<1>2. Sound(d, l, o, c) /\ Placed(d, l, c, at, half, TRUE)
  BY DEF Fits
<1>3. ~Has(l.toDaemon, "STOP")
  <2>1. ~Has(Asked(l), "STOP")
    BY <1>2 DEF Placed, Starting, Pinging
  <2>2. ASSUME NEW i \in 1..Len(l.toDaemon)
        PROVE  /\ Len(Names(l.toClient)) + i \in 1..Len(Asked(l))
               /\ Asked(l)[Len(Names(l.toClient)) + i] = l.toDaemon[i]
    <3> DEFINE p == Names(l.toClient)
    <3>0. p \in Seq(Request) /\ l.toDaemon \in Seq(Request)
      BY <1>1
    <3> HIDE DEF p
    <3>1. /\ Len(p \o l.toDaemon) = Len(p) + Len(l.toDaemon)
          /\ \A j \in 1..Len(p) + Len(l.toDaemon) :
               (p \o l.toDaemon)[j] = IF j <= Len(p) THEN p[j] ELSE l.toDaemon[j - Len(p)]
          /\ Len(p) \in Nat /\ Len(l.toDaemon) \in Nat
      BY <3>0, ConcatProperties
    <3>2. /\ Len(p) + i \in 1..Len(p) + Len(l.toDaemon) /\ ~(Len(p) + i <= Len(p))
          /\ (Len(p) + i) - Len(p) = i
      BY <2>2, <3>1
    <3> QED BY <3>1, <3>2 DEF Asked, p
  <2> QED BY <2>1, <2>2 DEF Has
<1>4. /\ o2 \in Orphans
      /\ \A i \in 1..Len(o2) : o2[i] # <<>> /\ ~Has(o2[i], "STOP")
  <2>1. \A i \in 1..Len(o) : o[i] # <<>> /\ ~Has(o[i], "STOP")
    BY <1>2 DEF Sound
  <2>2. CASE l.toDaemon = <<>>
    BY <1>0, <2>1, <2>2
  <2>3. CASE l.toDaemon # <<>>
    <3>1. /\ o2 \in Orphans /\ Len(o2) = Len(o) + 1 /\ Len(o) \in Nat
          /\ \A i \in 1..Len(o) : o2[i] = o[i]
          /\ o2[Len(o) + 1] = l.toDaemon
      <4>1. o2 = Append(o, l.toDaemon)
        BY <1>0, <2>3
      <4> DEFINE T == Seq(Request)
      <4>2. o \in Seq(T) /\ l.toDaemon \in T
        BY <1>1 DEF Orphans
      <4> HIDE DEF T
      <4>3. /\ Append(o, l.toDaemon) \in Seq(T) /\ Len(Append(o, l.toDaemon)) = Len(o) + 1 /\ Len(o) \in Nat
            /\ \A i \in 1..Len(o) : Append(o, l.toDaemon)[i] = o[i]
            /\ Append(o, l.toDaemon)[Len(o) + 1] = l.toDaemon
        BY <4>2
      <4> QED BY <4>1, <4>3 DEF T, Orphans
    <3>2. \A i \in 1..Len(o2) : i \in 1..Len(o) \/ i = Len(o) + 1
      BY <3>1
    <3> QED BY <1>3, <2>1, <2>3, <3>1, <3>2
  <2> QED BY <2>2, <2>3
<1>5. Sound(d, Closed, o2, c)
  BY <1>2, <1>4, NewLinks, NothingInEmpty DEF Sound, Placed, Starting, Pinging
<1>6. Placed(d, Closed, c, "respawn", half, FALSE) /\ Placed(d, Closed, c, "rest", half2, sent2)
  BY <1>2, NewLinks, NothingInEmpty DEF Placed, Pinging, Starting, Ticking, Stopping
<1> QED BY <1>4, <1>5, <1>6 DEF Fits, o2

\* The START that was answered is the one sent, or no STOP is behind it.
LEMMA Started ==
  ASSUME NEW d, NEW l \in Link, NEW o, NEW c, NEW half, NEW c2, NEW half2, NEW sent2,
         Fits(d, l, o, c, "start", half, TRUE),
         l.toClient # <<>>, Head(l.toClient).to = "START", c2.connected = c.connected
  PROVE  LET l2 == [l EXCEPT !.toClient = Tail(l.toClient)]
         IN  /\ l2 \in Link
             /\ c2.running = c.running => Fits(d, l2, o, c2, "connect", "backend", FALSE)
             /\ half = "backend" /\ c2.running => Fits(d, l2, o, c2, "rest", half2, sent2)
<1> DEFINE l2 == [l EXCEPT !.toClient = Tail(l.toClient)]
           q == Asked(l)
<1>1. /\ l.toClient \in Seq(Answer) /\ Tail(l.toClient) \in Seq(Answer)
      /\ Left(Tail(l.toClient), l.toClient, 1)
  BY AskedType, TailLeaves
<1>2. /\ Names(Tail(l.toClient)) = Tail(Names(l.toClient)) /\ q \in Seq(Request)
  BY <1>1, LeftNames, AskedType
<1>3. Asked(l2) = Tail(q) /\ Head(q) = "START" /\ q # <<>>
  BY <1>1, <1>2, AskedRead
<1>4. l2 \in Link /\ Fits(d, l2, o, c, "start", half, TRUE)
  BY <1>1, AnswerTaken
<1>5. l2.state = l.state
  BY DEF Link
<1>6. Sound(d, l2, o, c) /\ Placed(d, l2, c, "start", half, TRUE) /\ Sound(d, l, o, c)
      /\ Placed(d, l, c, "start", half, TRUE)
  BY <1>4 DEF Fits
<1>7. ~Has(Asked(l2), "STOP")
  <2>1. Has(Asked(l2), "STOP") => Behind(q, "START", "STOP")
    BY <1>2, <1>3, LessTail
  <2> QED BY <1>6, <2>1 DEF Sound
<1> HIDE DEF l2
<1>8. ASSUME c2.running = c.running PROVE Fits(d, l2, o, c2, "connect", "backend", FALSE)
  <2>1. Sound(d, l2, o, c2)
    BY <1>6, <1>8 DEF Sound, Placed, Starting, Pinging
  <2>2. Placed(d, l2, c2, "connect", "backend", FALSE)
    BY <1>6, <1>7, <1>8 DEF Placed, Pinging, Starting, Ticking, Stopping
  <2> QED BY <2>1, <2>2 DEF Fits
<1>9. ASSUME half = "backend", c2.running PROVE Fits(d, l2, o, c2, "rest", half2, sent2)
  <2>1. q = <<"START">>
    BY <1>3, <1>6, <1>9 DEF Placed
  <2>2. Asked(l2) = <<>>
    BY <1>3, <2>1
  <2>3. d.alive => d.capturing
    BY <1>6, <1>9 DEF Placed
  <2>4. Sound(d, l2, o, c2)
    BY <1>6, <1>9, <2>2, NothingInEmpty DEF Sound, Placed, Starting, Pinging
  <2>5. Placed(d, l2, c2, "rest", half2, sent2)
    BY <1>6, <1>9, <2>2, <2>3, NothingInEmpty DEF Placed, Pinging, Starting, Ticking, Stopping
  <2> QED BY <2>4, <2>5 DEF Fits
<1> QED BY <1>4, <1>8, <1>9 DEF l2

LEMMA StartFailed ==
  ASSUME NEW d, NEW l, NEW o, NEW c, NEW half, NEW half2, NEW sent2,
         Fits(d, l, o, c, "start", half, TRUE)
  PROVE  Fits(d, l, o, c, "rest", half2, sent2)
BY DEF Fits, Placed, Sound, Pinging, Starting, Ticking, Stopping

LEMMA Ticked ==
  ASSUME NEW d, NEW l, NEW o, NEW c, NEW at \in Ticking, NEW half, NEW c2, NEW half2, NEW sent2,
         Fits(d, l, o, c, at, half, TRUE),
         c2.running = c.running, c2.connected = c.connected
  PROVE  /\ \A at2 \in Ticking : Fits(d, l, o, c2, at2, half, FALSE)
         /\ Fits(d, l, o, c2, "rest", half2, sent2)
BY DEF Fits, Placed, Sound, Pinging, Starting, Ticking, Stopping

LEMMA Ended ==
  ASSUME NEW d, NEW l, NEW o, NEW c, NEW half, NEW c2, NEW half2, NEW sent2,
         c2.connected = c.connected
  PROVE  /\ Fits(d, l, o, c, "all", half, TRUE) /\ c2.running = c.running =>
              Fits(d, l, o, c2, "halt", half, FALSE)
         /\ Fits(d, l, o, c, "halt", half, TRUE) /\ ~c2.running =>
              Fits(d, l, o, c2, "collect", half, FALSE)
         /\ Fits(d, l, o, c, "hush", half, TRUE) /\ c2.running = c.running =>
              Fits(d, l, o, c2, "rest", half2, sent2)
<1>1. Fits(d, l, o, c, "all", half, TRUE) /\ c2.running = c.running =>
        Fits(d, l, o, c2, "halt", half, FALSE)
  BY DEF Fits, Placed, Sound, Pinging, Starting, Ticking, Stopping
<1>2. Fits(d, l, o, c, "halt", half, TRUE) /\ ~c2.running =>
        Fits(d, l, o, c2, "collect", half, FALSE)
  BY DEF Fits, Placed, Sound, Pinging, Starting, Ticking, Stopping
<1>3. Fits(d, l, o, c, "hush", half, TRUE) /\ c2.running = c.running =>
        Fits(d, l, o, c2, "rest", half2, sent2)
  BY DEF Fits, Placed, Sound, Pinging, Starting, Ticking, Stopping
<1> QED BY <1>1, <1>2, <1>3

-----------------------------------------------------------------------------
(* The steps of a daemon.                                                   *)

\* What a request does to a daemon: only a STOP ends a recording.
LEMMA Served ==
  ASSUME NEW d \in Daemon, NEW r \in Request
  PROVE  /\ Serve(d, r) \in Daemon /\ Serve(d, r).alive = d.alive
         /\ Serve(d, r).flight = d.flight
         /\ r = "START" => Serve(d, r).capturing
         /\ r \notin {"START", "STOP"} => Serve(d, r).capturing = d.capturing
         /\ r # "STOP" /\ d.capturing => Serve(d, r).capturing
         /\ AnswerTo(d, r) \in Answer /\ AnswerTo(d, r).to = r
         /\ ~AnswerTo(d, r).torn /\ AnswerTo(d, r).pts = Carried(d, r)
<1>1. CASE r = "START"
  BY <1>1 DEF Serve, StartAcquisition, Daemon, AnswerTo, Carried, Answer
<1>2. CASE r = "STOP"
  BY <1>2 DEF Serve, Daemon, AnswerTo, Carried, Answer
<1>3. CASE r = "NEW"
  BY <1>3 DEF Serve, Daemon, AnswerTo, Carried, Answer
<1>4. CASE r \notin {"START", "STOP", "NEW"}
  <2>1. Serve(d, r) = d
    BY <1>4 DEF Serve
  <2>2. Carried(d, r) \in SUBSET Point
    BY <1>4 DEF Carried, Daemon
  <2> QED BY <1>4, <2>1, <2>2 DEF AnswerTo, Answer
<1> QED BY <1>1, <1>2, <1>3, <1>4

\* Answering moves a request from one side of the queue to the other.
LEMMA AskedServed ==
  ASSUME NEW l \in Link, l.toDaemon # <<>>, NEW a \in Answer, a.to = Head(l.toDaemon)
  PROVE  LET l2 == [l EXCEPT !.toDaemon = Tail(@), !.toClient = Append(@, a)]
         IN  /\ l2 \in Link /\ l2.state = l.state
             /\ l2.toDaemon = Tail(l.toDaemon) /\ l2.toClient = Append(l.toClient, a)
             /\ Asked(l2) = Asked(l)
<1> DEFINE l2 == [l EXCEPT !.toDaemon = Tail(@), !.toClient = Append(@, a)]
           p == Names(l.toClient)
           q == l.toDaemon
<1>1. l.toClient \in Seq(Answer) /\ q \in Seq(Request) /\ p \in Seq(Request)
      /\ Len(p) = Len(l.toClient) /\ \A i \in 1..Len(p) : p[i] = l.toClient[i].to
  BY AskedType, NamesOf
<1>2. /\ Tail(q) \in Seq(Request) /\ Len(Tail(q)) = Len(q) - 1 /\ Len(q) \in Nat \ {0}
      /\ \A i \in 1..Len(Tail(q)) : Tail(q)[i] = q[i + 1]
      /\ Head(q) = q[1] /\ Head(q) \in Request
  BY <1>1, HeadTailProperties, EmptySeq
<1> HIDE DEF p, q
<1>3. /\ Append(l.toClient, a) \in Seq(Answer) /\ Len(Append(l.toClient, a)) = Len(p) + 1 /\ Len(p) \in Nat
      /\ \A i \in 1..Len(p) : Append(l.toClient, a)[i] = l.toClient[i]
      /\ Append(l.toClient, a)[Len(p) + 1] = a
  BY <1>1, AppendProperties
<1>4. /\ l2 \in Link /\ l2.state = l.state
      /\ l2.toDaemon = Tail(q) /\ l2.toClient = Append(l.toClient, a)
  BY <1>2, <1>3 DEF Link, q
<1>0. p \in Seq(Request) /\ q \in Seq(Request) /\ Len(p) \in Nat /\ Len(q) \in Nat \ {0}
  BY <1>1, <1>2, <1>3
<1> DEFINE p2 == Names(Append(l.toClient, a))
<1>5. /\ p2 \in Seq(Request) /\ Len(p2) = Len(p) + 1
      /\ \A i \in 1..Len(p) + 1 : p2[i] = Append(l.toClient, a)[i].to
  BY <1>3, NamesOf
<1> HIDE DEF l2, p2
<1>6. \A i \in 1..Len(p) + 1 : p2[i] = IF i <= Len(p) THEN p[i] ELSE q[1]
  BY <1>1, <1>2, <1>3, <1>5 DEF q
<1>7. /\ p2 \o Tail(q) \in Seq(Request) /\ Len(p2 \o Tail(q)) = Len(p) + 1 + (Len(q) - 1)
      /\ \A i \in 1..Len(p) + 1 + (Len(q) - 1) :
           (p2 \o Tail(q))[i] = IF i <= Len(p) + 1 THEN p2[i] ELSE Tail(q)[i - (Len(p) + 1)]
  <2>1. p2 \in Seq(Request) /\ Tail(q) \in Seq(Request)
        /\ Len(p2) = Len(p) + 1 /\ Len(Tail(q)) = Len(q) - 1
    BY <1>2, <1>5
  <2> DEFINE t == Tail(q)
  <2> HIDE DEF t
  <2>2. /\ p2 \o t \in Seq(Request) /\ Len(p2 \o t) = Len(p2) + Len(t)
        /\ \A i \in 1..Len(p2) + Len(t) : (p2 \o t)[i] = IF i <= Len(p2) THEN p2[i] ELSE t[i - Len(p2)]
    BY <2>1, ConcatProperties DEF t
  <2> QED BY <2>1, <2>2 DEF t
<1>8. /\ p \o q \in Seq(Request) /\ Len(p \o q) = Len(p) + Len(q)
      /\ \A i \in 1..Len(p) + Len(q) : (p \o q)[i] = IF i <= Len(p) THEN p[i] ELSE q[i - Len(p)]
  BY <1>0, ConcatProperties
<1>9. ASSUME NEW i \in 1..Len(p) + Len(q) PROVE (p2 \o Tail(q))[i] = (p \o q)[i]
  <2>1. CASE i <= Len(p)
    BY <1>2, <1>3, <1>6, <1>7, <1>8, <2>1
  <2>2. CASE i = Len(p) + 1
    BY <1>2, <1>3, <1>6, <1>7, <1>8, <2>2
  <2>3. CASE i > Len(p) + 1
    <3>1. i - (Len(p) + 1) \in 1..Len(Tail(q)) /\ (i - (Len(p) + 1)) + 1 = i - Len(p)
      BY <1>2, <1>3, <2>3
    <3> QED BY <1>2, <1>3, <1>7, <1>8, <2>3, <3>1
  <2>4. i <= Len(p) \/ i = Len(p) + 1 \/ i > Len(p) + 1
    BY <1>0
  <2> QED BY <2>1, <2>2, <2>3, <2>4
<1>10. p2 \o Tail(q) = p \o q
  <2> DEFINE s == p2 \o Tail(q)
             t == p \o q
  <2>1. /\ s \in Seq(Request) /\ t \in Seq(Request) /\ Len(s) = Len(p) + Len(q) /\ Len(t) = Len(p) + Len(q)
        /\ \A i \in 1..Len(p) + Len(q) : s[i] = t[i]
    BY <1>0, <1>7, <1>8, <1>9
  <2> HIDE DEF s, t
  <2>2. s = t
    BY <2>1, SeqEqual
  <2> QED BY <2>2 DEF s, t
<1> QED BY <1>4, <1>10 DEF Asked, l2, p, q, p2

\* Of the connections that were closed, one goes away or moves on.
LEMMA OrphanMoves ==
  ASSUME NEW T, NEW o \in Seq(T), NEW i \in 1..Len(o)
  PROVE  /\ RemoveAt(o, i) \in Seq(T)
         /\ \A j \in 1..Len(RemoveAt(o, i)) : \E k \in 1..Len(o) : RemoveAt(o, i)[j] = o[k]
         /\ \A q \in T : /\ ReplaceAt(o, i, q) \in Seq(T)
                         /\ \A j \in 1..Len(ReplaceAt(o, i, q)) :
                              ReplaceAt(o, i, q)[j] = q \/ \E k \in 1..Len(o) : ReplaceAt(o, i, q)[j] = o[k]
<1>1. Len(o) \in Nat /\ i \in Nat /\ 1 <= i /\ i <= Len(o)
  OBVIOUS
<1> DEFINE a == SubSeq(o, 1, i - 1)
           b == SubSeq(o, i + 1, Len(o))
<1>2. /\ a \in Seq(T) /\ Len(a) = i - 1
      /\ \A j \in 1..i - 1 : a[j] = o[j]
  BY <1>1, SubSeqProperties
<1>3. /\ b \in Seq(T) /\ Len(b) = Len(o) - i
      /\ \A j \in 1..Len(o) - i : b[j] = o[i + j]
  BY <1>1, SubSeqProperties
<1> HIDE DEF a, b
<1>4. /\ a \o b \in Seq(T) /\ Len(a \o b) = Len(a) + Len(b)
      /\ \A j \in 1..Len(a) + Len(b) : (a \o b)[j] = IF j <= Len(a) THEN a[j] ELSE b[j - Len(a)]
  BY <1>2, <1>3, ConcatProperties
<1>5. ASSUME NEW j \in 1..Len(a \o b) PROVE \E k \in 1..Len(o) : (a \o b)[j] = o[k]
  <2>1. CASE j <= i - 1
    BY <1>1, <1>2, <1>3, <1>4, <2>1
  <2>2. CASE j > i - 1
    <3>1. j - (i - 1) \in 1..Len(o) - i /\ i + (j - (i - 1)) = j + 1 /\ j + 1 \in 1..Len(o)
      BY <1>1, <1>2, <1>3, <1>4, <2>2
    <3>2. (a \o b)[j] = b[j - (i - 1)]
      BY <1>1, <1>2, <1>3, <1>4, <2>2
    <3> QED BY <1>3, <3>1, <3>2
  <2> QED BY <1>1, <1>2, <1>3, <1>4, <2>1, <2>2
<1>6. RemoveAt(o, i) = a \o b
  BY DEF RemoveAt, a, b
<1>7. ASSUME NEW q \in T
      PROVE  /\ ReplaceAt(o, i, q) \in Seq(T)
             /\ \A j \in 1..Len(ReplaceAt(o, i, q)) :
                  ReplaceAt(o, i, q)[j] = q \/ \E k \in 1..Len(o) : ReplaceAt(o, i, q)[j] = o[k]
  <2>1. ReplaceAt(o, i, q) = [o EXCEPT ![i] = q]
    BY DEF ReplaceAt
  <2>2. /\ [o EXCEPT ![i] = q] \in Seq(T) /\ Len([o EXCEPT ![i] = q]) = Len(o)
        /\ \A j \in 1..Len(o) : [o EXCEPT ![i] = q][j] = IF j = i THEN q ELSE o[j]
    BY ExceptSeq
  <2> DEFINE p == [o EXCEPT ![i] = q]
  <2> HIDE DEF p
  <2>3. p \in Seq(T) /\ \A j \in 1..Len(p) : p[j] = q \/ \E k \in 1..Len(o) : p[j] = o[k]
    BY <2>2 DEF p
  <2> QED BY <2>1, <2>3 DEF p
<1> QED BY <1>4, <1>5, <1>6, <1>7

LEMMA Serving ==
  ASSUME NEW d \in Daemon, NEW l \in Link, NEW o, NEW c, NEW at, NEW half, NEW sent,
         Fits(d, l, o, c, at, half, sent), l.state = "open", l.toDaemon # <<>>
  PROVE  LET r == Head(l.toDaemon)
             l2 == [l EXCEPT !.toDaemon = Tail(@), !.toClient = Append(@, AnswerTo(d, r))]
         IN  l2 \in Link /\ Serve(d, r) \in Daemon /\ Fits(Serve(d, r), l2, o, c, at, half, sent)
<1> DEFINE r == Head(l.toDaemon)
           d2 == Serve(d, r)
           l2 == [l EXCEPT !.toDaemon = Tail(@), !.toClient = Append(@, AnswerTo(d, r))]
           q == Asked(l)
           p == Names(l.toClient)
<1>1. /\ l.toDaemon \in Seq(Request) /\ l.toClient \in Seq(Answer) /\ p \in Seq(Request)
      /\ (p = <<>> <=> l.toClient = <<>>) /\ q \in Seq(Request)
  BY AskedType, NamesOf
<1>2. r \in Request /\ r = l.toDaemon[1] /\ Len(l.toDaemon) \in Nat \ {0}
  BY <1>1, HeadTailProperties, EmptySeq
<1>3. /\ d2 \in Daemon /\ d2.alive = d.alive
      /\ r = "START" => d2.capturing
      /\ r # "STOP" /\ d.capturing => d2.capturing
      /\ AnswerTo(d, r) \in Answer /\ AnswerTo(d, r).to = r
  BY <1>2, Served
<1>4. l2 \in Link /\ l2.state = "open" /\ Asked(l2) = q
  BY <1>3, AskedServed
<1>5. Has(q, r)
  <2> DEFINE t == l.toDaemon
  <2>1. p \in Seq(Request) /\ t \in Seq(Request) /\ Len(t) \in Nat \ {0} /\ Len(p) \in Nat /\ t[1] = r
    BY <1>1, <1>2
  <2> HIDE DEF p, t, r
  <2>2. /\ Len(p \o t) = Len(p) + Len(t)
        /\ \A i \in 1..Len(p) + Len(t) : (p \o t)[i] = IF i <= Len(p) THEN p[i] ELSE t[i - Len(p)]
    BY <2>1, ConcatProperties
  <2>3. Len(p) + 1 \in 1..Len(p) + Len(t) /\ ~(Len(p) + 1 <= Len(p)) /\ (Len(p) + 1) - Len(p) = 1
    BY <2>1
  <2>4. Has(p \o t, r)
    BY <2>1, <2>2, <2>3 DEF Has
  <2> QED BY <2>4 DEF Asked, p, t
<1>6. q = <<"START">> => r = "START"
  BY <1>5 DEF Has
<1>7. Sound(d, l, o, c) /\ Placed(d, l, c, at, half, sent) /\ q # <<>>
  BY <1>5 DEF Fits, Has
<1> HIDE DEF d2, l2, q, p, r
<1>8. Sound(d2, l2, o, c)
  BY <1>4, <1>7 DEF Sound, q
<1>9. Placed(d2, l2, c, at, half, sent)
  <2>1. at = "start" /\ half = "backend" => d2.capturing
    BY <1>3, <1>6, <1>7 DEF Placed, q
  <2>2. c.running /\ ~(at = "halt" /\ sent) => (d2.alive => d2.capturing)
    BY <1>3, <1>5, <1>7 DEF Placed, q
  <2>3. l.state = "open" /\ l2.state = "open"
    BY <1>4
  <2> QED BY <1>4, <1>7, <2>1, <2>2, <2>3 DEF Placed, q, Pinging, Starting, Ticking, Stopping
<1> QED BY <1>3, <1>4, <1>8, <1>9 DEF Fits, d2, l2, r

\* No closed connection has a STOP in it.
LEMMA ServingOrphan ==
  ASSUME NEW d, NEW l, NEW o \in Orphans, NEW c, NEW at, NEW half, NEW sent, NEW d2,
         Fits(d, l, o, c, at, half, sent), NEW i \in 1..Len(o),
         NEW o2, o2 = RemoveAt(o, i) \/ (Tail(o[i]) # <<>> /\ o2 = ReplaceAt(o, i, Tail(o[i]))),
         d2.alive = d.alive, d.capturing => d2.capturing
  PROVE  o2 \in Orphans /\ Fits(d2, l, o2, c, at, half, sent)
<1>1. Sound(d, l, o, c) /\ Placed(d, l, c, at, half, sent)
  BY DEF Fits
<1>2. o[i] \in Seq(Request) /\ o[i] # <<>> /\ ~Has(o[i], "STOP")
  BY <1>1 DEF Sound, Orphans
<1>3. Tail(o[i]) \in Seq(Request) /\ ~Has(Tail(o[i]), "STOP")
  BY <1>2, LessTail DEF Less
<1>4. /\ o2 \in Orphans
      /\ \A j \in 1..Len(o2) : (o2[j] = Tail(o[i]) /\ Tail(o[i]) # <<>>) \/ \E k \in 1..Len(o) : o2[j] = o[k]
  <2> DEFINE T == Seq(Request)
  <2>1. o \in Seq(T) /\ Tail(o[i]) \in T
    BY <1>3 DEF Orphans
  <2> HIDE DEF T
  <2> DEFINE q == Tail(o[i])
  <2>2. q \in T
    BY <2>1
  <2> HIDE DEF q
  <2>3. /\ RemoveAt(o, i) \in Seq(T)
        /\ \A j \in 1..Len(RemoveAt(o, i)) : \E k \in 1..Len(o) : RemoveAt(o, i)[j] = o[k]
        /\ ReplaceAt(o, i, q) \in Seq(T)
        /\ \A j \in 1..Len(ReplaceAt(o, i, q)) :
             ReplaceAt(o, i, q)[j] = q \/ \E k \in 1..Len(o) : ReplaceAt(o, i, q)[j] = o[k]
    BY <2>1, <2>2, OrphanMoves
  <2>4. o2 = RemoveAt(o, i) \/ (q # <<>> /\ o2 = ReplaceAt(o, i, q))
    BY DEF q
  <2> QED BY <2>3, <2>4 DEF T, q, Orphans
<1>5. \A j \in 1..Len(o2) : o2[j] # <<>> /\ ~Has(o2[j], "STOP")
  BY <1>1, <1>3, <1>4 DEF Sound
<1>6. Sound(d2, l, o2, c)
  BY <1>1, <1>5 DEF Sound
<1>7. Placed(d2, l, c, at, half, sent)
  BY <1>1 DEF Placed, Pinging, Starting, Ticking, Stopping
<1> QED BY <1>4, <1>6, <1>7 DEF Fits

\* A scan neither starts nor ends a recording.
LEMMA Scanning ==
  ASSUME NEW d, NEW l, NEW o, NEW c, NEW at, NEW half, NEW sent, NEW d2,
         Fits(d, l, o, c, at, half, sent), d2.alive = d.alive, d2.capturing = d.capturing
  PROVE  Fits(d2, l, o, c, at, half, sent)
BY DEF Fits, Placed, Sound, Pinging, Starting, Ticking, Stopping

LEMMA Crashing ==
  ASSUME NEW d, NEW l \in Link, NEW o, NEW c, NEW at, NEW half, NEW sent,
         Fits(d, l, o, c, at, half, sent), l.state = "open", NEW in \in {l.toClient, <<>>}
  PROVE  LET l2 == [state |-> "broken", toDaemon |-> <<>>, toClient |-> in]
         IN  l2 \in Link /\ Fits(Dead, l2, <<>>, c, at, half, sent)
<1> DEFINE l2 == [state |-> "broken", toDaemon |-> <<>>, toClient |-> in]
           q == Asked(l)
           p == Names(l.toClient)
           t == l.toDaemon
<1>1. p \in Seq(Request) /\ t \in Seq(Request) /\ in \in Seq(Answer) /\ Dead.alive = FALSE
  <2>1. p \in Seq(Request) /\ t \in Seq(Request) /\ l.toClient \in Seq(Answer)
    BY AskedType
  <2>2. Dead.alive = FALSE
    BY DEF Dead, Spawned
  <2>3. <<>> \in Seq(Answer)
    OBVIOUS
  <2> HIDE DEF p, t
  <2> QED BY <2>1, <2>2, <2>3
<1>2. l2 \in Link /\ l2.state = "broken" /\ l2.toDaemon = <<>> /\ l2.toClient = in
  BY <1>1 DEF Link
<1>3. Asked(l2) \in {p, <<>>}
  <2>1. in = <<>> => Asked(l2) = <<>>
    BY <1>2, AskedType
  <2>2. in = l.toClient => Asked(l2) = p \o <<>>
    BY <1>2 DEF Asked
  <2>3. p \o <<>> = p
    BY <1>1, ConcatEmptySeq
  <2> QED BY <2>1, <2>2, <2>3
<1> HIDE DEF l2, p, t
<1>4. /\ Len(p \o t) = Len(p) + Len(t) /\ Len(p) \in Nat /\ Len(t) \in Nat
      /\ \A i \in 1..Len(p) + Len(t) : (p \o t)[i] = IF i <= Len(p) THEN p[i] ELSE t[i - Len(p)]
  BY <1>1, ConcatProperties
<1>5. /\ 1..Len(p) \subseteq 1..Len(p \o t)
      /\ \A i \in 1..Len(p) : (p \o t)[i] = p[i]
  BY <1>4
<1>6. Less(p, p \o t) /\ Less(<<>>, p \o t)
  BY <1>5, NothingInEmpty DEF Less, Has, Behind
<1>7. p \o t = q
  BY DEF Asked, p, t
<1>8. p \o t = <<>> \/ p \o t = <<"START">> => p = <<>> \/ p = <<"START">>
  <2>1. CASE p = <<>>
    BY <2>1
  <2>2. CASE p # <<>>
    <3>1. Len(p) # 0
      BY <1>1, <2>2, EmptySeq
    <3>2. ASSUME p \o t = <<>> PROVE FALSE
      BY <1>4, <3>1, <3>2
    <3>3. ASSUME p \o t = <<"START">> PROVE p = <<"START">>
      <4>1. Len(p) = 1
        <5>1. Len(p \o t) = 1
          BY <3>3
        <5>2. Len(p) + Len(t) = 1 /\ Len(p) \in Nat /\ Len(t) \in Nat
          BY <1>4, <5>1
        <5>3. \A m, n \in Nat : m + n = 1 /\ m # 0 => m = 1
          OBVIOUS
        <5> QED BY <3>1, <5>2, <5>3, Zenon
      <4>2. p[1] = "START"
        BY <1>5, <3>3, <4>1
      <4> QED BY <1>1, <4>1, <4>2
    <3> QED BY <3>2, <3>3
  <2> QED BY <2>1, <2>2
<1> HIDE DEF q
<1>9. Less(Asked(l2), q)
  BY <1>3, <1>6, <1>7
<1>10. Sound(d, l, o, c) /\ Placed(d, l, c, at, half, sent)
  BY DEF Fits
<1>11. Sound(Dead, l2, <<>>, c)
  BY <1>1, <1>2, <1>9, <1>10 DEF Sound, Less, q
<1>12. at = "start" /\ half = "backend" => Asked(l2) = <<>> \/ (Asked(l2) = <<"START">> /\ sent)
  BY <1>3, <1>7, <1>8, <1>10 DEF Placed, q
<1>13. Placed(Dead, l2, c, at, half, sent)
  BY <1>1, <1>2, <1>9, <1>10, <1>12 DEF Placed, Less, q, Pinging, Starting, Ticking, Stopping
<1> QED BY <1>2, <1>11, <1>13 DEF Fits, l2

\* A connection that is not open does not notice.
LEMMA CrashingUnseen ==
  ASSUME NEW d, NEW l, NEW o, NEW c, NEW at, NEW half, NEW sent,
         Fits(d, l, o, c, at, half, sent)
  PROVE  Fits(Dead, l, <<>>, c, at, half, sent)
<1>1. Dead.alive = FALSE
  BY DEF Dead, Spawned
<1> QED BY <1>1 DEF Fits, Placed, Sound, Pinging, Starting, Ticking, Stopping

-----------------------------------------------------------------------------
(* The bridge's loops.                                                      *)

LEMMA InTail ==
  ASSUME NEW S, NEW q \in Seq(S), q # <<>>, Distinct(q)
  PROVE  /\ Tail(q) \in Seq(S) /\ Head(q) \in S
         /\ In(Tail(q)) = In(q) \ {Head(q)} /\ Head(q) \in In(q) /\ Distinct(Tail(q))
         /\ Len(q) > 1 => Tail(q) # <<>>
         /\ ~(Len(q) > 1) => In(q) = {Head(q)}
<1>1. /\ Tail(q) \in Seq(S) /\ Len(Tail(q)) = Len(q) - 1 /\ Len(q) \in Nat \ {0}
      /\ \A i \in 1..Len(Tail(q)) : Tail(q)[i] = q[i + 1]
      /\ Head(q) = q[1] /\ Head(q) \in S
  BY HeadTailProperties, EmptySeq
<1>2. \A i \in 1..Len(Tail(q)) : i + 1 \in 1..Len(q) /\ i + 1 # 1
  BY <1>1
<1>3. 1 \in 1..Len(q)
  BY <1>1
<1>4. In(Tail(q)) \subseteq In(q) \ {Head(q)}
  BY <1>1, <1>2, <1>3 DEF In, Distinct
<1>5. In(q) \ {Head(q)} \subseteq In(Tail(q))
  <2>1. ASSUME NEW i \in 1..Len(q), i # 1 PROVE q[i] \in In(Tail(q))
    <3>1. i - 1 \in 1..Len(Tail(q)) /\ (i - 1) + 1 = i
      BY <1>1, <2>1
    <3>2. Tail(q)[i - 1] = q[i]
      BY <1>1, <3>1
    <3> QED BY <3>1, <3>2 DEF In
  <2> QED BY <1>1, <2>1 DEF In
<1>6. Distinct(Tail(q))
  <2> SUFFICES ASSUME NEW i \in 1..Len(Tail(q)), NEW j \in 1..Len(Tail(q)), Tail(q)[i] = Tail(q)[j]
               PROVE  i = j
    BY DEF Distinct
  <2>1. i + 1 = j + 1
    BY <1>1, <1>2 DEF Distinct
  <2> QED BY <1>1, <2>1
<1>7. Len(q) > 1 => Tail(q) # <<>>
  <2>1. Len(Tail(q)) = Len(q) - 1 /\ Len(q) \in Nat \ {0}
    BY <1>1
  <2>2. Len(<<>>) = 0
    OBVIOUS
  <2>3. \A m \in Nat \ {0} : m - 1 = 0 => ~(m > 1)
    OBVIOUS
  <2>4. Tail(q) = <<>> => Len(Tail(q)) = 0
    BY <2>2, Zenon
  <2> QED BY <2>1, <2>3, <2>4, Zenon
<1>8. ~(Len(q) > 1) => In(q) = {Head(q)}
  BY <1>1 DEF In
<1> QED BY <1>1, <1>3, <1>4, <1>5, <1>6, <1>7, <1>8 DEF In

LEMMA InAppend ==
  ASSUME NEW S, NEW q \in Seq(S), NEW e \in S
  PROVE  /\ Append(q, e) \in Seq(S) /\ In(Append(q, e)) = In(q) \cup {e}
         /\ Distinct(q) /\ e \notin In(q) => Distinct(Append(q, e))
<1>1. /\ Append(q, e) \in Seq(S) /\ Len(q) \in Nat /\ Len(Append(q, e)) = Len(q) + 1
      /\ \A i \in 1..Len(q) : Append(q, e)[i] = q[i]
      /\ Append(q, e)[Len(q) + 1] = e
  BY AppendProperties
<1>2. \A i \in 1..Len(Append(q, e)) : i \in 1..Len(q) \/ i = Len(q) + 1
  BY <1>1
<1>3. \A i \in 1..Len(q) : i \in 1..Len(Append(q, e))
  BY <1>1
<1>4. Len(q) + 1 \in 1..Len(Append(q, e))
  BY <1>1
<1>5. In(Append(q, e)) = In(q) \cup {e}
  BY <1>1, <1>2, <1>3, <1>4 DEF In
<1>6. Distinct(q) /\ e \notin In(q) => Distinct(Append(q, e))
  BY <1>1, <1>2 DEF In, Distinct
<1> QED BY <1>1, <1>5, <1>6

LEMMA InNone == In(<<>>) = {} /\ Distinct(<<>>)
  BY DEF In, Distinct

LEMMA ActiveSensors ==
  Active \in Seq(Sensor) /\ Active # <<>> /\ In(Active) = Sensor /\ Distinct(Active)
  BY ActiveAssumption DEF In, Distinct, Sensor

LEMMA Calls ==
  /\ DOMAIN RequestAt = {"ping", "reping", "start", "telemetry", "trajectory", "new", "all", "halt", "hush"}
  /\ \A at \in DOMAIN RequestAt : RequestAt[at] \in Request
  BY DEF RequestAt, Request

\* While a loop runs it visits one sensor, and the others rest.
LEMMA Busy ==
  ASSUME CaptureInv, ui.at # "idle" \/ ui.op # "idle"
  PROVE  /\ ui.op \in {"start", "rollback", "tick", "stop"} /\ ui.at # "idle"
         /\ ui.todo \in Seq(Sensor) /\ ui.todo # <<>> /\ Distinct(ui.todo)
         /\ Subject \in Sensor /\ Subject = Head(ui.todo) /\ Subject \in In(ui.todo)
         /\ \A s \in Sensor \ {Subject} : AtOf(s) = "rest"
         /\ AtOf(Subject) = IF ui.at = "enter" THEN "rest" ELSE ui.at
<1>1. ui.op # "idle" /\ ui.todo # <<>> /\ Distinct(ui.todo)
  BY DEF CaptureInv, Flow, Resting
<1>2. ui.todo \in Seq(Sensor) /\ ui.op \in {"idle", "start", "rollback", "tick", "stop"}
  BY DEF CaptureInv, TypeOK, Ui
<1>3. ui.at # "idle"
  BY <1>1, <1>2 DEF CaptureInv, Flow, Starting, Pinging, Ticking, Stopping
<1>4. Subject \in Sensor /\ Subject \in In(ui.todo)
  BY <1>1, <1>2, InTail DEF Subject
<1> QED BY <1>1, <1>2, <1>3, <1>4 DEF AtOf, Visited, Subject

\* What the step of one sensor does not touch stays in step.
LEMMA OthersStay ==
  ASSUME NEW s, InStep(s), AtOf(s) = "rest", AtOf(s)' = "rest",
         daemon'[s] = daemon[s], link'[s] = link[s], orphans'[s] = orphans[s], client'[s] = client[s]
  PROVE  InStep(s)'
<1>1. Fits(daemon[s], link[s], orphans[s], client[s], "rest", ui'.half, ui'.sent)
  BY Elsewhere DEF InStep
<1> QED BY <1>1 DEF InStep

Untouched(s) == /\ daemon'[s] = daemon[s] /\ link'[s] = link[s]
                /\ orphans'[s] = orphans[s] /\ client'[s] = client[s]

\* A step within a visit.
LEMMA GoOn ==
  ASSUME CaptureInv, ui.at # "idle", ui'.op = ui.op, ui'.todo = ui.todo, ui'.at # "enter",
         \A s \in Sensor \ {Subject} : Untouched(s),
         Fits(daemon'[Subject], link'[Subject], orphans'[Subject], client'[Subject],
              ui'.at, ui'.half, ui'.sent)
  PROVE  \A s \in Sensor : InStep(s)'
<1>1. /\ ui.op # "idle" /\ Subject \in Sensor /\ Subject = Head(ui.todo)
      /\ \A s \in Sensor \ {Subject} : AtOf(s) = "rest"
  BY Busy
<1>2. Subject' = Subject /\ AtOf(Subject)' = ui'.at
  BY <1>1 DEF Subject, AtOf, Visited
<1>3. \A s \in Sensor \ {Subject} : AtOf(s)' = "rest"
  BY <1>1 DEF AtOf, Visited
<1>4. ASSUME NEW s \in Sensor \ {Subject} PROVE InStep(s)'
  BY <1>1, <1>3, <1>4, OthersStay DEF CaptureInv, Untouched
<1>5. ASSUME NEW s \in Sensor, s = Subject PROVE InStep(s)'
  <2>1. AtOf(s)' = ui'.at
    BY <1>1, <1>5 DEF AtOf, Visited
  <2> QED BY <1>5, <2>1 DEF InStep
<1> QED BY <1>4, <1>5

\* A visit ends, or a loop begins.
LEMMA MoveOn ==
  ASSUME CaptureInv, ui.at # "idle", ui'.op = "idle" \/ ui'.at = "enter",
         \A s \in Sensor \ {Subject} : Untouched(s),
         Fits(daemon'[Subject], link'[Subject], orphans'[Subject], client'[Subject],
              "rest", ui'.half, ui'.sent)
  PROVE  \A s \in Sensor : InStep(s)'
<1>1. Subject \in Sensor /\ \A s \in Sensor \ {Subject} : AtOf(s) = "rest"
  BY Busy
<1>2. \A s \in Sensor : AtOf(s)' = "rest"
  BY DEF AtOf, Visited
<1>3. ASSUME NEW s \in Sensor \ {Subject} PROVE InStep(s)'
  BY <1>1, <1>2, <1>3, OthersStay DEF CaptureInv, Untouched
<1>4. ASSUME NEW s \in Sensor, s = Subject PROVE InStep(s)'
  BY <1>2, <1>4 DEF InStep
<1> QED BY <1>3, <1>4

\* Nobody starts or stops to run.
LEMMA SameRunning ==
  ASSUME \A s \in Sensor : client'[s].running = client[s].running
  PROVE  Running' = Running
BY DEF Running

\* Within a visit the loop's place changes, and at the end of a STOP who runs.
LEMMA FlowGoOn ==
  ASSUME CaptureInv, ui.op # "idle", ui'.op = ui.op, ui'.todo = ui.todo, ui'.started = ui.started,
         bridge'.state = bridge.state,
         ui.op = "start" => ui'.at \in Starting /\ Running' = Running,
         ui.op = "tick" => ui'.at \in Ticking /\ Running' = Running,
         ui.op \in {"stop", "rollback"} =>
           /\ ui'.at \in Stopping
           /\ Running' = In(ui.todo) \ (IF ui'.at \in {"collect", "hush"} THEN {Head(ui.todo)} ELSE {})
  PROVE  Flow'
<1>1. Flow
  BY DEF CaptureInv
<1>2. ui'.at # "enter"
  BY <1>1, Busy DEF Starting, Pinging, Ticking, Stopping
<1>3. /\ Distinct(ui'.todo) /\ Distinct(ui'.started)
      /\ ui'.op # "idle" /\ ui'.todo # <<>>
  BY <1>1 DEF Flow
<1>4. ui'.op = "start" => /\ ui'.at \in {"enter"} \cup Starting /\ bridge'.state # "CAPTURING"
                          /\ In(ui'.started) \cup In(ui'.todo) = Sensor
                          /\ In(ui'.started) \cap In(ui'.todo) = {}
                          /\ Running' = In(ui'.started)
                          /\ ui'.at = "enter" => ui'.half = "adapter"
  BY <1>1, <1>2 DEF Flow
<1>5. ui'.op = "tick" => /\ ui'.at \in {"enter"} \cup Ticking /\ bridge'.state = "CAPTURING"
                         /\ Running' = Sensor
  BY <1>1 DEF Flow
<1>6. ui'.op \in {"stop", "rollback"} =>
       /\ ui'.at \in {"enter"} \cup Stopping
       /\ ui'.op = "stop" <=> bridge'.state = "CAPTURING"
       /\ Running' = In(ui'.todo) \ (IF ui'.at \in {"collect", "hush"} THEN {Head(ui'.todo)} ELSE {})
  BY <1>1 DEF Flow
<1> QED BY <1>3, <1>4, <1>5, <1>6 DEF Flow

\* The end of a visit, and of a loop with its last.
LEMMA FlowNext ==
  ASSUME CaptureInv, ui.op # "idle", NEW started, NEW b, NextSensor(started, b),
         b.state = bridge.state,
         b \in [state : {"READY", "CAPTURING", "STOPPED"},
                map : [Sensor -> SUBSET Point], trajectory : [Sensor -> SUBSET Point]],
         ui.op = "start" => /\ started = Append(ui.started, Subject)
                            /\ Running' = Running \cup {Subject},
         ui.op = "tick" => started = <<>> /\ Running' = Running,
         ui.op \in {"stop", "rollback"} =>
           started = <<>> /\ Running' = In(ui.todo) \ {Head(ui.todo)}
  PROVE  /\ Flow' /\ ui' \in Ui /\ (ui'.op = "idle" \/ ui'.at = "enter")
         /\ bridge' \in [state : {"READY", "CAPTURING", "STOPPED"},
                         map : [Sensor -> SUBSET Point], trajectory : [Sensor -> SUBSET Point]]
         /\ bridge'.map = b.map /\ bridge'.trajectory = b.trajectory
<1>1. Flow /\ ui \in Ui
  BY DEF CaptureInv, TypeOK
<1>2. /\ ui.op \in {"start", "rollback", "tick", "stop"}
      /\ ui.todo \in Seq(Sensor) /\ ui.todo # <<>> /\ Distinct(ui.todo)
      /\ Subject \in Sensor /\ Subject = Head(ui.todo) /\ Subject \in In(ui.todo)
  BY Busy
<1>3. /\ Tail(ui.todo) \in Seq(Sensor)
      /\ In(Tail(ui.todo)) = In(ui.todo) \ {Subject} /\ Distinct(Tail(ui.todo))
      /\ Len(ui.todo) > 1 => Tail(ui.todo) # <<>>
      /\ ~(Len(ui.todo) > 1) => In(ui.todo) = {Subject}
  BY <1>2, InTail
<1>4. ui.started \in Seq(Sensor) /\ Distinct(ui.started)
  BY <1>1 DEF Ui, Flow
<1>5. /\ started \in Seq(Sensor) /\ Distinct(started)
      /\ ui.op = "start" => In(started) = In(ui.started) \cup {Subject}
  <2>1. CASE ui.op = "start"
    <3>1. Subject \notin In(ui.started)
      BY <1>1, <1>2, <2>1 DEF Flow
    <3>2. started = Append(ui.started, Subject)
      BY <2>1
    <3>3. /\ Append(ui.started, Subject) \in Seq(Sensor)
          /\ In(Append(ui.started, Subject)) = In(ui.started) \cup {Subject}
          /\ Distinct(Append(ui.started, Subject))
      BY <1>2, <1>4, <3>1, InAppend
    <3> QED BY <3>2, <3>3
  <2>2. CASE ui.op # "start"
    <3>1. started = <<>>
      BY <1>2, <2>2
    <3> QED BY <2>2, <3>1, InNone
  <2> QED BY <2>1, <2>2
<1>6. CASE Len(ui.todo) > 1
  <2>1. bridge' = b
    BY <1>6 DEF NextSensor
  <2>2. ui' = [op |-> ui.op, todo |-> Tail(ui.todo), started |-> started, half |-> "adapter",
               at |-> "enter", sent |-> FALSE, dirty |-> FALSE]
    BY <1>6 DEF NextSensor, Begin, Resting
  <2>3. ui' \in Ui
    BY <1>2, <1>3, <1>5, <2>2 DEF Ui, Local
  <2>4. /\ ui'.op = ui.op /\ ui'.todo = Tail(ui.todo) /\ ui'.started = started /\ ui'.at = "enter"
        /\ ui'.half = "adapter"
    BY <2>2
  <2>5. Flow'
    <3>1. ui'.op = "start" => /\ bridge'.state # "CAPTURING"
                              /\ In(ui'.started) \cup In(ui'.todo) = Sensor
                              /\ In(ui'.started) \cap In(ui'.todo) = {}
                              /\ Running' = In(ui'.started)
      BY <1>1, <1>2, <1>3, <1>5, <2>1, <2>4 DEF Flow
    <3>2. ui'.op = "tick" => bridge'.state = "CAPTURING" /\ Running' = Sensor
      BY <1>1, <2>1, <2>4 DEF Flow
    <3>3. ui'.op \in {"stop", "rollback"} =>
            /\ ui'.op = "stop" <=> bridge'.state = "CAPTURING"
            /\ Running' = In(ui'.todo)
      BY <1>1, <1>2, <1>3, <2>1, <2>4 DEF Flow
    <3> QED BY <1>2, <1>3, <1>5, <1>6, <2>4, <3>1, <3>2, <3>3 DEF Flow
  <2> QED BY <2>1, <2>3, <2>4, <2>5
<1>7. CASE ~(Len(ui.todo) > 1)
  <2>1. ui' = Resting /\ bridge' = [b EXCEPT !.state = EndOf(ui.op)]
    BY <1>7 DEF NextSensor
  <2>2. EndOf(ui.op) = IF ui.op = "start" THEN "CAPTURING" ELSE IF ui.op = "stop" THEN "STOPPED" ELSE bridge.state
    BY <1>2 DEF EndOf
  <2>3. EndOf(ui.op) \in {"READY", "CAPTURING", "STOPPED"}
    BY <2>2
  <2>4. /\ bridge' \in [state : {"READY", "CAPTURING", "STOPPED"},
                        map : [Sensor -> SUBSET Point], trajectory : [Sensor -> SUBSET Point]]
        /\ bridge'.state = EndOf(ui.op) /\ bridge'.map = b.map /\ bridge'.trajectory = b.trajectory
    BY <2>1, <2>3
  <2>5. /\ ui'.op = "idle" /\ ui'.todo = <<>> /\ ui'.started = <<>>
    BY <2>1 DEF Resting
  <2>6. ui' \in Ui
    BY <2>1, Calls DEF Resting, Ui, Local
  <2>7. /\ bridge'.state = "CAPTURING" => Running' = Sensor
        /\ bridge'.state # "CAPTURING" => Running' = {}
    <3>1. CASE ui.op = "start"
      BY <1>1, <1>2, <1>3, <1>7, <2>2, <2>4, <3>1 DEF Flow
    <3>2. CASE ui.op = "tick"
      BY <1>1, <2>2, <2>4, <3>2 DEF Flow
    <3>3. CASE ui.op \in {"stop", "rollback"}
      BY <1>1, <1>2, <1>3, <1>7, <2>2, <2>4, <3>3 DEF Flow
    <3> QED BY <1>2, <3>1, <3>2, <3>3
  <2>8. Flow'
    BY <2>1, <2>5, <2>7, InNone DEF Flow
  <2> QED BY <2>4, <2>5, <2>6, <2>8
<1> QED BY <1>6, <1>7

\* A start that failed is rolled back, or there is nothing to roll back.
LEMMA FlowFail ==
  ASSUME CaptureInv, ui.op = "start", Fail, Running' = Running, bridge' = bridge
  PROVE  Flow' /\ ui' \in Ui /\ (ui'.op = "idle" \/ ui'.at = "enter") /\ failed' \in BOOLEAN
<1>1. Flow /\ ui.started \in Seq(Sensor) /\ Distinct(ui.started)
  BY DEF CaptureInv, TypeOK, Ui, Flow
<1>2. bridge'.state # "CAPTURING" /\ Running' = In(ui.started) /\ failed' \in BOOLEAN
  BY <1>1 DEF Flow, Fail
<1>3. CASE ui.started = <<>>
  <2>1. ui' = Resting
    BY <1>3 DEF Fail
  <2>2. ui'.op = "idle" /\ ui'.todo = <<>> /\ ui'.started = <<>>
    BY <2>1 DEF Resting
  <2>3. ui' \in Ui
    BY <2>1, Calls DEF Resting, Ui, Local
  <2>4. Flow'
    BY <1>2, <1>3, <2>1, <2>2, InNone DEF Flow
  <2> QED BY <1>2, <2>2, <2>3, <2>4
<1>4. CASE ui.started # <<>>
  <2>1. ui' = [op |-> "rollback", todo |-> ui.started, started |-> <<>>, half |-> "adapter",
               at |-> "enter", sent |-> FALSE, dirty |-> FALSE]
    BY <1>4 DEF Fail, Begin, Resting
  <2>2. ui' \in Ui
    BY <1>1, <2>1 DEF Ui, Local
  <2>3. ui'.op = "rollback" /\ ui'.todo = ui.started /\ ui'.started = <<>> /\ ui'.at = "enter"
    BY <2>1
  <2>4. Flow'
    BY <1>1, <1>2, <1>4, <2>3, InNone DEF Flow
  <2> QED BY <1>2, <2>2, <2>3, <2>4
<1> QED BY <1>3, <1>4

-----------------------------------------------------------------------------
(* Every step of the capture preserves the invariant: the bridge's own.     *)

BridgeType == [state : {"READY", "CAPTURING", "STOPPED"},
               map : [Sensor -> SUBSET Point], trajectory : [Sensor -> SUBSET Point]]

LEMMA Spends ==
  ASSUME TypeOK, NEW k \in {"starts", "scans", "late", "crashes"}, Spend(k)
  PROVE  spent' \in [{"starts", "scans", "late", "crashes"} -> Nat]
BY DEF TypeOK, Spend

LEMMA Goes ==
  ASSUME ui \in Ui, NEW at \in Local \cup DOMAIN RequestAt, Goto(at)
  PROVE  /\ ui' \in Ui /\ ui'.op = ui.op /\ ui'.todo = ui.todo /\ ui'.started = ui.started
         /\ ui'.half = ui.half /\ ui'.at = at /\ ui'.sent = FALSE
<1>1. ui' = [ui EXCEPT !.at = at, !.sent = FALSE, !.dirty = FALSE]
  BY DEF Goto
<1>2. ui' \in Ui
  BY <1>1 DEF Ui
<1>3. /\ ui'.op = ui.op /\ ui'.todo = ui.todo /\ ui'.started = ui.started
      /\ ui'.half = ui.half /\ ui'.at = at /\ ui'.sent = FALSE
  BY <1>1 DEF Ui
<1> QED BY <1>2, <1>3

\* The calls of the bridge begin with every sensor at rest.
LEMMA BeginInv ==
  ASSUME CaptureInv, StartCapture \/ OnTelemetryTick \/ StopCapture
  PROVE  CaptureInv'
<1>1. /\ TypeOK /\ Flow /\ ui.op = "idle" /\ UNCHANGED <<daemon, link, orphans, client>>
      /\ \A s \in Sensor : InStep(s)
  BY DEF CaptureInv, StartCapture, OnTelemetryTick, StopCapture, pipes
<1>2. PICK op \in {"start", "tick", "stop"} :
        /\ ui' = Begin(op, Active)
        /\ op = "start" => StartCapture
        /\ op = "tick" => OnTelemetryTick
        /\ op = "stop" => StopCapture
  BY DEF StartCapture, OnTelemetryTick, StopCapture
<1>3. ui' = [op |-> op, todo |-> Active, started |-> <<>>, half |-> "adapter",
             at |-> "enter", sent |-> FALSE, dirty |-> FALSE]
  BY <1>2 DEF Begin, Resting
<1>4. /\ ui' \in Ui /\ ui'.op = op /\ ui'.todo = Active /\ ui'.started = <<>> /\ ui'.at = "enter"
      /\ ui'.half = "adapter"
  <2>1. ui' \in Ui
    BY <1>3, ActiveSensors DEF Ui, Local
  <2> QED BY <1>3, <2>1
<1>5. bridge' \in BridgeType /\ bridge'.state = bridge.state
  <2>0. bridge \in BridgeType
    BY <1>1 DEF TypeOK, BridgeType
  <2>1. CASE StartCapture
    BY <2>0, <2>1 DEF StartCapture, BridgeType
  <2>2. CASE OnTelemetryTick \/ StopCapture
    BY <2>0, <2>2 DEF OnTelemetryTick, StopCapture
  <2> QED BY <2>1, <2>2
<1>6. Running' = Running
  BY <1>1, SameRunning
<1>7. Flow'
  <2>1. Running = IF bridge.state = "CAPTURING" THEN Sensor ELSE {}
    BY <1>1 DEF Flow
  <2>2. op = "start" <=> bridge.state # "CAPTURING"
    BY <1>2 DEF StartCapture, OnTelemetryTick, StopCapture
  <2> QED BY <1>4, <1>5, <1>6, <2>1, <2>2, ActiveSensors, InNone DEF Flow
<1>8. ASSUME NEW s \in Sensor PROVE InStep(s)'
  BY <1>1, <1>4, OthersStay DEF AtOf, Visited
<1>9. TypeOK'
  <2>1. began' \in Nat /\ due' \in [Sensor -> SUBSET Point] /\ failed' \in BOOLEAN
    BY <1>1 DEF StartCapture, OnTelemetryTick, StopCapture, TypeOK, history, Daemon
  <2>2. spent' \in [{"starts", "scans", "late", "crashes"} -> Nat]
    <3>1. StartCapture => Spend("starts")
      BY DEF StartCapture
    <3>2. OnTelemetryTick \/ StopCapture => spent' = spent
      BY DEF OnTelemetryTick, StopCapture
    <3> QED BY <1>1, <3>1, <3>2, Spends DEF TypeOK
  <2> QED BY <1>1, <1>4, <1>5, <2>1, <2>2 DEF TypeOK, BridgeType
<1> QED BY <1>7, <1>8, <1>9 DEF CaptureInv

LEMMA EnterInv ==
  ASSUME CaptureInv, Enter
  PROVE  CaptureInv'
<1> DEFINE s == Subject
           c == client[s]
<1>1. /\ TypeOK /\ Flow /\ ui.at = "enter" /\ ui \in Ui
      /\ UNCHANGED <<daemon, link, orphans, client, bridge, began, due, failed, spent>>
  BY DEF CaptureInv, TypeOK, Enter, pipes, history
<1>2. /\ ui.op \in {"start", "rollback", "tick", "stop"} /\ s \in Sensor /\ s = Head(ui.todo)
      /\ s \in In(ui.todo) /\ AtOf(s) = "rest"
  BY <1>1, Busy
<1>3. PICK at \in Local \cup DOMAIN RequestAt :
        /\ Goto(at)
        /\ ui.op = "start" => at = IF c.connected /\ link[s].state # "closed" THEN "start" ELSE "connect"
        /\ ui.op = "tick" => at = "telemetry"
        /\ ui.op \in {"stop", "rollback"} => at = IF c.running THEN "all" ELSE "collect"
  BY <1>2, Calls DEF Enter, Local
<1>4. /\ ui' \in Ui /\ ui'.op = ui.op /\ ui'.todo = ui.todo /\ ui'.started = ui.started
      /\ ui'.half = ui.half /\ ui'.at = at /\ ui'.sent = FALSE
  BY <1>1, <1>3, Goes
<1>5. Running' = Running
  BY <1>1, SameRunning
<1>6. c.running <=> ui.op # "start"
  <2>1. c.running <=> s \in Running
    BY <1>2 DEF Running
  <2> QED BY <1>1, <1>2, <2>1 DEF Flow
<1>7. Fits(daemon[s], link[s], orphans[s], c, at, ui'.half, FALSE)
  <2>1. Fits(daemon[s], link[s], orphans[s], c, "rest", ui.half, ui.sent)
    BY <1>2 DEF CaptureInv, InStep
  <2>2. ui.op = "start" => ui.half = "adapter"
    BY <1>1 DEF Flow
  <2> QED BY <1>2, <1>3, <1>4, <1>6, <2>1, <2>2, Entering
<1>8. Flow'
  <2>1. /\ ui.op = "start" => at \in Starting
        /\ ui.op = "tick" => at \in Ticking
        /\ ui.op \in {"stop", "rollback"} => at = "all"
    BY <1>3, <1>6 DEF Starting, Ticking
  <2>2. ui.op \in {"stop", "rollback"} => Running = In(ui.todo)
    BY <1>1 DEF Flow
  <2> QED BY <1>1, <1>2, <1>4, <1>5, <2>1, <2>2, FlowGoOn DEF Stopping
<1>9. \A t \in Sensor : InStep(t)'
  <2>1. at # "enter"
    BY <1>2, <1>3
  <2> QED BY <1>1, <1>4, <1>7, <2>1, GoOn DEF Untouched
<1>10. TypeOK'
  BY <1>1, <1>4 DEF TypeOK
<1> QED BY <1>8, <1>9, <1>10 DEF CaptureInv

LEMMA CollectInv ==
  ASSUME CaptureInv, Collect
  PROVE  CaptureInv'
<1> DEFINE s == Subject
           c == client[s]
           b == IF ui.op = "stop" THEN Shown(c) ELSE bridge
<1>1. /\ TypeOK /\ Flow /\ ui.at = "collect" /\ ui \in Ui
      /\ UNCHANGED <<daemon, link, orphans, client, began, due, failed, spent>>
  BY DEF CaptureInv, TypeOK, Collect, pipes, history
<1>2. /\ ui.op \in {"stop", "rollback"} /\ s \in Sensor /\ s = Head(ui.todo) /\ AtOf(s) = "collect"
  BY <1>1, Busy DEF Flow, Starting, Pinging, Ticking
<1>3. b \in BridgeType /\ b.state = bridge.state
  <2>1. bridge \in BridgeType /\ c.map \in SUBSET Point /\ c.trajectory \in SUBSET Point
    BY <1>1, <1>2 DEF TypeOK, BridgeType, Client
  <2>2. Shown(c) \in BridgeType /\ Shown(c).state = bridge.state
    <3>1. Shown(c) = [bridge EXCEPT !.map = [@ EXCEPT ![s] = c.map],
                                    !.trajectory = [@ EXCEPT ![s] = c.trajectory]]
      BY DEF Shown
    <3>2. [bridge.map EXCEPT ![s] = c.map] \in [Sensor -> SUBSET Point]
          /\ [bridge.trajectory EXCEPT ![s] = c.trajectory] \in [Sensor -> SUBSET Point]
      BY <2>1 DEF BridgeType
    <3> QED BY <2>1, <3>1, <3>2 DEF BridgeType
  <2> QED BY <2>1, <2>2
<1>4. Fits(daemon[s], link[s], orphans[s], c, "collect", ui.half, ui.sent)
  BY <1>2 DEF CaptureInv, InStep
<1>5. Running' = Running /\ Running = In(ui.todo) \ {Head(ui.todo)}
  BY <1>1, <1>2, SameRunning DEF Flow
<1>6. CASE c.streaming
  <2>1. Goto("hush") /\ bridge' = b
    BY <1>6 DEF Collect
  <2>2. /\ ui' \in Ui /\ ui'.op = ui.op /\ ui'.todo = ui.todo /\ ui'.started = ui.started
        /\ ui'.half = ui.half /\ ui'.at = "hush" /\ ui'.sent = FALSE
    BY <1>1, <2>1, Goes, Calls
  <2>3. Flow'
    BY <1>1, <1>2, <1>3, <1>5, <2>1, <2>2, FlowGoOn DEF Stopping
  <2>4. Fits(daemon[s], link[s], orphans[s], c, "hush", ui'.half, ui'.sent)
    BY <1>4, <2>2, Collecting
  <2>5. \A t \in Sensor : InStep(t)'
    BY <1>1, <2>2, <2>4, GoOn DEF Untouched
  <2>6. TypeOK'
    BY <1>1, <1>3, <2>1, <2>2 DEF TypeOK, BridgeType
  <2> QED BY <2>3, <2>5, <2>6 DEF CaptureInv
<1>7. CASE ~c.streaming
  <2>1. NextSensor(<<>>, b)
    BY <1>7 DEF Collect
  <2>2. Flow' /\ ui' \in Ui /\ (ui'.op = "idle" \/ ui'.at = "enter") /\ bridge' \in BridgeType
    BY <1>2, <1>3, <1>5, <2>1, FlowNext DEF BridgeType
  <2>3. Fits(daemon[s], link[s], orphans[s], c, "rest", ui'.half, ui'.sent)
    BY <1>4, Collecting, Elsewhere
  <2>4. \A t \in Sensor : InStep(t)'
    BY <1>1, <2>2, <2>3, MoveOn DEF Untouched
  <2>5. TypeOK'
    BY <1>1, <2>2 DEF TypeOK, BridgeType
  <2> QED BY <2>2, <2>4, <2>5 DEF CaptureInv
<1> QED BY <1>6, <1>7

\* Where a call stands, what the loop is and what its sensor is like.
LEMMA Visiting ==
  ASSUME CaptureInv, ui.at \notin {"enter", "idle"}
  PROVE  /\ TypeOK /\ Flow /\ ui \in Ui /\ ui.op # "idle"
         /\ Subject \in Sensor /\ Subject = Head(ui.todo)
         /\ link[Subject] \in Link /\ daemon[Subject] \in Daemon /\ client[Subject] \in Client
         /\ orphans[Subject] \in Orphans
         /\ Fits(daemon[Subject], link[Subject], orphans[Subject], client[Subject],
                 ui.at, ui.half, ui.sent)
         /\ ui.op = "start" <=> ui.at \in Starting
         /\ ui.op = "tick" <=> ui.at \in Ticking
         /\ ui.op \in {"stop", "rollback"} <=> ui.at \in Stopping
<1>1. /\ TypeOK /\ Flow /\ ui \in Ui
  BY DEF CaptureInv, TypeOK
<1>2. /\ ui.op \in {"start", "rollback", "tick", "stop"} /\ Subject \in Sensor
      /\ Subject = Head(ui.todo) /\ AtOf(Subject) = ui.at
  BY Busy
<1>3. Fits(daemon[Subject], link[Subject], orphans[Subject], client[Subject], ui.at, ui.half, ui.sent)
  BY <1>2 DEF CaptureInv, InStep
<1>4. /\ link[Subject] \in Link /\ daemon[Subject] \in Daemon /\ client[Subject] \in Client
      /\ orphans[Subject] \in Orphans
  BY <1>1, <1>2 DEF TypeOK, Orphans
<1>5. /\ ui.op = "start" => ui.at \in Starting
      /\ ui.op = "tick" => ui.at \in Ticking
      /\ ui.op \in {"stop", "rollback"} => ui.at \in Stopping
  BY <1>1, <1>2 DEF Flow
<1> QED BY <1>1, <1>2, <1>3, <1>4, <1>5 DEF Starting, Pinging, Ticking, Stopping

LEMMA ConnectInv ==
  ASSUME CaptureInv, Connect \/ Respawn
  PROVE  CaptureInv'
<1> DEFINE s == Subject
           at2 == IF Connect THEN IF link[s].state # "closed" \/ daemon[s].alive THEN "ping" ELSE "respawn"
                  ELSE "reping"
<1>0. /\ ui.at \in {"connect", "respawn"}
      /\ Connect => ui.at = "connect"
      /\ Respawn => ui.at = "respawn"
      /\ UNCHANGED <<orphans, client, bridge, began, due, failed, spent>>
  BY DEF Connect, Respawn, history
<1>1. /\ TypeOK /\ Flow /\ ui \in Ui /\ ui.op = "start" /\ s \in Sensor
      /\ link[s] \in Link /\ daemon[s] \in Daemon
      /\ Fits(daemon[s], link[s], orphans[s], client[s], ui.at, ui.half, ui.sent)
  BY <1>0, Visiting DEF Starting
<1>2. Goto(at2) /\ at2 \in {"ping", "respawn", "reping"}
  BY <1>0 DEF Connect, Respawn
<1>3. /\ ui' \in Ui /\ ui'.op = ui.op /\ ui'.todo = ui.todo /\ ui'.started = ui.started
      /\ ui'.half = ui.half /\ ui'.at = at2 /\ ui'.sent = FALSE
  <2>1. at2 \in Local \cup DOMAIN RequestAt
    BY <1>2, Calls DEF Local
  <2> QED BY <1>1, <1>2, <2>1, Goes
<1> HIDE DEF at2
<1>4. Flow'
  <2>1. Running' = Running /\ ui.op # "idle" /\ ui.op = "start"
    BY <1>0, <1>1, SameRunning
  <2>2. at2 \in Starting
    BY <1>2 DEF Starting, Pinging
  <2> QED BY <1>0, <1>3, <2>1, <2>2, FlowGoOn
<1>5. /\ daemon' \in [Sensor -> Daemon] /\ link' \in [Sensor -> Link]
      /\ \A t \in Sensor \ {s} : Untouched(t)
      /\ Fits(daemon'[s], link'[s], orphans'[s], client'[s], at2, ui'.half, FALSE)
  <2>1. CASE Connect /\ (link[s].state # "closed" \/ daemon[s].alive)
    <3>1. daemon' = daemon /\ link' = [link EXCEPT ![s] = Opened(link[s])]
      BY <2>1 DEF Connect, Open, Opened
    <3>2. at2 = "ping"
      BY <2>1 DEF at2
    <3>3. Opened(link[s]) \in Link /\ Fits(daemon[s], Opened(link[s]), orphans[s], client[s], "ping", ui.half, FALSE)
      BY <1>0, <1>1, <2>1, Connecting
    <3> QED BY <1>0, <1>1, <1>3, <3>1, <3>2, <3>3 DEF TypeOK, Untouched
  <2>2. CASE Connect /\ ~(link[s].state # "closed" \/ daemon[s].alive)
    <3>1. daemon' = daemon /\ link' = link
      BY <2>2 DEF Connect
    <3>2. at2 = "respawn"
      BY <2>2 DEF at2
    <3>3. Fits(daemon[s], link[s], orphans[s], client[s], "respawn", ui.half, FALSE)
      BY <1>0, <1>1, <2>2, Connecting
    <3> QED BY <1>0, <1>1, <1>3, <3>1, <3>2, <3>3 DEF TypeOK, Untouched
  <2>3. CASE Respawn
    <3> DEFINE d2 == IF daemon[s].alive THEN daemon[s] ELSE Spawned
    <3>1. daemon' = [daemon EXCEPT ![s] = d2] /\ link' = [link EXCEPT ![s] = Opened(link[s])]
      BY <2>3 DEF Respawn, Open, Opened
    <3>2. at2 = "reping"
      BY <1>0, <2>3 DEF at2
    <3>3. Opened(link[s]) \in Link /\ Fits(d2, Opened(link[s]), orphans[s], client[s], "reping", ui.half, FALSE)
      BY <1>0, <1>1, <2>3, Respawning
    <3>4. d2 \in Daemon
      BY <1>1 DEF Spawned, Daemon
    <3> HIDE DEF d2
    <3> QED BY <1>0, <1>1, <1>3, <3>1, <3>2, <3>3, <3>4 DEF TypeOK, Untouched
  <2> QED BY <2>1, <2>2, <2>3
<1>6. \A t \in Sensor : InStep(t)'
  BY <1>0, <1>2, <1>3, <1>5, GoOn
<1>7. TypeOK'
  BY <1>0, <1>1, <1>3, <1>5 DEF TypeOK
<1> QED BY <1>4, <1>6, <1>7 DEF CaptureInv

LEMMA SendInv ==
  ASSUME CaptureInv, Send
  PROVE  CaptureInv'
<1> DEFINE s == Subject
<1>1. /\ ui.at \in DOMAIN RequestAt /\ ~ui.sent /\ ui.at \notin {"enter", "idle"}
      /\ UNCHANGED <<daemon, orphans, client, bridge, began, due, failed, spent>>
      /\ ui' = [ui EXCEPT !.sent = TRUE]
  BY Calls DEF Send, Calling, history
<1>2. /\ TypeOK /\ Flow /\ ui \in Ui /\ ui.op # "idle" /\ s \in Sensor /\ link[s] \in Link
      /\ Fits(daemon[s], link[s], orphans[s], client[s], ui.at, ui.half, ui.sent)
      /\ ui.half \in {"adapter", "backend"} /\ ui.sent = FALSE
      /\ ui.op = "start" => ui.at \in Starting
      /\ ui.op = "tick" => ui.at \in Ticking
      /\ ui.op \in {"stop", "rollback"} => ui.at \in Stopping
  BY <1>1, Visiting DEF Ui
<1>0. Fits(daemon[s], link[s], orphans[s], client[s], ui.at, ui.half, FALSE)
  BY <1>2, Zenon
<1>3. /\ ui' \in Ui /\ ui'.op = ui.op /\ ui'.todo = ui.todo /\ ui'.started = ui.started
      /\ ui'.half = ui.half /\ ui'.at = ui.at /\ ui'.sent = TRUE
  <2>1. ui' \in Ui
    BY <1>1, <1>2 DEF Ui
  <2> QED BY <1>1, <1>2, <2>1 DEF Ui
<1>4. Flow'
  <2>1. Running' = Running /\ bridge'.state = bridge.state
    BY <1>1, SameRunning
  <2>2. ui.op \in {"stop", "rollback"} =>
          Running = In(ui.todo) \ (IF ui.at \in {"collect", "hush"} THEN {Head(ui.todo)} ELSE {})
    BY <1>2 DEF Flow
  <2> QED BY <1>2, <1>3, <2>1, <2>2, FlowGoOn
<1>5. /\ link' \in [Sensor -> Link] /\ \A t \in Sensor \ {s} : Untouched(t)
      /\ Fits(daemon'[s], link'[s], orphans'[s], client'[s], ui.at, ui'.half, TRUE)
  <2>1. CASE link[s].state = "open"
    <3> DEFINE l2 == [link[s] EXCEPT !.toDaemon = Append(@, RequestAt[ui.at])]
    <3>1. l2 \in Link /\ Fits(daemon[s], l2, orphans[s], client[s], ui.at, ui.half, TRUE)
      <4>1. link[s] \in Link /\ ui.at \in DOMAIN RequestAt /\ ui.half \in {"adapter", "backend"}
        BY <1>1, <1>2
      <4> QED BY <1>0, <2>1, <4>1, Sending
    <3>2. link' = [link EXCEPT ![s] = l2]
      BY <2>1 DEF Send
    <3> HIDE DEF l2
    <3> QED BY <1>1, <1>2, <1>3, <3>1, <3>2 DEF TypeOK, Untouched
  <2>2. CASE link[s].state # "open"
    <3>1. Fits(daemon[s], link[s], orphans[s], client[s], ui.at, ui.half, TRUE)
      BY <1>0, <1>1, <1>2, Sending
    <3>2. link' = link
      BY <2>2 DEF Send
    <3> QED BY <1>1, <1>2, <1>3, <3>1, <3>2 DEF TypeOK, Untouched
  <2> QED BY <2>1, <2>2
<1>6. \A t \in Sensor : InStep(t)'
  BY <1>1, <1>3, <1>5, GoOn
<1>7. TypeOK'
  BY <1>1, <1>2, <1>3, <1>5 DEF TypeOK
<1> QED BY <1>4, <1>6, <1>7 DEF CaptureInv

-----------------------------------------------------------------------------
(* ... and what follows a call.                                             *)

\* The answer that was taken from the head of the connection, or nothing came.
Outcome(l, request, ok, rest) ==
  \/ /\ l.toClient # <<>>
     /\ Left(rest, l.toClient, 0) \/ Left(rest, l.toClient, 1)
     /\ ok => Head(l.toClient).to = request /\ rest = Tail(l.toClient)
  \/ l.toClient = <<>> /\ rest = <<>> /\ ~ok

Answering(s, ok, pts, rest) ==
  /\ CaptureInv /\ ui.at \in DOMAIN RequestAt /\ ui.sent = TRUE /\ s = Subject
  /\ ok \in BOOLEAN /\ pts \in SUBSET Point /\ rest \in Seq(Answer)
  /\ Outcome(link[s], RequestAt[ui.at], ok, rest)
  /\ UNCHANGED <<daemon, began, due>>
  /\ spent' \in [{"starts", "scans", "late", "crashes"} -> Nat]

After(l, rest) == [l EXCEPT !.toClient = rest]

LEMMA OutcomeFits ==
  ASSUME NEW d, NEW l \in Link, NEW o, NEW c, NEW at, NEW half, NEW sent, NEW request,
         NEW ok \in BOOLEAN, NEW rest \in Seq(Answer), Outcome(l, request, ok, rest),
         Fits(d, l, o, c, at, half, sent)
  PROVE  After(l, rest) \in Link /\ Fits(d, After(l, rest), o, c, at, half, sent)
<1>1. CASE l.toClient # <<>>
  <2>1. Left(rest, l.toClient, 0) \/ Left(rest, l.toClient, 1)
    BY <1>1 DEF Outcome
  <2> QED BY <1>1, <2>1, AnswerTaken DEF After
<1>2. CASE l.toClient = <<>>
  <2> DEFINE l2 == After(l, rest)
  <2>1. rest = l.toClient
    BY <1>2 DEF Outcome
  <2>2. l2 \in Link /\ l2.state = l.state /\ l2.toDaemon = l.toDaemon /\ l2.toClient = l.toClient
    BY <2>1 DEF After, Link
  <2>3. Asked(l2) = Asked(l)
    BY <2>2 DEF Asked
  <2> HIDE DEF l2
  <2>4. Sound(d, l, o, c) /\ Placed(d, l, c, at, half, sent)
    BY DEF Fits
  <2>5. Sound(d, l2, o, c)
    BY <2>2, <2>3, <2>4 DEF Sound
  <2>6. Placed(d, l2, c, at, half, sent)
    BY <2>2, <2>3, <2>4 DEF Placed
  <2> QED BY <2>2, <2>5, <2>6 DEF Fits, l2
<1> QED BY <1>1, <1>2

LEMMA OneField ==
  ASSUME client \in [Sensor -> Client], NEW s \in Sensor, NEW field, NEW value,
         Set(s, field, value),
         \/ field \in {"connected", "streaming", "running"} /\ value \in BOOLEAN
         \/ field \in {"map", "trajectory"} /\ value \in SUBSET Point
  PROVE  /\ client' \in [Sensor -> Client]
         /\ \A t \in Sensor \ {s} : client'[t] = client[t]
         /\ client'[s].connected = IF field = "connected" THEN value ELSE client[s].connected
         /\ client'[s].running = IF field = "running" THEN value ELSE client[s].running
         /\ client'[s].map = IF field = "map" THEN value ELSE client[s].map
         /\ client'[s].trajectory = IF field = "trajectory" THEN value ELSE client[s].trajectory
<1> DEFINE c == client[s]
           c2 == [c EXCEPT ![field] = value]
<1>1. client' = [client EXCEPT ![s] = c2]
  BY DEF Set
<1>2. c \in Client
  OBVIOUS
<1>3. /\ c2 \in Client
      /\ c2.connected = IF field = "connected" THEN value ELSE c.connected
      /\ c2.running = IF field = "running" THEN value ELSE c.running
      /\ c2.map = IF field = "map" THEN value ELSE c.map
      /\ c2.trajectory = IF field = "trajectory" THEN value ELSE c.trajectory
  <2>1. CASE field = "connected"
    <3>1. c2 = [c EXCEPT !.connected = value]
      BY <2>1
    <3> QED BY <1>2, <2>1, <3>1 DEF Client
  <2>2. CASE field = "streaming"
    <3>1. c2 = [c EXCEPT !.streaming = value]
      BY <2>2
    <3> QED BY <1>2, <2>2, <3>1 DEF Client
  <2>3. CASE field = "running"
    <3>1. c2 = [c EXCEPT !.running = value]
      BY <2>3
    <3> QED BY <1>2, <2>3, <3>1 DEF Client
  <2>4. CASE field = "map"
    <3>1. c2 = [c EXCEPT !.map = value]
      BY <2>4
    <3> QED BY <1>2, <2>4, <3>1 DEF Client
  <2>5. CASE field = "trajectory"
    <3>1. c2 = [c EXCEPT !.trajectory = value]
      BY <2>5
    <3> QED BY <1>2, <2>5, <3>1 DEF Client
  <2> QED BY <2>1, <2>2, <2>3, <2>4, <2>5
<1> HIDE DEF c2
<1>4. client' \in [Sensor -> Client] /\ client'[s] = c2 /\ \A t \in Sensor \ {s} : client'[t] = client[t]
  BY <1>1, <1>3
<1> QED BY <1>3, <1>4

LEMMA Streams ==
  ASSUME client \in [Sensor -> Client], NEW s \in Sensor, NEW value \in BOOLEAN,
         Set(s, "streaming", value)
  PROVE  /\ client' \in [Sensor -> Client]
         /\ \A t \in Sensor \ {s} : client'[t] = client[t]
         /\ client'[s].connected = client[s].connected
         /\ client'[s].running = client[s].running
<1> DEFINE c2 == [client[s] EXCEPT !.streaming = value]
<1>1. client' = [client EXCEPT ![s] = c2]
  BY DEF Set
<1>2. c2 \in Client /\ c2.connected = client[s].connected /\ c2.running = client[s].running
  BY DEF Client
<1> QED BY <1>1, <1>2

\* The facts of every answer.
LEMMA AnswerFacts ==
  ASSUME NEW s, NEW ok, NEW pts, NEW rest, Answering(s, ok, pts, rest)
  PROVE  /\ CaptureInv /\ TypeOK /\ Flow /\ ui \in Ui /\ ui.op # "idle"
         /\ ui.at \in DOMAIN RequestAt /\ ui.at \notin {"enter", "idle"}
         /\ s = Subject /\ s \in Sensor /\ s = Head(ui.todo)
         /\ link[s] \in Link /\ daemon[s] \in Daemon /\ client[s] \in Client
         /\ orphans[s] \in Orphans
         /\ Fits(daemon[s], link[s], orphans[s], client[s], ui.at, ui.half, TRUE)
         /\ After(link[s], rest) \in Link
         /\ Fits(daemon[s], After(link[s], rest), orphans[s], client[s], ui.at, ui.half, TRUE)
         /\ ui.op = "start" <=> ui.at \in Starting
         /\ ui.op = "tick" <=> ui.at \in Ticking
         /\ ui.op \in {"stop", "rollback"} <=> ui.at \in Stopping
         /\ Leaves(s, rest) =>
              /\ link' \in [Sensor -> Link] /\ link'[s] = After(link[s], rest)
              /\ \A t \in Sensor \ {s} : link'[t] = link[t]
<1>1. /\ CaptureInv /\ ui.at \in DOMAIN RequestAt /\ ui.at \notin {"enter", "idle"}
      /\ s = Subject /\ ui.sent = TRUE
  BY Calls DEF Answering
<1>2. /\ TypeOK /\ Flow /\ ui \in Ui /\ ui.op # "idle"
      /\ s \in Sensor /\ s = Head(ui.todo)
      /\ link[s] \in Link /\ daemon[s] \in Daemon /\ client[s] \in Client
      /\ orphans[s] \in Orphans
      /\ Fits(daemon[s], link[s], orphans[s], client[s], ui.at, ui.half, ui.sent)
      /\ ui.op = "start" <=> ui.at \in Starting
      /\ ui.op = "tick" <=> ui.at \in Ticking
      /\ ui.op \in {"stop", "rollback"} <=> ui.at \in Stopping
  BY <1>1, Visiting
<1>3. Fits(daemon[s], link[s], orphans[s], client[s], ui.at, ui.half, TRUE)
  BY <1>1, <1>2, Zenon
<1>4. /\ After(link[s], rest) \in Link
      /\ Fits(daemon[s], After(link[s], rest), orphans[s], client[s], ui.at, ui.half, TRUE)
  BY <1>2, <1>3, OutcomeFits DEF Answering
<1>5. ASSUME Leaves(s, rest)
      PROVE  /\ link' \in [Sensor -> Link] /\ link'[s] = After(link[s], rest)
             /\ \A t \in Sensor \ {s} : link'[t] = link[t]
  <2>1. link' = [link EXCEPT ![s] = After(link[s], rest)]
    BY <1>5 DEF Leaves, After
  <2>2. link \in [Sensor -> Link]
    BY <1>2 DEF TypeOK
  <2> QED BY <1>2, <1>4, <2>1, <2>2
<1> QED BY <1>1, <1>2, <1>3, <1>4, <1>5

LEMMA PingInv ==
  ASSUME NEW s, NEW ok, NEW pts, NEW rest, Answering(s, ok, pts, rest),
         ui.at \in Pinging, Ping(s, ok, rest)
  PROVE  CaptureInv'
<1>1. /\ CaptureInv /\ TypeOK /\ Flow /\ ui \in Ui /\ ui.op = "start"
      /\ ui.at # "idle"
      /\ s = Subject /\ s \in Sensor
      /\ link[s] \in Link /\ client[s] \in Client /\ orphans[s] \in Orphans
      /\ Fits(daemon[s], link[s], orphans[s], client[s], ui.at, ui.half, TRUE)
  BY AnswerFacts DEF Starting
<1>2. UNCHANGED <<daemon, bridge, began, due>> /\ spent' \in [{"starts", "scans", "late", "crashes"} -> Nat]
      /\ Outcome(link[s], RequestAt[ui.at], ok, rest) /\ ok \in BOOLEAN /\ RequestAt[ui.at] = "PING"
  BY DEF Answering, Ping, RequestAt, Pinging
<1>3. CASE ok
  <2>1. Goto("start") /\ Leaves(s, rest) /\ UNCHANGED <<orphans, failed>>
        /\ client' = IF ui.half = "adapter" THEN [client EXCEPT ![s].connected = TRUE] ELSE client
    BY <1>3 DEF Ping
  <2>2. /\ ui' \in Ui /\ ui'.op = ui.op /\ ui'.todo = ui.todo /\ ui'.started = ui.started
        /\ ui'.half = ui.half /\ ui'.at = "start" /\ ui'.sent = FALSE
    BY <1>1, <2>1, Goes, Calls
  <2>3. /\ link' \in [Sensor -> Link] /\ link'[s] = After(link[s], rest)
        /\ \A t \in Sensor \ {s} : link'[t] = link[t]
    BY <2>1, AnswerFacts
  <2>4. /\ client' \in [Sensor -> Client] /\ client'[s].running = client[s].running
        /\ \A t \in Sensor \ {s} : client'[t] = client[t]
        /\ client'[s].connected \/ (client'[s] = client[s] /\ ui.half = "backend")
    <3>1. client \in [Sensor -> Client] /\ ui.half \in {"adapter", "backend"}
      BY <1>1 DEF TypeOK, Ui
    <3>2. CASE ui.half = "adapter"
      <4>1. Set(s, "connected", TRUE)
        BY <2>1, <3>2 DEF Set
      <4>2. /\ client' \in [Sensor -> Client] /\ client'[s].running = client[s].running
            /\ \A t \in Sensor \ {s} : client'[t] = client[t]
            /\ client'[s].connected = TRUE
        BY <1>1, <3>1, <4>1, OneField
      <4> QED BY <4>2
    <3>3. CASE ui.half # "adapter"
      BY <2>1, <3>1, <3>3
    <3> QED BY <3>2, <3>3
  <2>5. Running' = Running
    BY <1>1, <2>4, SameRunning
  <2>6. Flow'
    BY <1>1, <1>2, <2>2, <2>5, FlowGoOn DEF Starting
  <2>7. Fits(daemon'[s], link'[s], orphans'[s], client'[s], ui'.at, ui'.half, ui'.sent)
    <3>1. link[s].toClient # <<>> /\ Head(link[s].toClient).to = "PING" /\ rest = Tail(link[s].toClient)
      BY <1>2, <1>3 DEF Outcome
    <3>2. Fits(daemon[s], After(link[s], rest), orphans[s], client'[s], "start", ui.half, FALSE)
      <4>1. /\ client'[s].running = client[s].running
            /\ client'[s].connected \/ (client'[s] = client[s] /\ ui.half = "backend")
        BY <2>4
      <4>2. After(link[s], rest) = [link[s] EXCEPT !.toClient = Tail(link[s].toClient)]
        BY <3>1 DEF After
      <4>3. Fits(daemon[s], link[s], orphans[s], client[s], ui.at, ui.half, TRUE) /\ link[s] \in Link
        BY <1>1
      <4>4. Fits(daemon[s], [link[s] EXCEPT !.toClient = Tail(link[s].toClient)], orphans[s],
                 client'[s], "start", ui.half, FALSE)
        BY <3>1, <4>1, <4>3, Pinged
      <4> QED BY <4>2, <4>4
    <3> QED BY <1>2, <2>1, <2>2, <2>3, <3>2
  <2>8. \A t \in Sensor : InStep(t)'
    BY <1>1, <1>2, <2>1, <2>2, <2>3, <2>4, <2>7, GoOn DEF Untouched
  <2>9. TypeOK'
    BY <1>1, <1>2, <2>1, <2>2, <2>3, <2>4 DEF TypeOK
  <2> QED BY <2>6, <2>8, <2>9 DEF CaptureInv
<1>4. CASE ~ok
  <2> DEFINE o2 == Abandoned(link[s], orphans[s])
  <2>1. Disconnect(s) /\ UNCHANGED client
    BY <1>4 DEF Ping
  <2>2. link' = [link EXCEPT ![s] = Closed] /\ orphans' = [orphans EXCEPT ![s] = o2]
    BY <2>1 DEF Disconnect, Abandoned
  <2> HIDE DEF o2
  <2>3. /\ o2 \in Orphans
        /\ Fits(daemon[s], Closed, o2, client[s], "respawn", ui.half, FALSE)
        /\ \A half2, sent2 : Fits(daemon[s], Closed, o2, client[s], "rest", half2, sent2)
    <3>1. /\ Fits(daemon[s], link[s], orphans[s], client[s], ui.at, ui.half, TRUE)
          /\ link[s] \in Link /\ orphans[s] \in Orphans
      BY <1>1
    <3>2. ASSUME NEW half2, NEW sent2
          PROVE  /\ o2 \in Orphans
                 /\ Fits(daemon[s], Closed, o2, client[s], "respawn", ui.half, FALSE)
                 /\ Fits(daemon[s], Closed, o2, client[s], "rest", half2, sent2)
      BY <3>1, PingLost DEF o2
    <3> QED BY <3>2
  <2>4. /\ link' \in [Sensor -> Link] /\ orphans' \in [Sensor -> Orphans]
        /\ link'[s] = Closed /\ orphans'[s] = o2
        /\ \A t \in Sensor \ {s} : Untouched(t)
    <3>1. link \in [Sensor -> Link] /\ orphans \in [Sensor -> Orphans]
      BY <1>1 DEF TypeOK, Orphans
    <3>2. o2 \in Orphans /\ Closed \in Link
      BY <2>3, NewLinks
    <3>3. /\ link' \in [Sensor -> Link] /\ orphans' \in [Sensor -> Orphans]
          /\ link'[s] = Closed /\ orphans'[s] = o2
          /\ \A t \in Sensor \ {s} : link'[t] = link[t] /\ orphans'[t] = orphans[t]
      BY <1>1, <2>2, <3>1, <3>2
    <3> QED BY <1>2, <2>1, <3>3 DEF Untouched
  <2>5. Running' = Running
    BY <2>1, SameRunning
  <2>6. CASE ui.at = "ping"
    <3>1. Goto("respawn") /\ UNCHANGED failed
      BY <1>4, <2>6 DEF Ping
    <3>2. /\ ui' \in Ui /\ ui'.op = ui.op /\ ui'.todo = ui.todo /\ ui'.started = ui.started
          /\ ui'.half = ui.half /\ ui'.at = "respawn" /\ ui'.sent = FALSE
      BY <1>1, <3>1, Goes DEF Local
    <3>3. Flow'
      BY <1>1, <1>2, <2>5, <3>2, FlowGoOn DEF Starting
    <3>4. Fits(daemon'[s], link'[s], orphans'[s], client'[s], ui'.at, ui'.half, ui'.sent)
      BY <1>2, <2>1, <2>3, <2>4, <3>2
    <3>5. \A t \in Sensor : InStep(t)'
      BY <1>1, <2>4, <3>2, <3>4, GoOn
    <3>6. TypeOK'
      BY <1>1, <1>2, <2>1, <2>4, <3>1, <3>2 DEF TypeOK, Orphans
    <3> QED BY <3>3, <3>5, <3>6 DEF CaptureInv
  <2>7. CASE ui.at # "ping"
    <3>1. Fail
      BY <1>4, <2>7 DEF Ping
    <3>2. Flow' /\ ui' \in Ui /\ (ui'.op = "idle" \/ ui'.at = "enter") /\ failed' \in BOOLEAN
      BY <1>1, <1>2, <2>5, <3>1, FlowFail
    <3>3. Fits(daemon'[s], link'[s], orphans'[s], client'[s], "rest", ui'.half, ui'.sent)
      BY <1>2, <2>1, <2>3, <2>4
    <3>4. \A t \in Sensor : InStep(t)'
      BY <1>1, <2>4, <3>2, <3>3, MoveOn
    <3>5. TypeOK'
      BY <1>1, <1>2, <2>1, <2>4, <3>2 DEF TypeOK, Orphans
    <3> QED BY <3>2, <3>4, <3>5 DEF CaptureInv
  <2> QED BY <2>6, <2>7
<1> QED BY <1>2, <1>3, <1>4

LEMMA StartInv ==
  ASSUME NEW s, NEW ok, NEW pts, NEW rest, Answering(s, ok, pts, rest),
         ui.at = "start", Start(s, ok, rest)
  PROVE  CaptureInv'
<1>1. /\ CaptureInv /\ TypeOK /\ Flow /\ ui \in Ui /\ ui.op = "start"
      /\ ui.at # "idle" /\ s = Subject /\ s \in Sensor
  BY AnswerFacts DEF Starting
<1>2. /\ link[s] \in Link /\ After(link[s], rest) \in Link
      /\ Fits(daemon[s], link[s], orphans[s], client[s], "start", ui.half, TRUE)
      /\ Fits(daemon[s], After(link[s], rest), orphans[s], client[s], "start", ui.half, TRUE)
  BY AnswerFacts
<1>3. UNCHANGED <<daemon, orphans, began, due>>
      /\ spent' \in [{"starts", "scans", "late", "crashes"} -> Nat]
      /\ Outcome(link[s], "START", ok, rest) /\ ok \in BOOLEAN
  BY DEF Answering, Start, RequestAt
<1>4. /\ link' \in [Sensor -> Link] /\ link'[s] = After(link[s], rest)
      /\ \A t \in Sensor \ {s} : link'[t] = link[t]
  <2>1. Leaves(s, rest)
    BY DEF Start
  <2> QED BY <2>1, AnswerFacts
<1>5. client \in [Sensor -> Client] /\ ui.half \in {"adapter", "backend"} /\ failed \in BOOLEAN
  BY <1>1 DEF TypeOK, Ui
<1>6. CASE ~ok
  <2>1. Fail /\ UNCHANGED <<client, bridge>>
    BY <1>6 DEF Start
  <2>2. Running' = Running
    BY <2>1, SameRunning
  <2>3. Flow' /\ ui' \in Ui /\ (ui'.op = "idle" \/ ui'.at = "enter") /\ failed' \in BOOLEAN
    BY <1>1, <2>1, <2>2, FlowFail
  <2>4. Fits(daemon'[s], link'[s], orphans'[s], client'[s], "rest", ui'.half, ui'.sent)
    <3>1. Fits(daemon[s], After(link[s], rest), orphans[s], client[s], "rest", ui'.half, ui'.sent)
      BY <1>2, StartFailed
    <3> QED BY <1>3, <1>4, <2>1, <3>1
  <2>5. \A t \in Sensor \ {s} : Untouched(t)
    BY <1>3, <1>4, <2>1 DEF Untouched
  <2>6. \A t \in Sensor : InStep(t)'
    BY <1>1, <2>3, <2>4, <2>5, MoveOn
  <2>7. TypeOK'
    BY <1>1, <1>3, <1>4, <2>1, <2>3 DEF TypeOK
  <2> QED BY <2>3, <2>6, <2>7 DEF CaptureInv
<1>7. ASSUME ok
      PROVE  /\ link[s].toClient # <<>> /\ Head(link[s].toClient).to = "START"
             /\ After(link[s], rest) = [link[s] EXCEPT !.toClient = Tail(link[s].toClient)]
  BY <1>3, <1>7 DEF Outcome, After
<1>8. CASE ok /\ ui.half = "adapter"
  <2>1. /\ Set(s, "streaming", TRUE) /\ UNCHANGED <<bridge, failed>>
        /\ ui' = [ui EXCEPT !.half = "backend", !.at = "connect", !.sent = FALSE, !.dirty = FALSE]
    BY <1>8 DEF Start
  <2>2. /\ client' \in [Sensor -> Client] /\ client'[s].running = client[s].running
        /\ client'[s].connected = client[s].connected
        /\ \A t \in Sensor \ {s} : client'[t] = client[t]
    <3>1. client \in [Sensor -> Client] /\ s \in Sensor /\ Set(s, "streaming", TRUE)
      BY <1>1, <1>5, <2>1
    <3> QED BY <3>1, Streams
  <2>3. /\ ui' \in Ui /\ ui'.op = ui.op /\ ui'.todo = ui.todo /\ ui'.started = ui.started
        /\ ui'.half = "backend" /\ ui'.at = "connect" /\ ui'.sent = FALSE
    <3>1. ui' \in Ui
      BY <1>1, <2>1 DEF Ui, Local
    <3> QED BY <1>1, <2>1, <3>1 DEF Ui
  <2>4. Running' = Running
    BY <1>1, <2>2, SameRunning
  <2>5. Flow'
    BY <1>1, <2>1, <2>3, <2>4, FlowGoOn DEF Starting
  <2>6. Fits(daemon'[s], link'[s], orphans'[s], client'[s], ui'.at, ui'.half, ui'.sent)
    <3>1. Fits(daemon[s], After(link[s], rest), orphans[s], client'[s], "connect", "backend", FALSE)
      <4>1. /\ link[s].toClient # <<>> /\ Head(link[s].toClient).to = "START"
            /\ After(link[s], rest) = [link[s] EXCEPT !.toClient = Tail(link[s].toClient)]
        BY <1>7, <1>8
      <4>2. client'[s].connected = client[s].connected /\ client'[s].running = client[s].running
        BY <2>2
      <4>3. Fits(daemon[s], link[s], orphans[s], client[s], "start", ui.half, TRUE) /\ link[s] \in Link
        BY <1>2
      <4>4. Fits(daemon[s], [link[s] EXCEPT !.toClient = Tail(link[s].toClient)], orphans[s],
                 client'[s], "connect", "backend", FALSE)
        BY <4>1, <4>2, <4>3, Started
      <4> QED BY <4>1, <4>4
    <3> QED BY <1>3, <1>4, <2>3, <3>1
  <2>7. \A t \in Sensor \ {s} : Untouched(t)
    BY <1>3, <1>4, <2>2 DEF Untouched
  <2>8. \A t \in Sensor : InStep(t)'
    BY <1>1, <2>3, <2>6, <2>7, GoOn
  <2>9. TypeOK'
    BY <1>1, <1>3, <1>4, <2>1, <2>2, <2>3 DEF TypeOK
  <2> QED BY <2>5, <2>8, <2>9 DEF CaptureInv
<1>9. CASE ok /\ ui.half = "backend"
  <2>1. Set(s, "running", TRUE) /\ NextSensor(Append(ui.started, s), bridge) /\ UNCHANGED failed
    BY <1>9 DEF Start
  <2>2. /\ client' \in [Sensor -> Client] /\ client'[s].running = TRUE
        /\ client'[s].connected = client[s].connected
        /\ \A t \in Sensor \ {s} : client'[t] = client[t]
    <3>1. client \in [Sensor -> Client] /\ s \in Sensor /\ Set(s, "running", TRUE)
      BY <1>1, <1>5, <2>1
    <3> QED BY <3>1, OneField
  <2>3. Running' = Running \cup {Subject}
    BY <1>1, <2>2 DEF Running
  <2>4. bridge \in BridgeType
    BY <1>1 DEF TypeOK, BridgeType
  <2>5. Flow' /\ ui' \in Ui /\ (ui'.op = "idle" \/ ui'.at = "enter") /\ bridge' \in BridgeType
    BY <1>1, <2>1, <2>3, <2>4, FlowNext DEF BridgeType
  <2>6. Fits(daemon'[s], link'[s], orphans'[s], client'[s], "rest", ui'.half, ui'.sent)
    <3>1. Fits(daemon[s], After(link[s], rest), orphans[s], client'[s], "rest", ui'.half, ui'.sent)
      <4>1. /\ link[s].toClient # <<>> /\ Head(link[s].toClient).to = "START"
            /\ After(link[s], rest) = [link[s] EXCEPT !.toClient = Tail(link[s].toClient)]
        BY <1>7, <1>9
      <4>2. client'[s].connected = client[s].connected /\ client'[s].running /\ ui.half = "backend"
        BY <1>9, <2>2
      <4>3. Fits(daemon[s], link[s], orphans[s], client[s], "start", ui.half, TRUE) /\ link[s] \in Link
        BY <1>2
      <4>4. Fits(daemon[s], [link[s] EXCEPT !.toClient = Tail(link[s].toClient)], orphans[s],
                 client'[s], "rest", ui'.half, ui'.sent)
        BY <4>1, <4>2, <4>3, Started
      <4> QED BY <4>1, <4>4
    <3> QED BY <1>3, <1>4, <3>1
  <2>7. \A t \in Sensor \ {s} : Untouched(t)
    BY <1>3, <1>4, <2>2 DEF Untouched
  <2>8. \A t \in Sensor : InStep(t)'
    BY <1>1, <2>5, <2>6, <2>7, MoveOn
  <2>9. TypeOK'
    BY <1>1, <1>3, <1>4, <1>5, <2>1, <2>2, <2>5 DEF TypeOK, BridgeType
  <2> QED BY <2>5, <2>8, <2>9 DEF CaptureInv
<1> QED BY <1>3, <1>5, <1>6, <1>8, <1>9

\* The requests of a tick, whatever they return.
LEMMA TickInv ==
  ASSUME NEW s, NEW ok, NEW pts, NEW rest, Answering(s, ok, pts, rest),
         \/ ui.at = "telemetry" /\ Telemetry(s, ok, pts, rest)
         \/ ui.at = "trajectory" /\ TrajectoryRead(s, ok, pts, rest)
         \/ ui.at = "new" /\ NewPoints(s, ok, pts, rest)
  PROVE  CaptureInv'
<1>1. /\ CaptureInv /\ TypeOK /\ Flow /\ ui \in Ui /\ ui.op = "tick" /\ ui.at \in Ticking
      /\ ui.at # "idle" /\ s = Subject /\ s \in Sensor
  BY AnswerFacts DEF Ticking
<1>2. Fits(daemon[s], After(link[s], rest), orphans[s], client[s], ui.at, ui.half, TRUE)
  BY AnswerFacts
<1>3. UNCHANGED <<daemon, orphans, began, due, failed>>
      /\ spent' \in [{"starts", "scans", "late", "crashes"} -> Nat]
      /\ pts \in SUBSET Point
  BY DEF Answering, Telemetry, TrajectoryRead, NewPoints
<1>4. /\ link' \in [Sensor -> Link] /\ link'[s] = After(link[s], rest)
      /\ \A t \in Sensor \ {s} : link'[t] = link[t]
  <2>1. Leaves(s, rest)
    BY DEF Telemetry, TrajectoryRead, NewPoints
  <2> QED BY <2>1, AnswerFacts
<1>5. client \in [Sensor -> Client] /\ bridge \in BridgeType /\ failed \in BOOLEAN
  BY <1>1 DEF TypeOK, BridgeType
<1>6. /\ client' \in [Sensor -> Client] /\ client'[s].running = client[s].running
      /\ client'[s].connected = client[s].connected
      /\ \A t \in Sensor \ {s} : client'[t] = client[t]
  <2>1. CASE client' = client
    BY <1>1, <1>5, <2>1
  <2>2. CASE Set(s, "trajectory", pts)
    BY <1>1, <1>3, <1>5, <2>2, OneField
  <2>3. CASE client' = [client EXCEPT ![s].map = @ \cup pts]
    <3>1. client[s].map \cup pts \in SUBSET Point
      BY <1>1, <1>3, <1>5 DEF Client
    <3>2. Set(s, "map", client[s].map \cup pts)
      BY <2>3 DEF Set
    <3> QED BY <1>1, <1>5, <3>1, <3>2, OneField
  <2> QED BY <2>1, <2>2, <2>3 DEF Telemetry, TrajectoryRead, NewPoints
<1>7. Running' = Running
  BY <1>1, <1>6, SameRunning
<1>8. \A t \in Sensor \ {s} : Untouched(t)
  BY <1>3, <1>4, <1>6 DEF Untouched
<1>9. CASE \E at \in {"trajectory", "new"} : Goto(at) /\ UNCHANGED bridge
  <2>1. PICK at \in {"trajectory", "new"} : Goto(at) /\ UNCHANGED bridge
    BY <1>9
  <2>2. /\ ui' \in Ui /\ ui'.op = ui.op /\ ui'.todo = ui.todo /\ ui'.started = ui.started
        /\ ui'.half = ui.half /\ ui'.at = at /\ ui'.sent = FALSE
    BY <1>1, <2>1, Goes, Calls
  <2>3. Flow'
    BY <1>1, <1>7, <2>1, <2>2, FlowGoOn DEF Ticking
  <2>4. Fits(daemon'[s], link'[s], orphans'[s], client'[s], ui'.at, ui'.half, ui'.sent)
    <3>1. Fits(daemon[s], After(link[s], rest), orphans[s], client'[s], at, ui.half, FALSE)
      <4>1. at \in Ticking /\ ui.at \in Ticking
        BY <1>1 DEF Ticking
      <4>2. client'[s].running = client[s].running /\ client'[s].connected = client[s].connected
        BY <1>6
      <4> QED BY <1>2, <4>1, <4>2, Ticked
    <3> QED BY <1>3, <1>4, <2>2, <3>1
  <2>5. \A t \in Sensor : InStep(t)'
    BY <1>1, <1>8, <2>1, <2>2, <2>4, GoOn
  <2>6. TypeOK'
    BY <1>1, <1>3, <1>4, <1>6, <2>1, <2>2 DEF TypeOK
  <2> QED BY <2>3, <2>5, <2>6 DEF CaptureInv
<1>10. ASSUME NEW b \in {bridge, Shown(client'[s])}, NextSensor(<<>>, b) PROVE CaptureInv'
  <2>1. b \in BridgeType /\ b.state = bridge.state
    <3>1. client'[s].map \in SUBSET Point /\ client'[s].trajectory \in SUBSET Point
      BY <1>1, <1>6 DEF Client
    <3>2. Shown(client'[s]) = [bridge EXCEPT !.map = [@ EXCEPT ![s] = client'[s].map],
                                             !.trajectory = [@ EXCEPT ![s] = client'[s].trajectory]]
      BY <1>1 DEF Shown
    <3>3. /\ [bridge.map EXCEPT ![s] = client'[s].map] \in [Sensor -> SUBSET Point]
          /\ [bridge.trajectory EXCEPT ![s] = client'[s].trajectory] \in [Sensor -> SUBSET Point]
      BY <1>1, <1>5, <3>1 DEF BridgeType
    <3>4. Shown(client'[s]) \in BridgeType /\ Shown(client'[s]).state = bridge.state
      BY <1>5, <3>2, <3>3 DEF BridgeType
    <3> QED BY <1>5, <3>4
  <2>2. Flow' /\ ui' \in Ui /\ (ui'.op = "idle" \/ ui'.at = "enter") /\ bridge' \in BridgeType
    BY <1>1, <1>7, <1>10, <2>1, FlowNext DEF BridgeType
  <2>3. Fits(daemon'[s], link'[s], orphans'[s], client'[s], "rest", ui'.half, ui'.sent)
    <3>1. Fits(daemon[s], After(link[s], rest), orphans[s], client'[s], "rest", ui'.half, ui'.sent)
      <4>1. ui.at \in Ticking
        BY <1>1
      <4>2. client'[s].running = client[s].running /\ client'[s].connected = client[s].connected
        BY <1>6
      <4> QED BY <1>2, <4>1, <4>2, Ticked
    <3> QED BY <1>3, <1>4, <3>1
  <2>4. \A t \in Sensor : InStep(t)'
    BY <1>1, <1>8, <2>2, <2>3, MoveOn
  <2>5. TypeOK'
    BY <1>1, <1>3, <1>4, <1>5, <1>6, <2>2 DEF TypeOK, BridgeType
  <2> QED BY <2>2, <2>4, <2>5 DEF CaptureInv
<1> QED BY <1>9, <1>10 DEF Telemetry, TrajectoryRead, NewPoints

\* The requests of a stop, whatever they return.
LEMMA StopInv ==
  ASSUME NEW s, NEW ok, NEW pts, NEW rest, Answering(s, ok, pts, rest),
         \/ ui.at = "all" /\ AllPoints(s, ok, pts, rest)
         \/ ui.at = "halt" /\ Halt(s, rest)
         \/ ui.at = "hush" /\ Hush(s, rest)
  PROVE  CaptureInv'
<1>1. /\ CaptureInv /\ TypeOK /\ Flow /\ ui \in Ui /\ ui.op \in {"stop", "rollback"}
      /\ ui.at # "idle" /\ s = Subject /\ s \in Sensor /\ s = Head(ui.todo)
  BY AnswerFacts DEF Stopping
<1>2. Fits(daemon[s], After(link[s], rest), orphans[s], client[s], ui.at, ui.half, TRUE)
  BY AnswerFacts
<1>3. UNCHANGED <<daemon, orphans, began, due, failed>>
      /\ spent' \in [{"starts", "scans", "late", "crashes"} -> Nat]
      /\ pts \in SUBSET Point
  BY DEF Answering, AllPoints, Halt, Hush
<1>4. /\ link' \in [Sensor -> Link] /\ link'[s] = After(link[s], rest)
      /\ \A t \in Sensor \ {s} : link'[t] = link[t]
  <2>1. Leaves(s, rest)
    BY DEF AllPoints, Halt, Hush
  <2> QED BY <2>1, AnswerFacts
<1>5. client \in [Sensor -> Client] /\ bridge \in BridgeType
  BY <1>1 DEF TypeOK, BridgeType
<1>6. /\ client' \in [Sensor -> Client]
      /\ client'[s].running = IF ui.at = "halt" THEN FALSE ELSE client[s].running
      /\ client'[s].connected = client[s].connected
      /\ \A t \in Sensor \ {s} : client'[t] = client[t]
  <2>1. CASE client' = client /\ ui.at # "halt"
    BY <1>1, <1>5, <2>1
  <2>2. CASE Set(s, "map", pts) /\ ui.at # "halt"
    BY <1>1, <1>3, <1>5, <2>2, OneField
  <2>3. CASE Set(s, "running", FALSE) /\ ui.at = "halt"
    <3>1. client \in [Sensor -> Client] /\ s \in Sensor /\ Set(s, "running", FALSE)
      BY <1>1, <1>5, <2>3
    <3>2. /\ client' \in [Sensor -> Client] /\ client'[s].running = FALSE
          /\ client'[s].connected = client[s].connected
          /\ \A t \in Sensor \ {s} : client'[t] = client[t]
      BY <3>1, OneField
    <3> QED BY <2>3, <3>2
  <2>4. CASE Set(s, "streaming", FALSE) /\ ui.at # "halt"
    <3>1. client \in [Sensor -> Client] /\ s \in Sensor /\ Set(s, "streaming", FALSE)
      BY <1>1, <1>5, <2>4
    <3>2. /\ client' \in [Sensor -> Client] /\ client'[s].running = client[s].running
          /\ client'[s].connected = client[s].connected
          /\ \A t \in Sensor \ {s} : client'[t] = client[t]
      BY <3>1, Streams
    <3> QED BY <2>4, <3>2
  <2> QED BY <2>1, <2>2, <2>3, <2>4 DEF AllPoints, Halt, Hush
<1>7. \A t \in Sensor \ {s} : Untouched(t)
  BY <1>3, <1>4, <1>6 DEF Untouched
<1>8. Running = In(ui.todo) \ (IF ui.at \in {"collect", "hush"} THEN {Head(ui.todo)} ELSE {})
  BY <1>1 DEF Flow
<1>9. CASE ui.at \in {"all", "halt"}
  <2> DEFINE at == IF ui.at = "all" THEN "halt" ELSE "collect"
  <2>1. Goto(at) /\ UNCHANGED bridge
    BY <1>9 DEF AllPoints, Halt
  <2>2. at \in Local \cup DOMAIN RequestAt
    BY Calls DEF Local
  <2>3. /\ ui' \in Ui /\ ui'.op = ui.op /\ ui'.todo = ui.todo /\ ui'.started = ui.started
        /\ ui'.half = ui.half /\ ui'.at = at /\ ui'.sent = FALSE
    BY <1>1, <2>1, <2>2, Goes
  <2>4. Running' = In(ui.todo) \ (IF at \in {"collect", "hush"} THEN {Head(ui.todo)} ELSE {})
    <3>1. CASE ui.at = "all"
      <4>1. Running' = Running
        BY <1>1, <1>6, <3>1, SameRunning
      <4> QED BY <1>8, <3>1, <4>1
    <3>2. CASE ui.at = "halt"
      <4>1. Running' = Running \ {s}
        BY <1>1, <1>6, <3>2 DEF Running
      <4> QED BY <1>1, <1>8, <3>2, <4>1
    <3> QED BY <1>9, <3>1, <3>2
  <2>5. Flow'
    <3>1. at \in Stopping
      BY DEF Stopping
    <3>2. ui.op # "idle" /\ ui.op # "start" /\ ui.op # "tick"
      BY <1>1
    <3> HIDE DEF at
    <3> QED BY <1>1, <2>1, <2>3, <2>4, <3>1, <3>2, FlowGoOn
  <2>6. Fits(daemon'[s], link'[s], orphans'[s], client'[s], ui'.at, ui'.half, ui'.sent)
    <3>1. Fits(daemon[s], After(link[s], rest), orphans[s], client'[s], at, ui.half, FALSE)
      <4>1. CASE ui.at = "all"
        BY <1>2, <1>6, <4>1, Ended
      <4>2. CASE ui.at = "halt"
        BY <1>2, <1>6, <4>2, Ended
      <4> QED BY <1>9, <4>1, <4>2
    <3> HIDE DEF at
    <3> QED BY <1>3, <1>4, <2>3, <3>1
  <2>7. \A t \in Sensor : InStep(t)'
    BY <1>1, <1>7, <2>1, <2>3, <2>6, GoOn
  <2>8. TypeOK'
    BY <1>1, <1>3, <1>4, <1>6, <2>1, <2>3 DEF TypeOK
  <2> QED BY <2>5, <2>7, <2>8 DEF CaptureInv
<1>10. CASE ui.at = "hush"
  <2>1. NextSensor(<<>>, bridge)
    BY <1>10 DEF Hush
  <2>2. Running' = In(ui.todo) \ {Head(ui.todo)}
    <3>1. Running' = Running
      BY <1>1, <1>6, <1>10, SameRunning
    <3> QED BY <1>8, <1>10, <3>1
  <2>3. Flow' /\ ui' \in Ui /\ (ui'.op = "idle" \/ ui'.at = "enter") /\ bridge' \in BridgeType
    BY <1>1, <1>5, <2>1, <2>2, FlowNext DEF BridgeType
  <2>4. Fits(daemon'[s], link'[s], orphans'[s], client'[s], "rest", ui'.half, ui'.sent)
    <3>1. Fits(daemon[s], After(link[s], rest), orphans[s], client'[s], "rest", ui'.half, ui'.sent)
      BY <1>2, <1>6, <1>10, Ended
    <3> QED BY <1>3, <1>4, <3>1
  <2>5. \A t \in Sensor : InStep(t)'
    BY <1>1, <1>7, <2>3, <2>4, MoveOn
  <2>6. TypeOK'
    BY <1>1, <1>3, <1>4, <1>6, <2>3 DEF TypeOK, BridgeType
  <2> QED BY <2>3, <2>5, <2>6 DEF CaptureInv
<1> QED BY <1>9, <1>10
LEMMA ReturnedInv ==
  ASSUME NEW s, NEW ok, NEW pts, NEW rest, Answering(s, ok, pts, rest), Returned(s, ok, pts, rest)
  PROVE  CaptureInv'
<1>1. ui.at \in DOMAIN RequestAt
  BY DEF Answering
<1>2. CASE ui.at \in Pinging
  <2>1. Ping(s, ok, rest)
    BY <1>2 DEF Returned, Pinging
  <2> QED BY <1>2, <2>1, PingInv
<1>3. CASE ui.at = "start"
  <2>1. Start(s, ok, rest)
    BY <1>3 DEF Returned
  <2> QED BY <1>3, <2>1, StartInv
<1>4. CASE ui.at \in Ticking
  <2>1. \/ ui.at = "telemetry" /\ Telemetry(s, ok, pts, rest)
        \/ ui.at = "trajectory" /\ TrajectoryRead(s, ok, pts, rest)
        \/ ui.at = "new" /\ NewPoints(s, ok, pts, rest)
    BY <1>4 DEF Returned, Ticking
  <2> QED BY <2>1, TickInv
<1>5. CASE ui.at \in {"all", "halt", "hush"}
  <2>1. \/ ui.at = "all" /\ AllPoints(s, ok, pts, rest)
        \/ ui.at = "halt" /\ Halt(s, rest)
        \/ ui.at = "hush" /\ Hush(s, rest)
    BY <1>5 DEF Returned
  <2> QED BY <2>1, StopInv
<1> QED BY <1>1, <1>2, <1>3, <1>4, <1>5, Calls DEF Pinging, Ticking

LEMMA ReadAnswerInv ==
  ASSUME CaptureInv, ReadAnswer
  PROVE  CaptureInv'
<1> DEFINE s == Subject
<1>1. /\ ui.at \in DOMAIN RequestAt /\ ui.sent /\ link[s].toClient # <<>> /\ UNCHANGED spent
      /\ ui.at \notin {"enter", "idle"}
  BY Calls DEF ReadAnswer, Waiting, Calling
<1>2. /\ TypeOK /\ Flow /\ ui \in Ui /\ ui.op # "idle"
      /\ s \in Sensor /\ link[s] \in Link
      /\ Fits(daemon[s], link[s], orphans[s], client[s], ui.at, ui.half, ui.sent)
      /\ ui.op = "start" => ui.at \in Starting
      /\ ui.op = "tick" => ui.at \in Ticking
      /\ ui.op \in {"stop", "rollback"} => ui.at \in Stopping
  BY <1>1, Visiting
<1>3. ui.sent = TRUE /\ ui.dirty \in BOOLEAN /\ link[s].toClient \in Seq(Answer)
      /\ RequestAt[ui.at] \in Request
      /\ spent' \in [{"starts", "scans", "late", "crashes"} -> Nat]
  BY <1>1, <1>2, Calls DEF Ui, Link, TypeOK
<1>4. PICK r \in Readings(RequestAt[ui.at], link[s].toClient, ui.dirty) :
        IF r.verdict = "more"
        THEN /\ ui' = [ui EXCEPT !.dirty = TRUE]
             /\ Leaves(s, r.rest)
             /\ UNCHANGED <<daemon, orphans, client, bridge, history, failed>>
        ELSE Returned(s, r.verdict = "ok", r.pts, r.rest)
  BY DEF ReadAnswer
<1>5. /\ r.rest \in Seq(Answer) /\ r.pts \in SUBSET Point
      /\ Left(r.rest, link[s].toClient, 0) \/ Left(r.rest, link[s].toClient, 1)
      /\ r.verdict = "ok" => Head(link[s].toClient).to = RequestAt[ui.at]
                             /\ r.rest = Tail(link[s].toClient)
  <2> DEFINE in == link[s].toClient
             request == RequestAt[ui.at]
  <2>1. /\ request \in Request /\ in \in Seq(Answer) /\ in # <<>> /\ ui.dirty \in BOOLEAN
        /\ r \in Readings(request, in, ui.dirty)
    BY <1>1, <1>3, <1>4
  <2> HIDE DEF in, request
  <2>2. /\ r.rest \in Seq(Answer) /\ r.pts \in SUBSET Point
        /\ Left(r.rest, in, 0) \/ Left(r.rest, in, 1)
        /\ r.verdict = "ok" => Head(in).to = request /\ r.rest = Tail(in)
    BY <2>1, ReadingLeaves
  <2> QED BY <2>2 DEF in, request
<1>6. CASE r.verdict # "more"
  <2>1. PICK ok \in BOOLEAN : ok = (r.verdict = "ok")
    OBVIOUS
  <2>2. Returned(s, ok, r.pts, r.rest)
    <3>1. Returned(s, r.verdict = "ok", r.pts, r.rest)
      BY <1>4, <1>6
    <3> QED BY <2>1, <3>1, Zenon
  <2>3. Outcome(link[s], RequestAt[ui.at], ok, r.rest)
    BY <1>1, <1>5, <2>1 DEF Outcome
  <2>4. UNCHANGED <<daemon, began, due>>
    BY <2>2 DEF Returned, history
  <2>5. Answering(s, ok, r.pts, r.rest)
    BY <1>1, <1>3, <1>5, <2>1, <2>3, <2>4 DEF Answering
  <2> QED BY <2>2, <2>5, ReturnedInv
<1>7. CASE r.verdict = "more"
  <2>1. /\ ui' = [ui EXCEPT !.dirty = TRUE] /\ Leaves(s, r.rest)
        /\ UNCHANGED <<daemon, orphans, client, bridge, began, due, failed>>
    BY <1>4, <1>7 DEF history
  <2>2. /\ ui' \in Ui /\ ui'.op = ui.op /\ ui'.todo = ui.todo /\ ui'.started = ui.started
        /\ ui'.half = ui.half /\ ui'.at = ui.at /\ ui'.sent = ui.sent
    <3>1. ui' \in Ui
      BY <1>2, <2>1 DEF Ui
    <3> QED BY <1>2, <2>1, <3>1 DEF Ui
  <2>3. After(link[s], r.rest) \in Link
        /\ Fits(daemon[s], After(link[s], r.rest), orphans[s], client[s], ui.at, ui.half, ui.sent)
    BY <1>1, <1>2, <1>5, AnswerTaken DEF After
  <2>4. /\ link' \in [Sensor -> Link] /\ link'[s] = After(link[s], r.rest)
        /\ \A t \in Sensor \ {s} : link'[t] = link[t]
    <3>1. link' = [link EXCEPT ![s] = After(link[s], r.rest)]
      BY <2>1 DEF Leaves, After
    <3>2. link \in [Sensor -> Link]
      BY <1>2 DEF TypeOK
    <3> QED BY <1>2, <2>3, <3>1, <3>2
  <2>5. Flow'
    <3>1. Running' = Running /\ bridge'.state = bridge.state
      BY <2>1, SameRunning
    <3>2. ui.op \in {"stop", "rollback"} =>
            Running = In(ui.todo) \ (IF ui.at \in {"collect", "hush"} THEN {Head(ui.todo)} ELSE {})
      BY <1>2 DEF Flow
    <3> QED BY <1>2, <2>2, <3>1, <3>2, FlowGoOn
  <2>6. \A t \in Sensor \ {s} : Untouched(t)
    BY <2>1, <2>4 DEF Untouched
  <2>7. Fits(daemon'[s], link'[s], orphans'[s], client'[s], ui'.at, ui'.half, ui'.sent)
    BY <2>1, <2>2, <2>3, <2>4
  <2>8. \A t \in Sensor : InStep(t)'
    BY <1>1, <2>2, <2>6, <2>7, GoOn
  <2>9. TypeOK'
    BY <1>2, <1>3, <2>1, <2>2, <2>4 DEF TypeOK
  <2> QED BY <2>5, <2>8, <2>9 DEF CaptureInv
<1> QED BY <1>6, <1>7

\* Refused at once, or too late.
LEMMA NoAnswerInv ==
  ASSUME CaptureInv, Waiting, link[Subject].toClient = <<>>,
         spent' = spent \/ Spend("late"), Returned(Subject, FALSE, {}, <<>>)
  PROVE  CaptureInv'
<1> DEFINE s == Subject
<1>1. ui.at \in DOMAIN RequestAt /\ ui.sent /\ ui.at \notin {"enter", "idle"}
  BY Calls DEF Waiting, Calling
<1>2. TypeOK /\ ui \in Ui
  BY <1>1, Visiting
<1>3. ui.sent = TRUE /\ <<>> \in Seq(Answer)
  BY <1>1, <1>2 DEF Ui
<1>4. spent' \in [{"starts", "scans", "late", "crashes"} -> Nat]
  BY <1>2, Spends DEF TypeOK
<1>5. Outcome(link[s], RequestAt[ui.at], FALSE, <<>>)
  BY DEF Outcome
<1>6. UNCHANGED <<daemon, began, due>>
  BY DEF Returned, history
<1>7. Answering(s, FALSE, {}, <<>>)
  BY <1>1, <1>3, <1>4, <1>5, <1>6 DEF Answering
<1> QED BY <1>7, ReturnedInv

LEMMA RefusedInv ==
  ASSUME CaptureInv, Refused \/ TimeOut
  PROVE  CaptureInv'
BY NoAnswerInv DEF Refused, TimeOut
-----------------------------------------------------------------------------
(* The daemons' steps, and every step.                                      *)

LEMMA OneDaemon ==
  ASSUME CaptureInv, NEW s \in Sensor, UNCHANGED <<client, ui, bridge, began, due, failed>>,
         NEW d2 \in Daemon, NEW l2 \in Link, NEW o2 \in Orphans,
         daemon' = [daemon EXCEPT ![s] = d2], link' = [link EXCEPT ![s] = l2],
         orphans' = [orphans EXCEPT ![s] = o2],
         spent' \in [{"starts", "scans", "late", "crashes"} -> Nat],
         Fits(d2, l2, o2, client[s], AtOf(s), ui.half, ui.sent)
  PROVE  CaptureInv'
<1>1. /\ TypeOK /\ Flow /\ \A t \in Sensor : InStep(t)
      /\ daemon \in [Sensor -> Daemon] /\ link \in [Sensor -> Link] /\ orphans \in [Sensor -> Orphans]
  BY DEF CaptureInv, TypeOK, Orphans
<1>2. /\ daemon' \in [Sensor -> Daemon] /\ link' \in [Sensor -> Link] /\ orphans' \in [Sensor -> Orphans]
      /\ daemon'[s] = d2 /\ link'[s] = l2 /\ orphans'[s] = o2
      /\ \A t \in Sensor \ {s} : daemon'[t] = daemon[t] /\ link'[t] = link[t] /\ orphans'[t] = orphans[t]
  BY <1>1
<1>3. TypeOK'
  BY <1>1, <1>2 DEF TypeOK, Orphans
<1>4. Flow'
  BY <1>1 DEF Flow, Running
<1>5. \A t \in Sensor : AtOf(t)' = AtOf(t)
  BY DEF AtOf, Visited
<1>6. ASSUME NEW t \in Sensor PROVE InStep(t)'
  <2>1. CASE t = s
    <3>1. Fits(daemon'[s], link'[s], orphans'[s], client'[s], AtOf(s)', ui'.half, ui'.sent)
      BY <1>2, <1>5
    <3> QED BY <2>1, <3>1 DEF InStep
  <2>2. CASE t # s
    <3>1. Fits(daemon[t], link[t], orphans[t], client[t], AtOf(t), ui.half, ui.sent)
      BY <1>1 DEF InStep
    <3>2. daemon'[t] = daemon[t] /\ link'[t] = link[t] /\ orphans'[t] = orphans[t] /\ AtOf(t)' = AtOf(t)
      BY <1>2, <1>5, <2>2
    <3>3. Fits(daemon'[t], link'[t], orphans'[t], client'[t], AtOf(t)', ui'.half, ui'.sent)
      BY <3>1, <3>2
    <3> QED BY <3>3 DEF InStep
  <2> QED BY <2>1, <2>2
<1> QED BY <1>3, <1>4, <1>6 DEF CaptureInv

LEMMA DaemonFacts ==
  ASSUME CaptureInv, NEW s \in Sensor
  PROVE  /\ daemon[s] \in Daemon /\ link[s] \in Link /\ orphans[s] \in Orphans
         /\ daemon = [daemon EXCEPT ![s] = daemon[s]] /\ link = [link EXCEPT ![s] = link[s]]
         /\ orphans = [orphans EXCEPT ![s] = orphans[s]]
         /\ spent \in [{"starts", "scans", "late", "crashes"} -> Nat] /\ TypeOK
         /\ Fits(daemon[s], link[s], orphans[s], client[s], AtOf(s), ui.half, ui.sent)
<1>1. /\ daemon \in [Sensor -> Daemon] /\ link \in [Sensor -> Link] /\ orphans \in [Sensor -> Orphans]
      /\ spent \in [{"starts", "scans", "late", "crashes"} -> Nat] /\ TypeOK
  BY DEF CaptureInv, TypeOK, Orphans
<1>2. Fits(daemon[s], link[s], orphans[s], client[s], AtOf(s), ui.half, ui.sent)
  BY DEF CaptureInv, InStep
<1> QED BY <1>1, <1>2

LEMMA HandleClientInv ==
  ASSUME CaptureInv, NEW s \in Sensor, HandleClient(s)
  PROVE  CaptureInv'
<1> DEFINE r == Head(link[s].toDaemon)
           d2 == Serve(daemon[s], r)
           l2 == [link[s] EXCEPT !.toDaemon = Tail(@), !.toClient = Append(@, AnswerTo(daemon[s], r))]
<1>1. /\ link[s].state = "open" /\ link[s].toDaemon # <<>>
      /\ daemon' = [daemon EXCEPT ![s] = d2] /\ link' = [link EXCEPT ![s] = l2]
      /\ UNCHANGED <<orphans, client, ui, bridge, began, due, failed, spent>>
  <2>1. link[s].state = "open" /\ link[s].toDaemon # <<>>
    BY DEF HandleClient
  <2>2. daemon' = [daemon EXCEPT ![s] = d2]
    BY DEF HandleClient
  <2>3. link' = [link EXCEPT ![s] = l2]
    BY DaemonFacts DEF HandleClient, Link
  <2>4. UNCHANGED <<orphans, client, ui, bridge, began, due, failed, spent>>
    BY DEF HandleClient, history
  <2> QED BY <2>1, <2>2, <2>3, <2>4
<1>2. /\ daemon[s] \in Daemon /\ link[s] \in Link
      /\ Fits(daemon[s], link[s], orphans[s], client[s], AtOf(s), ui.half, ui.sent)
      /\ link[s].state = "open" /\ link[s].toDaemon # <<>>
  BY <1>1, DaemonFacts
<1>3. l2 \in Link /\ d2 \in Daemon /\ Fits(d2, l2, orphans[s], client[s], AtOf(s), ui.half, ui.sent)
  BY <1>2, Serving
<1>4. orphans[s] \in Orphans /\ orphans' = [orphans EXCEPT ![s] = orphans[s]]
      /\ spent' \in [{"starts", "scans", "late", "crashes"} -> Nat]
  BY <1>1, DaemonFacts
<1> HIDE DEF d2, l2, r
<1> QED BY <1>1, <1>3, <1>4, OneDaemon

LEMMA HandleOrphanInv ==
  ASSUME CaptureInv, NEW s \in Sensor, HandleOrphan(s)
  PROVE  CaptureInv'
<1> DEFINE o == orphans[s]
           d == daemon[s]
<1>1. PICK i \in 1..Len(o) :
        \/ /\ daemon' = [daemon EXCEPT ![s] = Serve(@, Head(o[i]))]
           /\ orphans' = [orphans EXCEPT ![s] = IF Tail(o[i]) = <<>> THEN RemoveAt(o, i)
                                                ELSE ReplaceAt(o, i, Tail(o[i]))]
        \/ orphans' = [orphans EXCEPT ![s] = RemoveAt(o, i)] /\ UNCHANGED daemon
  BY DEF HandleOrphan
<1>2. UNCHANGED <<link, client, ui, bridge, began, due, failed, spent>>
  BY DEF HandleOrphan, history
<1>3. /\ d \in Daemon /\ link[s] \in Link /\ o \in Orphans
      /\ daemon = [daemon EXCEPT ![s] = d] /\ link' = [link EXCEPT ![s] = link[s]]
      /\ spent' \in [{"starts", "scans", "late", "crashes"} -> Nat]
      /\ Fits(d, link[s], o, client[s], AtOf(s), ui.half, ui.sent)
  BY <1>2, DaemonFacts
<1>4. Head(o[i]) \in Request /\ Head(o[i]) # "STOP"
  <2>1. o[i] \in Seq(Request)
    BY <1>3 DEF Orphans
  <2>2. o[i] # <<>> /\ ~Has(o[i], "STOP")
    BY <1>1, <1>3 DEF Fits, Sound
  <2>3. Head(o[i]) = o[i][1] /\ 1 \in 1..Len(o[i]) /\ Head(o[i]) \in Request
    BY <2>1, <2>2, EmptySeq
  <2> QED BY <2>2, <2>3 DEF Has
<1>5. PICK d2 \in {d, Serve(d, Head(o[i]))}, o2 \in {RemoveAt(o, i), ReplaceAt(o, i, Tail(o[i]))} :
        /\ daemon' = [daemon EXCEPT ![s] = d2] /\ orphans' = [orphans EXCEPT ![s] = o2]
        /\ o2 = RemoveAt(o, i) \/ (Tail(o[i]) # <<>> /\ o2 = ReplaceAt(o, i, Tail(o[i])))
  <2>1. CASE orphans' = [orphans EXCEPT ![s] = RemoveAt(o, i)] /\ UNCHANGED daemon
    BY <1>3, <2>1
  <2>2. CASE /\ daemon' = [daemon EXCEPT ![s] = Serve(@, Head(o[i]))]
             /\ orphans' = [orphans EXCEPT ![s] = IF Tail(o[i]) = <<>> THEN RemoveAt(o, i)
                                                  ELSE ReplaceAt(o, i, Tail(o[i]))]
    BY <2>2
  <2> QED BY <1>1, <2>1, <2>2
<1>6. d2 \in Daemon /\ d2.alive = d.alive /\ (d.capturing => d2.capturing)
  BY <1>3, <1>4, <1>5, Served
<1> HIDE DEF o, d
<1>7. o2 \in Orphans /\ Fits(d2, link[s], o2, client[s], AtOf(s), ui.half, ui.sent)
  BY <1>3, <1>5, <1>6, ServingOrphan
<1> QED BY <1>2, <1>3, <1>5, <1>6, <1>7, OneDaemon

LEMMA ScanInv ==
  ASSUME CaptureInv, NEW s \in Sensor, SenseScan(s) \/ RecordScan(s)
  PROVE  CaptureInv'
<1> DEFINE d == daemon[s]
<1>1. UNCHANGED <<link, orphans, client, ui, bridge, began, due, failed>>
  BY DEF SenseScan, RecordScan, history
<1>2. /\ d \in Daemon /\ link[s] \in Link /\ orphans[s] \in Orphans /\ TypeOK
      /\ link' = [link EXCEPT ![s] = link[s]] /\ orphans' = [orphans EXCEPT ![s] = orphans[s]]
      /\ spent \in [{"starts", "scans", "late", "crashes"} -> Nat]
      /\ Fits(d, link[s], orphans[s], client[s], AtOf(s), ui.half, ui.sent)
  BY <1>1, DaemonFacts
<1>3. spent' \in [{"starts", "scans", "late", "crashes"} -> Nat]
  BY <1>2, Spends DEF SenseScan, RecordScan
<1>4. PICK d2 \in Daemon : /\ daemon' = [daemon EXCEPT ![s] = d2]
                           /\ d2.alive = d.alive /\ d2.capturing = d.capturing
  <2>1. CASE SenseScan(s)
    <3>1. spent.scans + 1 \in Point
      BY <1>2 DEF Point
    <3>2. Sense(d, spent.scans + 1) \in Daemon
          /\ Sense(d, spent.scans + 1).alive = d.alive
          /\ Sense(d, spent.scans + 1).capturing = d.capturing
      BY <1>2, <3>1 DEF Sense, Daemon
    <3> QED BY <2>1, <3>2 DEF SenseScan
  <2>2. CASE RecordScan(s)
    <3>1. d.flight \in Point
      BY <1>2, <2>2 DEF RecordScan, Daemon
    <3>2. Record(d) \in Daemon /\ Record(d).alive = d.alive /\ Record(d).capturing = d.capturing
      BY <1>2, <3>1 DEF Record, Daemon
    <3> QED BY <2>2, <3>2 DEF RecordScan
  <2> QED BY <2>1, <2>2
<1> HIDE DEF d
<1>5. Fits(d2, link[s], orphans[s], client[s], AtOf(s), ui.half, ui.sent)
  BY <1>2, <1>4, Scanning
<1> QED BY <1>1, <1>2, <1>3, <1>4, <1>5, OneDaemon

LEMMA CrashInv ==
  ASSUME CaptureInv, NEW s \in Sensor, Crash(s)
  PROVE  CaptureInv'
<1>1. UNCHANGED <<client, ui, bridge, began, due, failed>> /\ Spend("crashes")
      /\ daemon' = [daemon EXCEPT ![s] = Dead] /\ orphans' = [orphans EXCEPT ![s] = <<>>]
  BY DEF Crash, history
<1>2. /\ link[s] \in Link /\ link = [link EXCEPT ![s] = link[s]] /\ TypeOK
      /\ Fits(daemon[s], link[s], orphans[s], client[s], AtOf(s), ui.half, ui.sent)
  BY DaemonFacts
<1>3. Dead \in Daemon /\ <<>> \in Orphans
      /\ spent' \in [{"starts", "scans", "late", "crashes"} -> Nat]
  <2>1. Dead \in Daemon
    BY DEF Dead, Spawned, Daemon
  <2>2. <<>> \in Orphans
    BY DEF Orphans
  <2>3. spent' \in [{"starts", "scans", "late", "crashes"} -> Nat]
    BY <1>1, <1>2, Spends
  <2> QED BY <2>1, <2>2, <2>3
<1>4. CASE link[s].state = "open"
  <2>1. PICK in \in {link[s].toClient, <<>>} :
          link' = [link EXCEPT ![s] = [state |-> "broken", toDaemon |-> <<>>, toClient |-> in]]
    BY <1>4 DEF Crash
  <2> DEFINE l2 == [state |-> "broken", toDaemon |-> <<>>, toClient |-> in]
  <2>2. l2 \in Link /\ Fits(Dead, l2, <<>>, client[s], AtOf(s), ui.half, ui.sent)
    BY <1>2, <1>4, Crashing
  <2>3. link' = [link EXCEPT ![s] = l2]
    BY <2>1
  <2> HIDE DEF l2
  <2> QED BY <1>1, <1>3, <2>2, <2>3, OneDaemon
<1>5. CASE link[s].state # "open"
  <2>1. link' = [link EXCEPT ![s] = link[s]]
    BY <1>2, <1>5 DEF Crash
  <2>2. Fits(Dead, link[s], <<>>, client[s], AtOf(s), ui.half, ui.sent)
    BY <1>2, CrashingUnseen
  <2> QED BY <1>1, <1>2, <1>3, <2>1, <2>2, OneDaemon
<1> QED BY <1>4, <1>5
LEMMA CaptureInvInit ==
  ASSUME Init
  PROVE  CaptureInv
<1>1. daemon \in [Sensor -> Daemon]
  <2>1. Dead \in Daemon /\ Spawned \in Daemon
    BY DEF Dead, Spawned, Daemon
  <2> QED BY <2>1 DEF Init
<1>2. link \in [Sensor -> Link] /\ \A s \in Sensor : link[s] = Closed
  BY NewLinks DEF Init
<1>3. orphans \in [Sensor -> Orphans] /\ \A s \in Sensor : orphans[s] = <<>>
  <2>1. <<>> \in Orphans
    BY DEF Orphans
  <2> QED BY <2>1 DEF Init
<1>4. /\ client \in [Sensor -> Client]
      /\ \A s \in Sensor : client[s].running = FALSE /\ client[s].connected = FALSE
  BY DEF Init, Client
<1>5. ui \in Ui /\ ui = Resting /\ ui.op = "idle" /\ ui.todo = <<>> /\ ui.started = <<>>
  <2>1. ui = Resting
    BY DEF Init
  <2> QED BY <2>1 DEF Resting, Ui, Local
<1>6. bridge \in BridgeType /\ bridge.state = "READY"
  BY DEF Init, BridgeType
<1>7. /\ began \in Nat /\ due \in [Sensor -> SUBSET Point] /\ failed \in BOOLEAN
      /\ spent \in [{"starts", "scans", "late", "crashes"} -> Nat]
  <2>1. spent = [starts |-> 0, scans |-> 0, late |-> 0, crashes |-> 0]
    BY DEF Init
  <2>2. spent \in [{"starts", "scans", "late", "crashes"} -> Nat]
    BY <2>1
  <2> QED BY <2>2 DEF Init
<1>8. TypeOK
  BY <1>1, <1>2, <1>3, <1>4, <1>5, <1>6, <1>7 DEF TypeOK, BridgeType, Orphans
<1>9. Running = {}
  BY <1>4 DEF Running
<1>10. Flow
  BY <1>5, <1>6, <1>9, InNone DEF Flow
<1>11. ASSUME NEW s \in Sensor PROVE InStep(s)
  <2>1. AtOf(s) = "rest"
    BY <1>5 DEF AtOf, Visited
  <2>2. Asked(link[s]) = <<>> /\ link[s].state = "closed" /\ link[s].toClient = <<>>
    BY <1>2, NewLinks
  <2>3. Sound(daemon[s], link[s], orphans[s], client[s])
    BY <1>3, <1>4, <2>2, NothingInEmpty DEF Sound
  <2>4. Placed(daemon[s], link[s], client[s], "rest", ui.half, ui.sent)
    BY <1>4, <2>2, NothingInEmpty DEF Placed, Pinging, Starting, Ticking, Stopping
  <2> QED BY <2>1, <2>3, <2>4 DEF InStep, Fits
<1> QED BY <1>8, <1>10, <1>11 DEF CaptureInv

LEMMA CaptureInvStep ==
  ASSUME CaptureInv, [Next]_vars
  PROVE  CaptureInv'
<1>1. CASE StartCapture \/ OnTelemetryTick \/ StopCapture
  BY <1>1, BeginInv
<1>2. CASE Enter
  BY <1>2, EnterInv
<1>3. CASE Collect
  BY <1>3, CollectInv
<1>4. CASE Connect \/ Respawn
  BY <1>4, ConnectInv
<1>5. CASE Send
  BY <1>5, SendInv
<1>6. CASE ReadAnswer
  BY <1>6, ReadAnswerInv
<1>7. CASE Refused \/ TimeOut
  BY <1>7, RefusedInv
<1>8. ASSUME NEW s \in Sensor, HandleClient(s) PROVE CaptureInv'
  BY <1>8, HandleClientInv
<1>9. ASSUME NEW s \in Sensor, HandleOrphan(s) PROVE CaptureInv'
  BY <1>9, HandleOrphanInv
<1>10. ASSUME NEW s \in Sensor, SenseScan(s) \/ RecordScan(s) PROVE CaptureInv'
  BY <1>10, ScanInv
<1>11. ASSUME NEW s \in Sensor, Crash(s) PROVE CaptureInv'
  BY <1>11, CrashInv
<1>12. CASE UNCHANGED vars
  BY <1>12 DEF vars, CaptureInv, TypeOK, Flow, Running, InStep, AtOf, Visited
<1> QED BY <1>1, <1>2, <1>3, <1>4, <1>5, <1>6, <1>7, <1>8, <1>9, <1>10, <1>11, <1>12 DEF Next, Thread

\* What a step of the station is to its captures.
LEMMA StationCapture ==
  ASSUME [StationNext]_stationVars
  PROVE  [Next]_vars
<1>1. CASE InCapture
  BY <1>1 DEF StationNext, Next, Thread, InNetwork, InCapture, InOrientation, InStream, stationVars
<1>2. CASE ~InCapture
  BY <1>2 DEF StationNext, InNetwork, InOrientation, InStream, stationVars
<1> QED BY <1>1, <1>2

-----------------------------------------------------------------------------
(* What follows from it.                                                    *)

\* Captures keep their types, whatever is late, refused or crashes.
THEOREM CaptureTypes == StationSpec => []TypeOK
<1>1. StationInit => CaptureInv
  BY CaptureInvInit DEF StationInit
<1>2. CaptureInv /\ [StationNext]_stationVars => CaptureInv'
  BY CaptureInvStep, StationCapture
<1>3. CaptureInv => TypeOK
  BY DEF CaptureInv
<1> QED BY <1>1, <1>2, <1>3, PTL DEF StationSpec

\* However many answers came late, connections were dropped and daemons have
\* crashed and been started again: when ensureDaemonRunning has returned true
\* for a backend, nothing is left in the connection, so that its START is
\* answered by its own answer.
THEOREM PingBringsInStep == StationSpec => []PingMeansInStep
<1>1. StationInit => CaptureInv
  BY CaptureInvInit DEF StationInit
<1>2. CaptureInv /\ [StationNext]_stationVars => CaptureInv'
  BY CaptureInvStep, StationCapture
<1>3. CaptureInv => PingMeansInStep
  <2> SUFFICES ASSUME CaptureInv, ui.at = "start", ui.half = "backend", ~ui.sent
               PROVE  link[Subject].toDaemon = <<>> /\ link[Subject].toClient = <<>>
    BY DEF PingMeansInStep
  <2>1. link[Subject] \in Link
        /\ Fits(daemon[Subject], link[Subject], orphans[Subject], client[Subject],
                ui.at, ui.half, ui.sent)
    BY Visiting
  <2>2. Asked(link[Subject]) = <<>>
    BY <2>1 DEF Fits, Placed
  <2> QED BY <2>1, <2>2, AskedType
<1> QED BY <1>1, <1>2, <1>3, PTL DEF StationSpec

\* While the bridge says it captures, every sensor's daemon that is alive
\* records: no STOP - not one of an earlier attempt, nor one left in a
\* connection that was dropped - reaches a daemon behind its START.
THEOREM CapturingIsRecording == StationSpec => []CapturingMeansRecording
<1>1. StationInit => CaptureInv
  BY CaptureInvInit DEF StationInit
<1>2. CaptureInv /\ [StationNext]_stationVars => CaptureInv'
  BY CaptureInvStep, StationCapture
<1>3. CaptureInv => CapturingMeansRecording
  <2> SUFFICES ASSUME CaptureInv, bridge.state = "CAPTURING", ui.op # "stop", NEW s \in Sensor,
                      daemon[s].alive
               PROVE  daemon[s].capturing
    BY DEF CapturingMeansRecording
  <2>1. /\ Flow /\ ui \in Ui
        /\ Fits(daemon[s], link[s], orphans[s], client[s], AtOf(s), ui.half, ui.sent)
    BY DEF CaptureInv, TypeOK, InStep
  <2>2. ui.op \in {"idle", "tick"} /\ Running = Sensor
    BY <2>1 DEF Flow, Ui
  <2>3. AtOf(s) # "halt"
    <3>1. ui.op = "tick" => ui.at # "halt"
      BY <2>1 DEF Flow, Ticking
    <3> QED BY <2>2, <3>1 DEF AtOf, Visited
  <2>4. client[s].running
    BY <2>2 DEF Running
  <2> QED BY <2>1, <2>3, <2>4 DEF Fits, Placed
<1> QED BY <1>1, <1>2, <1>3, PTL DEF StationSpec

-----------------------------------------------------------------------------
(* The points of a sensor: where each of them is.                           *)

NewIn(in) == {i \in 1..Len(in) : in[i].to = "NEW" /\ ~in[i].torn}
AllIn(in) == {i \in 1..Len(in) : in[i].to = "ALL" /\ ~in[i].torn}

\* A scan is in one place only: in its callback, in the buffer of new points,
\* in one answer that carries them, or in the map of the backend.  The final
\* pull alone brings what is still buffered: then a STOP is on its way, and no
\* request for new points is.
Once(d, l, o, map, running, at, sent) ==
  LET in == l.toClient IN
  /\ ~d.alive => d = Dead /\ o = <<>> /\ l.state # "open"
  /\ d.fresh \subseteq d.voxels
  /\ d.flight \notin d.voxels \cup map
  /\ \A i \in 1..Len(in) : ~in[i].torn => d.flight \notin in[i].pts
  /\ \A i \in NewIn(in) : in[i].pts \cap d.fresh = {} /\ in[i].pts \cap map = {}
  /\ \A i, j \in NewIn(in) : i # j => in[i].pts \cap in[j].pts = {}
  /\ d.fresh \cap map # {} =>
       /\ ~Has(Asked(l), "NEW")
       /\ ~d.capturing \/ Has(l.toDaemon, "STOP") \/ (at = "halt" /\ ~sent /\ running)

\* No point is numbered before it is scanned.
Scanned(d, l, map, shown, scans) ==
  /\ d.voxels \cup map \cup shown \subseteq 1..scans
  /\ d.flight # None => d.flight \in 1..scans
  /\ \A i \in 1..Len(l.toClient) : ~l.toClient[i].torn => l.toClient[i].pts \subseteq 1..scans

\* What the capture under way has shown is still held: by the backend, by the
\* daemon as long as it lives, and by a final pull that is on its way.
Since(points, from) == {p \in points : p > from}
Backed(d, l, map, running, shown, from, op, at) ==
  LET in == l.toClient IN
  /\ Since(shown, from) \subseteq map
  /\ op = "start" => Since(map, from) = {}
  /\ running => l.state # "closed"
  /\ running /\ at # "halt" =>
       /\ d.alive => Since(map, from) \subseteq d.voxels
       /\ d.alive => \A i \in NewIn(in) : Since(in[i].pts, from) \subseteq d.voxels
       /\ \A i \in AllIn(in) : Since(map, from) \subseteq in[i].pts

Tallied(d, l, o, map, running, shown, from, scans, op, at, sent) ==
  /\ Once(d, l, o, map, running, at, sent)
  /\ Scanned(d, l, map, shown, scans)
  /\ Backed(d, l, map, running, shown, from, op, at)

Accounted(s) ==
  Tallied(daemon[s], link[s], orphans[s], client[s].map, client[s].running, bridge.map[s],
          began, spent.scans, ui.op, AtOf(s), ui.sent)

Points    == began <= spent.scans /\ \A s \in Sensor : Accounted(s)
PointsInv == CaptureInv /\ Points

\* Between two calls that matter it does not matter where the bridge is.
LEMMA TalliedElsewhere ==
  ASSUME NEW d, NEW l, NEW o, NEW map, NEW running, NEW shown, NEW from, NEW scans, NEW op,
         NEW at, NEW sent, NEW op2, NEW at2, NEW sent2,
         Tallied(d, l, o, map, running, shown, from, scans, op, at, sent),
         running => at # "halt", op2 = "start" => op = "start"
  PROVE  /\ Tallied(d, l, o, map, running, shown, from, scans, op2, at2, sent2)
         /\ Tallied(d, l, o, map, running, map, from, scans, op2, at2, sent2)
BY DEF Tallied, Once, Scanned, Backed, Since

\* What a reading leaves: every answer that is whole was there before.
LEMMA LeftWhole ==
  ASSUME NEW in \in Seq(Answer), NEW rest \in Seq(Answer), NEW k \in {0, 1}, Left(rest, in, k)
  PROVE  /\ \A i \in 1..Len(rest) : i + k \in 1..Len(in) /\ (rest[i].torn \/ rest[i] = in[i + k])
         /\ \A i \in NewIn(rest) : i + k \in NewIn(in) /\ rest[i] = in[i + k]
         /\ \A i \in AllIn(rest) : i + k \in AllIn(in) /\ rest[i] = in[i + k]
         /\ \A i, j \in NewIn(rest) : i # j => i + k # j + k
<1>1. Len(in) \in Nat /\ Len(rest) \in Nat /\ Len(rest) = Len(in) - k
  BY DEF Left
<1>2. \A i \in 1..Len(rest) : i + k \in 1..Len(in)
  BY <1>1
<1>3. \A i \in 1..Len(rest) : rest[i].to = in[i + k].to /\ (rest[i].torn \/ rest[i] = in[i + k])
  BY DEF Left
<1>4. \A i, j \in 1..Len(rest) : i # j => i + k # j + k
  BY <1>1
<1> QED BY <1>2, <1>3, <1>4 DEF NewIn, AllIn

\* What is in a connection has been asked for.
LEMMA AskedHas ==
  ASSUME NEW l \in Link
  PROVE  /\ \A i \in 1..Len(l.toClient) : Has(Asked(l), l.toClient[i].to)
         /\ \A r : Has(l.toDaemon, r) => Has(Asked(l), r)
         /\ l.toClient # <<>> => Has(Asked(l), Head(l.toClient).to)
<1> DEFINE p == Names(l.toClient)
           t == l.toDaemon
<1>1. /\ l.toClient \in Seq(Answer) /\ p \in Seq(Request) /\ t \in Seq(Request)
      /\ Len(p) = Len(l.toClient) /\ \A i \in 1..Len(l.toClient) : p[i] = l.toClient[i].to
  BY AskedType, NamesOf
<1>2. Asked(l) = p \o t
  BY DEF Asked
<1> HIDE DEF p, t
<1>3. /\ Len(p) \in Nat /\ Len(t) \in Nat /\ Len(p \o t) = Len(p) + Len(t)
      /\ \A i \in 1..Len(p) + Len(t) : (p \o t)[i] = IF i <= Len(p) THEN p[i] ELSE t[i - Len(p)]
  <2>1. p \in Seq(Request) /\ t \in Seq(Request)
    BY <1>1
  <2> QED BY <2>1, ConcatProperties
<1>4. ASSUME NEW i \in 1..Len(p) PROVE Has(p \o t, p[i])
  <2>1. i \in 1..Len(p) + Len(t) /\ i <= Len(p)
    BY <1>3
  <2> QED BY <1>3, <2>1 DEF Has
<1>5. ASSUME NEW i \in 1..Len(t) PROVE Has(p \o t, t[i])
  <2>1. i + Len(p) \in 1..Len(p) + Len(t) /\ ~(i + Len(p) <= Len(p)) /\ (i + Len(p)) - Len(p) = i
    BY <1>3
  <2> QED BY <1>3, <2>1 DEF Has
<1>6. \A i \in 1..Len(l.toClient) : Has(Asked(l), l.toClient[i].to)
  BY <1>1, <1>2, <1>4
<1>7. \A r : Has(t, r) => Has(Asked(l), r)
  BY <1>2, <1>5 DEF Has
<1>8. ASSUME l.toClient # <<>> PROVE Has(Asked(l), Head(l.toClient).to)
  <2>1. 1 \in 1..Len(l.toClient) /\ Head(l.toClient) = l.toClient[1]
    BY <1>1, <1>8, EmptySeq
  <2> QED BY <1>6, <2>1
<1> QED BY <1>6, <1>7, <1>8 DEF t

\* A reading leaves no more answers, and asks for nothing.
LEMMA LessRead ==
  ASSUME NEW l \in Link, l.toClient # <<>>, NEW rest \in Seq(Answer),
         Left(rest, l.toClient, 0) \/ Left(rest, l.toClient, 1)
  PROVE  /\ After(l, rest) \in Link /\ After(l, rest).state = l.state
         /\ After(l, rest).toDaemon = l.toDaemon /\ After(l, rest).toClient = rest
         /\ Less(Asked(After(l, rest)), Asked(l))
<1>1. l.toClient \in Seq(Answer) /\ Asked(l) \in Seq(Request) /\ Asked(l) # <<>>
  BY AskedType
<1>2. /\ After(l, rest) \in Link /\ After(l, rest).state = l.state
      /\ After(l, rest).toDaemon = l.toDaemon /\ After(l, rest).toClient = rest
  BY DEF Link, After
<1>3. CASE Left(rest, l.toClient, 0)
  <2>1. Names(rest) = Names(l.toClient)
    BY <1>1, <1>3, LeftNames
  <2>2. Asked(After(l, rest)) = Asked(l)
    BY <1>2, <2>1 DEF Asked
  <2> QED BY <1>2, <2>2 DEF Less
<1>4. CASE Left(rest, l.toClient, 1)
  <2>1. Names(rest) = Tail(Names(l.toClient))
    BY <1>1, <1>4, LeftNames
  <2>2. Asked(After(l, rest)) = Tail(Asked(l))
    BY <2>1, AskedRead DEF After
  <2> QED BY <1>1, <1>2, <2>2, LessTail
<1> QED BY <1>3, <1>4

\* Whatever a reading takes away, what is left is still in its place.
LEMMA TalliedRead ==
  ASSUME NEW d, NEW l \in Link, NEW o, NEW map, NEW running, NEW shown, NEW from, NEW scans,
         NEW op, NEW at, NEW sent, NEW rest \in Seq(Answer),
         Tallied(d, l, o, map, running, shown, from, scans, op, at, sent),
         l.toClient # <<>>, Left(rest, l.toClient, 0) \/ Left(rest, l.toClient, 1)
  PROVE  Tallied(d, After(l, rest), o, map, running, shown, from, scans, op, at, sent)
<1> DEFINE in == l.toClient
           l2 == After(l, rest)
<1>1. PICK k \in {0, 1} : Left(rest, in, k)
  OBVIOUS
<1>2. in \in Seq(Answer)
  BY AskedType
<1>3. /\ \A i \in 1..Len(rest) : i + k \in 1..Len(in) /\ (rest[i].torn \/ rest[i] = in[i + k])
      /\ \A i \in NewIn(rest) : i + k \in NewIn(in) /\ rest[i] = in[i + k]
      /\ \A i \in AllIn(rest) : i + k \in AllIn(in) /\ rest[i] = in[i + k]
      /\ \A i, j \in NewIn(rest) : i # j => i + k # j + k
  BY <1>1, <1>2, LeftWhole
<1>4. /\ l2.state = l.state /\ l2.toDaemon = l.toDaemon /\ l2.toClient = rest
      /\ Has(Asked(l2), "NEW") => Has(Asked(l), "NEW")
  BY LessRead DEF Less
<1>5. /\ Once(d, l, o, map, running, at, sent) /\ Scanned(d, l, map, shown, scans)
      /\ Backed(d, l, map, running, shown, from, op, at)
  BY DEF Tallied
<1> HIDE DEF l2
<1>6. Once(d, l2, o, map, running, at, sent)
  <2>1. \A i \in 1..Len(rest) : ~rest[i].torn => d.flight \notin rest[i].pts
    BY <1>3, <1>5 DEF Once
  <2>2. \A i \in NewIn(rest) : rest[i].pts \cap d.fresh = {} /\ rest[i].pts \cap map = {}
    BY <1>3, <1>5 DEF Once
  <2>3. \A i, j \in NewIn(rest) : i # j => rest[i].pts \cap rest[j].pts = {}
    <3> SUFFICES ASSUME NEW i \in NewIn(rest), NEW j \in NewIn(rest), i # j
                 PROVE  rest[i].pts \cap rest[j].pts = {}
      OBVIOUS
    <3>1. i + k \in NewIn(in) /\ j + k \in NewIn(in) /\ i + k # j + k
          /\ rest[i] = in[i + k] /\ rest[j] = in[j + k]
      BY <1>3
    <3> QED BY <1>5, <3>1 DEF Once
  <2> QED BY <1>4, <1>5, <2>1, <2>2, <2>3 DEF Once
<1>7. Scanned(d, l2, map, shown, scans)
  BY <1>3, <1>4, <1>5 DEF Scanned
<1>8. Backed(d, l2, map, running, shown, from, op, at)
  BY <1>3, <1>4, <1>5 DEF Backed
<1> QED BY <1>6, <1>7, <1>8 DEF Tallied, l2

\* New points were in no map before, and nothing else has them.
LEMMA TalliedNew ==
  ASSUME NEW d, NEW l \in Link, NEW o, NEW map, NEW shown, NEW from, NEW scans, NEW op, NEW sent,
         Tallied(d, l, o, map, TRUE, shown, from, scans, op, "new", sent), op # "start",
         l.toClient # <<>>, Head(l.toClient).to = "NEW", ~Head(l.toClient).torn,
         ~Has(Asked(l), "ALL")
  PROVE  Tallied(d, After(l, Tail(l.toClient)), o, map \cup Head(l.toClient).pts, TRUE, shown,
                 from, scans, op, "new", sent)
<1> DEFINE in == l.toClient
           a == Head(in)
           l2 == After(l, Tail(in))
           m2 == map \cup a.pts
<1>1. in \in Seq(Answer) /\ Tail(in) \in Seq(Answer) /\ Left(Tail(in), in, 1)
  BY AskedType, TailLeaves
<1>2. Tallied(d, l2, o, map, TRUE, shown, from, scans, op, "new", sent)
  BY <1>1, TalliedRead
<1>3. /\ l2.state = l.state /\ l2.toClient = Tail(in)
      /\ \A r : Has(Asked(l2), r) => Has(Asked(l), r)
  BY <1>1, LessRead DEF Less
<1>4. 1 \in NewIn(in) /\ in[1] = a /\ Has(Asked(l), "NEW")
  <2>1. 1 \in 1..Len(in) /\ in[1] = a
    BY <1>1, EmptySeq
  <2> QED BY <2>1, AskedHas DEF NewIn
<1>5. \A i \in NewIn(Tail(in)) : i + 1 \in NewIn(in) /\ Tail(in)[i] = in[i + 1] /\ i + 1 # 1
  <2>1. \A i \in NewIn(Tail(in)) : i + 1 # 1
    BY <1>1 DEF NewIn
  <2> QED BY <1>1, <2>1, LeftWhole
<1>6. l2 \in Link
  BY <1>1, LessRead
<1>7. AllIn(Tail(in)) = {}
  <2>1. \A i \in 1..Len(l2.toClient) : Has(Asked(l2), l2.toClient[i].to)
    BY <1>6, AskedHas
  <2> QED BY <1>3, <2>1 DEF AllIn
<1>8. /\ Once(d, l, o, map, TRUE, "new", sent) /\ Scanned(d, l, map, shown, scans)
      /\ Backed(d, l, map, TRUE, shown, from, op, "new")
      /\ Once(d, l2, o, map, TRUE, "new", sent) /\ Scanned(d, l2, map, shown, scans)
      /\ Backed(d, l2, map, TRUE, shown, from, op, "new")
  BY <1>2 DEF Tallied
<1>9. /\ d.fresh \cap map = {} /\ a.pts \cap d.fresh = {} /\ d.flight \notin a.pts
      /\ a.pts \subseteq 1..scans
      /\ \A i \in NewIn(Tail(in)) : Tail(in)[i].pts \cap a.pts = {}
  <2>1. d.fresh \cap map = {} /\ a.pts \cap d.fresh = {}
    BY <1>4, <1>8 DEF Once
  <2>2. d.flight \notin a.pts /\ a.pts \subseteq 1..scans
    BY <1>4, <1>8 DEF Once, Scanned, NewIn
  <2>3. \A i \in NewIn(Tail(in)) : Tail(in)[i].pts \cap a.pts = {}
    BY <1>4, <1>5, <1>8 DEF Once
  <2> QED BY <2>1, <2>2, <2>3
<1> HIDE DEF l2, a, in
<1>10. Once(d, l2, o, m2, TRUE, "new", sent)
  <2>1. d.fresh \cap m2 = {} /\ d.flight \notin d.voxels \cup m2
    BY <1>8, <1>9 DEF Once
  <2>2. \A i \in NewIn(Tail(in)) : Tail(in)[i].pts \cap d.fresh = {} /\ Tail(in)[i].pts \cap m2 = {}
    BY <1>3, <1>8, <1>9 DEF Once
  <2> HIDE DEF m2
  <2> QED BY <1>3, <1>8, <2>1, <2>2 DEF Once
<1>11. Scanned(d, l2, m2, shown, scans)
  BY <1>8, <1>9 DEF Scanned
<1>12. Backed(d, l2, m2, TRUE, shown, from, op, "new")
  <2>1. d.alive => Since(a.pts, from) \subseteq d.voxels
    BY <1>4, <1>8 DEF Backed, in, a
  <2> QED BY <1>3, <1>7, <1>8, <2>1 DEF Backed, Since
<1> QED BY <1>10, <1>11, <1>12 DEF Tallied, l2, in, a

\* The final pull has all that the map had of this capture.
LEMMA TalliedAll ==
  ASSUME NEW d, NEW l \in Link, NEW o, NEW map, NEW shown, NEW from, NEW scans, NEW op, NEW sent,
         Tallied(d, l, o, map, TRUE, shown, from, scans, op, "all", sent), op # "start",
         l.toClient # <<>>, Head(l.toClient).to = "ALL", ~Head(l.toClient).torn,
         ~Behind(Asked(l), "ALL", "NEW")
  PROVE  Tallied(d, After(l, Tail(l.toClient)), o, Head(l.toClient).pts, TRUE, shown,
                 from, scans, op, "halt", FALSE)
<1> DEFINE in == l.toClient
           a == Head(in)
           l2 == After(l, Tail(in))
<1>1. in \in Seq(Answer) /\ Tail(in) \in Seq(Answer) /\ Left(Tail(in), in, 1)
  BY AskedType, TailLeaves
<1>2. Tallied(d, l2, o, map, TRUE, shown, from, scans, op, "all", sent)
  BY <1>1, TalliedRead
<1>3. l2 \in Link /\ l2.state = l.state /\ l2.toClient = Tail(in) /\ l2.toDaemon = l.toDaemon
  BY <1>1, LessRead
<1>4. 1 \in AllIn(in) /\ in[1] = a
  <2>1. 1 \in 1..Len(in) /\ in[1] = a
    BY <1>1, EmptySeq
  <2> QED BY <2>1 DEF AllIn
<1>5. ~Has(Asked(l2), "NEW")
  <2>1. Names(Tail(in)) = Tail(Names(in))
    BY <1>1, LeftNames
  <2>2. Asked(l2) = Tail(Asked(l)) /\ Asked(l) # <<>> /\ Head(Asked(l)) = "ALL"
    BY <1>1, <2>1, AskedRead DEF After
  <2>3. Asked(l) \in Seq(Request)
    BY AskedType
  <2> QED BY <2>2, <2>3, LessTail
<1>6. NewIn(Tail(in)) = {}
  <2>1. \A i \in 1..Len(l2.toClient) : Has(Asked(l2), l2.toClient[i].to)
    BY <1>3, AskedHas
  <2> QED BY <1>3, <1>5, <2>1 DEF NewIn
<1>7. /\ Once(d, l, o, map, TRUE, "all", sent) /\ Scanned(d, l, map, shown, scans)
      /\ Backed(d, l, map, TRUE, shown, from, op, "all")
      /\ Once(d, l2, o, map, TRUE, "all", sent) /\ Scanned(d, l2, map, shown, scans)
      /\ Backed(d, l2, map, TRUE, shown, from, op, "all")
  BY <1>2 DEF Tallied
<1>8. d.flight \notin a.pts /\ a.pts \subseteq 1..scans /\ Since(map, from) \subseteq a.pts
  BY <1>4, <1>7 DEF Once, Scanned, Backed, AllIn
<1> HIDE DEF l2, a, in
<1>9. Once(d, l2, o, a.pts, TRUE, "halt", FALSE)
  BY <1>3, <1>5, <1>6, <1>7, <1>8 DEF Once
<1>10. Scanned(d, l2, a.pts, shown, scans)
  BY <1>7, <1>8 DEF Scanned
<1>11. Backed(d, l2, a.pts, TRUE, shown, from, op, "halt")
  BY <1>7, <1>8 DEF Backed, Since
<1> QED BY <1>9, <1>10, <1>11 DEF Tallied, l2, in, a

\* The backend has started: its connection is empty.
LEMMA TalliedStarted ==
  ASSUME NEW d, NEW l \in Link, NEW o, NEW map, NEW running, NEW shown, NEW from, NEW scans,
         NEW sent, NEW op2, NEW at2, NEW sent2, NEW c,
         Tallied(d, l, o, map, running, shown, from, scans, "start", "start", sent),
         l.toClient # <<>>, Fits(d, l, o, c, "start", "backend", TRUE)
  PROVE  Tallied(d, After(l, Tail(l.toClient)), o, map, TRUE, shown, from, scans, op2, at2, sent2)
<1> DEFINE in == l.toClient
           l2 == After(l, Tail(in))
<1>1. in \in Seq(Answer) /\ Tail(in) \in Seq(Answer) /\ Left(Tail(in), in, 1)
  BY AskedType, TailLeaves
<1>2. Tallied(d, l2, o, map, running, shown, from, scans, "start", "start", sent)
  BY <1>1, TalliedRead
<1>3. l2 \in Link /\ l2.state = l.state /\ l2.toClient = Tail(in)
  BY <1>1, LessRead
<1>4. l2.toClient = <<>>
  <2>1. Names(Tail(in)) = Tail(Names(in))
    BY <1>1, LeftNames
  <2>2. Asked(l2) = Tail(Asked(l)) /\ Asked(l) # <<>>
    BY <1>1, <2>1, AskedRead DEF After
  <2>3. Asked(l) = <<"START">>
    BY <2>2 DEF Fits, Placed
  <2>4. Asked(l2) = <<>>
    BY <2>2, <2>3
  <2> QED BY <1>3, <2>4, AskedType
<1>5. l.state # "closed"
  <2>1. Asked(l) # <<>>
    BY AskedType
  <2> QED BY <2>1 DEF Fits, Sound
<1>6. /\ Once(d, l2, o, map, running, "start", sent) /\ Scanned(d, l2, map, shown, scans)
      /\ Backed(d, l2, map, running, shown, from, "start", "start")
  BY <1>2 DEF Tallied
<1> HIDE DEF l2
<1>7. NewIn(l2.toClient) = {} /\ AllIn(l2.toClient) = {}
  BY <1>4 DEF NewIn, AllIn
<1>8. Once(d, l2, o, map, TRUE, at2, sent2)
  BY <1>6 DEF Once
<1>9. Backed(d, l2, map, TRUE, shown, from, op2, at2)
  BY <1>3, <1>5, <1>6, <1>7 DEF Backed
<1> QED BY <1>6, <1>8, <1>9 DEF Tallied, l2

\* A request is sent.
LEMMA TalliedSent ==
  ASSUME NEW d, NEW l \in Link, NEW o, NEW c, NEW shown, NEW from, NEW scans, NEW op,
         NEW at \in DOMAIN RequestAt, NEW half,
         Tallied(d, l, o, c.map, c.running, shown, from, scans, op, at, FALSE),
         Fits(d, l, o, c, at, half, FALSE)
  PROVE  /\ l.state # "open" => Tallied(d, l, o, c.map, c.running, shown, from, scans, op, at, TRUE)
         /\ l.state = "open" =>
              Tallied(d, [l EXCEPT !.toDaemon = Append(@, RequestAt[at])], o, c.map, c.running,
                      shown, from, scans, op, at, TRUE)
<1> DEFINE r == RequestAt[at]
           l2 == [l EXCEPT !.toDaemon = Append(@, r)]
<1>1. /\ Once(d, l, o, c.map, c.running, at, FALSE) /\ Scanned(d, l, c.map, shown, scans)
      /\ Backed(d, l, c.map, c.running, shown, from, op, at)
  BY DEF Tallied
<1>2. Sound(d, l, o, c) /\ Placed(d, l, c, at, half, FALSE) /\ l.state \in {"closed", "open", "broken"}
  BY DEF Fits, Link
<1>3. ~d.alive => d.fresh = {}
  BY <1>1 DEF Once, Dead, Spawned
<1>4. ASSUME l.state # "open"
      PROVE  Tallied(d, l, o, c.map, c.running, shown, from, scans, op, at, TRUE)
  <2>1. c.running => ~d.alive
    BY <1>1, <1>2, <1>4 DEF Backed, Sound
  <2>2. Once(d, l, o, c.map, c.running, at, TRUE)
    BY <1>1, <1>3, <2>1 DEF Once
  <2> QED BY <1>1, <2>2 DEF Tallied
<1>5. ASSUME l.state = "open"
      PROVE  Tallied(d, l2, o, c.map, c.running, shown, from, scans, op, at, TRUE)
  <2>1. r \in Request /\ r = RequestAt[at]
    BY Calls
  <2>2. l2.state = l.state /\ l2.toDaemon = Append(l.toDaemon, r) /\ l2.toClient = l.toClient
    BY DEF Link
  <2>3. Asked(l2) = Append(Asked(l), r) /\ Asked(l) \in Seq(Request) /\ l.toDaemon \in Seq(Request)
    BY <2>1, AskedSend, AskedType
  <2>4. Has(Asked(l2), "NEW") => Has(Asked(l), "NEW") \/ at = "new"
    <3>1. r = "NEW" => at = "new"
      BY Calls DEF RequestAt
    <3> HIDE DEF l2, r
    <3> QED BY <2>1, <2>3, <3>1, MoreAppend
  <2>5. Has(l.toDaemon, "STOP") \/ r = "STOP" => Has(l2.toDaemon, "STOP")
    <3>1. /\ Len(l.toDaemon) \in Nat /\ Len(Append(l.toDaemon, r)) = Len(l.toDaemon) + 1
          /\ \A i \in 1..Len(l.toDaemon) : Append(l.toDaemon, r)[i] = l.toDaemon[i]
          /\ Append(l.toDaemon, r)[Len(l.toDaemon) + 1] = r
      BY <2>1, <2>3
    <3>2. \A i \in 1..Len(l.toDaemon) : i \in 1..Len(l.toDaemon) + 1
      BY <3>1
    <3>3. Len(l.toDaemon) + 1 \in 1..Len(l.toDaemon) + 1
      BY <3>1
    <3> QED BY <2>2, <3>1, <3>2, <3>3 DEF Has
  <2>6. at = "halt" => r = "STOP"
    BY DEF RequestAt
  <2>7. at = "new" => d.fresh \cap c.map = {}
    <3> SUFFICES ASSUME at = "new", d.fresh \cap c.map # {} PROVE FALSE
      OBVIOUS
    <3>1. c.running /\ ~Has(Asked(l), "STOP") /\ (d.alive => d.capturing)
      BY <1>2 DEF Placed, Ticking
    <3>2. ~Has(l.toDaemon, "STOP")
      BY <3>1, AskedHas
    <3> QED BY <1>1, <1>3, <3>1, <3>2 DEF Once
  <2> HIDE DEF l2, r
  <2>8. Once(d, l2, o, c.map, c.running, at, TRUE)
    <3>1. ~d.alive => l2.state # "open"
      BY <1>1, <2>2 DEF Once
    <3>2. d.fresh \cap c.map # {} =>
            /\ ~Has(Asked(l2), "NEW")
            /\ ~d.capturing \/ Has(l2.toDaemon, "STOP")
      BY <1>1, <2>4, <2>5, <2>6, <2>7 DEF Once
    <3> QED BY <1>1, <2>2, <3>1, <3>2 DEF Once
  <2>9. Scanned(d, l2, c.map, shown, scans) /\ Backed(d, l2, c.map, c.running, shown, from, op, at)
    BY <1>1, <2>2 DEF Scanned, Backed
  <2> QED BY <2>8, <2>9 DEF Tallied, l2, r
<1> QED BY <1>4, <1>5

\* A connection is opened to a daemon that is alive, and one that is dead is spawned.
LEMMA TalliedOpened ==
  ASSUME NEW d, NEW l \in Link, NEW o, NEW c, NEW shown, NEW from, NEW scans, NEW op,
         NEW at, NEW half, NEW sent, NEW at2, NEW sent2,
         Tallied(d, l, o, c.map, c.running, shown, from, scans, op, at, sent),
         Fits(d, l, o, c, at, half, sent), at \in {"connect", "respawn"}
  PROVE  /\ l.state # "closed" \/ d.alive =>
              Tallied(d, Opened(l), o, c.map, c.running, shown, from, scans, op, at2, sent2)
         /\ l.state = "closed" =>
              Tallied(IF d.alive THEN d ELSE Spawned, Opened(l), o, c.map, c.running, shown, from,
                      scans, op, at2, sent2)
<1>1. /\ Once(d, l, o, c.map, c.running, at, sent) /\ Scanned(d, l, c.map, shown, scans)
      /\ Backed(d, l, c.map, c.running, shown, from, op, at)
  BY DEF Tallied
<1>2. ~c.running /\ Sound(d, l, o, c)
  BY DEF Fits, Placed, Starting
<1>3. Tallied(d, l, o, c.map, c.running, shown, from, scans, op, at2, sent2)
  BY <1>2, TalliedElsewhere
<1>4. ASSUME l.state = "closed"
      PROVE  /\ d.alive => Tallied(d, Fresh, o, c.map, c.running, shown, from, scans, op, at2, sent2)
             /\ ~d.alive => Tallied(Spawned, Fresh, o, c.map, c.running, shown, from, scans, op, at2, sent2)
  <2>1. Fresh.state = "open" /\ Fresh.toClient = <<>> /\ Fresh.toDaemon = <<>> /\ Asked(Fresh) = <<>>
    BY NewLinks
  <2>2. NewIn(<<>>) = {} /\ AllIn(<<>>) = {}
    BY DEF NewIn, AllIn
  <2>3. l.toDaemon = <<>> /\ l.toClient = <<>>
    BY <1>2, <1>4, AskedType DEF Sound
  <2>4. d.alive => Once(d, Fresh, o, c.map, c.running, at2, sent2)
    BY <1>1, <1>2, <2>1, <2>2, <2>3, NothingInEmpty DEF Once
  <2>5. ~d.alive => d = Dead
    BY <1>1 DEF Once
  <2>6. /\ Spawned.alive /\ Spawned.fresh = {} /\ Spawned.voxels = {} /\ Spawned.flight = None
        /\ Dead.flight = None
    BY DEF Spawned, Dead
  <2>7. ~d.alive => Once(Spawned, Fresh, o, c.map, c.running, at2, sent2)
    BY <1>1, <2>1, <2>2, <2>5, <2>6, NothingInEmpty DEF Once
  <2>8. /\ d.alive => Scanned(d, Fresh, c.map, shown, scans)
        /\ Scanned(Spawned, Fresh, c.map, shown, scans)
    BY <1>1, <2>1, <2>2, <2>6 DEF Scanned
  <2>9. \A e : Backed(e, Fresh, c.map, c.running, shown, from, op, at2)
    BY <1>1, <1>2 DEF Backed
  <2> QED BY <2>4, <2>7, <2>8, <2>9 DEF Tallied
<1> QED BY <1>3, <1>4 DEF Opened

\* A connection is closed; what had been sent may still be served.
LEMMA TalliedLost ==
  ASSUME NEW d, NEW l \in Link, NEW o, NEW c, NEW shown, NEW from, NEW scans, NEW op,
         NEW at \in Pinging, NEW half, NEW sent, NEW op2, NEW at2, NEW sent2,
         Tallied(d, l, o, c.map, c.running, shown, from, scans, op, at, sent),
         Fits(d, l, o, c, at, half, sent), op2 = "start" => op = "start"
  PROVE  Tallied(d, Closed, Abandoned(l, o), c.map, c.running, shown, from, scans, op2, at2, sent2)
<1>1. /\ Once(d, l, o, c.map, c.running, at, sent) /\ Scanned(d, l, c.map, shown, scans)
      /\ Backed(d, l, c.map, c.running, shown, from, op, at)
  BY DEF Tallied
<1>2. ~c.running /\ Sound(d, l, o, c) /\ ~Has(Asked(l), "STOP")
  BY DEF Fits, Placed, Starting, Pinging
<1>3. Closed.state = "closed" /\ Closed.toClient = <<>> /\ Closed.toDaemon = <<>> /\ Asked(Closed) = <<>>
  BY NewLinks
<1>4. NewIn(<<>>) = {} /\ AllIn(<<>>) = {}
  BY DEF NewIn, AllIn
<1>5. ~d.alive => l.toDaemon = <<>>
  <2>1. l.state \in {"closed", "open", "broken"}
    BY DEF Link
  <2>2. l.state = "closed" => l.toDaemon = <<>>
    BY <1>2, AskedType DEF Sound
  <2> QED BY <1>1, <1>2, <2>1, <2>2 DEF Once, Sound
<1>6. ~d.alive => Abandoned(l, o) = <<>>
  BY <1>1, <1>5 DEF Once, Abandoned
<1>7. ~Has(l.toDaemon, "STOP")
  BY <1>2, AskedHas
<1>8. Once(d, Closed, Abandoned(l, o), c.map, c.running, at2, sent2)
  BY <1>1, <1>2, <1>3, <1>4, <1>6, <1>7, NothingInEmpty DEF Once
<1>9. Scanned(d, Closed, c.map, shown, scans)
  BY <1>1, <1>3 DEF Scanned
<1>10. Backed(d, Closed, c.map, c.running, shown, from, op2, at2)
  BY <1>1, <1>2 DEF Backed
<1> QED BY <1>8, <1>9, <1>10 DEF Tallied

\* What serving does to the points of a daemon.
LEMMA ServedPoints ==
  ASSUME NEW d \in Daemon, NEW r \in Request
  PROVE  /\ \/ Serve(d, r).voxels = d.voxels /\ Serve(d, r).fresh \in {d.fresh, {}}
            \/ Serve(d, r).voxels = {} /\ Serve(d, r).fresh = {} /\ r = "START" /\ ~d.capturing
         /\ r = "NEW" => Serve(d, r).fresh = {} /\ Carried(d, r) = d.fresh
         /\ r = "ALL" => Carried(d, r) = d.voxels
         /\ Carried(d, r) \in {d.voxels, d.fresh, {}}
         /\ r = "STOP" => ~Serve(d, r).capturing
<1>1. CASE r = "START"
  BY <1>1 DEF Serve, StartAcquisition, Daemon, Carried
<1>2. CASE r = "STOP"
  BY <1>2 DEF Serve, Daemon, Carried
<1>3. CASE r = "NEW"
  BY <1>3 DEF Serve, Daemon, Carried
<1>4. CASE r \notin {"START", "STOP", "NEW"}
  <2>1. Serve(d, r) = d
    BY <1>4 DEF Serve
  <2> QED BY <1>4, <2>1 DEF Carried
<1> QED BY <1>1, <1>2, <1>3, <1>4

\* What is still asked for after the head of a queue has been taken was in it.
LEMMA HasTail ==
  ASSUME NEW q \in Seq(Request), NEW x, Has(q, x), Head(q) # x
  PROVE  Has(Tail(q), x)
<1>1. PICK i \in 1..Len(q) : q[i] = x
  BY DEF Has
<1>2. q # <<>> /\ Head(q) = q[1] /\ Len(q) \in Nat
  BY <1>1, EmptySeq
<1>3. Len(Tail(q)) = Len(q) - 1 /\ \A j \in 1..Len(Tail(q)) : Tail(q)[j] = q[j + 1]
  BY <1>2, HeadTailProperties
<1>4. i # 1
  BY <1>1, <1>2
<1>5. i - 1 \in 1..Len(Tail(q)) /\ (i - 1) + 1 = i
  BY <1>1, <1>2, <1>3, <1>4
<1> QED BY <1>1, <1>3, <1>5 DEF Has

\* A daemon serves a request.
LEMMA TalliedServed ==
  ASSUME NEW d \in Daemon, NEW l \in Link, NEW o, NEW c, NEW shown, NEW from, NEW scans, NEW op,
         NEW at, NEW half, NEW sent,
         Tallied(d, l, o, c.map, c.running, shown, from, scans, op, at, sent),
         Fits(d, l, o, c, at, half, sent), l.state = "open", l.toDaemon # <<>>
  PROVE  LET r == Head(l.toDaemon)
             l2 == [l EXCEPT !.toDaemon = Tail(@), !.toClient = Append(@, AnswerTo(d, r))]
         IN  Tallied(Serve(d, r), l2, o, c.map, c.running, shown, from, scans, op, at, sent)
<1> DEFINE r == Head(l.toDaemon)
           a == AnswerTo(d, r)
           d2 == Serve(d, r)
           in == l.toClient
           n == Len(in) + 1
           l2 == [l EXCEPT !.toDaemon = Tail(@), !.toClient = Append(@, a)]
<1>1. in \in Seq(Answer) /\ l.toDaemon \in Seq(Request) /\ r \in Request /\ Has(l.toDaemon, r)
  <2>1. in \in Seq(Answer) /\ l.toDaemon \in Seq(Request)
    BY AskedType
  <2>2. r \in Request /\ r = l.toDaemon[1] /\ 1 \in 1..Len(l.toDaemon)
    BY <2>1, EmptySeq
  <2> QED BY <2>1, <2>2 DEF Has
<1>2. /\ d2.alive = d.alive /\ d2.flight = d.flight
      /\ r \notin {"START", "STOP"} => d2.capturing = d.capturing
      /\ r # "STOP" /\ d.capturing => d2.capturing
      /\ a \in Answer /\ a.to = r /\ ~a.torn /\ a.pts = Carried(d, r)
  BY <1>1, Served
<1>3. /\ \/ d2.voxels = d.voxels /\ d2.fresh \in {d.fresh, {}}
         \/ d2.voxels = {} /\ d2.fresh = {} /\ r = "START" /\ ~d.capturing
      /\ r = "NEW" => d2.fresh = {} /\ a.pts = d.fresh
      /\ r = "ALL" => a.pts = d.voxels
      /\ a.pts \in {d.voxels, d.fresh, {}}
      /\ r = "STOP" => ~d2.capturing
  BY <1>1, <1>2, ServedPoints
<1>4. /\ l2.state = l.state /\ l2.toDaemon = Tail(l.toDaemon) /\ l2.toClient = Append(in, a)
      /\ Asked(l2) = Asked(l)
  BY <1>2, AskedServed
<1>5. /\ Once(d, l, o, c.map, c.running, at, sent) /\ Scanned(d, l, c.map, shown, scans)
      /\ Backed(d, l, c.map, c.running, shown, from, op, at)
  BY DEF Tallied
<1>6. d.alive /\ (r = "NEW" => d.fresh \cap c.map = {})
  <2>1. Has(Asked(l), r)
    BY <1>1, AskedHas
  <2> QED BY <1>5, <2>1 DEF Once
<1>7. /\ \A i \in 1..Len(l2.toClient) : (i \in 1..Len(in) /\ l2.toClient[i] = in[i]) \/ (i = n /\ l2.toClient[i] = a)
      /\ \A i \in NewIn(l2.toClient) : (i \in NewIn(in) /\ l2.toClient[i] = in[i]) \/ (i = n /\ l2.toClient[i] = a /\ r = "NEW")
      /\ \A i \in AllIn(l2.toClient) : (i \in AllIn(in) /\ l2.toClient[i] = in[i]) \/ (i = n /\ l2.toClient[i] = a /\ r = "ALL")
  <2>1. in \in Seq(Answer) /\ a \in Answer /\ ~a.torn /\ a.to = r /\ l2.toClient = Append(in, a) /\ n = Len(in) + 1
    BY <1>1, <1>2, <1>4
  <2> HIDE DEF in, a, r, l2, n
  <2>2. PICK in2 : in2 = l2.toClient
    OBVIOUS
  <2>3. /\ Len(in) \in Nat /\ Len(in2) = Len(in) + 1
        /\ \A i \in 1..Len(in) : in2[i] = in[i]
        /\ in2[n] = a
    BY <2>1, <2>2
  <2>4. \A i \in 1..Len(in2) : i \in 1..Len(in) \/ i = n
    BY <2>1, <2>3
  <2>5. \A i \in 1..Len(in2) : (i \in 1..Len(in) /\ in2[i] = in[i]) \/ (i = n /\ in2[i] = a)
    BY <2>3, <2>4
  <2>6. /\ \A i \in NewIn(in2) : (i \in NewIn(in) /\ in2[i] = in[i]) \/ (i = n /\ in2[i] = a /\ r = "NEW")
        /\ \A i \in AllIn(in2) : (i \in AllIn(in) /\ in2[i] = in[i]) \/ (i = n /\ in2[i] = a /\ r = "ALL")
    BY <2>1, <2>5 DEF NewIn, AllIn
  <2> QED BY <2>2, <2>5, <2>6
<1>8. c.running /\ at # "halt" => d2.voxels = d.voxels
  BY <1>3, <1>6 DEF Fits, Placed
<1>9. l.toDaemon \in Seq(Request) /\ (Has(l.toDaemon, "STOP") /\ r # "STOP" => Has(Tail(l.toDaemon), "STOP"))
  BY <1>1, HasTail
<1> HIDE DEF r, a, d2, in, l2, n
<1>10. Once(d2, l2, o, c.map, c.running, at, sent)
  <2>1. /\ d2.fresh \subseteq d2.voxels /\ d2.flight \notin d2.voxels \cup c.map
        /\ a.pts \subseteq d.voxels /\ d.flight \notin a.pts
    BY <1>2, <1>3, <1>5 DEF Once
  <2>2. \A i \in 1..Len(l2.toClient) : ~l2.toClient[i].torn => d2.flight \notin l2.toClient[i].pts
    BY <1>2, <1>5, <1>7, <2>1 DEF Once, in
  <2>3. \A i \in NewIn(l2.toClient) : l2.toClient[i].pts \cap d2.fresh = {} /\ l2.toClient[i].pts \cap c.map = {}
    BY <1>3, <1>5, <1>6, <1>7 DEF Once, in
  <2>4. \A i, j \in NewIn(l2.toClient) : i # j => l2.toClient[i].pts \cap l2.toClient[j].pts = {}
    <3> SUFFICES ASSUME NEW i \in NewIn(l2.toClient), NEW j \in NewIn(l2.toClient), i # j
                 PROVE  l2.toClient[i].pts \cap l2.toClient[j].pts = {}
      OBVIOUS
    <3>1. \A k \in NewIn(in) : in[k].pts \cap d.fresh = {}
      BY <1>5 DEF Once, in
    <3>2. \A k, m \in NewIn(in) : k # m => in[k].pts \cap in[m].pts = {}
      BY <1>5 DEF Once, in
    <3> QED BY <1>3, <1>7, <3>1, <3>2
  <2>5. ASSUME d2.fresh \cap c.map # {}
        PROVE  /\ ~Has(Asked(l2), "NEW")
               /\ ~d2.capturing \/ Has(l2.toDaemon, "STOP") \/ (at = "halt" /\ ~sent /\ c.running)
    <3>1. d2.fresh = d.fresh /\ d.fresh \cap c.map # {}
      BY <1>3, <2>5
    <3>2. r = "START" /\ ~d.capturing => d2.fresh = {}
      BY DEF d2, Serve, StartAcquisition, Daemon
    <3> QED BY <1>2, <1>3, <1>4, <1>5, <1>9, <2>5, <3>1, <3>2 DEF Once
  <2> QED BY <1>2, <1>4, <1>5, <2>1, <2>2, <2>3, <2>4, <2>5 DEF Once
<1>11. Scanned(d2, l2, c.map, shown, scans)
  <2>1. d.fresh \subseteq d.voxels
    BY <1>5 DEF Once
  <2> QED BY <1>2, <1>3, <1>5, <1>7, <2>1 DEF Scanned, in
<1>12. Backed(d2, l2, c.map, c.running, shown, from, op, at)
  <2>1. d.fresh \subseteq d.voxels
    BY <1>5 DEF Once
  <2>2. Since(d.fresh, from) \subseteq d.voxels
    BY <2>1 DEF Since
  <2> QED BY <1>2, <1>3, <1>4, <1>5, <1>6, <1>7, <1>8, <2>2 DEF Backed, in
<1> QED BY <1>10, <1>11, <1>12 DEF Tallied, r, a, d2, l2, in

\* A request of a connection that was closed is served, or given up.
LEMMA TalliedOrphan ==
  ASSUME NEW d \in Daemon, NEW l, NEW o \in Orphans, NEW c, NEW shown, NEW from, NEW scans, NEW op,
         NEW at, NEW half, NEW sent, NEW o2, NEW i \in 1..Len(o), NEW d2,
         Tallied(d, l, o, c.map, c.running, shown, from, scans, op, at, sent),
         Fits(d, l, o, c, at, half, sent),
         d2 = d \/ (d2 = Serve(d, Head(o[i])) /\ Head(o[i]) \in Request \ {"STOP"})
  PROVE  Tallied(d2, l, o2, c.map, c.running, shown, from, scans, op, at, sent)
<1> DEFINE r == Head(o[i])
<1>1. /\ Once(d, l, o, c.map, c.running, at, sent) /\ Scanned(d, l, c.map, shown, scans)
      /\ Backed(d, l, c.map, c.running, shown, from, op, at)
  BY DEF Tallied
<1>2. o # <<>>
  BY DEF Orphans
<1>3. d.alive
  BY <1>1, <1>2 DEF Once
<1>4. CASE d2 = d
  BY <1>1, <1>3, <1>4 DEF Tallied, Once
<1>5. CASE d2 = Serve(d, r) /\ r \in Request \ {"STOP"}
  <2>1. /\ d2.alive = d.alive /\ d2.flight = d.flight
        /\ r # "START" => d2.capturing = d.capturing
    BY <1>5, Served
  <2>2. \/ d2.voxels = d.voxels /\ d2.fresh \in {d.fresh, {}}
        \/ d2.voxels = {} /\ d2.fresh = {} /\ r = "START" /\ ~d.capturing
    BY <1>5, ServedPoints
  <2>3. r = "START" => (d.capturing => d2.capturing) /\ (~d.capturing => d2.fresh = {})
    BY <1>5 DEF Serve, StartAcquisition, Daemon
  <2>4. c.running /\ at # "halt" => d2.voxels = d.voxels
    BY <1>3, <2>2 DEF Fits, Placed
  <2> HIDE DEF r
  <2>5. d2.fresh \cap c.map # {} => d2.fresh = d.fresh /\ (~d.capturing => ~d2.capturing)
    BY <2>1, <2>2, <2>3
  <2>6. Once(d2, l, o2, c.map, c.running, at, sent)
    BY <1>1, <1>3, <2>1, <2>2, <2>5 DEF Once
  <2>7. Scanned(d2, l, c.map, shown, scans)
    BY <1>1, <2>1, <2>2 DEF Scanned
  <2>8. Backed(d2, l, c.map, c.running, shown, from, op, at)
    BY <1>1, <2>1, <2>4 DEF Backed
  <2> QED BY <2>6, <2>7, <2>8 DEF Tallied
<1> QED BY <1>4, <1>5 DEF r

\* A scan is numbered as its callback begins.
LEMMA TalliedSensed ==
  ASSUME NEW d \in Daemon, NEW l, NEW o, NEW map, NEW running, NEW shown, NEW from, NEW scans \in Nat,
         NEW op, NEW at, NEW sent,
         Tallied(d, l, o, map, running, shown, from, scans, op, at, sent), d.alive
  PROVE  Tallied(Sense(d, scans + 1), l, o, map, running, shown, from, scans + 1, op, at, sent)
<1> DEFINE d2 == Sense(d, scans + 1)
<1>1. /\ Once(d, l, o, map, running, at, sent) /\ Scanned(d, l, map, shown, scans)
      /\ Backed(d, l, map, running, shown, from, op, at)
  BY DEF Tallied
<1>2. /\ d2.alive = d.alive /\ d2.voxels = d.voxels /\ d2.fresh = d.fresh
      /\ d2.capturing = d.capturing /\ d2.flight = scans + 1
  BY DEF Sense, Daemon
<1>3. scans + 1 \notin 1..scans /\ 1..scans \subseteq 1..scans + 1 /\ scans + 1 \in 1..scans + 1
  OBVIOUS
<1> HIDE DEF d2
<1>4. Once(d2, l, o, map, running, at, sent)
  <2>1. scans + 1 \notin d.voxels \cup map
    BY <1>1, <1>3 DEF Scanned
  <2>2. \A i \in 1..Len(l.toClient) : ~l.toClient[i].torn => scans + 1 \notin l.toClient[i].pts
    BY <1>1, <1>3 DEF Scanned
  <2> QED BY <1>1, <1>2, <2>1, <2>2 DEF Once
<1>5. Scanned(d2, l, map, shown, scans + 1)
  <2>1. \A S : S \subseteq 1..scans => S \subseteq 1..scans + 1
    BY <1>3
  <2> QED BY <1>1, <1>2, <1>3, <2>1 DEF Scanned
<1>6. Backed(d2, l, map, running, shown, from, op, at)
  BY <1>1, <1>2 DEF Backed
<1> QED BY <1>4, <1>5, <1>6 DEF Tallied, d2

\* ... and is in the buffer as well as in the map of the daemon when it ends.
LEMMA TalliedRecorded ==
  ASSUME NEW d \in Daemon, NEW l, NEW o, NEW map, NEW running, NEW shown, NEW from, NEW scans \in Nat,
         NEW op, NEW at, NEW sent,
         Tallied(d, l, o, map, running, shown, from, scans, op, at, sent), d.flight # None
  PROVE  Tallied(Record(d), l, o, map, running, shown, from, scans, op, at, sent)
<1> DEFINE d2 == Record(d)
<1>1. /\ Once(d, l, o, map, running, at, sent) /\ Scanned(d, l, map, shown, scans)
      /\ Backed(d, l, map, running, shown, from, op, at)
  BY DEF Tallied
<1>2. /\ d2.alive = d.alive /\ d2.voxels = d.voxels \cup {d.flight} /\ d2.capturing = d.capturing
      /\ d2.fresh = d.fresh \cup {d.flight} /\ d2.flight = None
  BY DEF Record, Daemon
<1>3. None \notin 1..scans /\ d.flight \in 1..scans
  BY <1>1, NoneAssumption DEF Scanned
<1>4. d.alive
  BY <1>1 DEF Once, Dead, Spawned
<1>5. \A i \in NewIn(l.toClient) : d.flight \notin l.toClient[i].pts
  BY <1>1 DEF Once, NewIn
<1> HIDE DEF d2
<1>6. Once(d2, l, o, map, running, at, sent)
  <2>1. None \notin d2.voxels \cup map
    BY <1>1, <1>2, <1>3 DEF Scanned
  <2>2. \A i \in 1..Len(l.toClient) : ~l.toClient[i].torn => None \notin l.toClient[i].pts
    BY <1>1, <1>3 DEF Scanned
  <2>3. \A i \in NewIn(l.toClient) : l.toClient[i].pts \cap d2.fresh = {}
    BY <1>1, <1>2, <1>5 DEF Once
  <2>4. d2.fresh \cap map # {} => d.fresh \cap map # {}
    BY <1>1, <1>2 DEF Once
  <2> QED BY <1>1, <1>2, <1>4, <2>1, <2>2, <2>3, <2>4 DEF Once
<1>7. Scanned(d2, l, map, shown, scans)
  BY <1>1, <1>2, <1>3 DEF Scanned
<1>8. Backed(d2, l, map, running, shown, from, op, at)
  BY <1>1, <1>2 DEF Backed
<1> QED BY <1>6, <1>7, <1>8 DEF Tallied, d2

\* A daemon that dies takes with it what has not reached the backend.
LEMMA TalliedCrashed ==
  ASSUME NEW d, NEW l, NEW o, NEW map, NEW running, NEW shown, NEW from, NEW scans,
         NEW op, NEW at, NEW sent, NEW l2,
         Tallied(d, l, o, map, running, shown, from, scans, op, at, sent),
         \/ l2 = l /\ l.state # "open"
         \/ /\ l2.state = "broken" /\ l2.toClient \in {l.toClient, <<>>}
            /\ l.state = "open"
            /\ Has(Asked(l2), "NEW") => Has(Asked(l), "NEW")
  PROVE  Tallied(Dead, l2, <<>>, map, running, shown, from, scans, op, at, sent)
<1>1. /\ Once(d, l, o, map, running, at, sent) /\ Scanned(d, l, map, shown, scans)
      /\ Backed(d, l, map, running, shown, from, op, at)
  BY DEF Tallied
<1>2. ~Dead.alive /\ Dead.voxels = {} /\ Dead.fresh = {} /\ Dead.flight = None /\ ~Dead.capturing
  BY DEF Dead, Spawned
<1>3. Len(<<>>) = 0 /\ NewIn(<<>>) = {} /\ AllIn(<<>>) = {}
  BY DEF NewIn, AllIn
<1>4. l2.state # "open" /\ (running => l2.state # "closed") /\ l2.toClient \in {l.toClient, <<>>}
  BY <1>1 DEF Backed
<1>5. None \notin map /\ \A i \in 1..Len(l.toClient) : ~l.toClient[i].torn => None \notin l.toClient[i].pts
  BY <1>1, NoneAssumption DEF Scanned
<1>6. Once(Dead, l2, <<>>, map, running, at, sent)
  BY <1>1, <1>2, <1>3, <1>4, <1>5 DEF Once
<1>7. Scanned(Dead, l2, map, shown, scans)
  BY <1>1, <1>2, <1>3, <1>4 DEF Scanned
<1>8. Backed(Dead, l2, map, running, shown, from, op, at)
  BY <1>1, <1>2, <1>3, <1>4 DEF Backed
<1> QED BY <1>6, <1>7, <1>8 DEF Tallied

-----------------------------------------------------------------------------
(* The steps of the user-interface thread.                                  *)

\* A step of the bridge on one sensor: what it does to that sensor's points is enough.
LEMMA ThreadPoints ==
  ASSUME PointsInv, ui.at # "idle", NEW s \in Sensor, s = Subject,
         began' = began, spent'.scans = spent.scans, ui'.op = "start" => ui.op = "start",
         \A t \in Sensor \ {s} : Untouched(t) /\ bridge'.map[t] = bridge.map[t],
         Tallied(daemon'[s], link'[s], orphans'[s], client'[s].map, client'[s].running,
                 bridge'.map[s], began, spent.scans, ui'.op, AtOf(s)', ui'.sent)
  PROVE  Points'
<1>1. \A t \in Sensor \ {s} : AtOf(t) = "rest"
  BY Busy DEF PointsInv
<1>2. ASSUME NEW t \in Sensor PROVE Accounted(t)'
  <2>1. CASE t = s
    BY <2>1 DEF Accounted
  <2>2. CASE t # s
    <3>1. Tallied(daemon[t], link[t], orphans[t], client[t].map, client[t].running, bridge.map[t],
                  began, spent.scans, ui.op, "rest", ui.sent)
      BY <1>1, <2>2 DEF PointsInv, Points, Accounted
    <3>2. Tallied(daemon[t], link[t], orphans[t], client[t].map, client[t].running, bridge.map[t],
                  began, spent.scans, ui'.op, AtOf(t)', ui'.sent)
      BY <3>1, TalliedElsewhere
    <3>3. /\ daemon'[t] = daemon[t] /\ link'[t] = link[t] /\ orphans'[t] = orphans[t]
          /\ client'[t] = client[t] /\ bridge'.map[t] = bridge.map[t]
      BY <2>2 DEF Untouched
    <3> QED BY <3>2, <3>3 DEF Accounted
  <2> QED BY <2>1, <2>2
<1>3. began' <= spent'.scans
  BY DEF PointsInv, Points
<1> QED BY <1>2, <1>3 DEF Points

\* Where a call stands, its sensor's points are accounted for.
LEMMA VisitingPoints ==
  ASSUME PointsInv, ui.at \notin {"enter", "idle"}, NEW s \in Sensor, s = Subject
  PROVE  Tallied(daemon[s], link[s], orphans[s], client[s].map, client[s].running, bridge.map[s],
                 began, spent.scans, ui.op, ui.at, ui.sent)
<1>1. AtOf(s) = ui.at
  BY Busy DEF PointsInv
<1> QED BY <1>1 DEF PointsInv, Points, Accounted

\* What the next sensor, the end of the loop and a sensor's new map do to the bridge.
LEMMA NextMap ==
  ASSUME NEW started, NEW b \in BridgeType, NextSensor(started, b)
  PROVE  bridge'.map = b.map /\ ui'.op \in {ui.op, "idle"}
<1>1. bridge' = b \/ bridge' = [b EXCEPT !.state = EndOf(ui.op)]
  BY DEF NextSensor
<1>2. bridge'.map = b.map
  BY <1>1 DEF BridgeType
<1>3. CASE Len(ui.todo) > 1
  <2>1. ui' = [op |-> ui.op, todo |-> Tail(ui.todo), started |-> started, half |-> "adapter",
               at |-> "enter", sent |-> FALSE, dirty |-> FALSE]
    BY <1>3 DEF NextSensor, Begin, Resting
  <2> QED BY <1>2, <2>1
<1>4. CASE ~(Len(ui.todo) > 1)
  <2>1. ui' = Resting
    BY <1>4 DEF NextSensor
  <2> QED BY <1>2, <2>1 DEF Resting
<1> QED BY <1>3, <1>4

\* Showing a sensor replaces what is shown of it by what its backend holds.
LEMMA ShownMap ==
  ASSUME bridge \in BridgeType, NEW s \in Sensor, s = Subject, NEW c,
         c.map \in SUBSET Point, c.trajectory \in SUBSET Point
  PROVE  /\ Shown(c) \in BridgeType /\ Shown(c).map[s] = c.map
         /\ \A t \in Sensor \ {s} : Shown(c).map[t] = bridge.map[t]
<1>1. Shown(c) = [bridge EXCEPT !.map = [@ EXCEPT ![s] = c.map],
                                !.trajectory = [@ EXCEPT ![s] = c.trajectory]]
  BY DEF Shown
<1>2. [bridge.map EXCEPT ![s] = c.map] \in [Sensor -> SUBSET Point]
      /\ [bridge.trajectory EXCEPT ![s] = c.trajectory] \in [Sensor -> SUBSET Point]
  BY DEF BridgeType
<1>3. Shown(c) \in BridgeType /\ Shown(c).map = [bridge.map EXCEPT ![s] = c.map]
  BY <1>1, <1>2 DEF BridgeType
<1>4. bridge.map \in [Sensor -> SUBSET Point]
  BY DEF BridgeType
<1> QED BY <1>3, <1>4

\* A capture begins: nothing of it is shown yet.
LEMMA TalliedBegun ==
  ASSUME NEW d, NEW l, NEW o, NEW map, NEW shown, NEW from, NEW scans \in Nat, NEW op,
         NEW sent, NEW at2, NEW sent2,
         Tallied(d, l, o, map, FALSE, shown, from, scans, op, "rest", sent)
  PROVE  Tallied(d, l, o, map, FALSE, {}, scans, scans, "start", at2, sent2)
<1>1. /\ Once(d, l, o, map, FALSE, "rest", sent) /\ Scanned(d, l, map, shown, scans)
  BY DEF Tallied
<1>2. Once(d, l, o, map, FALSE, at2, sent2)
  BY <1>1 DEF Once
<1>3. Scanned(d, l, map, {}, scans)
  BY <1>1 DEF Scanned
<1>4. Since(map, scans) = {} /\ Since({}, scans) = {}
  <2>1. map \subseteq 1..scans
    BY <1>1 DEF Scanned
  <2>2. \A p \in map : ~(p > scans)
    BY <2>1
  <2> QED BY <2>2 DEF Since
<1>5. Backed(d, l, map, FALSE, {}, scans, "start", at2)
  BY <1>4 DEF Backed
<1> QED BY <1>2, <1>3, <1>5 DEF Tallied

\* A capture begins.
LEMMA BeginPoints ==
  ASSUME PointsInv, StartCapture \/ OnTelemetryTick \/ StopCapture
  PROVE  Points'
<1>1. /\ ui.op = "idle" /\ UNCHANGED <<daemon, link, orphans, client>> /\ TypeOK /\ Flow
      /\ began <= spent.scans /\ began \in Nat /\ spent.scans \in Nat
  BY DEF StartCapture, OnTelemetryTick, StopCapture, pipes, PointsInv, Points, CaptureInv, TypeOK
<1>2. ASSUME NEW s \in Sensor
      PROVE  Tallied(daemon[s], link[s], orphans[s], client[s].map, client[s].running, bridge.map[s],
                     began, spent.scans, "idle", "rest", ui.sent)
  <2>1. AtOf(s) = "rest"
    BY <1>1 DEF AtOf, Visited
  <2> QED BY <1>1, <2>1 DEF PointsInv, Points, Accounted
<1>3. CASE StartCapture
  <2>1. /\ began' = spent.scans /\ ui'.op = "start" /\ bridge.state # "CAPTURING"
        /\ \A s \in Sensor : bridge'.map[s] = {}
    BY <1>1, <1>3 DEF StartCapture, Begin, Resting, TypeOK
  <2>2. spent'.scans = spent.scans
    BY <1>1, <1>3 DEF StartCapture, Spend, TypeOK
  <2>3. ASSUME NEW s \in Sensor PROVE Accounted(s)'
    <3>1. client[s].running = FALSE
      <4>1. ~client[s].running
        BY <1>1, <2>1 DEF Flow, Running
      <4>2. client[s].running \in BOOLEAN
        BY <1>1 DEF TypeOK, Client
      <4> QED BY <4>1, <4>2
    <3>2. Tallied(daemon[s], link[s], orphans[s], client[s].map, FALSE, bridge.map[s],
                  began, spent.scans, "idle", "rest", ui.sent)
      BY <1>2, <3>1
    <3>3. Tallied(daemon[s], link[s], orphans[s], client[s].map, FALSE, {},
                  spent.scans, spent.scans, "start", AtOf(s)', ui'.sent)
      BY <1>1, <3>2, TalliedBegun
    <3> QED BY <1>1, <2>1, <2>2, <3>1, <3>3 DEF Accounted
  <2> QED BY <1>1, <2>1, <2>2, <2>3 DEF Points
<1>4. CASE OnTelemetryTick \/ StopCapture
  <2>1. began' = began /\ spent' = spent /\ bridge' = bridge /\ ui'.op # "start"
    BY <1>4 DEF OnTelemetryTick, StopCapture, Begin, Resting, history
  <2>2. ASSUME NEW s \in Sensor PROVE Accounted(s)'
    <3>1. Tallied(daemon[s], link[s], orphans[s], client[s].map, client[s].running, bridge.map[s],
                  began, spent.scans, "idle", "rest", ui.sent)
      BY <1>2
    <3>2. Tallied(daemon[s], link[s], orphans[s], client[s].map, client[s].running, bridge.map[s],
                  began, spent.scans, ui'.op, AtOf(s)', ui'.sent)
      BY <2>1, <3>1, TalliedElsewhere
    <3> QED BY <1>1, <2>1, <3>2 DEF Accounted
  <2> QED BY <1>1, <2>1, <2>2 DEF Points
<1> QED BY <1>3, <1>4

\* The bridge enters an operation.
LEMMA EnterPoints ==
  ASSUME PointsInv, Enter
  PROVE  Points'
<1>1. /\ ui.at = "enter" /\ CaptureInv
      /\ UNCHANGED <<daemon, link, orphans, client, bridge, began, due, failed, spent>>
  BY DEF PointsInv, Enter, pipes, history
<1>2. PICK s \in Sensor : s = Subject /\ AtOf(s) = "rest"
  BY <1>1, Busy
<1>3. ui'.op = ui.op
  <2>1. ui \in Ui
    BY <1>1 DEF CaptureInv, TypeOK
  <2> QED BY <2>1 DEF Enter, Goto, Ui
<1>4. Tallied(daemon[s], link[s], orphans[s], client[s].map, client[s].running, bridge.map[s],
              began, spent.scans, ui.op, "rest", ui.sent)
  BY <1>2 DEF PointsInv, Points, Accounted
<1>5. Tallied(daemon[s], link[s], orphans[s], client[s].map, client[s].running, bridge.map[s],
              began, spent.scans, ui'.op, AtOf(s)', ui'.sent)
  BY <1>3, <1>4, TalliedElsewhere
<1> QED BY <1>1, <1>2, <1>3, <1>5, ThreadPoints DEF Untouched

\* A backend is asked for its points and the bridge shows the answer.
LEMMA CollectPoints ==
  ASSUME PointsInv, Collect
  PROVE  Points'
<1>1. /\ ui.at = "collect" /\ CaptureInv /\ TypeOK /\ ui \in Ui /\ bridge \in BridgeType
      /\ UNCHANGED <<daemon, link, orphans, client, began, due, failed, spent>>
  BY DEF PointsInv, CaptureInv, TypeOK, BridgeType, Collect, pipes, history
<1>2. PICK s \in Sensor : s = Subject
  BY <1>1, Busy
<1> DEFINE c == client[s]
           b == IF ui.op = "stop" THEN Shown(c) ELSE bridge
<1>3. /\ b \in BridgeType /\ b.map[s] \in {bridge.map[s], c.map}
      /\ \A t \in Sensor \ {s} : b.map[t] = bridge.map[t]
  <2>1. c.map \in SUBSET Point /\ c.trajectory \in SUBSET Point
    BY <1>1 DEF TypeOK, Client
  <2> QED BY <1>1, <1>2, <2>1, ShownMap
<1>4. \/ Goto("hush") /\ bridge' = b
      \/ NextSensor(<<>>, b)
  BY <1>2 DEF Collect
<1> HIDE DEF b
<1>5. bridge'.map = b.map /\ ui'.op \in {ui.op, "idle"}
  <2>1. CASE Goto("hush") /\ bridge' = b
    BY <1>1, <2>1 DEF Goto, Ui
  <2>2. CASE NextSensor(<<>>, b)
    BY <1>3, <2>2, NextMap
  <2> QED BY <1>4, <2>1, <2>2
<1>6. Tallied(daemon[s], link[s], orphans[s], c.map, c.running, bridge.map[s],
              began, spent.scans, ui.op, "collect", ui.sent)
  BY <1>1, <1>2, VisitingPoints
<1>7. /\ Tallied(daemon[s], link[s], orphans[s], c.map, c.running, bridge.map[s],
                 began, spent.scans, ui'.op, AtOf(s)', ui'.sent)
      /\ Tallied(daemon[s], link[s], orphans[s], c.map, c.running, c.map,
                 began, spent.scans, ui'.op, AtOf(s)', ui'.sent)
  BY <1>5, <1>6, TalliedElsewhere
<1>8. bridge'.map[s] \in {bridge.map[s], c.map} /\ \A t \in Sensor \ {s} : bridge'.map[t] = bridge.map[t]
  BY <1>3, <1>5
<1>9. Tallied(daemon'[s], link'[s], orphans'[s], client'[s].map, client'[s].running, bridge'.map[s],
              began, spent.scans, ui'.op, AtOf(s)', ui'.sent)
  BY <1>1, <1>7, <1>8
<1> QED BY <1>1, <1>2, <1>5, <1>8, <1>9, ThreadPoints DEF Untouched

\* A connection is made: its queues are empty.
LEMMA ConnectPoints ==
  ASSUME PointsInv, Connect \/ Respawn
  PROVE  Points'
<1>1. /\ ui.at \in {"connect", "respawn"} /\ CaptureInv /\ TypeOK /\ ui \in Ui
      /\ Connect => ui.at = "connect"
      /\ Respawn => ui.at = "respawn"
      /\ UNCHANGED <<orphans, client, bridge, began, due, failed, spent>>
  BY DEF PointsInv, CaptureInv, TypeOK, Connect, Respawn, history
<1>2. PICK s \in Sensor : s = Subject
  BY <1>1, Visiting
<1> DEFINE d == daemon[s]
           l == link[s]
<1>3. /\ l \in Link /\ Fits(d, l, orphans[s], client[s], ui.at, ui.half, ui.sent)
      /\ Tallied(d, l, orphans[s], client[s].map, client[s].running, bridge.map[s],
                 began, spent.scans, ui.op, ui.at, ui.sent)
  BY <1>1, <1>2, Visiting, VisitingPoints
<1>4. ui'.op = ui.op
  BY <1>1 DEF Connect, Respawn, Goto, Ui
<1>5. /\ l.state # "closed" \/ d.alive =>
           Tallied(d, Opened(l), orphans[s], client[s].map, client[s].running, bridge.map[s],
                   began, spent.scans, ui.op, AtOf(s)', ui'.sent)
      /\ l.state = "closed" =>
           Tallied(IF d.alive THEN d ELSE Spawned, Opened(l), orphans[s], client[s].map,
                   client[s].running, bridge.map[s], began, spent.scans, ui.op, AtOf(s)', ui'.sent)
  BY <1>1, <1>3, TalliedOpened
<1>6. Tallied(d, l, orphans[s], client[s].map, client[s].running, bridge.map[s],
              began, spent.scans, ui.op, AtOf(s)', ui'.sent)
  BY <1>1, <1>3, TalliedElsewhere
<1>7. /\ \A t \in Sensor \ {s} : Untouched(t)
      /\ Tallied(daemon'[s], link'[s], orphans[s], client[s].map, client[s].running, bridge.map[s],
                 began, spent.scans, ui.op, AtOf(s)', ui'.sent)
  <2>1. CASE Connect /\ (l.state # "closed" \/ d.alive)
    <3>1. daemon' = daemon /\ link' = [link EXCEPT ![s] = Opened(l)]
      BY <1>2, <2>1 DEF Connect, Open, Opened
    <3> QED BY <1>1, <1>5, <2>1, <3>1 DEF TypeOK, Untouched
  <2>2. CASE Connect /\ ~(l.state # "closed" \/ d.alive)
    <3>1. daemon' = daemon /\ link' = link
      BY <1>2, <2>2 DEF Connect
    <3> QED BY <1>1, <1>6, <3>1 DEF Untouched
  <2>3. CASE Respawn
    <3>1. daemon' = [daemon EXCEPT ![s] = IF d.alive THEN d ELSE Spawned]
          /\ link' = [link EXCEPT ![s] = Opened(l)]
      BY <1>2, <2>3 DEF Respawn, Open, Opened
    <3>2. l.state = "closed"
      BY <1>1, <1>3, <2>3 DEF Fits, Placed
    <3> QED BY <1>1, <1>5, <3>1, <3>2 DEF TypeOK, Untouched
  <2> QED BY <2>1, <2>2, <2>3
<1>8. Tallied(daemon'[s], link'[s], orphans'[s], client'[s].map, client'[s].running, bridge'.map[s],
              began, spent.scans, ui'.op, AtOf(s)', ui'.sent)
  BY <1>1, <1>4, <1>7
<1> QED BY <1>1, <1>2, <1>4, <1>7, <1>8, ThreadPoints

\* A request is sent.
LEMMA SendPoints ==
  ASSUME PointsInv, Send
  PROVE  Points'
<1>1. /\ ui.at \in DOMAIN RequestAt /\ ~ui.sent /\ ui.at \notin {"enter", "idle"}
      /\ UNCHANGED <<daemon, orphans, client, bridge, began, due, failed, spent>>
      /\ ui' = [ui EXCEPT !.sent = TRUE] /\ CaptureInv /\ TypeOK /\ ui \in Ui
  BY Calls DEF PointsInv, CaptureInv, TypeOK, Send, Calling, history
<1>2. PICK s \in Sensor : s = Subject
  BY <1>1, Visiting
<1> DEFINE d == daemon[s]
           l == link[s]
           c == client[s]
           l2 == [l EXCEPT !.toDaemon = Append(@, RequestAt[ui.at])]
<1>3. l \in Link /\ ui.sent = FALSE
  BY <1>1, <1>2, Visiting DEF Ui
<1>4. /\ Fits(d, l, orphans[s], c, ui.at, ui.half, ui.sent)
      /\ Tallied(d, l, orphans[s], c.map, c.running, bridge.map[s],
                 began, spent.scans, ui.op, ui.at, ui.sent)
  BY <1>1, <1>2, Visiting, VisitingPoints
<1>5. /\ Fits(d, l, orphans[s], c, ui.at, ui.half, FALSE)
      /\ Tallied(d, l, orphans[s], c.map, c.running, bridge.map[s],
                 began, spent.scans, ui.op, ui.at, FALSE)
  BY <1>3, <1>4, Zenon
<1>6. ui'.op = ui.op /\ ui'.sent = TRUE /\ AtOf(s)' = ui.at
  <2>1. ui'.op = ui.op /\ ui'.todo = ui.todo /\ ui'.at = ui.at /\ ui'.sent = TRUE
    BY <1>1 DEF Ui
  <2>2. ui.op # "idle"
    BY <1>1, Visiting
  <2>3. Head(ui'.todo) = s /\ ui'.op # "idle" /\ ui'.at # "enter"
    BY <1>1, <1>2, <2>1, <2>2 DEF Subject
  <2> QED BY <2>1, <2>3 DEF AtOf, Visited
<1>7. /\ l.state # "open" => Tallied(d, l, orphans[s], c.map, c.running, bridge.map[s],
                                     began, spent.scans, ui.op, ui.at, TRUE)
      /\ l.state = "open" => Tallied(d, l2, orphans[s], c.map, c.running, bridge.map[s],
                                     began, spent.scans, ui.op, ui.at, TRUE)
  BY <1>1, <1>3, <1>5, TalliedSent
<1>8. /\ \A t \in Sensor \ {s} : link'[t] = link[t]
      /\ link'[s] = IF l.state = "open" THEN l2 ELSE l
  BY <1>1, <1>2 DEF Send, TypeOK
<1> HIDE DEF l2
<1>9. Tallied(d, link'[s], orphans[s], c.map, c.running, bridge.map[s],
              began, spent.scans, ui.op, ui.at, TRUE)
  BY <1>7, <1>8
<1>10. Tallied(daemon'[s], link'[s], orphans'[s], client'[s].map, client'[s].running, bridge'.map[s],
              began, spent.scans, ui'.op, AtOf(s)', ui'.sent)
  BY <1>1, <1>6, <1>9
<1> QED BY <1>1, <1>2, <1>6, <1>8, <1>10, ThreadPoints DEF Untouched

-----------------------------------------------------------------------------
(* ... and what follows a call.                                             *)

\* A call has returned, and what it brought was at the head of the connection.
Brought(s, ok, pts, rest) ==
  /\ Answering(s, ok, pts, rest) /\ Points /\ spent'.scans = spent.scans
  /\ ok => ~Head(link[s].toClient).torn /\ pts = Head(link[s].toClient).pts

\* What is known where a call returns, before it is looked at which call it was.
LEMMA BroughtFacts ==
  ASSUME NEW s, NEW ok, NEW pts, NEW rest, Brought(s, ok, pts, rest)
  PROVE  /\ PointsInv /\ TypeOK /\ ui \in Ui /\ ui.at \notin {"enter", "idle"}
         /\ s = Subject /\ s \in Sensor /\ link[s] \in Link /\ client[s] \in Client
         /\ bridge \in BridgeType /\ pts \in SUBSET Point /\ ui.sent = TRUE
         /\ UNCHANGED <<daemon, began>> /\ spent'.scans = spent.scans
         /\ Fits(daemon[s], link[s], orphans[s], client[s], ui.at, ui.half, TRUE)
         /\ Tallied(daemon[s], link[s], orphans[s], client[s].map, client[s].running, bridge.map[s],
                    began, spent.scans, ui.op, ui.at, ui.sent)
         /\ Tallied(daemon[s], After(link[s], rest), orphans[s], client[s].map, client[s].running,
                    bridge.map[s], began, spent.scans, ui.op, ui.at, ui.sent)
         /\ ui.op = "start" <=> ui.at \in Starting
         /\ Leaves(s, rest) => /\ link'[s] = After(link[s], rest)
                               /\ \A t \in Sensor \ {s} : link'[t] = link[t]
<1>1. /\ PointsInv /\ pts \in SUBSET Point /\ UNCHANGED <<daemon, began>>
      /\ ui.sent = TRUE /\ rest \in Seq(Answer) /\ spent'.scans = spent.scans
      /\ Outcome(link[s], RequestAt[ui.at], ok, rest)
  BY DEF Brought, Answering, PointsInv
<1>2. /\ TypeOK /\ ui \in Ui /\ ui.at \notin {"enter", "idle"}
      /\ s = Subject /\ s \in Sensor /\ link[s] \in Link /\ client[s] \in Client
      /\ Fits(daemon[s], link[s], orphans[s], client[s], ui.at, ui.half, TRUE)
      /\ ui.op = "start" <=> ui.at \in Starting
      /\ Leaves(s, rest) => /\ link'[s] = After(link[s], rest)
                            /\ \A t \in Sensor \ {s} : link'[t] = link[t]
  <2>1. Answering(s, ok, pts, rest)
    BY DEF Brought
  <2> QED BY <2>1, AnswerFacts
<1>3. bridge \in BridgeType
  BY <1>2 DEF TypeOK, BridgeType
<1>4. Tallied(daemon[s], link[s], orphans[s], client[s].map, client[s].running, bridge.map[s],
              began, spent.scans, ui.op, ui.at, ui.sent)
  BY <1>1, <1>2, VisitingPoints
<1>5. Tallied(daemon[s], After(link[s], rest), orphans[s], client[s].map, client[s].running,
              bridge.map[s], began, spent.scans, ui.op, ui.at, ui.sent)
  <2>1. CASE link[s].toClient # <<>>
    <3>1. Left(rest, link[s].toClient, 0) \/ Left(rest, link[s].toClient, 1)
      BY <1>1, <2>1 DEF Outcome
    <3> QED BY <1>1, <1>2, <1>4, <2>1, <3>1, TalliedRead
  <2>2. CASE link[s].toClient = <<>>
    <3>1. rest = link[s].toClient
      BY <1>1, <2>2 DEF Outcome
    <3>2. After(link[s], rest) = link[s]
      BY <1>2, <3>1 DEF After, Link
    <3> QED BY <1>4, <3>2
  <2> QED BY <2>1, <2>2
<1> QED BY <1>1, <1>2, <1>3, <1>4, <1>5

\* A request that succeeds has read the first answer, whole.
LEMMA BroughtOk ==
  ASSUME NEW s, NEW ok, NEW pts, NEW rest, Brought(s, ok, pts, rest), ok
  PROVE  /\ link[s].toClient # <<>> /\ rest = Tail(link[s].toClient)
         /\ Head(link[s].toClient).to = RequestAt[ui.at]
         /\ ~Head(link[s].toClient).torn /\ pts = Head(link[s].toClient).pts
BY DEF Brought, Answering, Outcome

\* A call that leaves the backend as it was, but may have the bridge show its map.
LEMMA QuietPoints ==
  ASSUME NEW s, NEW ok, NEW pts, NEW rest, Brought(s, ok, pts, rest), ui.at # "halt",
         Leaves(s, rest), orphans' = orphans, ui'.op = "start" => ui.op = "start",
         client'[s].map = client[s].map, client'[s].running = client[s].running,
         bridge'.map[s] \in {bridge.map[s], client[s].map},
         \A t \in Sensor \ {s} : client'[t] = client[t] /\ bridge'.map[t] = bridge.map[t]
  PROVE  Points'
<1>1. /\ PointsInv /\ ui.at \notin {"enter", "idle"} /\ s = Subject /\ s \in Sensor
      /\ daemon' = daemon /\ began' = began /\ spent'.scans = spent.scans
      /\ link'[s] = After(link[s], rest) /\ \A t \in Sensor \ {s} : link'[t] = link[t]
      /\ Tallied(daemon[s], After(link[s], rest), orphans[s], client[s].map, client[s].running,
                 bridge.map[s], began, spent.scans, ui.op, ui.at, ui.sent)
  <2>1. /\ PointsInv /\ ui.at \notin {"enter", "idle"} /\ s = Subject /\ s \in Sensor
        /\ UNCHANGED <<daemon, began>> /\ spent'.scans = spent.scans
    BY BroughtFacts
  <2>2. link'[s] = After(link[s], rest) /\ \A t \in Sensor \ {s} : link'[t] = link[t]
    BY BroughtFacts
  <2>3. Tallied(daemon[s], After(link[s], rest), orphans[s], client[s].map, client[s].running,
                 bridge.map[s], began, spent.scans, ui.op, ui.at, ui.sent)
    BY BroughtFacts
  <2> QED BY <2>1, <2>2, <2>3
<1>2. /\ Tallied(daemon[s], After(link[s], rest), orphans[s], client[s].map, client[s].running,
                 bridge.map[s], began, spent.scans, ui'.op, AtOf(s)', ui'.sent)
      /\ Tallied(daemon[s], After(link[s], rest), orphans[s], client[s].map, client[s].running,
                 client[s].map, began, spent.scans, ui'.op, AtOf(s)', ui'.sent)
  <2>1. /\ Tallied(daemon[s], After(link[s], rest), orphans[s], client[s].map, client[s].running,
                   bridge.map[s], began, spent.scans, ui.op, ui.at, ui.sent)
        /\ ui.at # "halt" /\ (ui'.op = "start" => ui.op = "start")
    BY <1>1
  <2> QED BY <2>1, TalliedElsewhere
<1>3. Tallied(daemon[s], After(link[s], rest), orphans[s], client[s].map, client[s].running,
              bridge'.map[s], began, spent.scans, ui'.op, AtOf(s)', ui'.sent)
  BY <1>2
<1>4. Tallied(daemon'[s], link'[s], orphans'[s], client'[s].map, client'[s].running,
              bridge'.map[s], began, spent.scans, ui'.op, AtOf(s)', ui'.sent)
  <2>1. Tallied(daemon'[s], link'[s], orphans'[s], client'[s].map, client[s].running,
                bridge'.map[s], began, spent.scans, ui'.op, AtOf(s)', ui'.sent)
    BY <1>1, <1>3
  <2> QED BY <2>1, Zenon
<1>5. \A t \in Sensor \ {s} : Untouched(t) /\ bridge'.map[t] = bridge.map[t]
  BY <1>1 DEF Untouched
<1> QED BY <1>1, <1>4, <1>5, ThreadPoints

\* A change of the running flag, or of the started sensors, moves no point.
LEMMA QuietClient ==
  ASSUME client \in [Sensor -> Client], NEW s \in Sensor,
         \/ client' = client
         \/ Set(s, "connected", TRUE)
         \/ \E value \in BOOLEAN : Set(s, "streaming", value)
         \/ \E points \in SUBSET Point : Set(s, "trajectory", points)
  PROVE  /\ client'[s].map = client[s].map /\ client'[s].running = client[s].running
         /\ \A t \in Sensor \ {s} : client'[t] = client[t]
<1>1. CASE client' = client
  BY <1>1
<1>2. ASSUME NEW field \in {"connected", "streaming", "trajectory"}, NEW value, Set(s, field, value)
      PROVE  /\ client'[s].map = client[s].map /\ client'[s].running = client[s].running
             /\ \A t \in Sensor \ {s} : client'[t] = client[t]
  <2>1. client' = [client EXCEPT ![s] = [@ EXCEPT ![field] = value]]
    BY <1>2 DEF Set
  <2>2. client'[s] = [client[s] EXCEPT ![field] = value]
    BY <2>1
  <2>3. client[s] \in Client
    OBVIOUS
  <2>4. client'[s].map = client[s].map
    BY <2>2, <2>3 DEF Client
  <2>5. client'[s].running = client[s].running
    BY <2>2, <2>3 DEF Client
  <2> QED BY <2>1, <2>4, <2>5
<1> QED BY <1>1, <1>2

\* The calls of a start.
LEMMA PingPoints ==
  ASSUME NEW s, NEW ok, NEW pts, NEW rest, Brought(s, ok, pts, rest),
         ui.at \in Pinging, Ping(s, ok, rest)
  PROVE  Points'
<1>1. /\ PointsInv /\ TypeOK /\ ui \in Ui /\ ui.at \notin {"enter", "idle"} /\ s = Subject /\ s \in Sensor
      /\ link[s] \in Link /\ UNCHANGED <<daemon, began>> /\ spent'.scans = spent.scans
      /\ ui.op = "start"
  BY BroughtFacts DEF Starting
<1>2. bridge' = bridge /\ client \in [Sensor -> Client]
  BY <1>1 DEF Ping, TypeOK
<1>3. CASE ok
  <2>1. /\ Leaves(s, rest) /\ UNCHANGED orphans /\ ui.at # "halt"
        /\ client' = IF ui.half = "adapter" THEN [client EXCEPT ![s].connected = TRUE] ELSE client
    BY <1>3 DEF Ping, Pinging
  <2>2. client' = client \/ Set(s, "connected", TRUE)
    BY <2>1 DEF Set
  <2>3. /\ client'[s].map = client[s].map /\ client'[s].running = client[s].running
        /\ \A t \in Sensor \ {s} : client'[t] = client[t]
    BY <1>1, <1>2, <2>2, QuietClient
  <2> QED BY <1>1, <1>2, <2>1, <2>3, QuietPoints
<1>4. CASE ~ok
  <2>1. /\ link' = [link EXCEPT ![s] = Closed] /\ client' = client
        /\ orphans' = [orphans EXCEPT ![s] = Abandoned(link[s], orphans[s])]
    BY <1>4 DEF Ping, Disconnect, Abandoned
  <2>2. /\ link'[s] = Closed /\ orphans'[s] = Abandoned(link[s], orphans[s])
        /\ \A t \in Sensor \ {s} : Untouched(t) /\ bridge'.map[t] = bridge.map[t]
    BY <1>1, <1>2, <2>1 DEF TypeOK, Untouched
  <2>3. Tallied(daemon[s], link[s], orphans[s], client[s].map, client[s].running, bridge.map[s],
                began, spent.scans, ui.op, ui.at, ui.sent)
    BY BroughtFacts
  <2>4. Fits(daemon[s], link[s], orphans[s], client[s], ui.at, ui.half, ui.sent)
    BY <1>1, Visiting DEF PointsInv
  <2>5. Tallied(daemon[s], Closed, Abandoned(link[s], orphans[s]), client[s].map, client[s].running,
                bridge.map[s], began, spent.scans, ui'.op, AtOf(s)', ui'.sent)
    <3>1. link[s] \in Link /\ ui.at \in Pinging /\ (ui'.op = "start" => ui.op = "start")
      BY <1>1
    <3> QED BY <2>3, <2>4, <3>1, TalliedLost
  <2>6. Tallied(daemon'[s], link'[s], orphans'[s], client'[s].map, client'[s].running,
                bridge'.map[s], began, spent.scans, ui'.op, AtOf(s)', ui'.sent)
    BY <1>1, <1>2, <2>1, <2>2, <2>5
  <2> QED BY <1>1, <2>2, <2>6, ThreadPoints
<1> QED BY <1>3, <1>4

\* A START is answered, or is not: a backend that starts forgets its map.
LEMMA StartPoints ==
  ASSUME NEW s, NEW ok, NEW pts, NEW rest, Brought(s, ok, pts, rest),
         ui.at = "start", Start(s, ok, rest)
  PROVE  Points'
<1>1. /\ PointsInv /\ TypeOK /\ ui \in Ui /\ ui.at \notin {"enter", "idle"} /\ s = Subject /\ s \in Sensor
      /\ link[s] \in Link /\ UNCHANGED <<daemon, began>> /\ spent'.scans = spent.scans
      /\ ui.op = "start" /\ bridge \in BridgeType
  BY BroughtFacts DEF Starting
<1>2. /\ Leaves(s, rest) /\ orphans' = orphans /\ client \in [Sensor -> Client]
      /\ ui.half \in {"adapter", "backend"}
  BY <1>1 DEF Start, TypeOK, Ui
<1>3. CASE client' = client \/ Set(s, "streaming", TRUE)
  <2>1. /\ client'[s].map = client[s].map /\ client'[s].running = client[s].running
        /\ \A t \in Sensor \ {s} : client'[t] = client[t]
    BY <1>1, <1>2, <1>3, QuietClient
  <2>2. bridge'.map = bridge.map
    <3>1. bridge' = bridge \/ NextSensor(Append(ui.started, s), bridge)
      BY <1>2 DEF Start
    <3> QED BY <1>1, <3>1, NextMap
  <2> QED BY <1>1, <1>2, <2>1, <2>2, QuietPoints
<1>4. CASE ok /\ ui.half = "backend"
  <2>1. Set(s, "running", TRUE) /\ NextSensor(Append(ui.started, s), bridge)
    BY <1>4 DEF Start
  <2>2. bridge'.map = bridge.map
    BY <1>1, <2>1, NextMap
  <2>3. /\ client'[s].map = client[s].map /\ client'[s].running = TRUE
        /\ \A t \in Sensor \ {s} : client'[t] = client[t]
    <3>1. client' = [client EXCEPT ![s] = [@ EXCEPT !["running"] = TRUE]]
      BY <2>1 DEF Set
    <3>2. client'[s] = [client[s] EXCEPT !["running"] = TRUE] /\ client[s] \in Client
      BY <1>1, <1>2, <3>1
    <3>3. PICK c \in Client : c = client[s] /\ client'[s] = [c EXCEPT !["running"] = TRUE]
      BY <3>2
    <3>4. [c EXCEPT !["running"] = TRUE].map = c.map /\ [c EXCEPT !["running"] = TRUE].running = TRUE
      BY DEF Client
    <3>5. client'[s].map = client[s].map /\ client'[s].running = TRUE
      BY <3>3, <3>4, Zenon
    <3>6. \A t \in Sensor \ {s} : client'[t] = client[t]
      BY <3>1
    <3> QED BY <3>5, <3>6
  <2>4. /\ link[s].toClient # <<>> /\ rest = Tail(link[s].toClient)
        /\ link'[s] = After(link[s], rest) /\ \A t \in Sensor \ {s} : link'[t] = link[t]
    <3>1. link[s].toClient # <<>> /\ rest = Tail(link[s].toClient)
      BY <1>4 DEF Brought, Answering, Outcome
    <3>2. Leaves(s, rest) => /\ link'[s] = After(link[s], rest)
                             /\ \A t \in Sensor \ {s} : link'[t] = link[t]
      BY BroughtFacts
    <3> QED BY <1>2, <1>4, <3>1, <3>2
  <2>5. Tallied(daemon[s], link[s], orphans[s], client[s].map, client[s].running, bridge.map[s],
                began, spent.scans, "start", "start", ui.sent)
    BY <1>1, BroughtFacts
  <2>6. Fits(daemon[s], link[s], orphans[s], client[s], "start", "backend", TRUE)
    BY <1>4, BroughtFacts
  <2>7. Tallied(daemon[s], After(link[s], Tail(link[s].toClient)), orphans[s], client[s].map, TRUE,
                bridge.map[s], began, spent.scans, ui'.op, AtOf(s)', ui'.sent)
    BY <1>1, <2>4, <2>5, <2>6, TalliedStarted
  <2>8. Tallied(daemon'[s], link'[s], orphans'[s], client'[s].map, client'[s].running,
                bridge'.map[s], began, spent.scans, ui'.op, AtOf(s)', ui'.sent)
    BY <1>1, <1>2, <2>2, <2>3, <2>4, <2>7
  <2>9. \A t \in Sensor \ {s} : Untouched(t) /\ bridge'.map[t] = bridge.map[t]
    BY <1>1, <1>2, <2>2, <2>3, <2>4 DEF Untouched
  <2> QED BY <1>1, <2>8, <2>9, ThreadPoints
<1> QED BY <1>2, <1>3, <1>4 DEF Start

\* The calls of a tick.
LEMMA TickPoints ==
  ASSUME NEW s, NEW ok, NEW pts, NEW rest, Brought(s, ok, pts, rest),
         \/ ui.at = "telemetry" /\ Telemetry(s, ok, pts, rest)
         \/ ui.at = "trajectory" /\ TrajectoryRead(s, ok, pts, rest)
         \/ ui.at = "new" /\ NewPoints(s, ok, pts, rest)
  PROVE  Points'
<1>1. /\ PointsInv /\ TypeOK /\ ui \in Ui /\ ui.at \notin {"enter", "idle", "halt"}
      /\ s = Subject /\ s \in Sensor
      /\ link[s] \in Link /\ UNCHANGED <<daemon, began>> /\ spent'.scans = spent.scans
      /\ ui.op # "start" /\ bridge \in BridgeType /\ pts \in SUBSET Point
      /\ ui.at \in Ticking /\ client[s] \in Client
  BY BroughtFacts DEF Starting, Pinging, Ticking
<1>2. /\ Leaves(s, rest) /\ orphans' = orphans /\ client \in [Sensor -> Client]
  BY <1>1 DEF Telemetry, TrajectoryRead, NewPoints, TypeOK
<1>3. CASE ~(ok /\ ui.at = "new")
  <2>1. client' = client \/ Set(s, "trajectory", pts)
    BY <1>3 DEF Telemetry, TrajectoryRead, NewPoints
  <2>2. /\ client'[s].map = client[s].map /\ client'[s].running = client[s].running
        /\ \A t \in Sensor \ {s} : client'[t] = client[t]
    BY <1>1, <1>2, <2>1, QuietClient
  <2>3. /\ ui'.op \in {ui.op, "idle"} /\ bridge'.map[s] \in {bridge.map[s], client[s].map}
        /\ \A t \in Sensor \ {s} : bridge'.map[t] = bridge.map[t]
    <3>1. \/ bridge' = bridge /\ \E at \in {"trajectory", "new"} : Goto(at)
          \/ NextSensor(<<>>, bridge)
          \/ client' = client /\ NextSensor(<<>>, Shown(client'[s]))
      BY <1>3 DEF Telemetry, TrajectoryRead, NewPoints
    <3>2. CASE bridge' = bridge /\ \E at \in {"trajectory", "new"} : Goto(at)
      BY <1>1, <3>2 DEF Goto, Ui
    <3>3. CASE NextSensor(<<>>, bridge)
      BY <1>1, <3>3, NextMap
    <3>4. CASE client' = client /\ NextSensor(<<>>, Shown(client'[s]))
      <4>1. client[s].map \in SUBSET Point /\ client[s].trajectory \in SUBSET Point
        BY <1>1 DEF Client
      <4>2. /\ Shown(client[s]) \in BridgeType /\ Shown(client[s]).map[s] = client[s].map
            /\ \A t \in Sensor \ {s} : Shown(client[s]).map[t] = bridge.map[t]
        BY <1>1, <4>1, ShownMap
      <4>3. NextSensor(<<>>, Shown(client[s]))
        BY <3>4
      <4>4. bridge'.map = Shown(client[s]).map /\ ui'.op \in {ui.op, "idle"}
        BY <4>2, <4>3, NextMap
      <4> QED BY <4>2, <4>4
    <3> QED BY <3>1, <3>2, <3>3, <3>4
  <2> QED BY <1>1, <1>2, <2>2, <2>3, QuietPoints
<1>4. CASE ok /\ ui.at = "new"
  <2> DEFINE m2 == client[s].map \cup pts
  <2>1. /\ client' = [client EXCEPT ![s].map = @ \cup pts]
        /\ NextSensor(<<>>, Shown(client'[s]))
    BY <1>4 DEF NewPoints
  <2>2. /\ client'[s].map = m2 /\ client'[s].running = client[s].running
        /\ client'[s].trajectory \in SUBSET Point /\ m2 \in SUBSET Point
        /\ \A t \in Sensor \ {s} : client'[t] = client[t]
    <3>1. client' = [client EXCEPT ![s] = [@ EXCEPT !.map = m2]]
      BY <2>1
    <3>2. client'[s] = [client[s] EXCEPT !.map = m2]
      BY <1>1, <1>2, <3>1
    <3>3. m2 \in SUBSET Point
      BY <1>1 DEF Client
    <3> HIDE DEF m2
    <3> QED BY <1>1, <3>1, <3>2, <3>3 DEF Client
  <2>3. /\ bridge'.map[s] = m2 /\ ui'.op \in {ui.op, "idle"}
        /\ \A t \in Sensor \ {s} : bridge'.map[t] = bridge.map[t]
    <3>1. PICK c : c = client'[s]
      OBVIOUS
    <3>2. c.map = m2 /\ c.map \in SUBSET Point /\ c.trajectory \in SUBSET Point /\ NextSensor(<<>>, Shown(c))
      BY <2>1, <2>2, <3>1
    <3>3. /\ Shown(c) \in BridgeType /\ Shown(c).map[s] = m2
          /\ \A t \in Sensor \ {s} : Shown(c).map[t] = bridge.map[t]
      BY <1>1, <3>2, ShownMap
    <3>4. bridge'.map = Shown(c).map /\ ui'.op \in {ui.op, "idle"}
      BY <3>2, <3>3, NextMap
    <3> QED BY <3>3, <3>4
  <2>4. /\ link[s].toClient # <<>> /\ rest = Tail(link[s].toClient)
        /\ Head(link[s].toClient).to = "NEW" /\ ~Head(link[s].toClient).torn
        /\ pts = Head(link[s].toClient).pts
        /\ link'[s] = After(link[s], rest) /\ \A t \in Sensor \ {s} : link'[t] = link[t]
    <3>1. /\ link[s].toClient # <<>> /\ rest = Tail(link[s].toClient)
          /\ Head(link[s].toClient).to = RequestAt[ui.at]
          /\ ~Head(link[s].toClient).torn /\ pts = Head(link[s].toClient).pts
      BY <1>4, BroughtOk
    <3>2. Leaves(s, rest) => /\ link'[s] = After(link[s], rest)
                             /\ \A t \in Sensor \ {s} : link'[t] = link[t]
      BY BroughtFacts
    <3>3. RequestAt["new"] = "NEW"
      BY DEF RequestAt
    <3> QED BY <1>2, <1>4, <3>1, <3>2, <3>3
  <2>5. client[s].running = TRUE /\ ~Has(Asked(link[s]), "ALL")
    <3>1. Fits(daemon[s], link[s], orphans[s], client[s], ui.at, ui.half, TRUE)
      BY BroughtFacts
    <3>2. client[s].running /\ ~Has(Asked(link[s]), "ALL")
      BY <1>1, <1>4, <3>1 DEF Fits, Placed
    <3>3. client[s].running \in BOOLEAN
      BY <1>1 DEF Client
    <3> QED BY <3>2, <3>3
  <2>6. Tallied(daemon[s], link[s], orphans[s], client[s].map, TRUE, bridge.map[s],
                began, spent.scans, ui.op, "new", ui.sent)
    <3>1. Tallied(daemon[s], link[s], orphans[s], client[s].map, client[s].running, bridge.map[s],
                  began, spent.scans, ui.op, ui.at, ui.sent)
      BY BroughtFacts
    <3> QED BY <1>4, <2>5, <3>1
  <2>7. Tallied(daemon[s], After(link[s], Tail(link[s].toClient)), orphans[s],
                client[s].map \cup Head(link[s].toClient).pts, TRUE, bridge.map[s],
                began, spent.scans, ui.op, "new", ui.sent)
    BY <1>1, <2>4, <2>5, <2>6, TalliedNew
  <2>8. Tallied(daemon[s], After(link[s], rest), orphans[s], m2, TRUE, bridge.map[s],
                began, spent.scans, ui.op, "new", ui.sent)
    BY <2>4, <2>7
  <2> HIDE DEF m2
  <2>9. Tallied(daemon[s], After(link[s], rest), orphans[s], m2, client[s].running, m2,
                began, spent.scans, ui'.op, AtOf(s)', ui'.sent)
    <3>1. Tallied(daemon[s], After(link[s], rest), orphans[s], m2, client[s].running, bridge.map[s],
                  began, spent.scans, ui.op, "new", ui.sent)
      BY <2>5, <2>8
    <3>2. ui'.op = "start" => ui.op = "start"
      BY <2>3
    <3> QED BY <3>1, <3>2, TalliedElsewhere
  <2>10. Tallied(daemon'[s], link'[s], orphans'[s], client'[s].map, client'[s].running,
                 bridge'.map[s], began, spent.scans, ui'.op, AtOf(s)', ui'.sent)
    BY <1>1, <1>2, <2>2, <2>3, <2>4, <2>5, <2>9
  <2>11. \A t \in Sensor \ {s} : Untouched(t) /\ bridge'.map[t] = bridge.map[t]
    BY <1>1, <1>2, <2>2, <2>3, <2>4 DEF Untouched
  <2> QED BY <1>1, <2>3, <2>10, <2>11, ThreadPoints
<1> QED BY <1>3, <1>4

\* The calls of a stop.
LEMMA StopPoints ==
  ASSUME NEW s, NEW ok, NEW pts, NEW rest, Brought(s, ok, pts, rest),
         \/ ui.at = "all" /\ AllPoints(s, ok, pts, rest)
         \/ ui.at = "halt" /\ Halt(s, rest)
         \/ ui.at = "hush" /\ Hush(s, rest)
  PROVE  Points'
<1>1. /\ PointsInv /\ TypeOK /\ ui \in Ui /\ ui.at \notin {"enter", "idle"}
      /\ s = Subject /\ s \in Sensor
      /\ link[s] \in Link /\ UNCHANGED <<daemon, began>> /\ spent'.scans = spent.scans
      /\ ui.op # "start" /\ bridge \in BridgeType /\ pts \in SUBSET Point
      /\ client[s] \in Client
  BY BroughtFacts DEF Starting, Pinging
<1>2. /\ Leaves(s, rest) /\ orphans' = orphans /\ client \in [Sensor -> Client]
  BY <1>1 DEF AllPoints, Halt, Hush, TypeOK
<1>3. link'[s] = After(link[s], rest) /\ \A t \in Sensor \ {s} : link'[t] = link[t]
  <2>1. Leaves(s, rest) => /\ link'[s] = After(link[s], rest)
                           /\ \A t \in Sensor \ {s} : link'[t] = link[t]
    BY BroughtFacts
  <2> QED BY <1>2, <2>1
<1>4. ui'.op \in {ui.op, "idle"} /\ bridge'.map = bridge.map
  <2>1. CASE bridge' = bridge /\ \E at \in {"halt", "collect"} : Goto(at)
    BY <1>1, <2>1 DEF Goto, Ui
  <2>2. CASE NextSensor(<<>>, bridge)
    BY <1>1, <2>2, NextMap
  <2> QED BY <2>1, <2>2 DEF AllPoints, Halt, Hush
<1>5. CASE ui.at # "halt" /\ ~(ui.at = "all" /\ ok)
  <2>1. client' = client \/ Set(s, "streaming", FALSE)
    BY <1>5 DEF AllPoints, Hush
  <2>2. /\ client'[s].map = client[s].map /\ client'[s].running = client[s].running
        /\ \A t \in Sensor \ {s} : client'[t] = client[t]
    BY <1>1, <1>2, <2>1, QuietClient
  <2> QED BY <1>1, <1>2, <1>4, <1>5, <2>2, QuietPoints
<1>6. CASE ui.at = "all" /\ ok
  <2>1. Set(s, "map", pts) /\ Goto("halt")
    BY <1>6 DEF AllPoints
  <2>2. /\ client'[s].map = pts /\ client'[s].running = client[s].running
        /\ \A t \in Sensor \ {s} : client'[t] = client[t]
    <3>1. client' = [client EXCEPT ![s] = [@ EXCEPT !["map"] = pts]]
      BY <2>1 DEF Set
    <3>2. client'[s] = [client[s] EXCEPT !["map"] = pts]
      BY <1>1, <1>2, <3>1
    <3> QED BY <1>1, <3>1, <3>2 DEF Client
  <2>3. ui'.op = ui.op /\ ui'.sent = FALSE /\ AtOf(s)' = "halt"
    <3>1. ui'.op = ui.op /\ ui'.todo = ui.todo /\ ui'.at = "halt" /\ ui'.sent = FALSE
      BY <1>1, <2>1 DEF Goto, Ui
    <3>2. ui.op # "idle"
      BY <1>1, Visiting DEF PointsInv
    <3>3. Head(ui'.todo) = s /\ ui'.op # "idle" /\ ui'.at # "enter"
      BY <1>1, <3>1, <3>2 DEF Subject
    <3> QED BY <3>1, <3>3 DEF AtOf, Visited
  <2>4. /\ link[s].toClient # <<>> /\ rest = Tail(link[s].toClient)
        /\ Head(link[s].toClient).to = "ALL" /\ ~Head(link[s].toClient).torn
        /\ pts = Head(link[s].toClient).pts
    <3>1. /\ link[s].toClient # <<>> /\ rest = Tail(link[s].toClient)
          /\ Head(link[s].toClient).to = RequestAt[ui.at]
          /\ ~Head(link[s].toClient).torn /\ pts = Head(link[s].toClient).pts
      BY <1>6, BroughtOk
    <3>2. RequestAt["all"] = "ALL"
      BY DEF RequestAt
    <3> QED BY <1>6, <3>1, <3>2
  <2>5. client[s].running = TRUE /\ ~Behind(Asked(link[s]), "ALL", "NEW")
    <3>1. Fits(daemon[s], link[s], orphans[s], client[s], ui.at, ui.half, TRUE)
      BY BroughtFacts
    <3>2. client[s].running /\ ~Behind(Asked(link[s]), "ALL", "NEW")
      BY <1>6, <3>1 DEF Fits, Placed, Sound
    <3>3. client[s].running \in BOOLEAN
      BY <1>1 DEF Client
    <3> QED BY <3>2, <3>3
  <2>6. Tallied(daemon[s], link[s], orphans[s], client[s].map, TRUE, bridge.map[s],
                began, spent.scans, ui.op, "all", ui.sent)
    <3>1. Tallied(daemon[s], link[s], orphans[s], client[s].map, client[s].running, bridge.map[s],
                  began, spent.scans, ui.op, ui.at, ui.sent)
      BY BroughtFacts
    <3> QED BY <1>6, <2>5, <3>1
  <2>7. Tallied(daemon[s], After(link[s], Tail(link[s].toClient)), orphans[s],
                Head(link[s].toClient).pts, TRUE, bridge.map[s],
                began, spent.scans, ui.op, "halt", FALSE)
    BY <1>1, <2>4, <2>5, <2>6, TalliedAll
  <2>8. Tallied(daemon'[s], link'[s], orphans'[s], client'[s].map, client'[s].running,
                bridge'.map[s], began, spent.scans, ui'.op, AtOf(s)', ui'.sent)
    BY <1>1, <1>2, <1>3, <1>4, <2>2, <2>3, <2>4, <2>5, <2>7
  <2>9. \A t \in Sensor \ {s} : Untouched(t) /\ bridge'.map[t] = bridge.map[t]
    BY <1>1, <1>2, <1>3, <1>4, <2>2 DEF Untouched
  <2> QED BY <1>1, <1>4, <2>8, <2>9, ThreadPoints
<1>7. CASE ui.at = "halt"
  <2>1. Set(s, "running", FALSE)
    BY <1>7 DEF Halt
  <2>2. /\ client'[s].map = client[s].map /\ client'[s].running = FALSE
        /\ \A t \in Sensor \ {s} : client'[t] = client[t]
    <3>1. client' = [client EXCEPT ![s] = [@ EXCEPT !["running"] = FALSE]]
      BY <2>1 DEF Set
    <3>2. client'[s] = [client[s] EXCEPT !["running"] = FALSE]
      BY <1>1, <1>2, <3>1
    <3> QED BY <1>1, <3>1, <3>2 DEF Client
  <2>3. Tallied(daemon[s], After(link[s], rest), orphans[s], client[s].map, client[s].running,
                bridge.map[s], began, spent.scans, ui.op, "halt", ui.sent)
    <3>1. Tallied(daemon[s], After(link[s], rest), orphans[s], client[s].map, client[s].running,
                  bridge.map[s], began, spent.scans, ui.op, ui.at, ui.sent)
      BY BroughtFacts
    <3> QED BY <1>7, <3>1
  <2>4. ui.sent /\ ~client'[s].running /\ (ui'.op = "start" => ui.op = "start")
    BY <1>4, <2>2, BroughtFacts
  <2>5. Tallied(daemon[s], After(link[s], rest), orphans[s], client[s].map, client'[s].running,
                bridge.map[s], began, spent.scans, ui'.op, AtOf(s)', ui'.sent)
    <3>1. PICK d, l, o, map, shown : /\ d = daemon[s] /\ l = After(link[s], rest) /\ o = orphans[s]
                                     /\ map = client[s].map /\ shown = bridge.map[s]
      OBVIOUS
    <3>2. Tallied(d, l, o, map, client[s].running, shown, began, spent.scans, ui.op, "halt", ui.sent)
      BY <2>3, <3>1
    <3>3. Tallied(d, l, o, map, client'[s].running, shown, began, spent.scans, ui'.op, AtOf(s)', ui'.sent)
      BY <2>4, <3>2 DEF Tallied, Once, Scanned, Backed
    <3> QED BY <3>1, <3>3
  <2>6. Tallied(daemon'[s], link'[s], orphans'[s], client'[s].map, client'[s].running,
                bridge'.map[s], began, spent.scans, ui'.op, AtOf(s)', ui'.sent)
    BY <1>1, <1>2, <1>3, <1>4, <2>2, <2>5
  <2>7. \A t \in Sensor \ {s} : Untouched(t) /\ bridge'.map[t] = bridge.map[t]
    BY <1>1, <1>2, <1>3, <1>4, <2>2 DEF Untouched
  <2> QED BY <1>1, <1>4, <2>6, <2>7, ThreadPoints
<1> QED BY <1>5, <1>6, <1>7

\* A call returns, whichever it was.
LEMMA ReturnedPoints ==
  ASSUME NEW s, NEW ok, NEW pts, NEW rest, Brought(s, ok, pts, rest), Returned(s, ok, pts, rest)
  PROVE  Points'
<1>1. ui.at \in DOMAIN RequestAt
  BY DEF Brought, Answering
<1>2. CASE ui.at \in Pinging
  <2>1. Ping(s, ok, rest)
    BY <1>2 DEF Returned, Pinging
  <2> QED BY <1>2, <2>1, PingPoints
<1>3. CASE ui.at = "start"
  <2>1. Start(s, ok, rest)
    BY <1>3 DEF Returned
  <2> QED BY <1>3, <2>1, StartPoints
<1>4. CASE ui.at \in Ticking
  <2>1. \/ ui.at = "telemetry" /\ Telemetry(s, ok, pts, rest)
        \/ ui.at = "trajectory" /\ TrajectoryRead(s, ok, pts, rest)
        \/ ui.at = "new" /\ NewPoints(s, ok, pts, rest)
    BY <1>4 DEF Returned, Ticking
  <2> QED BY <2>1, TickPoints
<1>5. CASE ui.at \in {"all", "halt", "hush"}
  <2>1. \/ ui.at = "all" /\ AllPoints(s, ok, pts, rest)
        \/ ui.at = "halt" /\ Halt(s, rest)
        \/ ui.at = "hush" /\ Hush(s, rest)
    BY <1>5 DEF Returned
  <2> QED BY <2>1, StopPoints
<1> QED BY <1>1, <1>2, <1>3, <1>4, <1>5, Calls DEF Pinging, Ticking

\* A reading of new points, of the final ones or of the trajectory.
LEMMA ReadAnswerPoints ==
  ASSUME PointsInv, ReadAnswer
  PROVE  Points'
<1>1. /\ ui.at \in DOMAIN RequestAt /\ ui.sent /\ UNCHANGED spent
      /\ ui.at \notin {"enter", "idle"} /\ CaptureInv /\ Points
  BY Calls DEF ReadAnswer, Waiting, Calling, PointsInv
<1>2. PICK s \in Sensor : s = Subject
  BY <1>1, Visiting
<1>3. /\ TypeOK /\ ui \in Ui /\ ui.op # "idle" /\ link[s] \in Link /\ link[s].toClient # <<>>
      /\ ui.sent = TRUE /\ ui.dirty \in BOOLEAN /\ link[s].toClient \in Seq(Answer)
      /\ RequestAt[ui.at] \in Request
      /\ spent' \in [{"starts", "scans", "late", "crashes"} -> Nat]
  <2>1. TypeOK /\ ui \in Ui /\ ui.op # "idle" /\ link[s] \in Link
    BY <1>1, <1>2, Visiting
  <2> QED BY <1>1, <1>2, <2>1, Calls DEF Ui, Link, TypeOK, ReadAnswer
<1>4. PICK r \in Readings(RequestAt[ui.at], link[s].toClient, ui.dirty) :
        IF r.verdict = "more"
        THEN /\ ui' = [ui EXCEPT !.dirty = TRUE]
             /\ Leaves(s, r.rest)
             /\ UNCHANGED <<daemon, orphans, client, bridge, history, failed>>
        ELSE Returned(s, r.verdict = "ok", r.pts, r.rest)
  BY <1>2 DEF ReadAnswer
<1>5. /\ r.rest \in Seq(Answer) /\ r.pts \in SUBSET Point
      /\ Left(r.rest, link[s].toClient, 0) \/ Left(r.rest, link[s].toClient, 1)
      /\ r.verdict = "ok" => /\ Head(link[s].toClient).to = RequestAt[ui.at]
                             /\ ~Head(link[s].toClient).torn
                             /\ r.pts = Head(link[s].toClient).pts
                             /\ r.rest = Tail(link[s].toClient)
  <2> DEFINE in == link[s].toClient
             request == RequestAt[ui.at]
  <2>1. /\ request \in Request /\ in \in Seq(Answer) /\ in # <<>> /\ ui.dirty \in BOOLEAN
        /\ r \in Readings(request, in, ui.dirty)
    BY <1>1, <1>3, <1>4
  <2> HIDE DEF in, request
  <2>2. /\ r.rest \in Seq(Answer) /\ r.pts \in SUBSET Point
        /\ Left(r.rest, in, 0) \/ Left(r.rest, in, 1)
        /\ r.verdict = "ok" => /\ Head(in).to = request /\ ~Head(in).torn
                               /\ r.pts = Head(in).pts /\ r.rest = Tail(in)
    BY <2>1, ReadingLeaves
  <2> QED BY <2>2 DEF in, request
<1>6. CASE r.verdict # "more"
  <2>1. PICK ok \in BOOLEAN : ok = (r.verdict = "ok")
    OBVIOUS
  <2>2. Returned(s, ok, r.pts, r.rest)
    <3>1. Returned(s, r.verdict = "ok", r.pts, r.rest)
      BY <1>4, <1>6
    <3> QED BY <2>1, <3>1, Zenon
  <2>3. Outcome(link[s], RequestAt[ui.at], ok, r.rest)
    BY <1>1, <1>3, <1>5, <2>1 DEF Outcome
  <2>4. UNCHANGED <<daemon, began, due>>
    BY <2>2 DEF Returned, history
  <2>5. Answering(s, ok, r.pts, r.rest)
    BY <1>1, <1>2, <1>3, <1>5, <2>1, <2>3, <2>4 DEF Answering
  <2>6. Brought(s, ok, r.pts, r.rest)
    BY <1>1, <1>5, <2>1, <2>5 DEF Brought
  <2> QED BY <2>2, <2>6, ReturnedPoints
<1>7. CASE r.verdict = "more"
  <2>1. /\ ui' = [ui EXCEPT !.dirty = TRUE] /\ link' = [link EXCEPT ![s] = After(link[s], r.rest)]
        /\ UNCHANGED <<daemon, orphans, client, bridge, began>>
    BY <1>4, <1>7 DEF history, Leaves, After
  <2>2. ui'.op = ui.op /\ ui'.sent = ui.sent /\ AtOf(s)' = ui.at
    <3>1. ui'.op = ui.op /\ ui'.todo = ui.todo /\ ui'.at = ui.at /\ ui'.sent = ui.sent
      BY <1>3, <2>1 DEF Ui
    <3>2. Head(ui'.todo) = s /\ ui'.op # "idle" /\ ui'.at # "enter"
      BY <1>1, <1>2, <1>3, <3>1 DEF Subject
    <3> QED BY <3>1, <3>2 DEF AtOf, Visited
  <2>3. Tallied(daemon[s], link[s], orphans[s], client[s].map, client[s].running, bridge.map[s],
                began, spent.scans, ui.op, ui.at, ui.sent)
    BY <1>1, <1>2, VisitingPoints
  <2>4. Tallied(daemon[s], After(link[s], r.rest), orphans[s], client[s].map, client[s].running,
                bridge.map[s], began, spent.scans, ui.op, ui.at, ui.sent)
    BY <1>3, <1>5, <2>3, TalliedRead
  <2>5. link'[s] = After(link[s], r.rest) /\ \A t \in Sensor \ {s} : Untouched(t)
    BY <1>3, <2>1 DEF TypeOK, Untouched
  <2>6. Tallied(daemon'[s], link'[s], orphans'[s], client'[s].map, client'[s].running,
                bridge'.map[s], began, spent.scans, ui'.op, AtOf(s)', ui'.sent)
    BY <2>1, <2>2, <2>4, <2>5
  <2> QED BY <1>1, <1>2, <2>1, <2>2, <2>5, <2>6, ThreadPoints
<1> QED BY <1>6, <1>7

\* A reading that gave up.
LEMMA NoAnswerPoints ==
  ASSUME PointsInv, Refused \/ TimeOut
  PROVE  Points'
<1>1. /\ ui.at \in DOMAIN RequestAt /\ ui.sent /\ ui.at \notin {"enter", "idle"} /\ CaptureInv /\ Points
      /\ spent' = spent \/ Spend("late")
  BY Calls DEF Refused, TimeOut, Waiting, Calling, PointsInv
<1>2. PICK s \in Sensor : s = Subject
  BY <1>1, Visiting
<1>3. link[s].toClient = <<>> /\ Returned(s, FALSE, {}, <<>>)
  BY <1>2 DEF Refused, TimeOut
<1>4. TypeOK /\ ui \in Ui
  BY <1>1, Visiting
<1>5. ui.sent = TRUE /\ <<>> \in Seq(Answer)
  BY <1>1, <1>4 DEF Ui
<1>6. spent' \in [{"starts", "scans", "late", "crashes"} -> Nat] /\ spent'.scans = spent.scans
  BY <1>1, <1>4, Spends DEF TypeOK, Spend
<1>7. Outcome(link[s], RequestAt[ui.at], FALSE, <<>>)
  BY <1>3 DEF Outcome
<1>8. UNCHANGED <<daemon, began, due>>
  BY <1>3 DEF Returned, history
<1>9. Brought(s, FALSE, {}, <<>>)
  BY <1>1, <1>2, <1>5, <1>6, <1>7, <1>8 DEF Answering, Brought
<1> QED BY <1>3, <1>9, ReturnedPoints

-----------------------------------------------------------------------------
(* The steps of a daemon, and every step.                                   *)

\* A step of one daemon.
LEMMA OnePoints ==
  ASSUME PointsInv, NEW s \in Sensor, UNCHANGED <<client, ui, bridge, began>>,
         \A t \in Sensor \ {s} : /\ daemon'[t] = daemon[t] /\ link'[t] = link[t]
                                 /\ orphans'[t] = orphans[t],
         spent'.scans \in Nat, spent.scans \in Nat, spent.scans <= spent'.scans,
         Tallied(daemon'[s], link'[s], orphans'[s], client[s].map, client[s].running, bridge.map[s],
                 began, spent'.scans, ui.op, AtOf(s), ui.sent)
  PROVE  Points'
<1>1. \A t \in Sensor : AtOf(t)' = AtOf(t)
  BY DEF AtOf, Visited
<1>2. ASSUME NEW t \in Sensor PROVE Accounted(t)'
  <2>1. CASE t = s
    <3>1. Tallied(daemon'[s], link'[s], orphans'[s], client'[s].map, client'[s].running, bridge'.map[s],
                  began', spent'.scans, ui'.op, AtOf(s)', ui'.sent)
      BY <1>1
    <3> QED BY <2>1, <3>1 DEF Accounted
  <2>2. CASE t # s
    <3>1. Tallied(daemon[t], link[t], orphans[t], client[t].map, client[t].running, bridge.map[t],
                  began, spent.scans, ui.op, AtOf(t), ui.sent)
      BY DEF PointsInv, Points, Accounted
    <3>2. Tallied(daemon[t], link[t], orphans[t], client[t].map, client[t].running, bridge.map[t],
                  began, spent'.scans, ui.op, AtOf(t), ui.sent)
      <4>1. \A S : S \subseteq 1..spent.scans => S \subseteq 1..spent'.scans
        OBVIOUS
      <4> QED BY <3>1, <4>1 DEF Tallied, Scanned
    <3>3. daemon'[t] = daemon[t] /\ link'[t] = link[t] /\ orphans'[t] = orphans[t] /\ AtOf(t)' = AtOf(t)
      BY <1>1, <2>2
    <3>4. Tallied(daemon'[t], link'[t], orphans'[t], client'[t].map, client'[t].running, bridge'.map[t],
                  began', spent'.scans, ui'.op, AtOf(t)', ui'.sent)
      BY <3>2, <3>3
    <3> QED BY <3>4 DEF Accounted
  <2> QED BY <2>1, <2>2
<1>3. began' <= spent'.scans
  BY DEF PointsInv, Points, CaptureInv, TypeOK
<1> QED BY <1>2, <1>3 DEF Points

\* The steps of the daemon of a sensor.
LEMMA DaemonPoints ==
  ASSUME PointsInv, NEW s \in Sensor,
         \/ HandleClient(s) \/ HandleOrphan(s) \/ SenseScan(s) \/ RecordScan(s) \/ Crash(s)
  PROVE  Points'
<1> DEFINE d == daemon[s]
           l == link[s]
           o == orphans[s]
           c == client[s]
<1>1. /\ d \in Daemon /\ l \in Link /\ o \in Orphans /\ TypeOK
      /\ spent \in [{"starts", "scans", "late", "crashes"} -> Nat]
      /\ Fits(d, l, o, c, AtOf(s), ui.half, ui.sent)
  BY DaemonFacts DEF PointsInv
<1>2. Tallied(d, l, o, c.map, c.running, bridge.map[s], began, spent.scans, ui.op, AtOf(s), ui.sent)
  BY DEF PointsInv, Points, Accounted
<1>3. /\ UNCHANGED <<client, ui, bridge, began>>
      /\ spent.scans \in Nat
      /\ daemon \in [Sensor -> Daemon] /\ link \in [Sensor -> Link] /\ orphans \in [Sensor -> Orphans]
  BY <1>1 DEF TypeOK, Orphans, HandleClient, HandleOrphan, SenseScan, RecordScan, Crash, history
<1>4. CASE HandleClient(s)
  <2> DEFINE r == Head(l.toDaemon)
             l2 == [l EXCEPT !.toDaemon = Tail(@), !.toClient = Append(@, AnswerTo(d, r))]
  <2>1. /\ l.state = "open" /\ l.toDaemon # <<>>
        /\ daemon' = [daemon EXCEPT ![s] = Serve(d, r)] /\ UNCHANGED <<orphans, spent>>
    BY <1>4 DEF HandleClient
  <2>2. link' = [link EXCEPT ![s] = l2]
    BY <1>1, <1>4 DEF HandleClient, Link
  <2>3. Tallied(Serve(d, r), l2, o, c.map, c.running, bridge.map[s], began, spent.scans, ui.op,
                AtOf(s), ui.sent)
    BY <1>1, <1>2, <2>1, TalliedServed
  <2> HIDE DEF l2, r
  <2>4. /\ daemon'[s] = Serve(d, r) /\ link'[s] = l2 /\ orphans'[s] = o
        /\ \A t \in Sensor \ {s} : daemon'[t] = daemon[t] /\ link'[t] = link[t] /\ orphans'[t] = orphans[t]
    BY <1>3, <2>1, <2>2
  <2> QED BY <1>3, <2>1, <2>3, <2>4, OnePoints
<1>5. CASE HandleOrphan(s)
  <2>1. PICK i \in 1..Len(o) :
          \/ /\ daemon' = [daemon EXCEPT ![s] = Serve(@, Head(o[i]))]
             /\ orphans' = [orphans EXCEPT ![s] = IF Tail(o[i]) = <<>> THEN RemoveAt(o, i)
                                                  ELSE ReplaceAt(o, i, Tail(o[i]))]
          \/ orphans' = [orphans EXCEPT ![s] = RemoveAt(o, i)] /\ UNCHANGED daemon
    BY <1>5 DEF HandleOrphan
  <2>2. UNCHANGED <<link, spent>>
    BY <1>5 DEF HandleOrphan
  <2>3. Head(o[i]) \in Request \ {"STOP"}
    <3>1. o[i] \in Seq(Request)
      BY <1>1 DEF Orphans
    <3>2. o[i] # <<>> /\ ~Has(o[i], "STOP")
      BY <1>1, <2>1 DEF Fits, Sound
    <3>3. Head(o[i]) = o[i][1] /\ 1 \in 1..Len(o[i]) /\ Head(o[i]) \in Request
      BY <3>1, <3>2, EmptySeq
    <3> QED BY <3>2, <3>3 DEF Has
  <2>4. PICK d2, o2 :
          /\ d2 = d \/ d2 = Serve(d, Head(o[i]))
          /\ daemon'[s] = d2 /\ orphans'[s] = o2
          /\ \A t \in Sensor \ {s} : daemon'[t] = daemon[t] /\ orphans'[t] = orphans[t]
    <3>1. PICK o3 : orphans' = [orphans EXCEPT ![s] = o3]
      BY <2>1
    <3>2. daemon' = daemon \/ daemon' = [daemon EXCEPT ![s] = Serve(d, Head(o[i]))]
      BY <2>1
    <3> QED BY <1>3, <3>1, <3>2
  <2> HIDE DEF d, o
  <2>5. Tallied(d2, l, o2, c.map, c.running, bridge.map[s], began, spent.scans, ui.op,
                AtOf(s), ui.sent)
    BY <1>1, <1>2, <2>3, <2>4, TalliedOrphan
  <2> QED BY <1>3, <2>2, <2>4, <2>5, OnePoints
<1>6. CASE SenseScan(s)
  <2>1. /\ d.alive /\ daemon' = [daemon EXCEPT ![s] = Sense(d, spent.scans + 1)]
        /\ UNCHANGED <<link, orphans>> /\ spent'.scans = spent.scans + 1
    BY <1>1, <1>6 DEF SenseScan, Spend
  <2>2. Tallied(Sense(d, spent.scans + 1), l, o, c.map, c.running, bridge.map[s], began,
                spent.scans + 1, ui.op, AtOf(s), ui.sent)
    BY <1>1, <1>2, <1>3, <2>1, TalliedSensed
  <2>3. daemon'[s] = Sense(d, spent.scans + 1) /\ \A t \in Sensor \ {s} : daemon'[t] = daemon[t]
    BY <1>3, <2>1
  <2> QED BY <1>3, <2>1, <2>2, <2>3, OnePoints
<1>7. CASE RecordScan(s)
  <2>1. /\ d.flight # None /\ daemon' = [daemon EXCEPT ![s] = Record(d)]
        /\ UNCHANGED <<link, orphans, spent>>
    BY <1>7 DEF RecordScan
  <2>2. Tallied(Record(d), l, o, c.map, c.running, bridge.map[s], began,
                spent.scans, ui.op, AtOf(s), ui.sent)
    BY <1>1, <1>2, <1>3, <2>1, TalliedRecorded
  <2>3. daemon'[s] = Record(d) /\ \A t \in Sensor \ {s} : daemon'[t] = daemon[t]
    BY <1>3, <2>1
  <2> QED BY <1>3, <2>1, <2>2, <2>3, OnePoints
<1>8. CASE Crash(s)
  <2>1. /\ daemon' = [daemon EXCEPT ![s] = Dead] /\ orphans' = [orphans EXCEPT ![s] = <<>>]
        /\ spent'.scans = spent.scans
    BY <1>1, <1>8 DEF Crash, Spend
  <2>2. PICK l2 : /\ link'[s] = l2 /\ \A t \in Sensor \ {s} : link'[t] = link[t]
                  /\ \/ l2 = l /\ l.state # "open"
                     \/ /\ l2.state = "broken" /\ l2.toClient \in {l.toClient, <<>>}
                        /\ l.state = "open"
                        /\ Has(Asked(l2), "NEW") => Has(Asked(l), "NEW")
    <3>1. CASE l.state # "open"
      BY <1>8, <3>1 DEF Crash
    <3>2. CASE l.state = "open"
      <4>1. PICK in \in {l.toClient, <<>>} :
              link' = [link EXCEPT ![s] = [state |-> "broken", toDaemon |-> <<>>, toClient |-> in]]
        BY <1>8, <3>2 DEF Crash
      <4> DEFINE l2 == [state |-> "broken", toDaemon |-> <<>>, toClient |-> in]
      <4>2. link'[s] = l2 /\ \A t \in Sensor \ {s} : link'[t] = link[t]
        BY <1>3, <4>1
      <4>3. l2 \in Link
        BY <1>1, <4>1, Crashing, <3>2
      <4>4. Has(Asked(l2), "NEW") => Has(Asked(l), "NEW")
        <5> SUFFICES ASSUME Has(Asked(l2), "NEW") PROVE Has(Asked(l), "NEW")
          OBVIOUS
        <5>1. in # <<>>
          <6>1. l2.toClient = in /\ l2.toDaemon = <<>>
            OBVIOUS
          <6>2. Asked(l2) # <<>>
            BY NothingInEmpty
          <6> HIDE DEF l2
          <6> QED BY <4>3, <6>1, <6>2, AskedType
        <5>2. l2.toClient = l.toClient /\ l2.toDaemon = <<>>
          BY <4>1, <5>1
        <5> HIDE DEF l2
        <5>3. /\ Names(l.toClient) \in Seq(Request) /\ Asked(l2) = Names(l.toClient) \o <<>>
              /\ \A i \in 1..Len(l.toClient) : Has(Asked(l), l.toClient[i].to)
              /\ l.toClient \in Seq(Answer)
          BY <1>1, <5>2, AskedType, AskedHas DEF Asked
        <5>4. Asked(l2) = Names(l.toClient)
          BY <5>3, ConcatEmptySeq
        <5>5. Len(Names(l.toClient)) = Len(l.toClient)
              /\ \A i \in 1..Len(l.toClient) : Names(l.toClient)[i] = l.toClient[i].to
          BY <5>3, NamesOf
        <5>6. PICK i \in 1..Len(l.toClient) : l.toClient[i].to = "NEW"
          BY <5>4, <5>5 DEF Has
        <5> QED BY <5>3, <5>6
      <4>5. l2.state = "broken" /\ l2.toClient \in {l.toClient, <<>>}
        BY <4>1
      <4> HIDE DEF l2
      <4> QED BY <3>2, <4>2, <4>4, <4>5
    <3> QED BY <3>1, <3>2
  <2>3. Tallied(Dead, l2, <<>>, c.map, c.running, bridge.map[s], began,
                spent.scans, ui.op, AtOf(s), ui.sent)
    BY <1>2, <2>2, TalliedCrashed
  <2>4. /\ daemon'[s] = Dead /\ orphans'[s] = <<>>
        /\ \A t \in Sensor \ {s} : daemon'[t] = daemon[t] /\ orphans'[t] = orphans[t]
    BY <1>3, <2>1
  <2> QED BY <1>3, <2>1, <2>2, <2>3, <2>4, OnePoints
<1> QED BY <1>4, <1>5, <1>6, <1>7, <1>8

\* The inductive invariant holds where nothing has been scanned.
LEMMA PointsInvInit ==
  ASSUME Init
  PROVE  PointsInv
<1>1. CaptureInv
  BY CaptureInvInit
<1>2. began = 0 /\ spent.scans = 0 /\ ui.op = "idle"
  BY DEF Init, Resting
<1>3. ASSUME NEW s \in Sensor PROVE Accounted(s)
  <2>1. /\ daemon[s] \in {Dead, Spawned} /\ link[s] = Closed /\ orphans[s] = <<>>
        /\ client[s].map = {} /\ ~client[s].running /\ bridge.map[s] = {}
    BY DEF Init
  <2>2. /\ Dead.fresh = {} /\ Dead.voxels = {} /\ Dead.flight = None /\ ~Dead.alive
        /\ Spawned.fresh = {} /\ Spawned.voxels = {} /\ Spawned.flight = None /\ Spawned.alive
    BY DEF Dead, Spawned
  <2>3. Closed.state = "closed" /\ Closed.toClient = <<>>
    BY NewLinks
  <2>4. Len(<<>>) = 0 /\ NewIn(<<>>) = {} /\ AllIn(<<>>) = {}
    BY DEF NewIn, AllIn
  <2>5. Once(daemon[s], link[s], orphans[s], {}, client[s].running, AtOf(s), ui.sent)
    BY <2>1, <2>2, <2>3, <2>4 DEF Once
  <2>6. Scanned(daemon[s], link[s], {}, {}, 0)
    BY <2>1, <2>2, <2>3, <2>4 DEF Scanned
  <2>7. Backed(daemon[s], link[s], {}, client[s].running, {}, 0, "idle", AtOf(s))
    BY <2>1 DEF Backed, Since
  <2>8. Tallied(daemon[s], link[s], orphans[s], {}, client[s].running, {}, 0, 0, "idle", AtOf(s), ui.sent)
    BY <2>5, <2>6, <2>7 DEF Tallied
  <2> QED BY <1>2, <2>1, <2>8 DEF Accounted
<1> QED BY <1>1, <1>2, <1>3 DEF PointsInv, Points

\* Every step of the station preserves it.
LEMMA PointsInvStep ==
  ASSUME PointsInv, [Next]_vars
  PROVE  PointsInv'
<1>1. CaptureInv'
  BY CaptureInvStep DEF PointsInv
<1>2. CASE StartCapture \/ OnTelemetryTick \/ StopCapture
  BY <1>1, <1>2, BeginPoints DEF PointsInv
<1>3. CASE Enter
  BY <1>1, <1>3, EnterPoints DEF PointsInv
<1>4. CASE Collect
  BY <1>1, <1>4, CollectPoints DEF PointsInv
<1>5. CASE Connect \/ Respawn
  BY <1>1, <1>5, ConnectPoints DEF PointsInv
<1>6. CASE Send
  BY <1>1, <1>6, SendPoints DEF PointsInv
<1>7. CASE ReadAnswer
  BY <1>1, <1>7, ReadAnswerPoints DEF PointsInv
<1>8. CASE Refused \/ TimeOut
  BY <1>1, <1>8, NoAnswerPoints DEF PointsInv
<1>9. ASSUME NEW s \in Sensor,
             HandleClient(s) \/ HandleOrphan(s) \/ SenseScan(s) \/ RecordScan(s) \/ Crash(s)
      PROVE  PointsInv'
  BY <1>1, <1>9, DaemonPoints DEF PointsInv
<1>10. CASE UNCHANGED vars
  BY <1>1, <1>10 DEF vars, PointsInv, Points, Accounted, AtOf, Visited
<1> QED BY <1>2, <1>3, <1>4, <1>5, <1>6, <1>7, <1>8, <1>9, <1>10 DEF Next, Thread

-----------------------------------------------------------------------------
(* What follows from it.                                                    *)

\* The map the bridge shows of a sensor changes only when the backend's does,
\* and then holds all that the backend held, or when a capture begins.
LEMMA AnsweredShows ==
  ASSUME CaptureInv, NEW s \in Sensor, s = Subject, NEW ok, NEW pts \in SUBSET Point, NEW rest,
         Returned(s, ok, pts, rest), ui.at \in DOMAIN RequestAt
  PROVE  \A t \in Sensor : bridge'.map[t] = bridge.map[t] \/ client[t].map \subseteq bridge'.map[t]
<1>1. /\ bridge \in BridgeType /\ client \in [Sensor -> Client] /\ ui.half \in {"adapter", "backend"}
  BY DEF CaptureInv, TypeOK, BridgeType, Ui
<1>2. ASSUME NEW started, NextSensor(started, bridge)
      PROVE  bridge'.map = bridge.map
  BY <1>1, <1>2, NextMap
<1>3. CASE ui.at = "new"
  <2>1. /\ client' = IF ok THEN [client EXCEPT ![s].map = @ \cup pts] ELSE client
        /\ NextSensor(<<>>, Shown(client'[s]))
    BY <1>3 DEF Returned, NewPoints
  <2>2. /\ client'[s].map \in SUBSET Point /\ client'[s].trajectory \in SUBSET Point
        /\ client[s].map \subseteq client'[s].map
    <3>1. CASE client' = client
      BY <1>1, <3>1 DEF Client
    <3>2. CASE client' = [client EXCEPT ![s].map = @ \cup pts]
      <4> DEFINE m2 == client[s].map \cup pts
      <4>1. client'[s] = [client[s] EXCEPT !.map = m2] /\ client[s] \in Client
        BY <1>1, <3>2
      <4>2. m2 \in SUBSET Point /\ client[s].map \subseteq m2
        BY <1>1 DEF Client
      <4> HIDE DEF m2
      <4> QED BY <4>1, <4>2 DEF Client
    <3> QED BY <2>1, <3>1, <3>2
  <2>3. PICK c : c = client'[s]
    OBVIOUS
  <2>4. /\ c.map \in SUBSET Point /\ c.trajectory \in SUBSET Point /\ client[s].map \subseteq c.map
        /\ NextSensor(<<>>, Shown(c))
    BY <2>1, <2>2, <2>3
  <2>5. /\ Shown(c) \in BridgeType /\ Shown(c).map[s] = c.map
        /\ \A t \in Sensor \ {s} : Shown(c).map[t] = bridge.map[t]
    BY <1>1, <2>4, ShownMap
  <2>6. bridge'.map = Shown(c).map
    BY <2>4, <2>5, NextMap
  <2> QED BY <2>4, <2>5, <2>6
<1>4. CASE ui.at # "new"
  <2>1. bridge' = bridge \/ \E started : NextSensor(started, bridge)
    <3>1. CASE ui.at \in Pinging
      BY <3>1 DEF Returned, Ping, Pinging
    <3>2. CASE ui.at = "start"
      BY <1>1, <3>2 DEF Returned, Start
    <3>3. CASE ui.at = "telemetry"
      BY <3>3 DEF Returned, Telemetry
    <3>4. CASE ui.at = "trajectory"
      BY <3>4 DEF Returned, TrajectoryRead
    <3>5. CASE ui.at = "all"
      BY <3>5 DEF Returned, AllPoints
    <3>6. CASE ui.at = "halt"
      BY <3>6 DEF Returned, Halt
    <3>7. CASE ui.at = "hush"
      BY <3>7 DEF Returned, Hush
    <3> QED BY <1>4, <3>1, <3>2, <3>3, <3>4, <3>5, <3>6, <3>7, Calls DEF Pinging
  <2>2. bridge'.map = bridge.map
    BY <1>2, <2>1
  <2> QED BY <2>2
<1> QED BY <1>3, <1>4

\* No step of the bridge takes from the map what the capture has shown.
LEMMA ShowsWhatIsHeld ==
  ASSUME CaptureInv, [Next]_vars
  PROVE  \/ StartCapture
         \/ \A t \in Sensor : bridge'.map[t] = bridge.map[t] \/ client[t].map \subseteq bridge'.map[t]
<1>1. CASE bridge' = bridge
  BY <1>1
<1>2. CASE Collect
  <2>1. ui.at = "collect" /\ bridge \in BridgeType /\ client \in [Sensor -> Client]
    BY <1>2 DEF Collect, CaptureInv, TypeOK, BridgeType
  <2>2. PICK s \in Sensor : s = Subject
    BY <2>1, Busy
  <2>3. /\ Shown(client[s]) \in BridgeType /\ Shown(client[s]).map[s] = client[s].map
        /\ \A t \in Sensor \ {s} : Shown(client[s]).map[t] = bridge.map[t]
    <3>1. client[s].map \in SUBSET Point /\ client[s].trajectory \in SUBSET Point
      BY <2>1 DEF Client
    <3> QED BY <2>1, <2>2, <3>1, ShownMap
  <2>4. PICK b \in {bridge, Shown(client[s])} : bridge' = b \/ NextSensor(<<>>, b)
    BY <1>2, <2>2 DEF Collect
  <2>5. bridge'.map = b.map
    <3>1. b \in BridgeType
      BY <2>1, <2>3, <2>4
    <3> QED BY <2>4, <3>1, NextMap
  <2> QED BY <2>3, <2>4, <2>5
<1>3. CASE ReadAnswer
  <2>1. ui.at \in DOMAIN RequestAt /\ ui.at \notin {"enter", "idle"} /\ link[Subject].toClient # <<>> /\ ui.sent
    BY <1>3, Calls DEF ReadAnswer, Waiting, Calling
  <2>2. PICK s \in Sensor : s = Subject
    BY <2>1, Visiting
  <2>3. /\ RequestAt[ui.at] \in Request /\ link[s].toClient \in Seq(Answer) /\ link[s].toClient # <<>>
        /\ ui.dirty \in BOOLEAN
    <3>1. ui \in Ui /\ link[s] \in Link
      BY <2>1, <2>2, Visiting
    <3> QED BY <2>1, <2>2, <3>1, Calls DEF Ui, Link
  <2>4. PICK r \in Readings(RequestAt[ui.at], link[s].toClient, ui.dirty) :
          bridge' = bridge \/ Returned(s, r.verdict = "ok", r.pts, r.rest)
    BY <1>3, <2>2 DEF ReadAnswer
  <2>5. r.pts \in SUBSET Point
    BY <2>3, ReadingLeaves
  <2>6. PICK ok \in BOOLEAN : ok = (r.verdict = "ok")
    OBVIOUS
  <2>7. bridge' = bridge \/ Returned(s, ok, r.pts, r.rest)
    BY <2>4, <2>6, Zenon
  <2>8. CASE bridge' = bridge
    BY <2>8
  <2>9. CASE Returned(s, ok, r.pts, r.rest)
    BY <2>1, <2>2, <2>5, <2>9, AnsweredShows
  <2> QED BY <2>7, <2>8, <2>9
<1>4. CASE Refused \/ TimeOut
  <2>1. ui.at \in DOMAIN RequestAt /\ ui.at \notin {"enter", "idle"}
    BY <1>4, Calls DEF Refused, TimeOut, Waiting, Calling
  <2>2. PICK s \in Sensor : s = Subject
    BY <2>1, Visiting
  <2>3. Returned(s, FALSE, {}, <<>>)
    BY <1>4, <2>2 DEF Refused, TimeOut
  <2> QED BY <2>1, <2>2, <2>3, AnsweredShows
<1>5. CASE StartCapture
  BY <1>5
<1> QED BY <1>1, <1>2, <1>3, <1>4, <1>5 DEF Next, Thread, OnTelemetryTick, StopCapture, Enter, Connect,
           Respawn, Send, HandleClient, HandleOrphan, SenseScan, RecordScan, Crash, vars

\* Late, torn or repeated, on a connection that is used again by the next
\* capture or by the pull that ends this one: a block of new points is never
\* in the connection of a backend that has any of its points already.
THEOREM NewPointsArriveOnce == StationSpec => []PointsArriveOnce
<1>1. StationInit => PointsInv
  BY PointsInvInit DEF StationInit
<1>2. PointsInv /\ [StationNext]_stationVars => PointsInv'
  BY PointsInvStep, StationCapture
<1>3. PointsInv => PointsArriveOnce
  <2> SUFFICES ASSUME PointsInv, NEW s \in Sensor, NEW i \in 1..Len(link[s].toClient),
                      link[s].toClient[i].to = "NEW", ~link[s].toClient[i].torn
               PROVE  link[s].toClient[i].pts \cap client[s].map = {}
    BY DEF PointsArriveOnce
  <2>1. Once(daemon[s], link[s], orphans[s], client[s].map, client[s].running, AtOf(s), ui.sent)
    BY DEF PointsInv, Points, Accounted, Tallied
  <2>2. i \in NewIn(link[s].toClient)
    BY DEF NewIn
  <2> QED BY <2>1, <2>2 DEF Once
<1> QED BY <1>1, <1>2, <1>3, PTL DEF StationSpec

\* A point of the capture under way that the bridge has shown stays shown,
\* whatever answers are late or torn and whichever daemon dies: neither a
\* block of new points nor the final pull that replaces the map can lose it.
THEOREM ShownPointsStay == StationSpec => NothingShownIsLost
<1> DEFINE Stay == began' = began => \A s \in Sensor : Own(s) \subseteq bridge'.map[s]
<1>1. StationInit => PointsInv
  BY PointsInvInit DEF StationInit
<1>2. PointsInv /\ [StationNext]_stationVars => PointsInv'
  BY PointsInvStep, StationCapture
<1>3. PointsInv /\ [StationNext]_stationVars => [Stay]_vars
  <2> SUFFICES ASSUME PointsInv, [StationNext]_stationVars, began' = began, NEW s \in Sensor
               PROVE  Own(s) \subseteq bridge'.map[s]
    OBVIOUS
  <2>1. [Next]_vars
    BY StationCapture
  <2>2. Tallied(daemon[s], link[s], orphans[s], client[s].map, client[s].running, bridge.map[s],
                began, spent.scans, ui.op, AtOf(s), ui.sent)
    BY DEF PointsInv, Points, Accounted
  <2>3. Own(s) \subseteq client[s].map /\ bridge.map[s] \subseteq 1..spent.scans
    BY <2>2 DEF Tallied, Backed, Scanned, Since, Own
  <2>4. Own(s) \subseteq bridge.map[s]
    BY DEF Own
  <2>5. CASE StartCapture
    <3>1. began = spent.scans /\ spent.scans \in Nat
      BY <2>5 DEF StartCapture, PointsInv, CaptureInv, TypeOK
    <3>2. \A p \in bridge.map[s] : ~(p > began)
      BY <2>3, <3>1
    <3>3. Own(s) = {}
      BY <3>2 DEF Own
    <3> QED BY <3>3
  <2>6. CASE bridge'.map[s] = bridge.map[s] \/ client[s].map \subseteq bridge'.map[s]
    BY <2>3, <2>4, <2>6
  <2> QED BY <2>1, <2>5, <2>6, ShowsWhatIsHeld DEF PointsInv
<1> QED BY <1>1, <1>2, <1>3, PTL DEF StationSpec, NothingShownIsLost

-----------------------------------------------------------------------------
(* The pull at the end of a capture, where every answer came in time and no *)
(* daemon crashed.                                                          *)

\* The points a capture has, while it lasts and when its stop is asked for,
\* are few enough for their path to fit in a line.
Short(d, gone, op) == Cardinality(IF op = "stop" THEN gone ELSE d.voxels) <= LineLimit

\* The connection of a sensor that records holds the request the bridge waits
\* for, or its answer, and nothing else.
InTouch(d, l, at, sent, dirty) ==
  /\ l.state = "open"
  /\ Asked(l) = IF at \in DOMAIN RequestAt /\ sent THEN <<RequestAt[at]>> ELSE <<>>
  /\ at # "rest" => ~dirty
  /\ \A i \in 1..Len(l.toClient) : ~l.toClient[i].torn /\ l.toClient[i].pts \subseteq d.voxels

\* The points the stop asked for are in the daemon until they are pulled, then
\* in the backend, and when the visit ends in what the bridge shows.
Pulled(s, d, l, map, shown, gone, state, op, left, at) ==
  Cardinality(gone) <= LineLimit =>
    /\ state # "CAPTURING" => gone \subseteq shown
    /\ op = "stop" =>
         /\ s \in left /\ at \notin {"halt", "collect", "hush"} => gone \subseteq d.voxels
         /\ at = "all" => \A i \in 1..Len(l.toClient) : gone \subseteq l.toClient[i].pts
         /\ at \in {"halt", "collect"} => gone \subseteq map
         /\ s \notin left \/ at = "hush" => gone \subseteq shown

Smoothly(s, d, l, map, running, shown, gone, state, op, left, at, sent, dirty) ==
  /\ l.state # "broken"
  /\ running /\ at # "halt" /\ Short(d, gone, op) => InTouch(d, l, at, sent, dirty)
  /\ Pulled(s, d, l, map, shown, gone, state, op, left, at)

Smoothed(s) ==
  Smoothly(s, daemon[s], link[s], client[s].map, client[s].running, bridge.map[s], due[s],
           bridge.state, ui.op, In(ui.todo), AtOf(s), ui.sent, ui.dirty)

PullInv == PointsInv /\ (Smooth => \A s \in Sensor : Smoothed(s))

\* In touch between two calls, a connection is empty.
LEMMA Silent ==
  ASSUME NEW d, NEW l \in Link, NEW at, NEW sent, NEW dirty, InTouch(d, l, at, sent, dirty),
         at \notin DOMAIN RequestAt \/ ~sent
  PROVE  /\ l.state = "open" /\ Asked(l) = <<>> /\ l.toClient = <<>> /\ l.toDaemon = <<>>
         /\ \A at2, sent2, dirty2 :
              /\ at2 \notin DOMAIN RequestAt \/ ~sent2
              /\ at2 = "rest" \/ ~dirty2
              => InTouch(d, l, at2, sent2, dirty2)
<1>1. l.state = "open" /\ Asked(l) = <<>>
  BY DEF InTouch
<1>2. l.toClient = <<>> /\ l.toDaemon = <<>>
  BY <1>1, AskedType
<1>3. "rest" \notin DOMAIN RequestAt /\ Len(l.toClient) = 0
  BY <1>2, Calls
<1> QED BY <1>1, <1>2, <1>3 DEF InTouch

\* What a sensor the bridge does not visit shares with the step: the loop's end
\* and the end of the capture.
LEMMA SmoothlyElsewhere ==
  ASSUME NEW s, NEW d, NEW l, NEW map, NEW running, NEW shown, NEW gone, NEW state, NEW op, NEW left,
         NEW sent, NEW dirty, NEW state2, NEW op2, NEW left2, NEW sent2, NEW dirty2,
         Smoothly(s, d, l, map, running, shown, gone, state, op, left, "rest", sent, dirty),
         \/ op2 = op /\ (s \in left2 <=> s \in left) /\ state2 = state
         \/ op # "stop" /\ op2 # "stop" /\ (state = "CAPTURING" => state2 = "CAPTURING")
         \/ op = "stop" /\ op2 = "idle" /\ ~running /\ s \notin left
  PROVE  Smoothly(s, d, l, map, running, shown, gone, state2, op2, left2, "rest", sent2, dirty2)
<1>1. "rest" \notin DOMAIN RequestAt
  BY Calls
<1>2. l.state # "broken"
  BY DEF Smoothly
<1>3. running /\ Short(d, gone, op2) => InTouch(d, l, "rest", sent2, dirty2)
  <2>1. running /\ Short(d, gone, op2) => Short(d, gone, op)
    BY DEF Short
  <2>2. running /\ Short(d, gone, op) => InTouch(d, l, "rest", sent, dirty)
    BY DEF Smoothly
  <2> QED BY <1>1, <2>1, <2>2 DEF InTouch
<1>4. Pulled(s, d, l, map, shown, gone, state2, op2, left2, "rest")
  <2>1. Pulled(s, d, l, map, shown, gone, state, op, left, "rest")
    BY DEF Smoothly
  <2> QED BY <2>1 DEF Pulled
<1> QED BY <1>2, <1>3, <1>4 DEF Smoothly

\* How a step of the bridge leaves its loop.
LoopTurned ==
  \/ ui'.op = ui.op /\ ui'.todo = ui.todo /\ bridge'.state = bridge.state
  \/ \E started, b \in BridgeType : NextSensor(started, b) /\ b.state = bridge.state
  \/ Fail /\ ui.op = "start" /\ bridge' = bridge

\* Where the loop was and where it is: the step is no other sensor's affair.
TurnsTo(s) ==
  /\ \A t \in Sensor \ {s} : AtOf(t) = "rest" /\ AtOf(t)' = "rest"
  /\ \/ /\ ui'.op = ui.op /\ bridge'.state = bridge.state
        /\ \A t \in Sensor \ {s} : t \in In(ui'.todo) <=> t \in In(ui.todo)
     \/ ui.op # "stop" /\ ui'.op # "stop" /\ (bridge.state = "CAPTURING" => bridge'.state = "CAPTURING")
     \/ ui.op = "stop" /\ ui'.op = "idle" /\ \A t \in Sensor \ {s} : t \notin In(ui.todo) /\ ~client[t].running

LEMMA NextTurns ==
  ASSUME CaptureInv, ui.at # "idle", NEW s \in Sensor, s = Subject, NEW started, NEW b \in BridgeType,
         NextSensor(started, b), b.state = bridge.state
  PROVE  /\ TurnsTo(s) /\ AtOf(s)' = "rest" /\ s \notin In(ui'.todo) /\ ui'.op \in {ui.op, "idle"}
         /\ bridge'.map = b.map
         /\ bridge'.state = bridge.state \/ ui.op = "start" \/ (ui.op = "stop" /\ ui'.op = "idle")
<1>1. /\ ui.op \in {"start", "rollback", "tick", "stop"} /\ Flow
      /\ ui.todo \in Seq(Sensor) /\ ui.todo # <<>> /\ Distinct(ui.todo)
      /\ s = Head(ui.todo)
      /\ \A t \in Sensor \ {s} : AtOf(t) = "rest"
  BY Busy DEF CaptureInv
<1>2. bridge'.map = b.map /\ ui'.op \in {ui.op, "idle"}
  BY NextMap
<1>3. CASE Len(ui.todo) > 1
  <2>1. /\ ui' = [op |-> ui.op, todo |-> Tail(ui.todo), started |-> started, half |-> "adapter",
                  at |-> "enter", sent |-> FALSE, dirty |-> FALSE]
        /\ bridge' = b
    BY <1>3 DEF NextSensor, Begin, Resting
  <2>2. ui'.op = ui.op /\ ui'.todo = Tail(ui.todo) /\ ui'.at = "enter"
    BY <2>1
  <2>3. In(Tail(ui.todo)) = In(ui.todo) \ {s}
    BY <1>1, InTail
  <2>4. \A t \in Sensor : AtOf(t)' = "rest"
    BY <2>2 DEF AtOf, Visited
  <2>5. /\ \A t \in Sensor \ {s} : t \in In(ui'.todo) <=> t \in In(ui.todo)
        /\ s \notin In(ui'.todo)
    BY <2>2, <2>3 
  <2> QED BY <1>1, <1>2, <2>1, <2>2, <2>4, <2>5 DEF TurnsTo
<1>4. CASE ~(Len(ui.todo) > 1)
  <2>1. ui' = Resting /\ bridge' = [b EXCEPT !.state = EndOf(ui.op)]
    BY <1>4 DEF NextSensor
  <2>2. ui'.op = "idle" /\ ui'.todo = <<>>
    BY <2>1 DEF Resting
  <2>3. bridge'.state = EndOf(ui.op)
    BY <2>1 DEF BridgeType
  <2>4. ui.op # "stop" => bridge'.state = "CAPTURING" \/ bridge'.state = bridge.state
    BY <1>1, <2>3 DEF EndOf
  <2>5. ui.op \notin {"start", "stop"} => bridge'.state = bridge.state
    BY <1>1, <2>3 DEF EndOf
  <2>6. \A t \in Sensor : AtOf(t)' = "rest" /\ t \notin In(ui'.todo)
    BY <2>2, InNone DEF AtOf, Visited
  <2>7. ui.op = "stop" => \A t \in Sensor \ {s} : t \notin In(ui.todo) /\ ~client[t].running
    <3> SUFFICES ASSUME ui.op = "stop", NEW t \in Sensor \ {s}
                 PROVE  t \notin In(ui.todo) /\ ~client[t].running
      OBVIOUS
    <3>1. In(ui.todo) = {s}
      BY <1>1, <1>4, InTail
    <3>2. Running \subseteq In(ui.todo)
      BY <1>1 DEF Flow
    <3> QED BY <3>1, <3>2 DEF Running
  <2> QED BY <1>1, <1>2, <2>2, <2>4, <2>5, <2>6, <2>7 DEF TurnsTo
<1> QED BY <1>3, <1>4

LEMMA Turning ==
  ASSUME CaptureInv, ui.at # "idle", NEW s \in Sensor, s = Subject, LoopTurned
  PROVE  TurnsTo(s)
<1>1. \A t \in Sensor \ {s} : AtOf(t) = "rest"
  BY Busy
<1>2. CASE ui'.op = ui.op /\ ui'.todo = ui.todo /\ bridge'.state = bridge.state
  <2>1. \A t \in Sensor \ {s} : AtOf(t)' = "rest"
    <3>1. s = Head(ui'.todo)
      BY <1>2 DEF Subject
    <3> QED BY <3>1 DEF AtOf, Visited
  <2>2. \A t \in Sensor : t \in In(ui'.todo) <=> t \in In(ui.todo)
    BY <1>2 
  <2> QED BY <1>1, <1>2, <2>1, <2>2 DEF TurnsTo
<1>3. CASE \E started, b \in BridgeType : NextSensor(started, b) /\ b.state = bridge.state
  BY <1>3, NextTurns
<1>4. CASE Fail /\ ui.op = "start" /\ bridge' = bridge
  <2>1. ui' = Resting \/ ui' = Begin("rollback", ui.started)
    BY <1>4 DEF Fail
  <2>2. ui'.op = "idle" \/ (ui'.op = "rollback" /\ ui'.at = "enter")
    <3>1. CASE ui' = Resting
      BY <3>1 DEF Resting
    <3>2. CASE ui' = Begin("rollback", ui.started)
      <4>1. ui' = [op |-> "rollback", todo |-> ui.started, started |-> <<>>, half |-> "adapter",
                   at |-> "enter", sent |-> FALSE, dirty |-> FALSE]
        BY <3>2 DEF Begin, Resting
      <4> QED BY <4>1
    <3> QED BY <2>1, <3>1, <3>2
  <2>3. \A t \in Sensor : AtOf(t)' = "rest"
    BY <2>2 DEF AtOf, Visited
  <2> QED BY <1>1, <1>4, <2>2, <2>3 DEF TurnsTo
<1> QED BY <1>2, <1>3, <1>4 DEF LoopTurned

\* A step of the bridge on one sensor: what it does to that sensor is enough.
LEMMA ThreadSmoothed ==
  ASSUME CaptureInv, ui.at # "idle", NEW s \in Sensor, s = Subject, TurnsTo(s), due' = due,
         \A t \in Sensor : Smoothed(t),
         \A t \in Sensor \ {s} : Untouched(t) /\ bridge'.map[t] = bridge.map[t],
         Smoothly(s, daemon'[s], link'[s], client'[s].map, client'[s].running, bridge'.map[s], due[s],
                  bridge'.state, ui'.op, In(ui'.todo), AtOf(s)', ui'.sent, ui'.dirty)
  PROVE  \A t \in Sensor : Smoothed(t)'
<1>1. ASSUME NEW t \in Sensor \ {s} PROVE Smoothed(t)'
  <2>1. Smoothly(t, daemon[t], link[t], client[t].map, client[t].running, bridge.map[t], due[t],
                 bridge.state, ui.op, In(ui.todo), "rest", ui.sent, ui.dirty)
    BY DEF Smoothed, TurnsTo
  <2>2. Smoothly(t, daemon[t], link[t], client[t].map, client[t].running, bridge.map[t], due[t],
                 bridge'.state, ui'.op, In(ui'.todo), "rest", ui'.sent, ui'.dirty)
    <3>1. \/ /\ ui'.op = ui.op /\ (t \in In(ui'.todo) <=> t \in In(ui.todo))
             /\ bridge'.state = bridge.state
          \/ /\ ui.op # "stop" /\ ui'.op # "stop"
             /\ bridge.state = "CAPTURING" => bridge'.state = "CAPTURING"
          \/ ui.op = "stop" /\ ui'.op = "idle" /\ ~client[t].running /\ t \notin In(ui.todo)
      BY DEF TurnsTo
    <3> QED BY <2>1, <3>1, SmoothlyElsewhere
  <2> QED BY <2>2 DEF Smoothed, Untouched, TurnsTo
<1>2. Smoothed(s)'
  BY DEF Smoothed
<1> QED BY <1>1, <1>2

\* A call of the bridge begins: a stop asks for what the daemons have.
LEMMA BeginSmoothed ==
  ASSUME CaptureInv, \A s \in Sensor : Smoothed(s), StartCapture \/ OnTelemetryTick \/ StopCapture
  PROVE  \A s \in Sensor : Smoothed(s)'
<1>1. /\ ui.op = "idle" /\ UNCHANGED <<daemon, link, client>> /\ TypeOK /\ Flow
  BY DEF StartCapture, OnTelemetryTick, StopCapture, pipes, CaptureInv
<1>2. /\ ui'.at = "enter" /\ ui'.todo = Active
      /\ StartCapture => ui'.op = "start"
      /\ OnTelemetryTick => ui'.op = "tick"
      /\ StopCapture => ui'.op = "stop"
  BY DEF StartCapture, OnTelemetryTick, StopCapture, Begin, Resting
<1> SUFFICES ASSUME NEW s \in Sensor PROVE Smoothed(s)'
  OBVIOUS
<1> DEFINE d == daemon[s]
           l == link[s]
           c == client[s]
<1>3. AtOf(s) = "rest" /\ AtOf(s)' = "rest"
  BY <1>1, <1>2 DEF AtOf, Visited
<1>4. Smoothly(s, d, l, c.map, c.running, bridge.map[s], due[s], bridge.state, "idle", In(ui.todo),
               "rest", ui.sent, ui.dirty)
  BY <1>1, <1>3 DEF Smoothed
<1>5. CASE StartCapture
  <2>1. bridge'.map[s] = {} /\ due'[s] = {}
    BY <1>1, <1>5 DEF StartCapture, TypeOK
  <2>2. ~c.running
    BY <1>1, <1>5 DEF StartCapture, Flow, Running
  <2>3. Smoothly(s, d, l, c.map, c.running, {}, {}, bridge'.state, "start", In(ui'.todo),
                 "rest", ui'.sent, ui'.dirty)
    BY <1>4, <2>2 DEF Smoothly, Pulled
  <2> QED BY <1>1, <1>2, <1>3, <1>5, <2>1, <2>3 DEF Smoothed
<1>6. CASE OnTelemetryTick
  <2>1. bridge' = bridge /\ due' = due
    BY <1>6 DEF OnTelemetryTick, history
  <2>2. Smoothly(s, d, l, c.map, c.running, bridge.map[s], due[s], bridge.state, "tick", In(ui'.todo),
                 "rest", ui'.sent, ui'.dirty)
    BY <1>4, SmoothlyElsewhere
  <2> QED BY <1>1, <1>2, <1>3, <1>6, <2>1, <2>2 DEF Smoothed
<1>7. CASE StopCapture
  <2>1. bridge' = bridge /\ due'[s] = d.voxels /\ bridge.state = "CAPTURING"
    BY <1>7 DEF StopCapture
  <2>2. s \in In(ui'.todo)
    BY <1>2, ActiveSensors
  <2>3. l.state # "broken"
    BY <1>4 DEF Smoothly
  <2>4. c.running /\ Short(d, d.voxels, "stop") => InTouch(d, l, "rest", ui'.sent, ui'.dirty)
    <3>1. Short(d, d.voxels, "stop") => Short(d, due[s], "idle")
      BY DEF Short
    <3>2. c.running /\ Short(d, due[s], "idle") => InTouch(d, l, "rest", ui.sent, ui.dirty)
      BY <1>4 DEF Smoothly
    <3> QED BY <3>1, <3>2, Calls DEF InTouch
  <2>5. Pulled(s, d, l, c.map, bridge.map[s], d.voxels, bridge.state, "stop", In(ui'.todo), "rest")
    BY <2>1, <2>2 DEF Pulled
  <2>6. Smoothly(s, d, l, c.map, c.running, bridge.map[s], d.voxels, bridge.state, "stop", In(ui'.todo),
                 "rest", ui'.sent, ui'.dirty)
    BY <2>3, <2>4, <2>5 DEF Smoothly
  <2> QED BY <1>1, <1>2, <1>3, <1>7, <2>1, <2>6 DEF Smoothed
<1> QED BY <1>5, <1>6, <1>7

\* Where a call stands, what holds of its sensor.
LEMMA VisitingSmoothed ==
  ASSUME CaptureInv, ui.at # "idle", NEW s \in Sensor, s = Subject, Smoothed(s)
  PROVE  /\ Smoothly(s, daemon[s], link[s], client[s].map, client[s].running, bridge.map[s], due[s],
                     bridge.state, ui.op, In(ui.todo), IF ui.at = "enter" THEN "rest" ELSE ui.at,
                     ui.sent, ui.dirty)
         /\ s \in In(ui.todo)
BY Busy DEF Smoothed

\* The bridge enters an operation.
LEMMA EnterSmoothed ==
  ASSUME CaptureInv, \A s \in Sensor : Smoothed(s), Enter
  PROVE  \A s \in Sensor : Smoothed(s)'
<1>1. /\ ui.at = "enter" /\ TypeOK /\ Flow
      /\ UNCHANGED <<daemon, link, orphans, client, bridge, began, due, failed, spent>>
  BY DEF Enter, pipes, history, CaptureInv
<1>2. PICK s \in Sensor : s = Subject
  BY <1>1, Busy
<1> DEFINE d == daemon[s]
           l == link[s]
           c == client[s]
<1>3. Smoothly(s, d, l, c.map, c.running, bridge.map[s], due[s], bridge.state, ui.op, In(ui.todo),
               "rest", ui.sent, ui.dirty)
      /\ s \in In(ui.todo) /\ ui.op \in {"start", "rollback", "tick", "stop"}
  BY <1>1, <1>2, VisitingSmoothed, Busy
<1>4. ui.op = "stop" => c.running
  BY <1>1, <1>3 DEF Flow, Running
<1>5. PICK at \in Local \cup DOMAIN RequestAt :
        /\ Goto(at) /\ at \notin {"enter", "rest", "halt"}
        /\ ui.op = "stop" => at = "all"
  BY <1>2, <1>3, <1>4, Calls DEF Enter, Local
<1>6. /\ ui'.op = ui.op /\ ui'.todo = ui.todo /\ ui'.at = at /\ ui'.sent = FALSE /\ ui'.dirty = FALSE
  BY <1>1, <1>5 DEF TypeOK, Ui, Goto
<1>7. TurnsTo(s) /\ AtOf(s)' = at
  <2>1. TurnsTo(s)
    BY <1>1, <1>2, <1>6, Turning DEF LoopTurned
  <2>2. Head(ui'.todo) = s
    BY <1>2, <1>6 DEF Subject
  <2> QED BY <1>3, <1>5, <1>6, <2>1, <2>2 DEF AtOf, Visited
<1>8. c.running /\ Short(d, due[s], ui.op) =>
        InTouch(d, l, at, ui'.sent, ui'.dirty) /\ l.toClient = <<>>
  <2>1. c.running /\ Short(d, due[s], ui.op) => InTouch(d, l, "rest", ui.sent, ui.dirty)
    BY <1>3 DEF Smoothly
  <2>2. l \in Link
    BY <1>1 DEF TypeOK
  <2> QED BY <1>6, <2>1, <2>2, Silent, Calls
<1>9. Pulled(s, d, l, c.map, bridge.map[s], due[s], bridge.state, ui.op, In(ui.todo), at)
  <2>1. Pulled(s, d, l, c.map, bridge.map[s], due[s], bridge.state, ui.op, In(ui.todo), "rest")
    BY <1>3 DEF Smoothly
  <2>2. ui.op = "stop" /\ Cardinality(due[s]) <= LineLimit => l.toClient = <<>>
    BY <1>4, <1>8 DEF Short
  <2>3. Len(<<>>) = 0
    OBVIOUS
  <2> QED BY <1>3, <1>5, <2>1, <2>2, <2>3 DEF Pulled
<1>10. Smoothly(s, d, l, c.map, c.running, bridge.map[s], due[s], bridge.state, ui.op, In(ui.todo),
                at, ui'.sent, ui'.dirty)
  BY <1>3, <1>8, <1>9 DEF Smoothly
<1>11. Smoothly(s, daemon'[s], link'[s], client'[s].map, client'[s].running, bridge'.map[s], due[s],
                bridge'.state, ui'.op, In(ui'.todo), AtOf(s)', ui'.sent, ui'.dirty)
  BY <1>1, <1>6, <1>7, <1>10
<1> QED BY <1>1, <1>2, <1>7, <1>11, ThreadSmoothed DEF Untouched

\* The bridge shows what it pulled.
LEMMA CollectSmoothed ==
  ASSUME CaptureInv, \A s \in Sensor : Smoothed(s), Collect
  PROVE  \A s \in Sensor : Smoothed(s)'
<1>1. /\ ui.at = "collect" /\ ui.at \notin {"enter", "idle"} /\ TypeOK /\ Flow /\ bridge \in BridgeType
      /\ UNCHANGED <<daemon, link, orphans, client, began, due, failed, spent>>
  BY DEF Collect, pipes, history, CaptureInv, TypeOK, BridgeType
<1>2. PICK s \in Sensor : s = Subject
  BY <1>1, Busy
<1> DEFINE d == daemon[s]
           l == link[s]
           c == client[s]
           b == IF ui.op = "stop" THEN Shown(c) ELSE bridge
<1>3. /\ Smoothly(s, d, l, c.map, c.running, bridge.map[s], due[s], bridge.state, ui.op, In(ui.todo),
                  "collect", ui.sent, ui.dirty)
      /\ s \in In(ui.todo) /\ ui.op \in {"stop", "rollback"}
      /\ ~c.running
  <2>1. /\ Fits(d, l, orphans[s], c, ui.at, ui.half, ui.sent)
        /\ ui.op \in {"stop", "rollback"}
    BY <1>1, <1>2, Visiting DEF Stopping
  <2>2. ~c.running
    BY <1>1, <2>1 DEF Fits, Placed
  <2> QED BY <1>1, <1>2, <2>1, <2>2, VisitingSmoothed
<1>4. /\ b \in BridgeType /\ b.state = bridge.state
      /\ b.map[s] = IF ui.op = "stop" THEN c.map ELSE bridge.map[s]
      /\ \A t \in Sensor \ {s} : b.map[t] = bridge.map[t]
  <2>1. c.map \in SUBSET Point /\ c.trajectory \in SUBSET Point
    BY <1>1 DEF TypeOK, Client
  <2>2. Shown(c).state = bridge.state
    BY <1>1 DEF Shown, BridgeType
  <2> QED BY <1>1, <1>2, <2>1, <2>2, ShownMap
<1>5. \/ Goto("hush") /\ bridge' = b
      \/ NextSensor(<<>>, b)
  BY <1>2 DEF Collect
<1> HIDE DEF b
<1>6. TurnsTo(s) /\ bridge'.map = b.map /\ bridge'.state \in {bridge.state, "STOPPED"}
  <2>1. CASE Goto("hush") /\ bridge' = b
    <3>1. ui'.op = ui.op /\ ui'.todo = ui.todo /\ bridge'.state = bridge.state
      BY <1>1, <1>4, <2>1 DEF TypeOK, Ui, Goto
    <3> QED BY <1>1, <1>2, <2>1, <3>1, Turning DEF LoopTurned
  <2>2. CASE NextSensor(<<>>, b)
    <3>1. PICK started : started = <<>>
      OBVIOUS
    <3>2. TurnsTo(s) /\ bridge'.map = b.map
      BY <1>1, <1>2, <1>4, <2>2, <3>1, NextTurns
    <3>3. bridge' = b \/ bridge' = [b EXCEPT !.state = EndOf(ui.op)]
      BY <2>2 DEF NextSensor
    <3>4. EndOf(ui.op) \in {"STOPPED", bridge.state}
      BY <1>3 DEF EndOf
    <3> QED BY <1>4, <3>2, <3>3, <3>4 DEF BridgeType
  <2> QED BY <1>5, <2>1, <2>2
<1>7. Cardinality(due[s]) <= LineLimit => due[s] \subseteq bridge'.map[s]
  <2>1. Pulled(s, d, l, c.map, bridge.map[s], due[s], bridge.state, ui.op, In(ui.todo), "collect")
    BY <1>3 DEF Smoothly
  <2>2. ui.op = "rollback" => bridge.state # "CAPTURING"
    BY <1>1 DEF Flow
  <2> QED BY <1>3, <1>4, <1>6, <2>1, <2>2 DEF Pulled
<1>8. AtOf(s)' \in {"rest", "hush"} /\ (AtOf(s)' = "rest" => ui'.op = "idle" \/ s \notin In(ui'.todo))
  <2>1. CASE Goto("hush")
    <3>1. ui'.op = ui.op /\ ui'.todo = ui.todo /\ ui'.at = "hush"
      BY <1>1, <2>1 DEF TypeOK, Ui, Goto
    <3>2. Head(ui'.todo) = s
      BY <1>2, <3>1 DEF Subject
    <3> QED BY <1>3, <3>1, <3>2 DEF AtOf, Visited
  <2>2. CASE NextSensor(<<>>, b)
    <3>1. PICK started : started = <<>>
      OBVIOUS
    <3> QED BY <1>1, <1>2, <1>4, <2>2, <3>1, NextTurns
  <2> QED BY <1>5, <2>1, <2>2
<1>9. Pulled(s, d, l, c.map, bridge'.map[s], due[s], bridge'.state, ui'.op, In(ui'.todo), AtOf(s)')
  BY <1>7, <1>8 DEF Pulled
<1>10. Smoothly(s, d, l, c.map, c.running, bridge'.map[s], due[s], bridge'.state, ui'.op, In(ui'.todo),
                AtOf(s)', ui'.sent, ui'.dirty)
  BY <1>3, <1>9 DEF Smoothly
<1>11. /\ Smoothly(s, daemon'[s], link'[s], client'[s].map, client'[s].running, bridge'.map[s], due[s],
                   bridge'.state, ui'.op, In(ui'.todo), AtOf(s)', ui'.sent, ui'.dirty)
       /\ \A t \in Sensor \ {s} : Untouched(t) /\ bridge'.map[t] = bridge.map[t]
  BY <1>1, <1>4, <1>6, <1>10 DEF Untouched
<1> QED BY <1>1, <1>2, <1>6, <1>11, ThreadSmoothed

\* While a sensor is started nothing is claimed of it but that its link is whole.
LEMMA Unstarted ==
  ASSUME NEW s, NEW d, NEW l, NEW map, NEW running, NEW shown, NEW gone, NEW state, NEW op, NEW left,
         NEW at, NEW sent, NEW dirty, op # "stop",
         Smoothly(s, d, l, map, running, shown, gone, state, op, left, at, sent, dirty),
         NEW d2, NEW l2, NEW map2, NEW running2, NEW op2, NEW left2, NEW at2, NEW sent2, NEW dirty2,
         op2 # "stop", l2.state # "broken", ~running2
  PROVE  Smoothly(s, d2, l2, map2, running2, shown, gone, state, op2, left2, at2, sent2, dirty2)
BY DEF Smoothly, Pulled

\* A connection is made.
LEMMA ConnectSmoothed ==
  ASSUME CaptureInv, \A s \in Sensor : Smoothed(s), Connect \/ Respawn
  PROVE  \A s \in Sensor : Smoothed(s)'
<1>1. /\ ui.at \in {"connect", "respawn"} /\ ui.at \notin {"enter", "idle"} /\ TypeOK /\ Flow
      /\ UNCHANGED <<orphans, client, bridge, began, due, failed, spent>>
  BY DEF Connect, Respawn, history, CaptureInv
<1>2. PICK s \in Sensor : s = Subject
  BY <1>1, Busy
<1>3. /\ Smoothly(s, daemon[s], link[s], client[s].map, client[s].running, bridge.map[s], due[s],
                  bridge.state, ui.op, In(ui.todo), ui.at, ui.sent, ui.dirty)
      /\ ui.op = "start" /\ ~client[s].running
  <2>1. /\ Fits(daemon[s], link[s], orphans[s], client[s], ui.at, ui.half, ui.sent)
        /\ ui.op = "start"
    BY <1>1, <1>2, Visiting DEF Starting
  <2>2. ~client[s].running
    BY <1>1, <2>1 DEF Fits, Placed, Starting
  <2> QED BY <1>1, <1>2, <2>1, <2>2, VisitingSmoothed
<1>4. PICK at \in {"ping", "respawn", "reping"} :
        Goto(at) /\ \A t \in Sensor \ {s} : Untouched(t)
  <2>1. CASE Connect
    <3>1. daemon' = daemon /\ \A t \in Sensor \ {s} : link'[t] = link[t]
      BY <1>1, <1>2, <2>1 DEF Connect, Open, TypeOK
    <3> QED BY <1>1, <2>1, <3>1 DEF Connect, Untouched
  <2>2. CASE Respawn
    <3>1. \A t \in Sensor \ {s} : daemon'[t] = daemon[t] /\ link'[t] = link[t]
      BY <1>1, <1>2, <2>2 DEF Respawn, Open, TypeOK
    <3> QED BY <1>1, <2>2, <3>1 DEF Respawn, Untouched
  <2> QED BY <2>1, <2>2
<1>5. link'[s].state # "broken"
  <2>1. link' = link \/ Open(s)
    BY <1>2 DEF Connect, Respawn
  <2>2. link[s].state # "broken"
    BY <1>3 DEF Smoothly
  <2>3. CASE Open(s)
    <3>1. link'[s] = IF link[s].state = "closed" THEN Fresh ELSE link[s]
      BY <1>1, <2>3 DEF Open, TypeOK
    <3> QED BY <2>2, <3>1, NewLinks
  <2> QED BY <2>1, <2>2, <2>3
<1>6. ui'.op = ui.op /\ ui'.todo = ui.todo /\ bridge'.state = bridge.state
  BY <1>1, <1>4 DEF TypeOK, Ui, Goto
<1>7. TurnsTo(s)
  BY <1>1, <1>2, <1>6, Turning DEF LoopTurned
<1>8. Smoothly(s, daemon'[s], link'[s], client[s].map, client[s].running, bridge.map[s], due[s],
               bridge.state, ui'.op, In(ui'.todo), AtOf(s)', ui'.sent, ui'.dirty)
  BY <1>3, <1>5, <1>6, Unstarted
<1>9. Smoothly(s, daemon'[s], link'[s], client'[s].map, client'[s].running, bridge'.map[s], due[s],
               bridge'.state, ui'.op, In(ui'.todo), AtOf(s)', ui'.sent, ui'.dirty)
  BY <1>1, <1>8
<1> QED BY <1>1, <1>2, <1>4, <1>7, <1>9, ThreadSmoothed

\* A request is sent: where nothing is in the connection, it is what is.
LEMMA SendSmoothed ==
  ASSUME CaptureInv, \A s \in Sensor : Smoothed(s), Send
  PROVE  \A s \in Sensor : Smoothed(s)'
<1>1. /\ ui.at \in DOMAIN RequestAt /\ ~ui.sent /\ ui.at \notin {"enter", "idle"}
      /\ UNCHANGED <<daemon, orphans, client, bridge, began, due, failed, spent>>
      /\ ui' = [ui EXCEPT !.sent = TRUE] /\ TypeOK /\ Flow
      /\ RequestAt[ui.at] \in Request
  BY Calls DEF Send, Calling, history, CaptureInv
<1>2. PICK s \in Sensor : s = Subject
  BY <1>1, Visiting
<1> DEFINE d == daemon[s]
           l == link[s]
           c == client[s]
           l2 == [l EXCEPT !.toDaemon = Append(@, RequestAt[ui.at])]
<1>3. /\ Smoothly(s, d, l, c.map, c.running, bridge.map[s], due[s], bridge.state, ui.op, In(ui.todo),
                  ui.at, ui.sent, ui.dirty)
      /\ s \in In(ui.todo) /\ l \in Link /\ ui.op # "idle"
  BY <1>1, <1>2, Visiting, VisitingSmoothed
<1>4. /\ ui'.op = ui.op /\ ui'.todo = ui.todo /\ ui'.at = ui.at /\ ui'.sent = TRUE
      /\ ui'.dirty = ui.dirty
  BY <1>1 DEF TypeOK, Ui
<1>5. TurnsTo(s) /\ AtOf(s)' = ui.at
  <2>1. TurnsTo(s)
    BY <1>1, <1>2, <1>4, Turning DEF LoopTurned
  <2>2. Head(ui'.todo) = s
    BY <1>2, <1>4 DEF Subject
  <2> QED BY <1>1, <1>3, <1>4, <2>1, <2>2 DEF AtOf, Visited
<1>6. /\ \A t \in Sensor \ {s} : link'[t] = link[t]
      /\ link'[s] = IF l.state = "open" THEN l2 ELSE l
  BY <1>1, <1>2 DEF Send, TypeOK
<1>7. l2.state = l.state /\ l2.toClient = l.toClient /\ Asked(l2) = Append(Asked(l), RequestAt[ui.at])
  BY <1>1, <1>3, AskedSend DEF Link
<1> HIDE DEF l2
<1>8. ASSUME c.running, ui.at # "halt", Short(d, due[s], ui.op)
      PROVE  InTouch(d, link'[s], ui.at, ui'.sent, ui'.dirty)
  <2>1. InTouch(d, l, ui.at, ui.sent, ui.dirty)
    BY <1>3, <1>8 DEF Smoothly
  <2>2. l.state = "open" /\ Asked(l) = <<>> /\ l.toClient = <<>>
    BY <1>1, <1>3, <2>1, Silent
  <2>3. Asked(l2) = <<RequestAt[ui.at]>>
    BY <1>7, <2>2
  <2>4. ~ui.dirty
    BY <1>1, <2>1, Calls DEF InTouch
  <2>5. Len(<<>>) = 0
    OBVIOUS
  <2> QED BY <1>1, <1>4, <1>6, <1>7, <2>2, <2>3, <2>4, <2>5 DEF InTouch
<1>9. Pulled(s, d, link'[s], c.map, bridge.map[s], due[s], bridge.state, ui.op, In(ui.todo), ui.at)
  <2>1. Pulled(s, d, l, c.map, bridge.map[s], due[s], bridge.state, ui.op, In(ui.todo), ui.at)
    BY <1>3 DEF Smoothly
  <2>2. link'[s].toClient = l.toClient
    BY <1>6, <1>7
  <2> QED BY <2>1, <2>2 DEF Pulled
<1>10. link'[s].state # "broken"
  BY <1>3, <1>6, <1>7 DEF Smoothly
<1>11. Smoothly(s, d, link'[s], c.map, c.running, bridge.map[s], due[s], bridge.state, ui.op,
                In(ui.todo), ui.at, ui'.sent, ui'.dirty)
  BY <1>8, <1>9, <1>10 DEF Smoothly
<1>12. Smoothly(s, daemon'[s], link'[s], client'[s].map, client'[s].running, bridge'.map[s], due[s],
                bridge'.state, ui'.op, In(ui'.todo), AtOf(s)', ui'.sent, ui'.dirty)
  BY <1>1, <1>4, <1>5, <1>11
<1> QED BY <1>1, <1>2, <1>5, <1>6, <1>12, ThreadSmoothed DEF Untouched

\* The answer that comes is the one that was asked for, and is read whole: then
\* the connection is empty.
Emptied(d, l) ==
  /\ l.state = "open" /\ l.toDaemon = <<>> /\ l.toClient = <<>>
  /\ \A at2, sent2, dirty2 :
       /\ at2 \notin DOMAIN RequestAt \/ ~sent2
       /\ at2 = "rest" \/ ~dirty2
       => InTouch(d, l, at2, sent2, dirty2)

LEMMA EmptyIsInTouch ==
  ASSUME NEW d, NEW l \in Link, l.state = "open", Asked(l) = <<>>
  PROVE  Emptied(d, l)
<1>1. l.toClient = <<>> /\ l.toDaemon = <<>> /\ Len(<<>>) = 0
  BY AskedType
<1> QED BY <1>1 DEF InTouch, Emptied

LEMMA Answered ==
  ASSUME NEW d, NEW l \in Link, NEW at \in DOMAIN RequestAt, NEW sent, sent, NEW dirty,
         InTouch(d, l, at, sent, dirty), l.toClient # <<>>,
         NEW r \in Readings(RequestAt[at], l.toClient, dirty),
         IsFiniteSet(d.voxels), at = "trajectory" => Cardinality(d.voxels) <= LineLimit
  PROVE  /\ r.verdict = "ok" /\ r.rest = Tail(l.toClient)
         /\ Emptied(d, After(l, Tail(l.toClient)))
<1> DEFINE in == l.toClient
           a == Head(in)
           l2 == [l EXCEPT !.toClient = Tail(in)]
<1>1. /\ l.state = "open" /\ Asked(l) = <<RequestAt[at]>> /\ RequestAt[at] \in Request
      /\ \A i \in 1..Len(in) : ~in[i].torn /\ in[i].pts \subseteq d.voxels
      /\ ~dirty
  BY Calls DEF InTouch
<1>2. /\ in \in Seq(Answer) /\ in # <<>> /\ Tail(in) \in Seq(Answer) /\ Names(Tail(in)) = Tail(Names(in))
      /\ a = in[1] /\ 1 \in 1..Len(in) /\ a \in Answer
  BY AskedType, NamesOf, EmptySeq
<1>3. Asked(l2) = Tail(Asked(l)) /\ Head(Asked(l)) = a.to
  BY <1>2, AskedRead
<1>4. Asked(l2) = <<>> /\ a.to = RequestAt[at]
  BY <1>1, <1>3
<1>5. l2 \in Link /\ l2.state = "open" /\ l2 = After(l, Tail(in))
  BY <1>1, <1>2 DEF Link, After
<1>6. Emptied(d, l2)
  <2> HIDE DEF l2
  <2> QED BY <1>4, <1>5, EmptyIsInTouch
<1>7. ~a.torn /\ a.pts \subseteq d.voxels
  BY <1>1, <1>2
<1>8. ~TooLong(a)
  <2> SUFFICES ASSUME a.to = "TRAJECTORY", Cardinality(a.pts) > LineLimit PROVE FALSE
    BY DEF TooLong
  <2>1. at = "trajectory"
    BY <1>4, Calls DEF RequestAt
  <2>2. Cardinality(a.pts) <= Cardinality(d.voxels)
    BY <1>7, FS_Subset
  <2>3. IsFiniteSet(a.pts)
    BY <1>7, FS_Subset
  <2>4. Cardinality(a.pts) \in Nat /\ Cardinality(d.voxels) \in Nat
    BY <2>3, FS_CardinalityType
  <2> QED BY <2>1, <2>2, <2>4, LineLimitAssumption
<1>9. r = Reading("ok", a.pts, Tail(in))
  <2>1. CASE RequestAt[at] \in Binary
    BY <1>4, <1>7, <2>1 DEF Readings, ReadBlock
  <2>2. CASE RequestAt[at] \notin Binary
    BY <1>1, <1>4, <1>7, <1>8, <2>2 DEF Readings, ReadLine
  <2> QED BY <2>1, <2>2
<1>10. r.verdict = "ok" /\ r.rest = Tail(in)
  BY <1>9 DEF Reading
<1> QED BY <1>5, <1>6, <1>10

-----------------------------------------------------------------------------
(* A call returns: of a sensor that records it has brought its answer, and  *)
(* nothing is left in the connection.                                       *)

Prompt(s, ok, rest) ==
  client[s].running /\ ui.at # "halt" /\ Short(daemon[s], due[s], ui.op)
    => ok /\ Emptied(daemon[s], After(link[s], rest))

Returning(s, ok, pts, rest) ==
  Brought(s, ok, pts, rest) /\ Prompt(s, ok, rest) /\ \A t \in Sensor : Smoothed(t)

LEMMA ReturningFacts ==
  ASSUME NEW s, NEW ok, NEW pts, NEW rest, Returning(s, ok, pts, rest)
  PROVE  /\ CaptureInv /\ TypeOK /\ Flow /\ ui \in Ui /\ ui.at \notin {"enter", "idle", "rest"}
         /\ ui.op # "idle" /\ s = Subject /\ s \in Sensor /\ s = Head(ui.todo) /\ s \in In(ui.todo)
         /\ bridge \in BridgeType /\ client \in [Sensor -> Client] /\ link[s] \in Link
         /\ daemon' = daemon /\ due' = due
         /\ Smoothly(s, daemon[s], link[s], client[s].map, client[s].running, bridge.map[s], due[s],
                     bridge.state, ui.op, In(ui.todo), ui.at, ui.sent, ui.dirty)
         /\ Fits(daemon[s], link[s], orphans[s], client[s], ui.at, ui.half, TRUE)
         /\ After(link[s], rest).state = link[s].state
         /\ Leaves(s, rest) => /\ link'[s] = After(link[s], rest)
                               /\ \A t \in Sensor \ {s} : link'[t] = link[t]
<1>1. Brought(s, ok, pts, rest) /\ Answering(s, ok, pts, rest) /\ \A t \in Sensor : Smoothed(t)
  BY DEF Returning, Brought
<1>2. /\ CaptureInv /\ TypeOK /\ Flow /\ ui \in Ui /\ ui.at \in DOMAIN RequestAt
      /\ ui.at \notin {"enter", "idle"} /\ ui.op # "idle" /\ s = Subject /\ s \in Sensor
      /\ s = Head(ui.todo) /\ link[s] \in Link
      /\ Fits(daemon[s], link[s], orphans[s], client[s], ui.at, ui.half, TRUE)
  BY <1>1, AnswerFacts
<1>3. Leaves(s, rest) => /\ link'[s] = After(link[s], rest)
                         /\ \A t \in Sensor \ {s} : link'[t] = link[t]
  BY <1>1, BroughtFacts
<1>4. daemon' = daemon /\ due' = due
  BY <1>1 DEF Answering
<1>5. /\ Smoothly(s, daemon[s], link[s], client[s].map, client[s].running, bridge.map[s], due[s],
                  bridge.state, ui.op, In(ui.todo), ui.at, ui.sent, ui.dirty)
      /\ s \in In(ui.todo)
  <2>1. Smoothed(s)
    BY <1>1, <1>2
  <2> QED BY <1>2, <2>1, VisitingSmoothed
<1>6. bridge \in BridgeType /\ client \in [Sensor -> Client]
  BY <1>2 DEF TypeOK, BridgeType
<1>7. After(link[s], rest).state = link[s].state
  BY <1>2 DEF After, Link
<1>8. ui.at # "rest"
  BY <1>2, Calls
<1> QED BY <1>2, <1>3, <1>4, <1>5, <1>6, <1>7, <1>8

\* Where the bridge stays within a visit.
LEMMA Stays ==
  ASSUME NEW s, NEW ok, NEW pts, NEW rest, Returning(s, ok, pts, rest), bridge' = bridge,
         NEW at \in Local \cup DOMAIN RequestAt, at # "enter", Goto(at)
  PROVE  /\ TurnsTo(s) /\ AtOf(s)' = at /\ ui'.op = ui.op /\ ui'.todo = ui.todo
         /\ ui'.sent = FALSE /\ ui'.dirty = FALSE
<1>1. /\ CaptureInv /\ ui \in Ui /\ ui.at # "idle" /\ ui.op # "idle" /\ s = Subject /\ s \in Sensor
      /\ s = Head(ui.todo)
  BY ReturningFacts
<1>2. /\ ui'.op = ui.op /\ ui'.todo = ui.todo /\ ui'.at = at /\ ui'.sent = FALSE
      /\ ui'.dirty = FALSE
  BY <1>1 DEF Ui, Goto
<1>3. TurnsTo(s)
  BY <1>1, <1>2, Turning DEF LoopTurned
<1>4. AtOf(s)' = at
  <2>1. Head(ui'.todo) = s
    BY <1>1, <1>2
  <2> QED BY <1>1, <1>2, <2>1 DEF AtOf, Visited
<1> QED BY <1>2, <1>3, <1>4

\* The calls of a start.
LEMMA PingSmoothed ==
  ASSUME NEW s, NEW ok, NEW pts, NEW rest, Returning(s, ok, pts, rest),
         ui.at \in Pinging, Ping(s, ok, rest)
  PROVE  \A t \in Sensor : Smoothed(t)'
<1>1. /\ CaptureInv /\ TypeOK /\ Flow /\ ui \in Ui /\ ui.at \notin {"enter", "idle", "rest"}
      /\ s = Subject /\ s \in Sensor /\ client \in [Sensor -> Client]
      /\ daemon' = daemon /\ due' = due
      /\ Smoothly(s, daemon[s], link[s], client[s].map, client[s].running, bridge.map[s], due[s],
                  bridge.state, ui.op, In(ui.todo), ui.at, ui.sent, ui.dirty)
      /\ Fits(daemon[s], link[s], orphans[s], client[s], ui.at, ui.half, TRUE)
      /\ After(link[s], rest).state = link[s].state
  BY ReturningFacts
<1>2. bridge' = bridge /\ ui.op = "start" /\ ~client[s].running
  BY <1>1, Visiting DEF Ping, Fits, Placed, Starting
<1>3. LoopTurned /\ ui'.op # "stop"
  <2>1. \/ \E at \in {"start", "respawn"} : Goto(at)
        \/ Fail
    BY DEF Ping
  <2>2. CASE \E at \in {"start", "respawn"} : Goto(at)
    BY <1>1, <1>2, <2>2 DEF LoopTurned, Ui, Goto
  <2>3. CASE Fail
    <3>1. ui' = Resting \/ ui' = [op |-> "rollback", todo |-> ui.started, started |-> <<>>, half |-> "adapter",
                                  at |-> "enter", sent |-> FALSE, dirty |-> FALSE]
      BY <2>3 DEF Fail, Begin, Resting
    <3> QED BY <1>2, <2>3, <3>1 DEF LoopTurned, Resting
  <2> QED BY <2>1, <2>2, <2>3
<1>4. /\ client'[s].map = client[s].map /\ client'[s].running = client[s].running
      /\ \A t \in Sensor \ {s} : client'[t] = client[t]
  <2>1. client' = client \/ Set(s, "connected", TRUE)
    BY DEF Ping, Set
  <2> QED BY <1>1, <2>1, QuietClient
<1>5. link'[s].state # "broken" /\ \A t \in Sensor \ {s} : link'[t] = link[t] /\ orphans'[t] = orphans[t]
  <2>1. link[s].state # "broken"
    BY <1>1 DEF Smoothly
  <2>2. CASE ok
    <3>1. Leaves(s, rest) /\ orphans' = orphans
      BY <2>2 DEF Ping
    <3>2. link'[s] = After(link[s], rest) /\ \A t \in Sensor \ {s} : link'[t] = link[t]
      BY <3>1, ReturningFacts
    <3> QED BY <1>1, <2>1, <3>1, <3>2
  <2>3. CASE ~ok
    <3>1. link' = [link EXCEPT ![s] = Closed]
      BY <2>3 DEF Ping, Disconnect
    <3>2. orphans' = [orphans EXCEPT ![s] = Abandoned(link[s], orphans[s])]
      BY <2>3 DEF Ping, Disconnect, Abandoned
    <3> QED BY <1>1, <3>1, <3>2, NewLinks DEF TypeOK
  <2> QED BY <2>2, <2>3
<1>6. TurnsTo(s)
  BY <1>1, <1>3, Turning
<1>7. Smoothly(s, daemon[s], link'[s], client'[s].map, client'[s].running, bridge.map[s], due[s],
               bridge.state, ui'.op, In(ui'.todo), AtOf(s)', ui'.sent, ui'.dirty)
  BY <1>1, <1>2, <1>3, <1>4, <1>5, Unstarted
<1>8. Smoothly(s, daemon'[s], link'[s], client'[s].map, client'[s].running, bridge'.map[s], due[s],
               bridge'.state, ui'.op, In(ui'.todo), AtOf(s)', ui'.sent, ui'.dirty)
  BY <1>1, <1>2, <1>7
<1>9. \A t \in Sensor \ {s} : Untouched(t) /\ bridge'.map[t] = bridge.map[t]
  BY <1>1, <1>2, <1>4, <1>5 DEF Untouched
<1>10. \A t \in Sensor : Smoothed(t)
  BY DEF Returning
<1> QED BY <1>1, <1>6, <1>8, <1>9, <1>10, ThreadSmoothed

LEMMA StartSmoothed ==
  ASSUME NEW s, NEW ok, NEW pts, NEW rest, Returning(s, ok, pts, rest),
         ui.at = "start", Start(s, ok, rest)
  PROVE  \A t \in Sensor : Smoothed(t)'
<1>1. /\ CaptureInv /\ TypeOK /\ Flow /\ ui \in Ui /\ ui.at \notin {"enter", "idle", "rest"}
      /\ s = Subject /\ s \in Sensor /\ client \in [Sensor -> Client] /\ bridge \in BridgeType
      /\ daemon' = daemon /\ due' = due /\ link[s] \in Link
      /\ Smoothly(s, daemon[s], link[s], client[s].map, client[s].running, bridge.map[s], due[s],
                  bridge.state, ui.op, In(ui.todo), ui.at, ui.sent, ui.dirty)
      /\ Fits(daemon[s], link[s], orphans[s], client[s], ui.at, ui.half, TRUE)
      /\ After(link[s], rest).state = link[s].state
  BY ReturningFacts
<1>2. ui.op = "start" /\ ~client[s].running /\ ui.half \in {"adapter", "backend"}
  BY <1>1, Visiting DEF Fits, Placed, Starting, Ui
<1>3. Leaves(s, rest) /\ orphans' = orphans
  BY DEF Start
<1>4. link'[s] = After(link[s], rest) /\ \A t \in Sensor \ {s} : link'[t] = link[t]
  BY <1>3, ReturningFacts
<1>5. link'[s].state # "broken"
  BY <1>1, <1>4 DEF Smoothly
<1>6. \A t \in Sensor : Smoothed(t)
  BY DEF Returning
<1>7. CASE ~(ok /\ ui.half = "backend")
  <2>1. /\ client' = client \/ Set(s, "streaming", TRUE)
        /\ bridge' = bridge
        /\ \/ Fail
           \/ ui' = [ui EXCEPT !.half = "backend", !.at = "connect", !.sent = FALSE, !.dirty = FALSE]
    BY <1>2, <1>7 DEF Start
  <2>2. LoopTurned /\ ui'.op # "stop"
    <3>1. CASE ui' = [ui EXCEPT !.half = "backend", !.at = "connect", !.sent = FALSE, !.dirty = FALSE]
      BY <1>1, <1>2, <2>1, <3>1 DEF LoopTurned, Ui
    <3>2. CASE Fail
      <4>1. ui' = Resting \/ ui' = [op |-> "rollback", todo |-> ui.started, started |-> <<>>, half |-> "adapter",
                                    at |-> "enter", sent |-> FALSE, dirty |-> FALSE]
        BY <3>2 DEF Fail, Begin, Resting
      <4> QED BY <1>2, <2>1, <3>2, <4>1 DEF LoopTurned, Resting
    <3> QED BY <2>1, <3>1, <3>2
  <2>3. /\ client'[s].map = client[s].map /\ client'[s].running = client[s].running
        /\ \A t \in Sensor \ {s} : client'[t] = client[t]
    BY <1>1, <2>1, QuietClient
  <2>4. TurnsTo(s)
    BY <1>1, <2>2, Turning
  <2>5. Smoothly(s, daemon[s], link'[s], client'[s].map, client'[s].running, bridge.map[s], due[s],
                 bridge.state, ui'.op, In(ui'.todo), AtOf(s)', ui'.sent, ui'.dirty)
    BY <1>1, <1>2, <1>5, <2>2, <2>3, Unstarted
  <2>6. Smoothly(s, daemon'[s], link'[s], client'[s].map, client'[s].running, bridge'.map[s], due[s],
                 bridge'.state, ui'.op, In(ui'.todo), AtOf(s)', ui'.sent, ui'.dirty)
    BY <1>1, <2>1, <2>5
  <2>7. \A t \in Sensor \ {s} : Untouched(t) /\ bridge'.map[t] = bridge.map[t]
    BY <1>1, <1>3, <1>4, <2>1, <2>3 DEF Untouched
  <2> QED BY <1>1, <1>6, <2>4, <2>6, <2>7, ThreadSmoothed
<1>8. CASE ok /\ ui.half = "backend"
  <2>1. Set(s, "running", TRUE) /\ NextSensor(Append(ui.started, s), bridge)
    BY <1>8 DEF Start
  <2>2. PICK started : started = Append(ui.started, s)
    OBVIOUS
  <2>3. /\ TurnsTo(s) /\ AtOf(s)' = "rest" /\ s \notin In(ui'.todo) /\ ui'.op \in {"start", "idle"}
        /\ bridge'.map = bridge.map
    BY <1>1, <1>2, <2>1, <2>2, NextTurns
  <2>4. bridge'.state \in {bridge.state, "CAPTURING"}
    <3>1. bridge' = bridge \/ bridge' = [bridge EXCEPT !.state = EndOf(ui.op)]
      BY <2>1 DEF NextSensor
    <3> QED BY <1>1, <1>2, <3>1 DEF BridgeType, EndOf
  <2>5. \A t \in Sensor \ {s} : client'[t] = client[t]
    <3>1. client' = [client EXCEPT ![s] = [@ EXCEPT !["running"] = TRUE]]
      BY <2>1 DEF Set
    <3> QED BY <1>1, <3>1
  <2>6. /\ link[s].toClient # <<>> /\ rest = Tail(link[s].toClient)
    <3>1. Brought(s, ok, pts, rest)
      BY DEF Returning
    <3> QED BY <1>8, <3>1, BroughtOk
  <2>7. Emptied(daemon[s], link'[s])
    <3>1. Asked(link[s]) = <<>> \/ Asked(link[s]) = <<"START">>
      BY <1>1, <1>8 DEF Fits, Placed
    <3>2. Asked(link[s]) # <<>>
      BY <1>1, <2>6, AskedType
    <3>3. link[s].state = "open"
      <4>1. link[s].state \in {"closed", "open", "broken"}
        BY <1>1 DEF Link
      <4>2. link[s].state # "broken"
        BY <1>1 DEF Smoothly
      <4>3. link[s].state # "closed"
        BY <1>1, <3>2 DEF Fits, Sound
      <4> QED BY <4>1, <4>2, <4>3
    <3>4. /\ link[s].toClient \in Seq(Answer) /\ Tail(link[s].toClient) \in Seq(Answer)
          /\ Names(Tail(link[s].toClient)) = Tail(Names(link[s].toClient))
      BY <1>1, <2>6, AskedType, NamesOf
    <3>5. Asked(After(link[s], rest)) = Tail(Asked(link[s]))
      BY <1>1, <2>6, <3>4, AskedRead DEF After
    <3>6. Asked(link'[s]) = <<>>
      <4>1. Tail(<<"START">>) = <<>>
        OBVIOUS
      <4>2. Asked(After(link[s], rest)) = <<>>
        BY <3>1, <3>2, <3>5, <4>1
      <4> QED BY <1>4, <4>2, Zenon
    <3>7. link'[s] \in Link /\ link'[s].state = "open"
      BY <1>1, <1>4, <2>6, <3>3, <3>4 DEF After, Link
    <3> QED BY <3>6, <3>7, EmptyIsInTouch
  <2>8. Smoothly(s, daemon[s], link'[s], client'[s].map, client'[s].running, bridge.map[s], due[s],
                 bridge'.state, ui'.op, In(ui'.todo), "rest", ui'.sent, ui'.dirty)
    <3>1. Pulled(s, daemon[s], link[s], client[s].map, bridge.map[s], due[s], bridge.state, ui.op,
                 In(ui.todo), ui.at)
      BY <1>1 DEF Smoothly
    <3>2. Pulled(s, daemon[s], link'[s], client'[s].map, bridge.map[s], due[s], bridge'.state, ui'.op,
                 In(ui'.todo), "rest")
      BY <2>3, <2>4, <3>1 DEF Pulled
    <3>3. InTouch(daemon[s], link'[s], "rest", ui'.sent, ui'.dirty)
      BY <2>7, Calls DEF Emptied
    <3> QED BY <1>5, <3>2, <3>3 DEF Smoothly
  <2>9. Smoothly(s, daemon'[s], link'[s], client'[s].map, client'[s].running, bridge'.map[s], due[s],
                 bridge'.state, ui'.op, In(ui'.todo), AtOf(s)', ui'.sent, ui'.dirty)
    BY <1>1, <2>3, <2>8
  <2>10. \A t \in Sensor \ {s} : Untouched(t) /\ bridge'.map[t] = bridge.map[t]
    BY <1>1, <1>3, <1>4, <2>3, <2>5 DEF Untouched
  <2> QED BY <1>1, <1>6, <2>3, <2>9, <2>10, ThreadSmoothed
<1> QED BY <1>7, <1>8

\* A call of a loop that has brought its answer leaves the sensor in touch.
LEMMA StillInTouch ==
  ASSUME NEW s, NEW ok, NEW pts, NEW rest, Returning(s, ok, pts, rest), ui.at # "halt",
         NEW at, NEW sent, NEW dirty,
         at \notin DOMAIN RequestAt \/ ~sent, at = "rest" \/ ~dirty,
         client[s].running, NEW op, Short(daemon[s], due[s], op) => Short(daemon[s], due[s], ui.op)
  PROVE  Short(daemon[s], due[s], op) => InTouch(daemon[s], After(link[s], rest), at, sent, dirty)
<1>1. Prompt(s, ok, rest)
  BY DEF Returning
<1>2. Short(daemon[s], due[s], op) => Emptied(daemon[s], After(link[s], rest))
  BY <1>1 DEF Prompt
<1> QED BY <1>2 DEF Emptied

\* The calls of a tick.
LEMMA TickSmoothed ==
  ASSUME NEW s, NEW ok, NEW pts, NEW rest, Returning(s, ok, pts, rest),
         \/ ui.at = "telemetry" /\ Telemetry(s, ok, pts, rest)
         \/ ui.at = "trajectory" /\ TrajectoryRead(s, ok, pts, rest)
         \/ ui.at = "new" /\ NewPoints(s, ok, pts, rest)
  PROVE  \A t \in Sensor : Smoothed(t)'
<1>1. /\ CaptureInv /\ TypeOK /\ Flow /\ ui \in Ui /\ ui.at \notin {"enter", "idle", "rest", "halt"}
      /\ s = Subject /\ s \in Sensor /\ client \in [Sensor -> Client] /\ bridge \in BridgeType
      /\ daemon' = daemon /\ due' = due /\ link[s] \in Link
      /\ Smoothly(s, daemon[s], link[s], client[s].map, client[s].running, bridge.map[s], due[s],
                  bridge.state, ui.op, In(ui.todo), ui.at, ui.sent, ui.dirty)
      /\ After(link[s], rest).state = link[s].state
      /\ \A t \in Sensor : Smoothed(t)
  BY ReturningFacts DEF Returning
<1>2. /\ ui.op = "tick" /\ bridge.state = "CAPTURING"
      /\ ui.at \in Ticking
  BY <1>1, Visiting DEF Flow, Ticking
<1>3. client[s].running
  BY <1>1, <1>2 DEF Flow, Running
<1>4. Leaves(s, rest) /\ orphans' = orphans
  BY <1>1 DEF Telemetry, TrajectoryRead, NewPoints
<1>5. link'[s] = After(link[s], rest) /\ \A t \in Sensor \ {s} : link'[t] = link[t]
  BY <1>4, ReturningFacts
<1>6. pts \in SUBSET Point
  BY DEF Returning, Brought, Answering
<1>7. /\ client'[s].running = client[s].running /\ client'[s] \in Client
      /\ \A t \in Sensor \ {s} : client'[t] = client[t]
  <2>1. CASE client' = client \/ Set(s, "trajectory", pts)
    <3>1. CASE client' = client
      BY <1>1, <3>1
    <3>2. CASE Set(s, "trajectory", pts)
      BY <1>1, <1>6, <3>2, OneField
    <3> QED BY <2>1, <3>1, <3>2
  <2>2. CASE client' = [client EXCEPT ![s].map = @ \cup pts]
    <3> DEFINE m2 == client[s].map \cup pts
    <3>1. client' = [client EXCEPT ![s] = [@ EXCEPT !.map = m2]]
      BY <2>2
    <3>2. client'[s] = [client[s] EXCEPT !.map = m2]
      BY <1>1, <3>1
    <3>3. m2 \in SUBSET Point
      BY <1>1, <1>6 DEF Client
    <3> HIDE DEF m2
    <3> QED BY <1>1, <3>1, <3>2, <3>3 DEF Client
  <2> QED BY <2>1, <2>2 DEF Telemetry, TrajectoryRead, NewPoints
<1>8. /\ TurnsTo(s) /\ bridge'.state = "CAPTURING" /\ ui'.op # "stop"
      /\ \A t \in Sensor \ {s} : bridge'.map[t] = bridge.map[t]
      /\ AtOf(s)' = "rest" \/ (~ui'.sent /\ ~ui'.dirty)
  <2>1. CASE bridge' = bridge /\ \E at \in {"trajectory", "new"} : Goto(at)
    <3>1. PICK at \in {"trajectory", "new"} : Goto(at)
      BY <2>1
    <3>2. at \in Local \cup DOMAIN RequestAt /\ at # "enter"
      BY Calls
    <3>3. /\ TurnsTo(s) /\ ui'.op = ui.op /\ ui'.sent = FALSE /\ ui'.dirty = FALSE
      BY <2>1, <3>1, <3>2, Stays
    <3> QED BY <1>2, <2>1, <3>3
  <2>2. CASE \E b \in BridgeType : /\ NextSensor(<<>>, b) /\ b.state = bridge.state
                                   /\ \A t \in Sensor \ {s} : b.map[t] = bridge.map[t]
    <3>1. PICK b \in BridgeType : /\ NextSensor(<<>>, b) /\ b.state = bridge.state
                                  /\ \A t \in Sensor \ {s} : b.map[t] = bridge.map[t]
      BY <2>2
    <3>2. PICK started : started = <<>>
      OBVIOUS
    <3>3. TurnsTo(s) /\ AtOf(s)' = "rest" /\ ui'.op \in {ui.op, "idle"} /\ bridge'.map = b.map
      BY <1>1, <3>1, <3>2, NextTurns
    <3>4. bridge'.state = "CAPTURING"
      <4>1. bridge' = b \/ bridge' = [b EXCEPT !.state = EndOf(ui.op)]
        BY <3>1 DEF NextSensor
      <4>2. EndOf(ui.op) = bridge.state
        BY <1>2 DEF EndOf
      <4> QED BY <1>2, <3>1, <4>1, <4>2 DEF BridgeType
    <3> QED BY <1>2, <3>1, <3>3, <3>4
  <2>3. CASE NextSensor(<<>>, bridge)
    BY <1>1, <2>2, <2>3
  <2>4. CASE NextSensor(<<>>, Shown(client'[s]))
    <3>1. PICK c : c = client'[s]
      OBVIOUS
    <3>2. c.map \in SUBSET Point /\ c.trajectory \in SUBSET Point /\ NextSensor(<<>>, Shown(c))
      BY <1>7, <2>4, <3>1 DEF Client
    <3>3. Shown(c) \in BridgeType /\ \A t \in Sensor \ {s} : Shown(c).map[t] = bridge.map[t]
      BY <1>1, <3>2, ShownMap
    <3>4. Shown(c).state = bridge.state
      BY <1>1 DEF Shown, BridgeType
    <3> QED BY <2>2, <3>2, <3>3, <3>4
  <2>5. \/ bridge' = bridge /\ \E at \in {"trajectory", "new"} : Goto(at)
        \/ NextSensor(<<>>, bridge)
        \/ NextSensor(<<>>, Shown(client'[s]))
    BY DEF Telemetry, TrajectoryRead, NewPoints
  <2> QED BY <2>1, <2>3, <2>4, <2>5
<1>9. Short(daemon[s], due[s], ui'.op) => InTouch(daemon[s], link'[s], AtOf(s)', ui'.sent, ui'.dirty)
  <2>1. PICK at, sent, dirty, op : at = AtOf(s)' /\ sent = ui'.sent /\ dirty = ui'.dirty /\ op = ui'.op
    OBVIOUS
  <2>2. at \notin DOMAIN RequestAt \/ ~sent
    BY <1>8, <2>1, Calls
  <2>3. at = "rest" \/ ~dirty
    BY <1>8, <2>1
  <2>4. Short(daemon[s], due[s], op) => Short(daemon[s], due[s], ui.op)
    BY <1>2, <1>8, <2>1 DEF Short
  <2>5. Short(daemon[s], due[s], op) => InTouch(daemon[s], After(link[s], rest), at, sent, dirty)
    BY <1>1, <1>3, <2>2, <2>3, <2>4, StillInTouch
  <2> QED BY <1>5, <2>1, <2>5
<1>10. Smoothly(s, daemon[s], link'[s], client'[s].map, client'[s].running, bridge'.map[s], due[s],
                bridge'.state, ui'.op, In(ui'.todo), AtOf(s)', ui'.sent, ui'.dirty)
  BY <1>1, <1>5, <1>8, <1>9 DEF Smoothly, Pulled
<1>11. Smoothly(s, daemon'[s], link'[s], client'[s].map, client'[s].running, bridge'.map[s], due[s],
                bridge'.state, ui'.op, In(ui'.todo), AtOf(s)', ui'.sent, ui'.dirty)
  BY <1>1, <1>10
<1>12. \A t \in Sensor \ {s} : Untouched(t) /\ bridge'.map[t] = bridge.map[t]
  BY <1>1, <1>4, <1>5, <1>7, <1>8 DEF Untouched
<1> QED BY <1>1, <1>8, <1>11, <1>12, ThreadSmoothed

\* The calls of a stop: the final pull brings all that was due.
LEMMA StopSmoothed ==
  ASSUME NEW s, NEW ok, NEW pts, NEW rest, Returning(s, ok, pts, rest),
         \/ ui.at = "all" /\ AllPoints(s, ok, pts, rest)
         \/ ui.at = "halt" /\ Halt(s, rest)
         \/ ui.at = "hush" /\ Hush(s, rest)
  PROVE  \A t \in Sensor : Smoothed(t)'
<1>1. /\ CaptureInv /\ TypeOK /\ Flow /\ ui \in Ui /\ ui.at \notin {"enter", "idle", "rest"}
      /\ s = Subject /\ s \in Sensor /\ client \in [Sensor -> Client] /\ bridge \in BridgeType
      /\ daemon' = daemon /\ due' = due /\ link[s] \in Link
      /\ Smoothly(s, daemon[s], link[s], client[s].map, client[s].running, bridge.map[s], due[s],
                  bridge.state, ui.op, In(ui.todo), ui.at, ui.sent, ui.dirty)
      /\ Fits(daemon[s], link[s], orphans[s], client[s], ui.at, ui.half, TRUE)
      /\ After(link[s], rest).state = link[s].state
      /\ s \in In(ui.todo) /\ \A t \in Sensor : Smoothed(t)
  BY ReturningFacts DEF Returning
<1>2. ui.op \in {"stop", "rollback"} /\ (ui.op = "stop" <=> bridge.state = "CAPTURING")
  BY <1>1, Visiting DEF Flow, Stopping
<1>3. Leaves(s, rest) /\ orphans' = orphans
  BY <1>1 DEF AllPoints, Halt, Hush
<1>4. /\ link'[s] = After(link[s], rest) /\ link'[s].state # "broken"
      /\ \A t \in Sensor \ {s} : link'[t] = link[t]
  BY <1>1, <1>3, ReturningFacts DEF Smoothly
<1>5. Pulled(s, daemon[s], link[s], client[s].map, bridge.map[s], due[s], bridge.state, ui.op,
             In(ui.todo), ui.at)
  BY <1>1 DEF Smoothly
<1>6. CASE ui.at = "all" /\ AllPoints(s, ok, pts, rest)
  <2>1. Goto("halt") /\ bridge' = bridge /\ (IF ok THEN Set(s, "map", pts) ELSE client' = client)
    BY <1>6 DEF AllPoints
  <2>2. /\ TurnsTo(s) /\ AtOf(s)' = "halt" /\ ui'.op = ui.op /\ ui'.todo = ui.todo
    <3>1. PICK at \in DOMAIN RequestAt : at = "halt"
      BY Calls
    <3> QED BY <2>1, <3>1, Stays
  <2>3. /\ client'[s].running = client[s].running /\ client[s].running
        /\ ok => client'[s].map = pts
        /\ \A t \in Sensor \ {s} : client'[t] = client[t]
    <3>1. client[s].running
      BY <1>1, <1>6 DEF Fits, Placed
    <3>2. pts \in SUBSET Point
      BY DEF Returning, Brought, Answering
    <3>3. CASE ok
      <4>1. Set(s, "map", pts)
        BY <2>1, <3>3
      <4> QED BY <1>1, <3>1, <3>2, <4>1, OneField
    <3> QED BY <2>1, <3>1, <3>3
  <2>4. ui.op = "stop" /\ Cardinality(due[s]) <= LineLimit => due[s] \subseteq client'[s].map
    <3> SUFFICES ASSUME ui.op = "stop", Cardinality(due[s]) <= LineLimit
                 PROVE  due[s] \subseteq client'[s].map
      OBVIOUS
    <3>1. ok
      <4>1. Prompt(s, ok, rest)
        BY DEF Returning
      <4> QED BY <1>6, <2>3, <4>1 DEF Prompt, Short
    <3>2. link[s].toClient # <<>> /\ pts = Head(link[s].toClient).pts
      <4>1. Brought(s, ok, pts, rest)
        BY DEF Returning
      <4> QED BY <3>1, <4>1, BroughtOk
    <3>3. pts = link[s].toClient[1].pts /\ 1 \in 1..Len(link[s].toClient)
      <4>1. link[s].toClient \in Seq(Answer)
        BY <1>1, AskedType
      <4> QED BY <3>2, <4>1, EmptySeq
    <3> QED BY <1>5, <1>6, <2>3, <3>1, <3>3 DEF Pulled
  <2>5. Pulled(s, daemon[s], link'[s], client'[s].map, bridge.map[s], due[s], bridge.state, ui'.op,
               In(ui'.todo), "halt")
    BY <1>1, <1>2, <1>5, <2>2, <2>4 DEF Pulled
  <2>6. Smoothly(s, daemon'[s], link'[s], client'[s].map, client'[s].running, bridge'.map[s], due[s],
                 bridge'.state, ui'.op, In(ui'.todo), AtOf(s)', ui'.sent, ui'.dirty)
    BY <1>1, <1>4, <2>1, <2>2, <2>5 DEF Smoothly
  <2>7. \A t \in Sensor \ {s} : Untouched(t) /\ bridge'.map[t] = bridge.map[t]
    BY <1>1, <1>3, <1>4, <2>1, <2>3 DEF Untouched
  <2> QED BY <1>1, <2>2, <2>6, <2>7, ThreadSmoothed
<1>7. CASE ui.at = "halt" /\ Halt(s, rest)
  <2>1. Goto("collect") /\ bridge' = bridge /\ Set(s, "running", FALSE)
    BY <1>7 DEF Halt
  <2>2. /\ TurnsTo(s) /\ AtOf(s)' = "collect" /\ ui'.op = ui.op /\ ui'.todo = ui.todo
    <3>1. PICK at \in Local : at = "collect"
      BY DEF Local
    <3> QED BY <2>1, <3>1, Stays
  <2>3. /\ client'[s].map = client[s].map /\ ~client'[s].running
        /\ \A t \in Sensor \ {s} : client'[t] = client[t]
    <3>1. client' = [client EXCEPT ![s] = [@ EXCEPT !["running"] = FALSE]]
      BY <2>1 DEF Set
    <3>2. client'[s] = [client[s] EXCEPT !["running"] = FALSE] /\ client[s] \in Client
      BY <1>1, <3>1
    <3> QED BY <1>1, <3>1, <3>2 DEF Client
  <2>4. Pulled(s, daemon[s], link'[s], client'[s].map, bridge.map[s], due[s], bridge.state, ui'.op,
               In(ui'.todo), "collect")
    BY <1>1, <1>5, <1>7, <2>2, <2>3 DEF Pulled
  <2>5. Smoothly(s, daemon'[s], link'[s], client'[s].map, client'[s].running, bridge'.map[s], due[s],
                 bridge'.state, ui'.op, In(ui'.todo), AtOf(s)', ui'.sent, ui'.dirty)
    BY <1>1, <1>4, <2>1, <2>2, <2>3, <2>4 DEF Smoothly
  <2>6. \A t \in Sensor \ {s} : Untouched(t) /\ bridge'.map[t] = bridge.map[t]
    BY <1>1, <1>3, <1>4, <2>1, <2>3 DEF Untouched
  <2> QED BY <1>1, <2>2, <2>5, <2>6, ThreadSmoothed
<1>8. CASE ui.at = "hush" /\ Hush(s, rest)
  <2>1. NextSensor(<<>>, bridge) /\ Set(s, "streaming", FALSE)
    BY <1>8 DEF Hush
  <2>2. /\ client'[s].map = client[s].map /\ client'[s].running = client[s].running
        /\ \A t \in Sensor \ {s} : client'[t] = client[t]
    <3>1. \E value \in BOOLEAN : Set(s, "streaming", value)
      BY <2>1
    <3> QED BY <1>1, <3>1, QuietClient
  <2>3. ~client[s].running
    BY <1>1, <1>8 DEF Fits, Placed
  <2>4. /\ TurnsTo(s) /\ AtOf(s)' = "rest" /\ s \notin In(ui'.todo) /\ ui'.op \in {ui.op, "idle"}
        /\ bridge'.map = bridge.map /\ (bridge'.state = bridge.state \/ ui.op = "stop")
    <3>1. PICK started : started = <<>>
      OBVIOUS
    <3>2. /\ TurnsTo(s) /\ AtOf(s)' = "rest" /\ s \notin In(ui'.todo) /\ ui'.op \in {ui.op, "idle"}
          /\ bridge'.map = bridge.map
          /\ bridge'.state = bridge.state \/ ui.op = "start" \/ (ui.op = "stop" /\ ui'.op = "idle")
      BY <1>1, <2>1, <3>1, NextTurns
    <3> QED BY <1>2, <3>2
  <2>5. Pulled(s, daemon[s], link'[s], client'[s].map, bridge.map[s], due[s], bridge'.state, ui'.op,
               In(ui'.todo), "rest")
    BY <1>1, <1>2, <1>5, <1>8, <2>4 DEF Pulled
  <2>6. Smoothly(s, daemon'[s], link'[s], client'[s].map, client'[s].running, bridge'.map[s], due[s],
                 bridge'.state, ui'.op, In(ui'.todo), AtOf(s)', ui'.sent, ui'.dirty)
    BY <1>1, <1>4, <2>2, <2>3, <2>4, <2>5 DEF Smoothly
  <2>7. \A t \in Sensor \ {s} : Untouched(t) /\ bridge'.map[t] = bridge.map[t]
    BY <1>1, <1>3, <1>4, <2>2, <2>4 DEF Untouched
  <2> QED BY <1>1, <2>4, <2>6, <2>7, ThreadSmoothed
<1> QED BY <1>6, <1>7, <1>8

\* A call returns, whichever it was.
LEMMA ReturnedSmoothed ==
  ASSUME NEW s, NEW ok, NEW pts, NEW rest, Returning(s, ok, pts, rest), Returned(s, ok, pts, rest)
  PROVE  \A t \in Sensor : Smoothed(t)'
<1>1. ui.at \in DOMAIN RequestAt
  BY DEF Returning, Brought, Answering
<1>2. CASE ui.at \in Pinging
  <2>1. Ping(s, ok, rest)
    BY <1>2 DEF Returned, Pinging
  <2> QED BY <1>2, <2>1, PingSmoothed
<1>3. CASE ui.at = "start"
  <2>1. Start(s, ok, rest)
    BY <1>3 DEF Returned
  <2> QED BY <1>3, <2>1, StartSmoothed
<1>4. CASE ui.at \in Ticking
  <2>1. \/ ui.at = "telemetry" /\ Telemetry(s, ok, pts, rest)
        \/ ui.at = "trajectory" /\ TrajectoryRead(s, ok, pts, rest)
        \/ ui.at = "new" /\ NewPoints(s, ok, pts, rest)
    BY <1>4 DEF Returned, Ticking
  <2> QED BY <2>1, TickSmoothed
<1>5. CASE ui.at \in {"all", "halt", "hush"}
  <2>1. \/ ui.at = "all" /\ AllPoints(s, ok, pts, rest)
        \/ ui.at = "halt" /\ Halt(s, rest)
        \/ ui.at = "hush" /\ Hush(s, rest)
    BY <1>5 DEF Returned
  <2> QED BY <2>1, StopSmoothed
<1> QED BY <1>1, <1>2, <1>3, <1>4, <1>5, Calls DEF Pinging, Ticking

\* An answer is read: where nothing came late it is the one that is waited for.
LEMMA ReadAnswerSmoothed ==
  ASSUME PointsInv, \A s \in Sensor : Smoothed(s), ReadAnswer
  PROVE  \A s \in Sensor : Smoothed(s)'
<1>1. /\ ui.at \in DOMAIN RequestAt /\ ui.sent /\ UNCHANGED spent
      /\ ui.at \notin {"enter", "idle"} /\ CaptureInv /\ Points
  BY Calls DEF ReadAnswer, Waiting, Calling, PointsInv
<1>2. PICK s \in Sensor : s = Subject
  BY <1>1, Visiting
<1>3. /\ TypeOK /\ ui \in Ui /\ ui.op # "idle" /\ link[s] \in Link /\ link[s].toClient # <<>>
      /\ ui.sent = TRUE /\ ui.dirty \in BOOLEAN /\ link[s].toClient \in Seq(Answer)
      /\ RequestAt[ui.at] \in Request
      /\ spent' \in [{"starts", "scans", "late", "crashes"} -> Nat]
      /\ ui.op = "tick" <=> ui.at \in Ticking
      /\ ui.op \in {"stop", "rollback"} <=> ui.at \in Stopping
      /\ Fits(daemon[s], link[s], orphans[s], client[s], ui.at, ui.half, ui.sent)
  <2>1. /\ TypeOK /\ ui \in Ui /\ ui.op # "idle" /\ link[s] \in Link
        /\ ui.op = "tick" <=> ui.at \in Ticking
        /\ ui.op \in {"stop", "rollback"} <=> ui.at \in Stopping
        /\ Fits(daemon[s], link[s], orphans[s], client[s], ui.at, ui.half, ui.sent)
    BY <1>1, <1>2, Visiting
  <2> QED BY <1>1, <1>2, <2>1, Calls DEF Ui, Link, TypeOK, ReadAnswer
<1>4. PICK r \in Readings(RequestAt[ui.at], link[s].toClient, ui.dirty) :
        IF r.verdict = "more"
        THEN /\ ui' = [ui EXCEPT !.dirty = TRUE]
             /\ Leaves(s, r.rest)
             /\ UNCHANGED <<daemon, orphans, client, bridge, history, failed>>
        ELSE Returned(s, r.verdict = "ok", r.pts, r.rest)
  BY <1>2 DEF ReadAnswer
<1>5. /\ r.rest \in Seq(Answer) /\ r.pts \in SUBSET Point
      /\ Left(r.rest, link[s].toClient, 0) \/ Left(r.rest, link[s].toClient, 1)
      /\ r.verdict = "ok" => /\ Head(link[s].toClient).to = RequestAt[ui.at]
                             /\ ~Head(link[s].toClient).torn
                             /\ r.pts = Head(link[s].toClient).pts
                             /\ r.rest = Tail(link[s].toClient)
  <2> DEFINE in == link[s].toClient
             request == RequestAt[ui.at]
  <2>1. /\ request \in Request /\ in \in Seq(Answer) /\ in # <<>> /\ ui.dirty \in BOOLEAN
        /\ r \in Readings(request, in, ui.dirty)
    BY <1>1, <1>3, <1>4
  <2> HIDE DEF in, request
  <2>2. /\ r.rest \in Seq(Answer) /\ r.pts \in SUBSET Point
        /\ Left(r.rest, in, 0) \/ Left(r.rest, in, 1)
        /\ r.verdict = "ok" => /\ Head(in).to = request /\ ~Head(in).torn
                               /\ r.pts = Head(in).pts /\ r.rest = Tail(in)
    BY <2>1, ReadingLeaves
  <2> QED BY <2>2 DEF in, request
<1>6. Smoothly(s, daemon[s], link[s], client[s].map, client[s].running, bridge.map[s], due[s],
               bridge.state, ui.op, In(ui.todo), ui.at, ui.sent, ui.dirty)
  BY <1>1, <1>2, VisitingSmoothed
<1>7. client[s].running /\ ui.at # "halt" /\ Short(daemon[s], due[s], ui.op)
        => /\ r.verdict = "ok" /\ Emptied(daemon[s], After(link[s], r.rest))
  <2> SUFFICES ASSUME client[s].running, ui.at # "halt", Short(daemon[s], due[s], ui.op)
               PROVE  r.verdict = "ok" /\ Emptied(daemon[s], After(link[s], r.rest))
    OBVIOUS
  <2>1. InTouch(daemon[s], link[s], ui.at, ui.sent, ui.dirty)
    BY <1>6 DEF Smoothly
  <2>2. IsFiniteSet(daemon[s].voxels)
    <3>1. daemon[s].voxels \subseteq 1..spent.scans
      BY <1>1 DEF Points, Accounted, Tallied, Scanned
    <3>2. spent.scans \in Nat
      BY <1>3 DEF TypeOK
    <3>3. IsFiniteSet(1..spent.scans)
      BY <3>2, FS_Interval
    <3> QED BY <3>1, <3>3, FS_Subset
  <2>3. ui.at = "trajectory" => Cardinality(daemon[s].voxels) <= LineLimit
    BY <1>3 DEF Short, Ticking
  <2> DEFINE d == daemon[s]
             l == link[s]
  <2>4. InTouch(d, l, ui.at, ui.sent, ui.dirty) /\ l \in Link /\ l.toClient # <<>>
        /\ r \in Readings(RequestAt[ui.at], l.toClient, ui.dirty)
        /\ IsFiniteSet(d.voxels) /\ (ui.at = "trajectory" => Cardinality(d.voxels) <= LineLimit)
    BY <1>3, <1>4, <2>1, <2>2, <2>3
  <2> HIDE DEF d, l
  <2>5. /\ r.verdict = "ok" /\ r.rest = Tail(l.toClient)
        /\ Emptied(d, After(l, Tail(l.toClient)))
    BY <1>1, <2>4, Answered
  <2> QED BY <2>5 DEF d, l
<1>8. CASE r.verdict # "more"
  <2>1. PICK ok \in BOOLEAN : ok = (r.verdict = "ok")
    OBVIOUS
  <2>2. Returned(s, ok, r.pts, r.rest)
    <3>1. Returned(s, r.verdict = "ok", r.pts, r.rest)
      BY <1>4, <1>8
    <3> QED BY <2>1, <3>1, Zenon
  <2>3. Outcome(link[s], RequestAt[ui.at], ok, r.rest)
    BY <1>1, <1>3, <1>5, <2>1 DEF Outcome
  <2>4. UNCHANGED <<daemon, began, due>>
    BY <2>2 DEF Returned, history
  <2>5. Answering(s, ok, r.pts, r.rest)
    BY <1>1, <1>2, <1>3, <1>5, <2>1, <2>3, <2>4 DEF Answering
  <2>6. Brought(s, ok, r.pts, r.rest)
    BY <1>1, <1>5, <2>1, <2>5 DEF Brought
  <2>7. Prompt(s, ok, r.rest)
    BY <1>7, <2>1 DEF Prompt
  <2>8. Returning(s, ok, r.pts, r.rest)
    BY <2>6, <2>7 DEF Returning
  <2> QED BY <2>2, <2>8, ReturnedSmoothed
<1>9. CASE r.verdict = "more"
  <2>1. /\ ui' = [ui EXCEPT !.dirty = TRUE] /\ link' = [link EXCEPT ![s] = After(link[s], r.rest)]
        /\ UNCHANGED <<daemon, orphans, client, bridge, due>>
    BY <1>4, <1>9 DEF history, Leaves, After
  <2>2. ui'.op = ui.op /\ ui'.todo = ui.todo /\ AtOf(s)' = ui.at
    <3>1. ui'.op = ui.op /\ ui'.todo = ui.todo /\ ui'.at = ui.at
      BY <1>3, <2>1 DEF Ui
    <3>2. Head(ui'.todo) = s /\ ui'.op # "idle" /\ ui'.at # "enter"
      BY <1>1, <1>2, <1>3, <3>1 DEF Subject
    <3> QED BY <3>1, <3>2 DEF AtOf, Visited
  <2>3. TurnsTo(s)
    BY <1>1, <1>2, <2>1, <2>2, Turning DEF LoopTurned
  <2>4. ~(client[s].running /\ ui.at # "halt" /\ Short(daemon[s], due[s], ui.op))
    BY <1>7, <1>9
  <2>5. After(link[s], r.rest).state = link[s].state /\ link[s].state # "broken"
    BY <1>3, <1>6 DEF After, Link, Smoothly
  <2>6. Pulled(s, daemon[s], After(link[s], r.rest), client[s].map, bridge.map[s], due[s], bridge.state,
               ui.op, In(ui.todo), ui.at)
    <3>1. Pulled(s, daemon[s], link[s], client[s].map, bridge.map[s], due[s], bridge.state,
                 ui.op, In(ui.todo), ui.at)
      BY <1>6 DEF Smoothly
    <3>2. ui.at = "all" => client[s].running
      BY <1>3 DEF Fits, Placed
    <3>3. ui.op = "stop" /\ Cardinality(due[s]) <= LineLimit => ui.at # "all"
      BY <2>4, <3>2 DEF Short
    <3> QED BY <3>1, <3>3 DEF Pulled
  <2>7. Smoothly(s, daemon[s], After(link[s], r.rest), client[s].map, client[s].running, bridge.map[s],
                 due[s], bridge.state, ui.op, In(ui.todo), ui.at, ui'.sent, ui'.dirty)
    BY <2>4, <2>5, <2>6 DEF Smoothly
  <2>8. link'[s] = After(link[s], r.rest) /\ \A t \in Sensor \ {s} : Untouched(t)
    BY <1>3, <2>1 DEF TypeOK, Untouched
  <2>9. Smoothly(s, daemon'[s], link'[s], client'[s].map, client'[s].running, bridge'.map[s], due[s],
                 bridge'.state, ui'.op, In(ui'.todo), AtOf(s)', ui'.sent, ui'.dirty)
    BY <2>1, <2>2, <2>7, <2>8
  <2> QED BY <1>1, <1>2, <2>1, <2>3, <2>8, <2>9, ThreadSmoothed
<1> QED BY <1>8, <1>9

\* Nobody is refused an answer but who has none to wait for.
LEMMA RefusedSmoothed ==
  ASSUME PointsInv, \A s \in Sensor : Smoothed(s), Refused
  PROVE  \A s \in Sensor : Smoothed(s)'
<1>1. /\ ui.at \in DOMAIN RequestAt /\ ui.sent /\ ui.at \notin {"enter", "idle"} /\ CaptureInv /\ Points
      /\ spent' = spent
  BY Calls DEF Refused, Waiting, Calling, PointsInv
<1>2. PICK s \in Sensor : s = Subject
  BY <1>1, Visiting
<1>3. link[s].toClient = <<>> /\ link[s].state # "open" /\ Returned(s, FALSE, {}, <<>>)
  BY <1>2 DEF Refused
<1>4. TypeOK /\ ui \in Ui
  BY <1>1, Visiting
<1>5. ui.sent = TRUE /\ <<>> \in Seq(Answer)
  BY <1>1, <1>4 DEF Ui
<1>6. spent' \in [{"starts", "scans", "late", "crashes"} -> Nat] /\ spent'.scans = spent.scans
  BY <1>1, <1>4 DEF TypeOK
<1>7. Outcome(link[s], RequestAt[ui.at], FALSE, <<>>)
  BY <1>3 DEF Outcome
<1>8. UNCHANGED <<daemon, began, due>>
  BY <1>3 DEF Returned, history
<1>9. Brought(s, FALSE, {}, <<>>)
  BY <1>1, <1>2, <1>5, <1>6, <1>7, <1>8 DEF Answering, Brought
<1>10. Smoothly(s, daemon[s], link[s], client[s].map, client[s].running, bridge.map[s], due[s],
                bridge.state, ui.op, In(ui.todo), ui.at, ui.sent, ui.dirty)
  BY <1>1, <1>2, VisitingSmoothed
<1>11. Prompt(s, FALSE, <<>>)
  BY <1>3, <1>10 DEF Prompt, Smoothly, InTouch
<1>12. Returning(s, FALSE, {}, <<>>)
  BY <1>9, <1>11 DEF Returning
<1> QED BY <1>3, <1>12, ReturnedSmoothed

-----------------------------------------------------------------------------
(* The steps of a daemon: while its sensor records it forgets nothing.      *)

\* What a daemon sends: what it already had sent, or all it has of what was asked.
Sends(d, l, l2) ==
  /\ l2.state = l.state /\ Asked(l2) = Asked(l)
  /\ \A i \in 1..Len(l2.toClient) :
       \/ i \in 1..Len(l.toClient) /\ l2.toClient[i] = l.toClient[i]
       \/ /\ ~l2.toClient[i].torn /\ l2.toClient[i].pts \subseteq d.voxels
          /\ Has(Asked(l), l2.toClient[i].to)
          /\ l2.toClient[i].to = "ALL" => l2.toClient[i].pts = d.voxels

LEMMA GrownSmoothly ==
  ASSUME NEW s, NEW d, NEW l, NEW map, NEW running, NEW shown, NEW gone, NEW state, NEW op, NEW left,
         NEW at, NEW sent, NEW dirty, NEW d2, NEW l2,
         Smoothly(s, d, l, map, running, shown, gone, state, op, left, at, sent, dirty),
         IsFiniteSet(d2.voxels), running /\ at # "halt" => d.voxels \subseteq d2.voxels,
         op = "stop" /\ s \in left /\ at \notin {"halt", "collect", "hush"} => running,
         at = "all" => running /\ s \in left, Sends(d, l, l2)
  PROVE  Smoothly(s, d2, l2, map, running, shown, gone, state, op, left, at, sent, dirty)
<1>1. l2.state # "broken"
  BY DEF Smoothly, Sends
<1>2. ASSUME running, at # "halt", Short(d2, gone, op) PROVE InTouch(d2, l2, at, sent, dirty)
  <2>1. d.voxels \subseteq d2.voxels
    BY <1>2
  <2>2. Cardinality(d.voxels) <= Cardinality(d2.voxels) /\ IsFiniteSet(d.voxels)
    BY <2>1, FS_Subset
  <2>3. Cardinality(d.voxels) \in Nat /\ Cardinality(d2.voxels) \in Nat
    BY <2>2, FS_CardinalityType
  <2>4. Short(d, gone, op)
    BY <1>2, <2>2, <2>3, LineLimitAssumption DEF Short
  <2>5. InTouch(d, l, at, sent, dirty)
    BY <1>2, <2>4 DEF Smoothly
  <2>6. \A i \in 1..Len(l2.toClient) : ~l2.toClient[i].torn /\ l2.toClient[i].pts \subseteq d2.voxels
    BY <2>1, <2>5 DEF InTouch, Sends
  <2> QED BY <2>5, <2>6 DEF InTouch, Sends
<1>3. Pulled(s, d2, l2, map, shown, gone, state, op, left, at)
  <2>1. Pulled(s, d, l, map, shown, gone, state, op, left, at)
    BY DEF Smoothly
  <2> SUFFICES ASSUME Cardinality(gone) <= LineLimit, op = "stop"
               PROVE  /\ s \in left /\ at \notin {"halt", "collect", "hush"} => gone \subseteq d2.voxels
                      /\ at = "all" => \A i \in 1..Len(l2.toClient) : gone \subseteq l2.toClient[i].pts
    BY <2>1 DEF Pulled
  <2>2. s \in left /\ at \notin {"halt", "collect", "hush"} => gone \subseteq d2.voxels
    BY <2>1 DEF Pulled
  <2>3. ASSUME at = "all", NEW i \in 1..Len(l2.toClient) PROVE gone \subseteq l2.toClient[i].pts
    <3>1. InTouch(d, l, at, sent, dirty) /\ gone \subseteq d.voxels
      BY <2>1, <2>3 DEF Smoothly, Short, Pulled
    <3>2. CASE i \in 1..Len(l.toClient) /\ l2.toClient[i] = l.toClient[i]
      BY <2>1, <2>3, <3>2 DEF Pulled
    <3>3. CASE Has(Asked(l), l2.toClient[i].to)
               /\ (l2.toClient[i].to = "ALL" => l2.toClient[i].pts = d.voxels)
      <4>1. Asked(l) = <<"ALL">> \/ Asked(l) = <<>>
        BY <2>3, <3>1 DEF InTouch, RequestAt
      <4>2. l2.toClient[i].to = "ALL"
        BY <3>3, <4>1, NothingInEmpty DEF Has
      <4> QED BY <3>1, <3>3, <4>2
    <3> QED BY <3>2, <3>3 DEF Sends
  <2> QED BY <2>2, <2>3
<1> QED BY <1>1, <1>2, <1>3 DEF Smoothly

LEMMA OneSmoothed ==
  ASSUME PointsInv, PointsInv', NEW s \in Sensor, UNCHANGED <<client, ui, bridge, due>>,
         \A t \in Sensor \ {s} : daemon'[t] = daemon[t] /\ link'[t] = link[t],
         \A t \in Sensor : Smoothed(t),
         client[s].running /\ AtOf(s) # "halt" => daemon[s].voxels \subseteq daemon'[s].voxels,
         Sends(daemon[s], link[s], link'[s])
  PROVE  \A t \in Sensor : Smoothed(t)'
<1>1. \A t \in Sensor : AtOf(t)' = AtOf(t)
  BY DEF AtOf, Visited
<1>2. ASSUME NEW t \in Sensor, t # s PROVE Smoothed(t)'
  <2>1. daemon'[t] = daemon[t] /\ link'[t] = link[t] /\ AtOf(t)' = AtOf(t)
    BY <1>1, <1>2
  <2>2. Smoothly(t, daemon[t], link[t], client[t].map, client[t].running, bridge.map[t], due[t],
                 bridge.state, ui.op, In(ui.todo), AtOf(t), ui.sent, ui.dirty)
    BY DEF Smoothed
  <2>3. Smoothly(t, daemon'[t], link'[t], client'[t].map, client'[t].running, bridge'.map[t], due'[t],
                 bridge'.state, ui'.op, In(ui'.todo), AtOf(t)', ui'.sent, ui'.dirty)
    BY <2>1, <2>2
  <2> QED BY <2>3 DEF Smoothed
<1>3. Smoothed(s)'
  <2>1. Smoothly(s, daemon[s], link[s], client[s].map, client[s].running, bridge.map[s], due[s],
                 bridge.state, ui.op, In(ui.todo), AtOf(s), ui.sent, ui.dirty)
    BY DEF Smoothed
  <2>2. IsFiniteSet(daemon'[s].voxels)
    <3>1. daemon'[s].voxels \subseteq 1..spent'.scans
      BY DEF PointsInv, Points, Accounted, Tallied, Scanned
    <3>2. spent'.scans \in Nat
      BY DEF PointsInv, CaptureInv, TypeOK
    <3>3. IsFiniteSet(1..spent'.scans)
      BY <3>2, FS_Interval
    <3> QED BY <3>1, <3>3, FS_Subset
  <2>3. ui.op = "stop" /\ s \in In(ui.todo) /\ AtOf(s) \notin {"halt", "collect", "hush"}
          => client[s].running
    <3> SUFFICES ASSUME ui.op = "stop", s \in In(ui.todo), AtOf(s) \notin {"halt", "collect", "hush"}
                 PROVE  client[s].running
      OBVIOUS
    <3>1. Running = In(ui.todo) \ (IF ui.at \in {"collect", "hush"} THEN {Head(ui.todo)} ELSE {})
      BY DEF PointsInv, CaptureInv, Flow
    <3>2. ui.at \in {"collect", "hush"} => s # Head(ui.todo)
      BY DEF AtOf, Visited
    <3>3. s \in Running
      BY <3>1, <3>2
    <3> QED BY <3>3 DEF Running
  <2>4. AtOf(s) = "all" => client[s].running /\ s \in In(ui.todo)
    <3> SUFFICES ASSUME AtOf(s) = "all" PROVE client[s].running /\ s \in In(ui.todo)
      OBVIOUS
    <3>1. s = Head(ui.todo) /\ ui.op # "idle"
      BY DEF AtOf, Visited
    <3>2. s \in In(ui.todo)
      BY <3>1, Busy DEF PointsInv
    <3>3. Fits(daemon[s], link[s], orphans[s], client[s], AtOf(s), ui.half, ui.sent)
      BY DEF PointsInv, CaptureInv, InStep
    <3> QED BY <3>2, <3>3 DEF Fits, Placed
  <2>5. Smoothly(s, daemon'[s], link'[s], client[s].map, client[s].running, bridge.map[s], due[s],
                 bridge.state, ui.op, In(ui.todo), AtOf(s), ui.sent, ui.dirty)
    <3>1. PICK at : at = AtOf(s)
      OBVIOUS
    <3>2. Smoothly(s, daemon'[s], link'[s], client[s].map, client[s].running, bridge.map[s], due[s],
                   bridge.state, ui.op, In(ui.todo), at, ui.sent, ui.dirty)
      BY <2>1, <2>2, <2>3, <2>4, <3>1, GrownSmoothly
    <3> QED BY <3>1, <3>2
  <2>6. Smoothly(s, daemon'[s], link'[s], client'[s].map, client'[s].running, bridge'.map[s], due'[s],
                 bridge'.state, ui'.op, In(ui'.todo), AtOf(s)', ui'.sent, ui'.dirty)
    BY <1>1, <2>5
  <2> QED BY <2>6 DEF Smoothed
<1> QED BY <1>2, <1>3

\* What a request makes of what a daemon that records has.
LEMMA ServedKeeps ==
  ASSUME NEW d \in Daemon, NEW request, d.capturing \/ request # "START"
  PROVE  Serve(d, request).voxels = d.voxels
BY DEF Serve, StartAcquisition, Daemon

LEMMA DaemonSmoothed ==
  ASSUME PointsInv, PointsInv', NEW s \in Sensor, \A t \in Sensor : Smoothed(t),
         HandleClient(s) \/ HandleOrphan(s) \/ SenseScan(s) \/ RecordScan(s)
  PROVE  \A t \in Sensor : Smoothed(t)'
<1> DEFINE d == daemon[s]
           l == link[s]
           c == client[s]
<1>1. /\ d \in Daemon /\ l \in Link /\ orphans[s] \in Orphans /\ TypeOK
      /\ Fits(d, l, orphans[s], c, AtOf(s), ui.half, ui.sent)
      /\ daemon \in [Sensor -> Daemon] /\ link \in [Sensor -> Link]
      /\ Once(d, l, orphans[s], c.map, c.running, AtOf(s), ui.sent)
  BY DaemonFacts DEF PointsInv, Points, Accounted, Tallied, TypeOK
<1>2. UNCHANGED <<client, ui, bridge, due>>
  BY DEF HandleClient, HandleOrphan, SenseScan, RecordScan, history
<1>3. Sends(d, l, l)
  BY DEF Sends
<1>4. d.alive /\ c.running /\ AtOf(s) # "halt" => d.capturing
  BY <1>1 DEF Fits, Placed
<1>5. CASE HandleClient(s)
  <2> DEFINE r == Head(l.toDaemon)
             a == AnswerTo(d, r)
             l2 == [l EXCEPT !.toDaemon = Tail(@), !.toClient = Append(@, a)]
  <2>1. /\ l.state = "open" /\ l.toDaemon # <<>>
        /\ daemon' = [daemon EXCEPT ![s] = Serve(d, r)]
    BY <1>5 DEF HandleClient
  <2>2. link' = [link EXCEPT ![s] = l2]
    BY <1>1, <1>5 DEF HandleClient, Link
  <2>3. /\ a.to = r /\ ~a.torn /\ a.pts = Carried(d, r)
        /\ l.toClient \in Seq(Answer) /\ r \in Request /\ Has(l.toDaemon, r)
    <3>1. l.toClient \in Seq(Answer) /\ l.toDaemon \in Seq(Request)
      BY <1>1, AskedType
    <3>2. r = l.toDaemon[1] /\ 1 \in 1..Len(l.toDaemon)
      BY <2>1, <3>1, EmptySeq
    <3> QED BY <3>1, <3>2 DEF AnswerTo, Has
  <2>4. a.pts \subseteq d.voxels /\ (r = "ALL" => a.pts = d.voxels)
    BY <1>1, <2>3 DEF Carried, Once
  <2>5. a \in Answer
    BY <1>1, <2>3 DEF AnswerTo, Answer, Carried, Daemon
  <2> HIDE DEF a
  <2>6. /\ l2.state = l.state /\ l2.toClient = Append(l.toClient, a) /\ Asked(l2) = Asked(l)
    BY <1>1, <2>1, <2>3, <2>5, AskedServed
  <2> HIDE DEF l2, r
  <2>7. Sends(d, l, l2)
    <3>1. Has(Asked(l), r)
      BY <1>1, <2>3, AskedHas
    <3>2. \A i \in 1..Len(l2.toClient) :
            (i \in 1..Len(l.toClient) /\ l2.toClient[i] = l.toClient[i]) \/ l2.toClient[i] = a
      BY <2>3, <2>5, <2>6, AppendProperties
    <3> QED BY <2>3, <2>4, <2>6, <3>1, <3>2 DEF Sends
  <2>8. c.running /\ AtOf(s) # "halt" => Serve(d, r).voxels = d.voxels
    <3>1. d.alive
      BY <1>1, <2>1 DEF Once
    <3> QED BY <1>1, <1>4, <3>1, ServedKeeps
  <2>9. /\ daemon'[s] = Serve(d, r) /\ link'[s] = l2
        /\ \A t \in Sensor \ {s} : daemon'[t] = daemon[t] /\ link'[t] = link[t]
    BY <1>1, <2>1, <2>2
  <2> QED BY <1>2, <2>7, <2>8, <2>9, OneSmoothed
<1>6. CASE HandleOrphan(s)
  <2>1. link' = link /\ \A t \in Sensor \ {s} : daemon'[t] = daemon[t]
    BY <1>1, <1>6 DEF HandleOrphan
  <2>2. PICK request : daemon'[s] = d \/ (orphans[s] # <<>> /\ daemon'[s] = Serve(d, request))
    BY <1>1, <1>6 DEF HandleOrphan
  <2>3. c.running /\ AtOf(s) # "halt" => d.voxels \subseteq daemon'[s].voxels
    <3>1. CASE daemon'[s] = d
      BY <3>1
    <3>2. CASE orphans[s] # <<>> /\ daemon'[s] = Serve(d, request)
      <4>1. d.alive
        BY <1>1, <3>2 DEF Once
      <4> QED BY <1>1, <1>4, <3>2, <4>1, ServedKeeps
    <3> QED BY <2>2, <3>1, <3>2
  <2> QED BY <1>2, <1>3, <2>1, <2>3, OneSmoothed
<1>7. CASE SenseScan(s)
  <2>1. link' = link /\ daemon' = [daemon EXCEPT ![s] = Sense(d, spent.scans + 1)]
    BY <1>7 DEF SenseScan
  <2>2. daemon'[s].voxels = d.voxels /\ \A t \in Sensor \ {s} : daemon'[t] = daemon[t]
    BY <1>1, <2>1 DEF Sense, Daemon
  <2> QED BY <1>2, <1>3, <2>1, <2>2, OneSmoothed
<1>8. CASE RecordScan(s)
  <2>1. link' = link /\ daemon' = [daemon EXCEPT ![s] = Record(d)]
    BY <1>8 DEF RecordScan
  <2>2. d.voxels \subseteq daemon'[s].voxels /\ \A t \in Sensor \ {s} : daemon'[t] = daemon[t]
    BY <1>1, <2>1 DEF Record, Daemon
  <2> QED BY <1>2, <1>3, <2>1, <2>2, OneSmoothed
<1> QED BY <1>5, <1>6, <1>7, <1>8

\* The inductive invariant, and what follows from it.
LEMMA PullInvInit ==
  ASSUME Init
  PROVE  PullInv
<1>1. PointsInv
  BY PointsInvInit
<1>2. ASSUME NEW s \in Sensor PROVE Smoothed(s)
  <2>1. /\ link[s] = Closed /\ ~client[s].running /\ due[s] = {} /\ ui.op = "idle"
    BY DEF Init, Resting
  <2>2. Closed.state = "closed"
    BY NewLinks
  <2> QED BY <2>1, <2>2 DEF Smoothed, Smoothly, Pulled
<1> QED BY <1>1, <1>2 DEF PullInv

LEMMA PullInvStep ==
  ASSUME PullInv, [Next]_vars
  PROVE  PullInv'
<1>1. PointsInv /\ PointsInv' /\ CaptureInv
  BY PointsInvStep DEF PullInv, PointsInv
<1> SUFFICES ASSUME Smooth', NEW t \in Sensor PROVE Smoothed(t)'
  BY <1>1 DEF PullInv
<1>2. spent' = spent \/ \E k \in {"starts", "scans", "late", "crashes"} : Spend(k)
  BY DEF Next, vars, Thread, StartCapture, OnTelemetryTick, StopCapture, Enter, Collect, Connect, Respawn,
         Send, ReadAnswer, Refused, TimeOut, HandleClient, HandleOrphan, SenseScan, RecordScan, Crash
<1>3. spent \in [{"starts", "scans", "late", "crashes"} -> Nat]
  BY <1>1 DEF CaptureInv, TypeOK
<1>4. Smooth /\ spent'.late = 0 /\ spent'.crashes = 0
  BY <1>2, <1>3 DEF Smooth, Spend
<1>5. \A s \in Sensor : Smoothed(s)
  BY <1>4 DEF PullInv
<1>6. CASE StartCapture \/ OnTelemetryTick \/ StopCapture
  BY <1>1, <1>5, <1>6, BeginSmoothed
<1>7. CASE Enter
  BY <1>1, <1>5, <1>7, EnterSmoothed
<1>8. CASE Collect
  BY <1>1, <1>5, <1>8, CollectSmoothed
<1>9. CASE Connect \/ Respawn
  BY <1>1, <1>5, <1>9, ConnectSmoothed
<1>10. CASE Send
  BY <1>1, <1>5, <1>10, SendSmoothed
<1>11. CASE ReadAnswer
  BY <1>1, <1>5, <1>11, ReadAnswerSmoothed
<1>12. CASE Refused
  BY <1>1, <1>5, <1>12, RefusedSmoothed
<1>13. ~TimeOut
  <2> SUFFICES ASSUME TimeOut PROVE FALSE
    OBVIOUS
  <2>1. spent' = [spent EXCEPT !["late"] = @ + 1]
    BY DEF TimeOut, Spend
  <2>2. spent'["late"] = spent["late"] + 1 /\ spent["late"] \in Nat
    BY <1>3, <2>1
  <2> QED BY <1>4, <2>2
<1>14. \A s \in Sensor : ~Crash(s)
  BY <1>3, <1>4 DEF Crash, Spend
<1>15. ASSUME NEW s \in Sensor, HandleClient(s) \/ HandleOrphan(s) \/ SenseScan(s) \/ RecordScan(s)
       PROVE  Smoothed(t)'
  BY <1>1, <1>5, <1>15, DaemonSmoothed
<1>16. CASE UNCHANGED vars
  <2>1. Smoothed(t) /\ AtOf(t)' = AtOf(t)
    BY <1>5, <1>16 DEF vars, AtOf, Visited
  <2> QED BY <1>16, <2>1 DEF vars, Smoothed
<1> QED BY <1>6, <1>7, <1>8, <1>9, <1>10, <1>11, <1>12, <1>13, <1>14, <1>15, <1>16 DEF Next, Thread

\* Where every answer came in time and no daemon died, a capture that has been
\* stopped shows all that each daemon had when its stop was asked for, if the
\* path was short enough for a line: however many sensors there are, and
\* whatever starts and stops came before.
THEOREM ShortPullsAreWhole == StationSpec => []ShortPullIsWhole
<1>1. StationInit => PullInv
  BY PullInvInit DEF StationInit
<1>2. PullInv /\ [StationNext]_stationVars => PullInv'
  BY PullInvStep, StationCapture
<1>3. PullInv => ShortPullIsWhole
  <2> SUFFICES ASSUME PullInv, Stopped, Smooth, NEW s \in Sensor, Cardinality(due[s]) <= LineLimit
               PROVE  due[s] \subseteq bridge.map[s]
    BY DEF ShortPullIsWhole
  <2>1. Smoothed(s) /\ bridge.state # "CAPTURING"
    BY DEF PullInv, Stopped
  <2> QED BY <2>1 DEF Smoothed, Smoothly, Pulled
<1> QED BY <1>1, <1>2, <1>3, PTL DEF StationSpec
=============================================================================
