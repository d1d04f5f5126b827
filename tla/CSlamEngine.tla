---------------------------- MODULE CSlamEngine -----------------------------
(***************************************************************************)
(* One C-SLAM engine as a value, and what its operations make of it.  Each *)
(* operation runs under the engine's mutex, so it is one step of a caller. *)
(*                                                                         *)
(* A cloud is the set of areas it covers; {} stands for fewer than the     *)
(* thirty points alignment needs.  Registration (ICP) is an oracle: a      *)
(* cloud aligns with the anchored map exactly when they share an area.     *)
(***************************************************************************)
EXTENDS RingPlacement, Sequences

CONSTANTS Scanner, Area, None

Cloud == SUBSET Area
State == {"ANCHOR", "UNALIGNED", "LOCKED"}

\* CSlamNodeSubmap: join index, alignment state, ring place of the offset, and
\* the scanner into whose frame the snapped transform leads.
Item   == [index : Nat, state : State, place : Nat, frame : Scanner \cup {None}]
Submap == [index : Nat, state : State, place : Nat, frame : Scanner \cup {None},
           cloud : Cloud]
AlignmentState == [order : Seq(Scanner), item : [Scanner -> Item \cup {None}]]
Engine == [order : Seq(Scanner), sub : [Scanner -> Submap \cup {None}]]

Empty == [order |-> <<>>, sub |-> [n \in Scanner |-> None]]

Known(e) == {n \in Scanner : e.sub[n] # None}

\* The first scanner of an engine is its anchor; a later one is when it is
\* registered as such; the others go to the ring place of their index.
NewScanner(e, n, anchor, cloud) ==
  LET i     == Len(e.order)
      fixed == i = 0 \/ anchor
  IN [order |-> Append(e.order, n),
      sub   |-> [e.sub EXCEPT ![n] =
                   [index |-> i, state |-> IF fixed THEN "ANCHOR" ELSE "UNALIGNED",
                    place |-> IF fixed THEN 0 ELSE i, frame |-> None, cloud |-> cloud]]]

\* Mutant: everyone registered is an anchor.
RegisterAsAnchor(e, n, anchor) ==
  IF n \in Known(e) THEN e ELSE NewScanner(e, n, TRUE, {})

RegisterScanner(e, n, anchor) ==
  IF n \in Known(e) THEN e ELSE NewScanner(e, n, anchor, {})

\* Scanners that make up the anchored map, and those that may snap to it.
Anchored(e) == {n \in Known(e) : e.sub[n].state # "UNALIGNED" /\ e.sub[n].cloud # {}}
Loose(e)    == {n \in Known(e) : e.sub[n].state = "UNALIGNED" /\ e.sub[n].cloud # {}}

Meets(e, S, n) == \E m \in S : e.sub[m].cloud \cap e.sub[n].cloud # {}

\* The passes repeat until none snaps: the least set closed under meeting the
\* anchored map or a scanner of the set.
Reached(e) ==
  {n \in Loose(e) :
     \A S \in SUBSET Loose(e) :
       (\A m \in Loose(e) : Meets(e, Anchored(e) \cup S, m) => m \in S) => n \in S}

\* Mutant: the latest aligned scanner taken for the frame.
FrameOfLatest(e) ==
  LET last == CHOOSE i \in 1..Len(e.order) :
                /\ e.order[i] \in Anchored(e)
                /\ \A j \in i + 1..Len(e.order) : e.order[j] \notin Anchored(e)
  IN  e.order[last]

\* The frame of the anchored map: that of its first scanner in join order.
MapFrame(e) ==
  LET first == CHOOSE i \in 1..Len(e.order) :
                 /\ e.order[i] \in Anchored(e)
                 /\ \A j \in 1..i - 1 : e.order[j] \notin Anchored(e)
      n == e.order[first]
  IN  IF e.sub[n].state = "ANCHOR" THEN n ELSE e.sub[n].frame

\* evaluateAndSnapOverlapsUnlocked.  With fewer than two scanners nothing is
\* loose and anchored at once, so its early return needs no case.
Snap(e) ==
  [e EXCEPT !.sub = [n \in Scanner |->
     IF n \in Reached(e) THEN [e.sub[n] EXCEPT !.state = "LOCKED", !.frame = MapFrame(e)]
     ELSE e.sub[n]]]

\* A new submap replaces the cloud and nothing else of a known scanner.
Store(e, n, cloud) ==
  IF n \in Known(e) THEN [e EXCEPT !.sub[n].cloud = cloud]
  ELSE NewScanner(e, n, FALSE, cloud)

IngestSubmap(e, n, cloud, evaluate) ==
  IF evaluate THEN Snap(Store(e, n, cloud)) ELSE Store(e, n, cloud)

\* serializeAlignmentState and applySerializedAlignmentState.  Scanners the
\* payload does not list keep what they have, and those it lists that are new
\* come last, in its order.
ItemOf(s) == [index |-> s.index, state |-> s.state, place |-> s.place, frame |-> s.frame]
Alignment(e) ==
  [order |-> e.order,
   item  |-> [n \in Scanner |-> IF n \in Known(e) THEN ItemOf(e.sub[n]) ELSE None]]

Extended(e, listed) ==
  LET upTo[i \in 0..Len(listed)] ==
        IF i = 0 THEN e.order
        ELSE IF listed[i] \in Known(e) THEN upTo[i - 1] ELSE Append(upTo[i - 1], listed[i])
  IN  upTo[Len(listed)]

ApplyAlignment(e, a) ==
  [order |-> Extended(e, a.order),
   sub   |-> [n \in Scanner |->
     IF a.item[n] = None THEN e.sub[n]
     ELSE [index |-> a.item[n].index, state |-> a.item[n].state,
           place |-> a.item[n].place, frame |-> a.item[n].frame,
           cloud |-> IF n \in Known(e) THEN e.sub[n].cloud ELSE {}]]]

\* What an engine that only registers and ingests keeps: indices count the
\* scanners in join order, and who is not aligned stands on its own ring place.
JoinOrdered(e) ==
  /\ \A i \in 1..Len(e.order) : /\ e.order[i] \in Known(e)
                                /\ e.sub[e.order[i]].index = i - 1
  /\ \A n \in Known(e) : \E i \in 1..Len(e.order) : e.order[i] = n

UnalignedApart(e) ==
  \A m, n \in Known(e) :
    (m # n /\ e.sub[m].state = "UNALIGNED") =>
      /\ e.sub[n].state = "UNALIGNED" =>
           Apart(Offset(e.sub[m].place), Offset(e.sub[n].place))
      /\ e.sub[n].state = "ANCHOR" => Apart(Offset(e.sub[m].place), Offset(0))

\* One anchor, the first scanner, and one frame for everything aligned with it.
OneMap(e) ==
  \A m, n \in Known(e) :
    /\ e.sub[m].state = "ANCHOR" /\ e.sub[n].state = "ANCHOR" => m = n
    /\ e.sub[m].state = "ANCHOR" => e.sub[m].index = 0
    /\ e.sub[m].state = "ANCHOR" /\ e.sub[n].state = "LOCKED" => e.sub[n].frame = m
=============================================================================
