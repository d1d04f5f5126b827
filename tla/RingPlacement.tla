--------------------------- MODULE RingPlacement ----------------------------
(***************************************************************************)
(* Where the C-SLAM engine draws a scanner it cannot align yet: eight       *)
(* directions per ring, ring after ring, in units of the separation        *)
(* distance.                                                               *)
(***************************************************************************)
EXTENDS Integers

Direction == << <<1, 0>>, <<-1, 0>>, <<0, 1>>, <<0, -1>>,
                <<1, 1>>, <<-1, 1>>, <<-1, -1>>, <<1, -1>> >>

\* Mutant: the first ring counted as ring zero.
RingFromZero(i) == (i - 1) \div 8
Ring(i) == (i - 1) \div 8 + 1

Slot(i) == ((i - 1) % 8) + 1

\* computeSeparationOffset: the origin for the anchor, a ring place for others.
Offset(i) == IF i = 0 THEN <<0, 0>>
             ELSE << Ring(i) * Direction[Slot(i)][1], Ring(i) * Direction[Slot(i)][2] >>

\* At least one separation distance lies between two places.
Apart(u, v) == \E k \in {1, 2} : u[k] - v[k] >= 1 \/ v[k] - u[k] >= 1
=============================================================================
