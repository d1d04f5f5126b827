------------------------------ MODULE MCCSlam -------------------------------
EXTENDS CSlamSession, TLC

CONSTANTS c, p1, p2, s1, a, b

\* The coordinator's room is a.  One participant stands in the doorway, the
\* other beyond it, and a simulated scanner beyond it too.
MCClouds == [n \in Scanner |->
  CASE n = c  -> {{a}}
    [] n = p1 -> {{a, b}}
    [] OTHER  -> {{b}}]

\* The participant starts beyond the doorway and walks into it.
MCWalking == [n \in Scanner |->
  CASE n = c  -> {{a}}
    [] n = p1 -> {{b}, {a, b}}
    [] OTHER  -> {{b}}]

\* Two instances in one run: a participant that walks, triggers and departures
\* in one session, or a clear or second session of one that stands still.
StandsStill ==
  \A h \in Host : p1 \in Known(engine[h]) => engine[h].sub[p1].cloud # {b}
WalkOrClears ==
  \/ spent["creates"] <= 1 /\ spent["clears"] = 0
  \/ /\ spent["triggers"] = 0 /\ spent["leaves"] = 0
     /\ spent["creates"] + spent["clears"] <= 2 /\ StandsStill
=============================================================================
