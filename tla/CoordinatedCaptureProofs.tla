----------------------- MODULE CoordinatedCaptureProofs -----------------------
(* What a coordinated capture promises, for every set of nodes.            *)
EXTENDS CoordinatedCapture, SequenceTheorems, TLAPS

\* Commands that follow one another, the first after a capture state b.
Alternating(b, q) ==
  /\ q # <<>> => q[1] # b
  /\ \A i \in 1..Len(q) - 1 : q[i] # q[i + 1]

\* A follower's commands alternate and the newest is what the coordinator does;
\* a node that does not take part has none and does not capture.
Tracks(n) ==
  /\ Alternating(local[n], pending[n])
  /\ pending[n] = <<>> => local[n] = leader
  /\ pending[n] # <<>> => pending[n][Len(pending[n])] = leader

CaptureInv ==
  /\ AbsTypeOK
  /\ \A n \in follower : Tracks(n)
  /\ \A n \in Node \ follower : pending[n] = <<>> /\ ~local[n]

\* A command opposite to the newest one, or to the state when there is none,
\* keeps the alternation.
LEMMA AlternatingAppend ==
  ASSUME NEW S, NEW b \in S, NEW q \in Seq(S), NEW x \in S,
         Alternating(b, q),
         q = <<>> => x # b, q # <<>> => x # q[Len(q)]
  PROVE  /\ Alternating(b, Append(q, x))
         /\ Append(q, x) # <<>>
         /\ Append(q, x)[Len(Append(q, x))] = x
<1> DEFINE r == Append(q, x)
<1>1. /\ Len(r) = Len(q) + 1 /\ r # <<>> /\ Len(q) \in Nat
      /\ \A i \in 1..Len(q) : r[i] = q[i]
      /\ r[Len(q) + 1] = x
  BY AppendProperties, LenProperties
<1>2. CASE q = <<>>
  <2>1. Len(r) = 1 /\ r[1] = x
    BY <1>1, <1>2
  <2> QED
    BY <1>1, <1>2, <2>1 DEF Alternating
<1>3. CASE q # <<>>
  <2>1. Len(q) >= 1 /\ q[1] # b
    BY <1>3 DEF Alternating
  <2>2. r[1] # b
    BY <1>1, <2>1
  <2>3. ASSUME NEW i \in 1..Len(r) - 1 PROVE r[i] # r[i + 1]
    <3>1. CASE i = Len(q)
      BY <1>1, <1>3, <2>1, <3>1
    <3>2. CASE i # Len(q)
      BY <1>1, <2>1, <3>2 DEF Alternating
    <3> QED
      BY <3>1, <3>2
  <2> QED
    BY <1>1, <2>2, <2>3 DEF Alternating
<1> QED
  BY <1>2, <1>3

\* Executing the oldest command keeps it too.
LEMMA AlternatingTail ==
  ASSUME NEW S, NEW b \in S, NEW q \in Seq(S), q # <<>>, Alternating(b, q)
  PROVE  /\ Alternating(Head(q), Tail(q))
         /\ Tail(q) = <<>> => Head(q) = q[Len(q)]
         /\ Tail(q) # <<>> => Tail(q)[Len(Tail(q))] = q[Len(q)]
<1>1. /\ Len(q) \in Nat /\ Len(q) >= 1 /\ Head(q) = q[1]
      /\ Tail(q) \in Seq(S) /\ Len(Tail(q)) = Len(q) - 1
      /\ \A i \in 1..Len(q) - 1 : Tail(q)[i] = q[i + 1]
  OBVIOUS
<1>2. Tail(q) = <<>> <=> Len(q) = 1
  <2>1. Tail(q) # <<>> => Len(Tail(q)) \in Nat \ {0}
    BY <1>1, EmptySeq
  <2>2. Tail(q) = <<>> => Len(Tail(q)) = 0
    BY EmptySeq
  <2> QED
    BY <1>1, <2>1, <2>2
<1>3. \A i \in 1..Len(Tail(q)) - 1 : Tail(q)[i] # Tail(q)[i + 1]
  BY <1>1 DEF Alternating
<1>4. Tail(q) # <<>> => Tail(q)[1] # Head(q)
  BY <1>1, <1>2 DEF Alternating
<1> QED
  BY <1>1, <1>2, <1>3, <1>4 DEF Alternating

LEMMA InitCapture == AbsInit => CaptureInv
<1> SUFFICES ASSUME AbsInit PROVE CaptureInv
  OBVIOUS
<1>1. <<>> \in Seq(BOOLEAN)
  OBVIOUS
<1>2. AbsTypeOK
  BY <1>1 DEF AbsInit, AbsTypeOK
<1>3. \A n \in Node : pending[n] = <<>> /\ ~local[n]
  BY DEF AbsInit
<1> QED
  BY <1>2, <1>3 DEF AbsInit, CaptureInv

LEMMA NextCapture == CaptureInv /\ [AbsNext]_absVars => CaptureInv'
<1> SUFFICES ASSUME CaptureInv, [AbsNext]_absVars PROVE CaptureInv'
  OBVIOUS
<1>1. CASE Command
  <2>1. AbsTypeOK'
    <3>1. (~leader) \in BOOLEAN
      BY DEF CaptureInv, AbsTypeOK
    <3>2. ASSUME NEW n \in Node
          PROVE  (IF n \in follower THEN Append(pending[n], ~leader) ELSE pending[n])
                   \in Seq(BOOLEAN)
      <4>1. pending[n] \in Seq(BOOLEAN)
        BY DEF CaptureInv, AbsTypeOK
      <4>2. Append(pending[n], ~leader) \in Seq(BOOLEAN)
        BY <3>1, <4>1, AppendProperties, Zenon
      <4> QED
        BY <4>1, <4>2, Zenon
    <3>3. leader' \in BOOLEAN
      BY <1>1, <3>1, Zenon DEF Command
    <3>4. pending' \in [Node -> Seq(BOOLEAN)]
      BY <1>1, <3>2, Zenon DEF Command
    <3> QED
      BY <1>1, <3>3, <3>4 DEF Command, CaptureInv, AbsTypeOK
  <2>2. ASSUME NEW n \in follower PROVE Tracks(n)'
    <3>1. n \in Node /\ pending[n] \in Seq(BOOLEAN) /\ local[n] \in BOOLEAN /\ leader \in BOOLEAN
      BY DEF CaptureInv, AbsTypeOK
    <3>2. pending'[n] = Append(pending[n], ~leader) /\ leader' = ~leader /\ local' = local
      BY <1>1, <3>1 DEF Command
    <3>3. Tracks(n)
      BY DEF CaptureInv
    <3>4. /\ pending[n] = <<>> => (~leader) # local[n]
          /\ pending[n] # <<>> => (~leader) # pending[n][Len(pending[n])]
      BY <3>1, <3>3 DEF Tracks
    <3>5. /\ Alternating(local[n], Append(pending[n], ~leader))
          /\ Append(pending[n], ~leader) # <<>>
          /\ Append(pending[n], ~leader)[Len(Append(pending[n], ~leader))] = ~leader
      <4>1. (~leader) \in BOOLEAN
        BY <3>1
      <4>2. PICK c \in BOOLEAN : c = (~leader)
        BY <4>1, Zenon
      <4>3. Alternating(local[n], pending[n])
        BY <3>3 DEF Tracks
      <4>4. /\ pending[n] = <<>> => c # local[n]
            /\ pending[n] # <<>> => c # pending[n][Len(pending[n])]
        BY <3>4, <4>2, Zenon
      <4>5. /\ Alternating(local[n], Append(pending[n], c))
            /\ Append(pending[n], c) # <<>>
            /\ Append(pending[n], c)[Len(Append(pending[n], c))] = c
        BY <3>1, <4>3, <4>4, AlternatingAppend
      <4> QED
        BY <4>2, <4>5, Zenon
    <3> QED
      BY <3>2, <3>5 DEF Tracks
  <2>3. \A n \in Node \ follower : pending'[n] = <<>> /\ ~local'[n]
    BY <1>1 DEF Command, CaptureInv
  <2> QED
    BY <1>1, <2>1, <2>2, <2>3 DEF Command, CaptureInv
<1>2. ASSUME NEW n \in Node, Join(n) PROVE CaptureInv'
  <2>1. AbsTypeOK'
    BY <1>2 DEF Join, CaptureInv, AbsTypeOK
  <2>2. Tracks(n)'
    BY <1>2 DEF Join, Tracks, Alternating, CaptureInv, AbsTypeOK
  <2>3. \A m \in follower : Tracks(m)'
    BY <1>2 DEF Join, Tracks, CaptureInv
  <2> QED
    BY <1>2, <2>1, <2>2, <2>3 DEF Join, CaptureInv
<1>3. ASSUME NEW n \in Node, Execute(n) PROVE CaptureInv'
  <2>1. /\ pending[n] \in Seq(BOOLEAN) /\ pending[n] # <<>> /\ local[n] \in BOOLEAN
        /\ pending \in [Node -> Seq(BOOLEAN)] /\ local \in [Node -> BOOLEAN]
    BY <1>3 DEF Execute, CaptureInv, AbsTypeOK
  <2>2. /\ local' = [local EXCEPT ![n] = Head(pending[n])]
        /\ pending' = [pending EXCEPT ![n] = Tail(pending[n])]
        /\ leader' = leader /\ follower' = follower
    BY <1>3 DEF Execute
  <2>3. AbsTypeOK'
    BY <2>1, <2>2 DEF CaptureInv, AbsTypeOK
  <2>4. n \in follower
    BY <2>1 DEF CaptureInv
  <2>5. Tracks(n)'
    <3>1. /\ Alternating(local[n], pending[n])
          /\ pending[n][Len(pending[n])] = leader
      BY <2>1, <2>4 DEF CaptureInv, Tracks
    <3>2. /\ Alternating(Head(pending[n]), Tail(pending[n]))
          /\ Tail(pending[n]) = <<>> => Head(pending[n]) = leader
          /\ Tail(pending[n]) # <<>> => Tail(pending[n])[Len(Tail(pending[n]))] = leader
      BY <2>1, <3>1, AlternatingTail
    <3>3. local'[n] = Head(pending[n]) /\ pending'[n] = Tail(pending[n])
      BY <2>1, <2>2
    <3> QED
      BY <2>2, <3>2, <3>3 DEF Tracks
  <2>6. ASSUME NEW m \in follower, m # n PROVE Tracks(m)'
    <3>1. m \in Node
      BY DEF CaptureInv, AbsTypeOK
    <3>2. local'[m] = local[m] /\ pending'[m] = pending[m]
      BY <2>1, <2>2, <2>6, <3>1
    <3> QED
      BY <2>2, <3>2 DEF CaptureInv, Tracks
  <2>7. \A m \in Node \ follower : pending'[m] = <<>> /\ ~local'[m]
    BY <2>1, <2>2, <2>4 DEF CaptureInv
  <2> QED
    BY <2>2, <2>3, <2>5, <2>6, <2>7 DEF CaptureInv
<1>4. CASE UNCHANGED absVars
  BY <1>4 DEF absVars, CaptureInv, AbsTypeOK, Tracks
<1> QED
  BY <1>1, <1>2, <1>3, <1>4 DEF AbsNext

\* A follower that has caught up does what the coordinator does, and nothing it
\* still has to execute is redundant.
THEOREM FollowersTrack == AbsSpec => [](Echo /\ NoRedundantCommand)
<1>1. CaptureInv => Echo /\ NoRedundantCommand
  BY DEF CaptureInv, AbsTypeOK, Tracks, Alternating, Echo, NoRedundantCommand
<1> QED
  BY <1>1, InitCapture, NextCapture, PTL DEF AbsSpec
=============================================================================
