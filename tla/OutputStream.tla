---------------------------- MODULE OutputStream ----------------------------
(***************************************************************************)
(* What a remote session promises about one output stream: the host gets   *)
(* what the process wrote, in order, once each, except for runs of bytes   *)
(* that are counted as lost, and learns of the end only when everything    *)
(* before it has been received or counted.  Bytes are their numbers.       *)
(***************************************************************************)
EXTENDS Integers, Sequences, TLAPS

VARIABLES written,  \* bytes the process has written
          ended,    \* nothing more will be written
          got,      \* the bytes that arrived, in the order of arrival
          at,       \* how far the host has followed the stream
          lost,     \* how many bytes it was told it will not get
          known     \* the host knows that the stream ended

StreamInit ==
  /\ written = 0 /\ ended = FALSE
  /\ got = <<>> /\ at = 0 /\ lost = 0 /\ known = FALSE

Produce ==
  /\ ~ended
  /\ written' \in Nat /\ written' > written
  /\ UNCHANGED <<ended, got, at, lost, known>>

EndOfOutput ==
  /\ ~ended
  /\ ended' = TRUE
  /\ UNCHANGED <<written, got, at, lost, known>>

\* The host moves on by a gap of `gap` bytes followed by `count` bytes.
Follow(gap, count) ==
  /\ ~known
  /\ gap + count > 0 /\ at + gap + count <= written
  /\ got' = got \o [i \in 1..count |-> at + gap + i]
  /\ at' = at + gap + count
  /\ lost' = lost + gap
  /\ UNCHANGED <<written, ended, known>>

LearnEnd ==
  /\ ended /\ at = written
  /\ known' = TRUE
  /\ UNCHANGED <<written, ended, got, at, lost>>

StreamNext ==
  \/ Produce
  \/ EndOfOutput
  \/ \E gap, count \in 0..(written - at) : Follow(gap, count)
  \/ LearnEnd

StreamSpec == StreamInit /\ [][StreamNext]_<<written, ended, got, at, lost, known>>

-----------------------------------------------------------------------------
(* What every implementation inherits, for streams of any length and gaps  *)
(* of any size.                                                            *)

svars == <<written, ended, got, at, lost, known>>

StreamTypeOK ==
  /\ written \in Nat /\ at \in Nat /\ lost \in Nat
  /\ ended \in BOOLEAN /\ known \in BOOLEAN
  /\ got \in Seq(Nat)

\* Everything before the host's position was received or counted as lost, and
\* nothing past it was.
Accounted ==
  /\ at <= written
  /\ Len(got) + lost = at
  /\ \A i \in 1..Len(got) : got[i] <= at
  /\ known => ended /\ at = written

\* No byte arrives twice or out of order.
InOrder == \A i, j \in 1..Len(got) : i < j => got[i] < got[j]

StreamInv == StreamTypeOK /\ Accounted /\ InOrder

\* Nothing has arrived yet.
LEMMA InitInv == StreamInit => StreamInv
<1> SUFFICES ASSUME StreamInit PROVE StreamInv
  OBVIOUS
<1>1. got = <<>> /\ Len(got) = 0 /\ 1..Len(got) = {} /\ got \in Seq(Nat)
  BY DEF StreamInit
<1>2. StreamTypeOK
  BY <1>1 DEF StreamInit, StreamTypeOK
<1>3. Accounted /\ InOrder
  BY <1>1 DEF StreamInit, Accounted, InOrder
<1> QED
  BY <1>2, <1>3 DEF StreamInv

\* A step of following the stream keeps the account and the order.
LEMMA FollowInv ==
  ASSUME StreamInv, NEW gap \in Nat, NEW count \in Nat, Follow(gap, count)
  PROVE  StreamInv'
<1> DEFINE new == [i \in 1..count |-> at + gap + i]
<1>1. at \in Nat /\ lost \in Nat /\ written \in Nat /\ got \in Seq(Nat)
  BY DEF StreamInv, StreamTypeOK
<1>2. new \in Seq(Nat) /\ Len(new) = count
  BY <1>1
<1>3. got' = got \o new /\ at' = at + gap + count /\ lost' = lost + gap
  BY DEF Follow
<1>4. got' \in Seq(Nat) /\ Len(got') = Len(got) + count
  BY <1>1, <1>2, <1>3
<1>5. \A i \in 1..Len(got) : got'[i] = got[i] /\ got[i] <= at /\ got[i] \in Nat
  BY <1>1, <1>2, <1>3 DEF StreamInv, Accounted
<1>6. \A i \in (Len(got) + 1)..Len(got') : got'[i] = at + gap + (i - Len(got))
  <2> TAKE i \in (Len(got) + 1)..Len(got')
  <2>1. Len(got) \in Nat
    BY <1>1
  <2>2. i - Len(got) \in 1..count
    BY <1>4, <2>1
  <2>3. got'[i] = new[i - Len(got)]
    BY <1>1, <1>2, <1>3, <1>4, <2>1, <2>2
  <2> QED
    BY <2>2, <2>3
<1>7. Len(got) \in Nat /\ Len(got') \in Nat
  BY <1>1, <1>4
<1>8. Accounted'
  <2>1. at' <= written' /\ written' = written
    BY <1>1, <1>3 DEF Follow
  <2>2. Len(got') + lost' = at'
    <3>1. Len(got) + lost = at
      BY DEF StreamInv, Accounted
    <3>2. Len(got') = Len(got) + count /\ lost' = lost + gap /\ at' = at + gap + count
      BY <1>3, <1>4
    <3> QED
      BY <3>1, <3>2, <1>1, <1>7
  <2>3. \A i \in 1..Len(got') : got'[i] <= at'
    BY <1>1, <1>3, <1>4, <1>5, <1>6, <1>7
  <2>4. ~known /\ known' = known
    BY DEF Follow
  <2> QED
    BY <2>1, <2>2, <2>3, <2>4 DEF Accounted
<1>9. InOrder'
  <2> SUFFICES ASSUME NEW i \in 1..Len(got'), NEW j \in 1..Len(got'), i < j
               PROVE  got'[i] < got'[j]
    BY DEF InOrder
  <2>1. CASE j <= Len(got)
    <3>1. i \in 1..Len(got) /\ j \in 1..Len(got)
      BY <2>1, <1>7
    <3> QED
      BY <3>1, <1>5 DEF StreamInv, InOrder
  <2>2. CASE i <= Len(got) /\ j > Len(got)
    <3>1. i \in 1..Len(got) /\ j \in (Len(got) + 1)..Len(got')
      BY <2>2, <1>7
    <3>2. got'[i] \in Nat /\ got'[i] <= at
      BY <3>1, <1>5
    <3>3. got'[j] = at + gap + (j - Len(got)) /\ j - Len(got) \in Nat /\ j - Len(got) > 0
      BY <3>1, <1>6, <1>7
    <3> QED
      BY <3>2, <3>3, <1>1
  <2>3. CASE i > Len(got)
    BY <2>3, <1>1, <1>6, <1>7
  <2> QED
    BY <2>1, <2>2, <2>3, <1>7
<1>10. StreamTypeOK'
  BY <1>1, <1>3, <1>4 DEF StreamInv, StreamTypeOK, Follow
<1> QED
  BY <1>8, <1>9, <1>10 DEF StreamInv

\* The other steps touch neither what arrived nor how far the host is.
LEMMA StreamStep == StreamInv /\ [StreamNext]_svars => StreamInv'
<1> SUFFICES ASSUME StreamInv, [StreamNext]_svars PROVE StreamInv'
  OBVIOUS
<1>1. CASE Produce
  BY <1>1 DEF StreamInv, StreamTypeOK, Accounted, InOrder, Produce
<1>2. CASE EndOfOutput
  BY <1>2 DEF StreamInv, StreamTypeOK, Accounted, InOrder, EndOfOutput
<1>3. CASE \E gap, count \in 0..(written - at) : Follow(gap, count)
  <2>1. PICK gap \in 0..(written - at), count \in 0..(written - at) : Follow(gap, count)
    BY <1>3
  <2>2. gap \in Nat /\ count \in Nat
    BY DEF StreamInv, StreamTypeOK
  <2> QED
    BY <2>1, <2>2, FollowInv
<1>4. CASE LearnEnd
  BY <1>4 DEF StreamInv, StreamTypeOK, Accounted, InOrder, LearnEnd
<1>5. CASE UNCHANGED svars
  BY <1>5 DEF StreamInv, StreamTypeOK, Accounted, InOrder, svars
<1> QED
  BY <1>1, <1>2, <1>3, <1>4, <1>5 DEF StreamNext

\* A stream of the host's (session.rs: deliver, gap, finish) has every byte at
\* most once and in order, and when its end is known every byte the process
\* wrote was received or counted as lost.
THEOREM StreamAccounted ==
  StreamSpec => [](InOrder /\ (known => Len(got) + lost = written))
<1>1. StreamInit => StreamInv
  BY InitInv
<1>2. StreamInv => InOrder /\ (known => Len(got) + lost = written)
  BY DEF StreamInv, Accounted
<1> QED
  BY <1>1, <1>2, StreamStep, PTL DEF StreamSpec, svars
=============================================================================
