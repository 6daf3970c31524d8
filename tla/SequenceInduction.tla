-------------------------- MODULE SequenceInduction --------------------------
(***************************************************************************)
(* Induction over the natural numbers and over sequences.  A statement is  *)
(* a set here, not an operator: a set of numbers has a least element, so a *)
(* set that holds 0 and the successor of each of its numbers holds them    *)
(* all, and likewise for sequences, by their length.                       *)
(***************************************************************************)
EXTENDS SequenceFilter, SequenceTheorems, WellFoundedInduction, TLAPS

\* Every set of natural numbers that is not empty has a least element.
LEMMA LeastNumber ==
  ASSUME NEW T, T \subseteq Nat, T # {}
  PROVE  \E n \in T : \A m \in T : ~(m < n)
<1>1. IsWellFoundedOn(OpToRel(<, Nat), Nat)
  BY NatLessThanWellFounded
<1>2. \E n \in T : \A m \in T : ~(<<m, n>> \in OpToRel(<, Nat))
  BY <1>1, WFMin
<1> QED  BY <1>2 DEF OpToRel

\* Induction over the natural numbers.
LEMMA SetInduction ==
  ASSUME NEW T, 0 \in T, \A n \in Nat : n \in T => n + 1 \in T
  PROVE  \A n \in Nat : n \in T
<1> SUFFICES ASSUME NEW k \in Nat, k \notin T PROVE FALSE
  OBVIOUS
<1>1. PICK n \in Nat \ T : \A m \in Nat \ T : ~(m < n)
  BY LeastNumber
<1>2. n # 0 /\ n - 1 \in Nat /\ n - 1 < n
  BY <1>1
<1>3. n - 1 \in T
  BY <1>1, <1>2
<1> QED  BY <1>1, <1>2, <1>3

\* Induction over the sequences of a set.
LEMMA SeqInduction ==
  ASSUME NEW E, NEW T, <<>> \in T,
         \A s \in Seq(E), e \in E : s \in T => Append(s, e) \in T
  PROVE  \A s \in Seq(E) : s \in T
<1> DEFINE L == {n \in Nat : \A s \in Seq(E) : Len(s) = n => s \in T}
<1>1. 0 \in L
  BY EmptySeq
<1>2. ASSUME NEW n \in Nat, n \in L PROVE n + 1 \in L
  <2> SUFFICES ASSUME NEW s \in Seq(E), Len(s) = n + 1 PROVE s \in T
    OBVIOUS
  <2>1. s # <<>>
    BY EmptySeq
  <2>2. PICK r \in Seq(E), e \in E : s = Append(r, e)
    BY <2>1, SequenceEmptyOrAppend
  <2>3. Len(r) = n
    BY <2>2, AppendProperties, LenProperties
  <2> QED  BY <1>2, <2>2, <2>3
<1> HIDE DEF L
<1>3. \A n \in Nat : n \in L
  BY <1>1, <1>2, SetInduction
<1> QED  BY <1>3, LenProperties DEF L

-----------------------------------------------------------------------------
(* What Keep does *)

\* g solves the recursion of KeptUpTo on 0..n.
KeepRule(g, s, S, n) ==
  g = [i \in 0..n |-> IF i = 0 THEN <<>>
                      ELSE IF s[i] \in S THEN Append(g[i - 1], s[i]) ELSE g[i - 1]]

\* The recursion of KeptUpTo has a solution on every 0..k.
LEMMA KeepRuleHasSolution ==
  ASSUME NEW s, NEW S, NEW k \in Nat
  PROVE  \E g : KeepRule(g, s, S, k)
<1> DEFINE T == {n \in Nat : \E g : KeepRule(g, s, S, n)}
<1>1. 0 \in T
  <2> DEFINE g == [i \in 0..0 |-> <<>>]
  <2>1. KeepRule(g, s, S, 0)
    BY DEF KeepRule
  <2> QED  BY <2>1
<1>2. ASSUME NEW n \in Nat, n \in T PROVE n + 1 \in T
  <2>1. PICK g : KeepRule(g, s, S, n)
    BY <1>2
  <2> DEFINE h == [i \in 0..(n + 1) |-> IF i = n + 1
                      THEN (IF s[i] \in S THEN Append(g[n], s[i]) ELSE g[n]) ELSE g[i]]
  <2>2. \A i \in 0..n : h[i] = g[i]
    OBVIOUS
  <2>3. \A i \in 0..(n + 1) :
          h[i] = IF i = 0 THEN <<>> ELSE IF s[i] \in S THEN Append(h[i - 1], s[i]) ELSE h[i - 1]
    <3>1. \A i \in 0..n :
            g[i] = IF i = 0 THEN <<>> ELSE IF s[i] \in S THEN Append(g[i - 1], s[i]) ELSE g[i - 1]
      BY <2>1 DEF KeepRule
    <3>2. h[n + 1] = IF s[n + 1] \in S THEN Append(g[n], s[n + 1]) ELSE g[n]
      OBVIOUS
    <3> HIDE DEF h
    <3>3. TAKE i \in 0..(n + 1)
    <3>4. CASE i = n + 1
      BY <2>2, <3>2, <3>4
    <3>5. CASE i \in 0..n
      <4>1. i # 0 => i - 1 \in 0..n
        BY <3>5
      <4> QED  BY <2>2, <3>1, <3>5, <4>1
    <3> QED  BY <3>4, <3>5
  <2>4. KeepRule(h, s, S, n + 1)
    BY <2>3 DEF KeepRule
  <2> QED  BY <2>4
<1> HIDE DEF T
<1>3. k \in T
  BY <1>1, <1>2, SetInduction
<1> QED  BY <1>3 DEF T

\* KeptUpTo solves it.
LEMMA KeptUpToRule ==
  ASSUME NEW s, NEW S, Len(s) \in Nat
  PROVE  KeepRule(KeptUpTo(s, S), s, S, Len(s))
<1>1. \E g : KeepRule(g, s, S, Len(s))
  BY KeepRuleHasSolution
<1>2. KeptUpTo(s, S) = CHOOSE g : KeepRule(g, s, S, Len(s))
  BY DEF KeptUpTo, KeepRule
<1> QED  BY <1>1, <1>2

\* The recursion, written out.
LEMMA KeepEquations ==
  ASSUME NEW E, NEW s \in Seq(E), NEW S
  PROVE  /\ KeptUpTo(s, S)[0] = <<>>
         /\ \A i \in 1..Len(s) :
              KeptUpTo(s, S)[i] = IF s[i] \in S THEN Append(KeptUpTo(s, S)[i - 1], s[i])
                                  ELSE KeptUpTo(s, S)[i - 1]
<1> DEFINE g == KeptUpTo(s, S)
<1>1. KeepRule(g, s, S, Len(s)) /\ Len(s) \in Nat
  BY KeptUpToRule
<1> HIDE DEF g
<1>2. \A i \in 0..Len(s) :
         g[i] = IF i = 0 THEN <<>> ELSE IF s[i] \in S THEN Append(g[i - 1], s[i]) ELSE g[i - 1]
  BY <1>1 DEF KeepRule
<1>3. g[0] = <<>>
  BY <1>1, <1>2
<1>4. \A i \in 1..Len(s) : g[i] = IF s[i] \in S THEN Append(g[i - 1], s[i]) ELSE g[i - 1]
  BY <1>1, <1>2
<1> QED  BY <1>3, <1>4 DEF g

\* Two sequences that agree up to n keep the same up to n.
LEMMA KeepAgrees ==
  ASSUME NEW E, NEW s \in Seq(E), NEW r \in Seq(E), NEW S, NEW k \in Nat,
         k <= Len(s), k <= Len(r), \A i \in 1..k : s[i] = r[i]
  PROVE  KeptUpTo(s, S)[k] = KeptUpTo(r, S)[k]
<1> DEFINE T == {n \in Nat : n <= k => KeptUpTo(s, S)[n] = KeptUpTo(r, S)[n]}
<1>1. 0 \in T
  BY KeepEquations
<1>2. ASSUME NEW n \in Nat, n \in T PROVE n + 1 \in T
  <2> SUFFICES ASSUME n + 1 <= k PROVE KeptUpTo(s, S)[n + 1] = KeptUpTo(r, S)[n + 1]
    OBVIOUS
  <2>1. KeptUpTo(s, S)[n] = KeptUpTo(r, S)[n]
    BY <1>2
  <2>2. n + 1 \in 1..Len(s) /\ n + 1 \in 1..Len(r) /\ (n + 1) - 1 = n /\ s[n + 1] = r[n + 1]
    OBVIOUS
  <2>3. KeptUpTo(s, S)[n + 1] = IF s[n + 1] \in S THEN Append(KeptUpTo(s, S)[n], s[n + 1])
                                ELSE KeptUpTo(s, S)[n]
    BY <2>2, KeepEquations
  <2>4. KeptUpTo(r, S)[n + 1] = IF r[n + 1] \in S THEN Append(KeptUpTo(r, S)[n], r[n + 1])
                                ELSE KeptUpTo(r, S)[n]
    BY <2>2, KeepEquations
  <2> QED  BY <2>1, <2>2, <2>3, <2>4
<1> HIDE DEF T
<1>3. k \in T
  BY <1>1, <1>2, SetInduction
<1> QED  BY <1>3 DEF T

\* Nothing is kept of nothing.
LEMMA KeepEmpty == ASSUME NEW S PROVE Keep(<<>>, S) = <<>>
  BY KeepEquations, EmptySeq DEF Keep

\* The last element is kept if it is in S.
LEMMA KeepAppend ==
  ASSUME NEW E, NEW s \in Seq(E), NEW e \in E, NEW S
  PROVE  Keep(Append(s, e), S) = IF e \in S THEN Append(Keep(s, S), e) ELSE Keep(s, S)
<1> DEFINE r == Append(s, e)
<1>1. r \in Seq(E) /\ Len(r) = Len(s) + 1 /\ r[Len(s) + 1] = e /\ \A i \in 1..Len(s) : r[i] = s[i]
  BY AppendProperties
<1> HIDE DEF r
<1>2. Len(s) \in Nat /\ Len(s) + 1 \in 1..Len(r) /\ (Len(s) + 1) - 1 = Len(s)
  BY <1>1, LenProperties
<1>3. KeptUpTo(r, S)[Len(s) + 1] = IF e \in S THEN Append(KeptUpTo(r, S)[Len(s)], e)
                                   ELSE KeptUpTo(r, S)[Len(s)]
  BY <1>1, <1>2, KeepEquations
<1>4. KeptUpTo(r, S)[Len(s)] = KeptUpTo(s, S)[Len(s)]
  BY <1>1, <1>2, KeepAgrees
<1> QED  BY <1>1, <1>3, <1>4 DEF Keep, r

\* What is kept is in S.
LEMMA KeepType ==
  ASSUME NEW E, NEW S
  PROVE  \A s \in Seq(E) : Keep(s, S) \in Seq(E \cap S)
<1> DEFINE T == {s \in Seq(E) : Keep(s, S) \in Seq(E \cap S)}
<1>1. <<>> \in T
  BY KeepEmpty, EmptySeq
<1>2. ASSUME NEW s \in Seq(E), NEW e \in E, s \in T PROVE Append(s, e) \in T
  <2>1. Append(s, e) \in Seq(E)
    BY AppendProperties
  <2>2. Keep(Append(s, e), S) = IF e \in S THEN Append(Keep(s, S), e) ELSE Keep(s, S)
    BY KeepAppend
  <2>3. Keep(s, S) \in Seq(E \cap S)
    BY <1>2
  <2>4. e \in S => Append(Keep(s, S), e) \in Seq(E \cap S)
    BY <2>3
  <2>5. Keep(Append(s, e), S) \in Seq(E \cap S)
    BY <2>2, <2>3, <2>4
  <2> QED  BY <2>1, <2>5
<1> HIDE DEF T
<1>3. \A s \in Seq(E) : s \in T
  BY <1>1, <1>2, SeqInduction
<1> QED  BY <1>3 DEF T

\* Keep distributes over concatenation.
LEMMA KeepConcat ==
  ASSUME NEW E, NEW S, NEW r \in Seq(E)
  PROVE  \A s \in Seq(E) : Keep(r \o s, S) = Keep(r, S) \o Keep(s, S)
<1> DEFINE T == {s \in Seq(E) : Keep(r \o s, S) = Keep(r, S) \o Keep(s, S)}
<1>0. Keep(r, S) \in Seq(E \cap S)
  BY KeepType
<1>1. <<>> \in T
  BY <1>0, KeepEmpty, EmptySeq, ConcatEmptySeq
<1>2. ASSUME NEW s \in Seq(E), NEW e \in E, s \in T PROVE Append(s, e) \in T
  <2>1. Append(s, e) \in Seq(E) /\ r \o s \in Seq(E) /\ Append(s, e) = s \o <<e>>
    BY AppendProperties, ConcatProperties, AppendIsConcat
  <2>2. r \o Append(s, e) = Append(r \o s, e)
    OBVIOUS
  <2>3. Keep(Append(r \o s, e), S) = IF e \in S THEN Append(Keep(r \o s, S), e) ELSE Keep(r \o s, S)
    BY <2>1, KeepAppend
  <2>4. Keep(Append(s, e), S) = IF e \in S THEN Append(Keep(s, S), e) ELSE Keep(s, S)
    BY KeepAppend
  <2>5. Keep(s, S) \in Seq(E \cap S)
    BY KeepType
  <2>6. e \in S => Keep(r, S) \o Append(Keep(s, S), e) = Append(Keep(r, S) \o Keep(s, S), e)
    BY <1>0, <2>5
  <2> QED  BY <1>2, <2>1, <2>2, <2>3, <2>4, <2>6
<1> HIDE DEF T
<1>3. \A s \in Seq(E) : s \in T
  BY <1>1, <1>2, SeqInduction
<1> QED  BY <1>3 DEF T

\* Keep leaves alone what is all in S.
LEMMA KeepAll ==
  ASSUME NEW E, NEW S
  PROVE  \A s \in Seq(E \cap S) : Keep(s, S) = s
<1> DEFINE T == {s \in Seq(E \cap S) : Keep(s, S) = s}
<1>1. <<>> \in T
  BY KeepEmpty, EmptySeq
<1>2. ASSUME NEW s \in Seq(E \cap S), NEW e \in E \cap S, s \in T PROVE Append(s, e) \in T
  BY <1>2, KeepAppend, AppendProperties
<1> HIDE DEF T
<1>3. \A s \in Seq(E \cap S) : s \in T
  BY <1>1, <1>2, SeqInduction
<1> QED  BY <1>3 DEF T

\* It leaves nothing of what is all outside S.
LEMMA KeepNone ==
  ASSUME NEW E, NEW S, E \cap S = {}
  PROVE  \A s \in Seq(E) : Keep(s, S) = <<>>
<1> DEFINE T == {s \in Seq(E) : Keep(s, S) = <<>>}
<1>1. <<>> \in T
  BY KeepEmpty, EmptySeq
<1>2. ASSUME NEW s \in Seq(E), NEW e \in E, s \in T PROVE Append(s, e) \in T
  BY <1>2, KeepAppend, AppendProperties
<1> HIDE DEF T
<1>3. \A s \in Seq(E) : s \in T
  BY <1>1, <1>2, SeqInduction
<1> QED  BY <1>3 DEF T

\* A sequence keeps something of S exactly when it has something of S.
LEMMA KeepSome ==
  ASSUME NEW E, NEW S
  PROVE  \A s \in Seq(E) : (Keep(s, S) = <<>>) <=> \A i \in 1..Len(s) : s[i] \notin S
<1> DEFINE T == {s \in Seq(E) : (Keep(s, S) = <<>>) <=> \A i \in 1..Len(s) : s[i] \notin S}
<1>1. <<>> \in T
  BY KeepEmpty, EmptySeq
<1>2. ASSUME NEW s \in Seq(E), NEW e \in E, s \in T PROVE Append(s, e) \in T
  <2>1. /\ Append(s, e) \in Seq(E) /\ Len(Append(s, e)) = Len(s) + 1
        /\ Append(s, e)[Len(s) + 1] = e /\ \A i \in 1..Len(s) : Append(s, e)[i] = s[i]
        /\ Len(s) \in Nat
    BY AppendProperties, LenProperties
  <2>2. Keep(Append(s, e), S) = IF e \in S THEN Append(Keep(s, S), e) ELSE Keep(s, S)
    BY KeepAppend
  <2>3. Append(Keep(s, S), e) # <<>>
    <3>1. Keep(s, S) \in Seq(E \cap S)
      BY KeepType
    <3>2. Keep(s, S) \in Seq((E \cap S) \cup {e})
      BY <3>1, SeqMonotonic
    <3> QED  BY <3>2, AppendProperties
  <2>4. CASE e \in S
    <3>1. Len(s) + 1 \in 1..(Len(s) + 1)
      BY <2>1
    <3> QED  BY <2>1, <2>2, <2>3, <2>4, <3>1
  <2>5. CASE e \notin S
    <3>1. (\A i \in 1..(Len(s) + 1) : Append(s, e)[i] \notin S) <=> \A i \in 1..Len(s) : s[i] \notin S
      BY <2>1, <2>5
    <3> QED  BY <1>2, <2>1, <2>2, <2>5, <3>1
  <2> QED  BY <2>4, <2>5
<1> HIDE DEF T
<1>3. \A s \in Seq(E) : s \in T
  BY <1>1, <1>2, SeqInduction
<1> QED  BY <1>3 DEF T
=============================================================================
