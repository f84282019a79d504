-------------------------- MODULE SelectionLemmas --------------------------
(***************************************************************************)
(* Induction over the naturals and over sequences, in terms of sets, and   *)
(* what it shows of Selection.                                             *)
(***************************************************************************)
EXTENDS Selection, SequenceTheorems, WellFoundedInduction, TLAPS

\* Every non-empty set of naturals has a least element.
LEMMA LeastNatural ==
  ASSUME NEW S, S \subseteq Nat, S # {}
  PROVE  \E x \in S : \A y \in S : ~(y < x)
<1>1. IsWellFoundedOn(OpToRel(<, Nat), Nat)
  BY NatLessThanWellFounded
<1>2. PICK x \in S : \A y \in S : <<y, x>> \notin OpToRel(<, Nat)
  BY <1>1, WFMin, Zenon
<1>3. ASSUME NEW y \in S, y < x PROVE <<y, x>> \in OpToRel(<, Nat)
  BY <1>3 DEF OpToRel
<1> QED  BY <1>2, <1>3

\* Induction over the naturals.
LEMMA NaturalsInSet ==
  ASSUME NEW S, 0 \in S, \A n \in Nat : n \in S => n + 1 \in S
  PROVE  Nat \subseteq S
<1> SUFFICES ASSUME Nat \ S # {} PROVE FALSE
  OBVIOUS
<1>1. PICK x \in Nat \ S : \A y \in Nat \ S : ~(y < x)
  BY LeastNatural
<1>2. x - 1 \in Nat /\ x - 1 < x
  BY <1>1
<1>3. x - 1 \in S
  BY <1>1, <1>2
<1> QED  BY <1>1, <1>2, <1>3

\* Induction over the sequences on a set, by what is appended to them.
LEMMA SequencesInSet ==
  ASSUME NEW T, NEW S, <<>> \in S,
         \A s \in Seq(T), x \in T : s \in S => Append(s, x) \in S
  PROVE  Seq(T) \subseteq S
<1> DEFINE Lengths == {n \in Nat : \A s \in Seq(T) : Len(s) = n => s \in S}
<1>1. 0 \in Lengths
  BY EmptySeq
<1>2. ASSUME NEW n \in Nat, n \in Lengths PROVE n + 1 \in Lengths
  <2> SUFFICES ASSUME NEW s \in Seq(T), Len(s) = n + 1 PROVE s \in S
    OBVIOUS
  <2> DEFINE front == SubSeq(s, 1, n)
  <2>1. front \in Seq(T) /\ Len(front) = n /\ s[n + 1] \in T
    BY LenProperties, SubSeqProperties
  <2>2. s = Append(front, s[n + 1])
    <3>1. Append(front, s[n + 1]) \in Seq(T) /\ Len(Append(front, s[n + 1])) = n + 1
      BY <2>1, AppendProperties
    <3>2. ASSUME NEW k \in 1..(n + 1) PROVE Append(front, s[n + 1])[k] = s[k]
      BY <2>1, AppendProperties, SubSeqProperties
    <3> QED  BY <3>1, <3>2, SeqEqual
  <2> QED  BY <1>2, <2>1, <2>2
<1> HIDE DEF Lengths
<1>3. Nat \subseteq Lengths
  BY <1>1, <1>2, NaturalsInSet
<1> QED  BY <1>3, LenProperties DEF Lengths

-----------------------------------------------------------------------------
(* Only.                                                                   *)

\* One step of it.
Taken(before, x, S) == IF x \in S THEN Append(before, x) ELSE before

\* f is what Only computes, up to the place m of s.
IsKept(f, m, s, S) ==
  /\ f[0] = <<>>
  /\ \A n \in 1..m : f[n] = Taken(f[n - 1], s[n], S)

KeptOf(m, s, T, S) == {f \in [0..m -> Seq(T)] : IsKept(f, m, s, S)}

\* It can be computed up to any place of the sequence.
LEMMA KeptExists ==
  ASSUME NEW T, NEW s \in Seq(T), NEW S
  PROVE  KeptOf(Len(s), s, T, S) # {}
<1> DEFINE Reached == {m \in Nat : m <= Len(s) => KeptOf(m, s, T, S) # {}}
<1>0. Len(s) \in Nat /\ \A n \in 1..Len(s) : s[n] \in T
  BY LenProperties
<1>1. 0 \in Reached
  <2>1. [n \in 0..0 |-> <<>>] \in KeptOf(0, s, T, S)
    BY EmptySeq DEF KeptOf, IsKept
  <2> QED  BY <2>1
<1>2. ASSUME NEW m \in Nat, m \in Reached PROVE m + 1 \in Reached
  <2>0. SUFFICES ASSUME m + 1 <= Len(s) PROVE KeptOf(m + 1, s, T, S) # {}
    OBVIOUS
  <2>1. PICK f : f \in KeptOf(m, s, T, S)
    BY <1>2, <1>0, <2>0
  <2>2. f \in [0..m -> Seq(T)] /\ IsKept(f, m, s, S)
    BY <2>1 DEF KeptOf
  <2> DEFINE last == Taken(f[m], s[m + 1], S)
             g == [n \in 0..(m + 1) |-> IF n = m + 1 THEN last ELSE f[n]]
  <2>3. last \in Seq(T)
    BY <2>0, <2>2, <1>0, AppendProperties DEF Taken
  <2>4. g \in [0..(m + 1) -> Seq(T)] /\ g[0] = <<>>
    BY <2>2, <2>3 DEF IsKept
  <2>5. ASSUME NEW n \in 1..(m + 1) PROVE g[n] = Taken(g[n - 1], s[n], S)
    <3>1. n - 1 \in 0..m /\ g[n - 1] = f[n - 1]
      BY <2>2
    <3>2. CASE n = m + 1
      BY <3>1, <3>2
    <3>3. CASE n \in 1..m
      BY <3>1, <3>3, <2>2 DEF IsKept
    <3> QED  BY <3>2, <3>3
  <2>6. g \in KeptOf(m + 1, s, T, S)
    BY <2>4, <2>5 DEF KeptOf, IsKept
  <2> QED  BY <2>6
<1> HIDE DEF Reached
<1>3. Nat \subseteq Reached
  BY <1>1, <1>2, NaturalsInSet
<1> QED  BY <1>0, <1>3 DEF Reached

\* Two that compute it agree as far as both go.
LEMMA KeptAgree ==
  ASSUME NEW S, NEW s, NEW t, NEW m \in Nat, \A n \in 1..m : s[n] = t[n],
         NEW f, NEW g, IsKept(f, m, s, S), IsKept(g, m, t, S)
  PROVE  f[m] = g[m]
<1> DEFINE Agree == {n \in Nat : n <= m => f[n] = g[n]}
<1>1. 0 \in Agree
  BY DEF IsKept
<1>2. ASSUME NEW n \in Nat, n \in Agree PROVE n + 1 \in Agree
  <2> SUFFICES ASSUME n + 1 <= m PROVE f[n + 1] = g[n + 1]
    OBVIOUS
  <2>1. n + 1 \in 1..m /\ (n + 1) - 1 = n /\ f[n] = g[n]
    BY <1>2
  <2> QED  BY <2>1 DEF IsKept
<1> HIDE DEF Agree
<1>3. Nat \subseteq Agree
  BY <1>1, <1>2, NaturalsInSet
<1> QED  BY <1>3 DEF Agree

\* Only is what is computed.
LEMMA OnlyIsKept ==
  ASSUME NEW T, NEW s \in Seq(T), NEW S
  PROVE  \A f \in KeptOf(Len(s), s, T, S) : Only(s, S) = f[Len(s)]
<1> DEFINE Step(f) ==
      [n \in 0..Len(s) |->
         IF n = 0 THEN <<>>
         ELSE IF s[n] \in S THEN Append(f[n - 1], s[n]) ELSE f[n - 1]]
<1>0. Len(s) \in Nat
  BY LenProperties
<1> SUFFICES ASSUME NEW f \in KeptOf(Len(s), s, T, S) PROVE Only(s, S) = f[Len(s)]
  OBVIOUS
<1>1. f \in [0..Len(s) -> Seq(T)] /\ IsKept(f, Len(s), s, S)
  BY DEF KeptOf
<1>2. f = Step(f)
  <2>1. ASSUME NEW n \in 0..Len(s) PROVE f[n] = Step(f)[n]
    <3>1. CASE n = 0
      BY <3>1, <1>1 DEF IsKept
    <3>2. CASE n \in 1..Len(s)
      <4>1. f[n] = Taken(f[n - 1], s[n], S)
        BY <3>2, <1>1 DEF IsKept
      <4> QED  BY <4>1, <3>2, <1>0 DEF Taken
    <3> QED  BY <3>1, <3>2, <1>0
  <2> QED  BY <1>1, <2>1
<1> DEFINE g == CHOOSE h : h = Step(h)
<1>3. g = Step(g)
  <2> HIDE DEF Step
  <2> QED  BY <1>2
<1>4. Only(s, S) = g[Len(s)]
  BY DEF Only
<1> HIDE DEF g
<1>5. IsKept(g, Len(s), s, S)
  <2>0. 0 \in 0..Len(s) /\ \A n \in 1..Len(s) : n \in 0..Len(s) /\ n # 0
    BY <1>0
  <2>1. \A n \in 0..Len(s) : g[n] = Step(g)[n]
    BY <1>3
  <2>2. g[0] = <<>>
    BY <2>0, <2>1
  <2>3. ASSUME NEW n \in 1..Len(s) PROVE g[n] = Taken(g[n - 1], s[n], S)
    BY <2>0, <2>1 DEF Taken
  <2> HIDE DEF Step
  <2> QED  BY <2>2, <2>3 DEF IsKept
<1> QED  BY <1>0, <1>1, <1>4, <1>5, KeptAgree

\* Nothing is left of nothing.
LEMMA OnlyOfEmpty ==
  ASSUME NEW S
  PROVE  Only(<<>>, S) = <<>>
<1>1. <<>> \in Seq({}) /\ Len(<<>>) = 0
  BY EmptySeq
<1>2. PICK f : f \in KeptOf(Len(<<>>), <<>>, {}, S)
  BY <1>1, KeptExists
<1>3. f[0] = <<>>
  BY <1>2 DEF KeptOf, IsKept
<1>4. Only(<<>>, S) = f[Len(<<>>)]
  BY <1>1, <1>2, OnlyIsKept
<1> QED  BY <1>1, <1>3, <1>4

\* What is left of a longer sequence.
LEMMA OnlyOfAppend ==
  ASSUME NEW T, NEW s \in Seq(T), NEW x \in T, NEW S
  PROVE  Only(Append(s, x), S) = Taken(Only(s, S), x, S)
<1> DEFINE t == Append(s, x)
<1>0. /\ t \in Seq(T) /\ Len(s) \in Nat /\ Len(t) = Len(s) + 1
      /\ t[Len(t)] = x /\ \A n \in 1..Len(s) : s[n] = t[n]
  BY AppendProperties, LenProperties
<1>1. PICK f : f \in KeptOf(Len(s), s, T, S)
  BY KeptExists
<1>2. Only(s, S) = f[Len(s)] /\ IsKept(f, Len(s), s, S)
  BY <1>1, OnlyIsKept DEF KeptOf
<1> HIDE DEF t
<1>3. PICK g : g \in KeptOf(Len(t), t, T, S)
  BY <1>0, KeptExists
<1>4. Only(t, S) = g[Len(t)] /\ IsKept(g, Len(t), t, S)
  BY <1>0, <1>3, OnlyIsKept DEF KeptOf
<1>5. IsKept(g, Len(s), t, S)
  BY <1>0, <1>4 DEF IsKept
<1>6. f[Len(s)] = g[Len(s)]
  BY <1>0, <1>2, <1>5, KeptAgree
<1>7. g[Len(t)] = Taken(g[Len(s)], x, S)
  <2>1. Len(t) \in 1..Len(t) /\ Len(t) - 1 = Len(s)
    BY <1>0
  <2> QED  BY <2>1, <1>0, <1>4 DEF IsKept
<1> QED  BY <1>2, <1>4, <1>6, <1>7 DEF t

\* o is no longer than s, and has elements of s that are in S.
Drawn(o, s, S) ==
  /\ Len(o) <= Len(s)
  /\ \A k \in 1..Len(o) : o[k] \in S /\ \E j \in 1..Len(s) : o[k] = s[j]

\* So is what is left of s.
LEMMA OnlyIsDrawn ==
  ASSUME NEW T, NEW s \in Seq(T), NEW S
  PROVE  Only(s, S) \in Seq(T) /\ Drawn(Only(s, S), s, S)
<1> DEFINE Good == {t \in Seq(T) : Only(t, S) \in Seq(T) /\ Drawn(Only(t, S), t, S)}
<1>1. <<>> \in Good
  <2>1. <<>> \in Seq(T) /\ Len(<<>>) = 0 /\ Only(<<>>, S) = <<>>
    BY OnlyOfEmpty, EmptySeq
  <2>2. Drawn(<<>>, <<>>, S)
    BY <2>1 DEF Drawn
  <2> QED  BY <2>1, <2>2
<1>2. ASSUME NEW t \in Seq(T), NEW x \in T, t \in Good PROVE Append(t, x) \in Good
  <2> DEFINE u == Append(t, x)
             o == Only(t, S)
  <2>1. /\ u \in Seq(T) /\ Len(t) \in Nat /\ Len(u) = Len(t) + 1
        /\ u[Len(u)] = x /\ \A n \in 1..Len(t) : u[n] = t[n]
    BY AppendProperties, LenProperties
  <2>2. o \in Seq(T) /\ Len(o) \in Nat /\ Drawn(o, t, S)
    BY <1>2, LenProperties
  <2>3. Only(u, S) = Taken(o, x, S)
    BY OnlyOfAppend
  <2> HIDE DEF u, o
  <2>4. CASE x \notin S
    <3>1. Only(u, S) = o
      BY <2>3, <2>4 DEF Taken
    <3>2. Drawn(o, u, S)
      <4>1. ASSUME NEW k \in 1..Len(o) PROVE o[k] \in S /\ \E j \in 1..Len(u) : o[k] = u[j]
        BY <2>1, <2>2 DEF Drawn
      <4>2. Len(o) <= Len(u)
        BY <2>1, <2>2 DEF Drawn
      <4> QED  BY <4>1, <4>2 DEF Drawn
    <3> QED  BY <3>1, <3>2, <2>1, <2>2 DEF u
  <2>5. CASE x \in S
    <3>1. Only(u, S) = Append(o, x)
      BY <2>3, <2>5 DEF Taken
    <3>2. /\ Append(o, x) \in Seq(T) /\ Len(Append(o, x)) = Len(o) + 1
          /\ Append(o, x)[Len(o) + 1] = x /\ \A n \in 1..Len(o) : Append(o, x)[n] = o[n]
      BY <2>1, <2>2, AppendProperties
    <3>3. ASSUME NEW k \in 1..(Len(o) + 1)
          PROVE  Append(o, x)[k] \in S /\ \E j \in 1..Len(u) : Append(o, x)[k] = u[j]
      <4>1. CASE k = Len(o) + 1
        BY <4>1, <3>2, <2>1, <2>5
      <4>2. CASE k \in 1..Len(o)
        BY <4>2, <3>2, <2>1, <2>2 DEF Drawn
      <4> QED  BY <4>1, <4>2, <2>2
    <3>4. Drawn(Append(o, x), u, S)
      BY <3>2, <3>3, <2>1, <2>2 DEF Drawn
    <3> QED  BY <3>1, <3>2, <3>4, <2>1 DEF u
  <2> QED  BY <2>4, <2>5
<1> HIDE DEF Good
<1>3. Seq(T) \subseteq Good
  BY <1>1, <1>2, SequencesInSet
<1> QED  BY <1>3 DEF Good
=============================================================================
