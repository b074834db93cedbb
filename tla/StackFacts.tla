----------------------------- MODULE StackFacts -----------------------------
(***************************************************************************)
(* A stack is a sequence whose last item is its top: what pushing, popping *)
(* and replacing the top do.  Then induction over the naturals, for a set  *)
(* in place of a predicate.                                                *)
(***************************************************************************)
EXTENDS SequencesExt, TLAPS, SequenceTheorems, FiniteSetTheorems

LEMMA AppendItem ==
    ASSUME NEW S, NEW s \in Seq(S), NEW e \in S
    PROVE  /\ Append(s, e) \in Seq(S)
           /\ Append(s, e) # <<>>
           /\ Len(Append(s, e)) = Len(s) + 1
           /\ \A i \in 1..Len(s) : Append(s, e)[i] = s[i]
           /\ Append(s, e)[Len(s) + 1] = e
<1>1. Len(s) \in Nat
  BY LenProperties
<1>2. /\ Append(s, e) \in Seq(S)
      /\ Len(Append(s, e)) = Len(s) + 1
      /\ \A i \in 1..Len(s) : Append(s, e)[i] = s[i]
      /\ Append(s, e)[Len(s) + 1] = e
  BY AppendProperties
<1> QED
  BY <1>1, <1>2, EmptySeq

LEMMA FrontItems ==
    ASSUME NEW S, NEW s \in Seq(S), s # <<>>
    PROVE  /\ Len(s) \in Nat \ {0}
           /\ s[Len(s)] \in S
           /\ Front(s) \in Seq(S)
           /\ Len(Front(s)) = Len(s) - 1
           /\ \A i \in 1..(Len(s) - 1) : Front(s)[i] = s[i]
           /\ Front(s) = <<>> <=> Len(s) = 1
<1>1. /\ Len(s) \in Nat \ {0}
      /\ \A i \in 1..(Len(s) - 1) : s[i] \in S
      /\ s[Len(s)] \in S
  BY LenProperties, ElementOfSeq, EmptySeq
<1>2. /\ SubSeq(s, 1, Len(s) - 1) \in Seq(S)
      /\ Len(SubSeq(s, 1, Len(s) - 1)) = IF 1 <= Len(s) - 1 THEN Len(s) - 1 - 1 + 1 ELSE 0
      /\ \A i \in 1..(Len(s) - 1 - 1 + 1) : SubSeq(s, 1, Len(s) - 1)[i] = s[1 + i - 1]
  BY <1>1, SubSeqProperties
<1>3. /\ SubSeq(s, 1, Len(s) - 1) \in Seq(S)
      /\ Len(SubSeq(s, 1, Len(s) - 1)) = Len(s) - 1
      /\ \A i \in 1..(Len(s) - 1) : SubSeq(s, 1, Len(s) - 1)[i] = s[i]
  <2> DEFINE f == SubSeq(s, 1, Len(s) - 1)
             n == Len(s)
  <2>1. /\ f \in Seq(S)
        /\ Len(f) = IF 1 <= n - 1 THEN n - 1 - 1 + 1 ELSE 0
        /\ \A i \in 1..(n - 1 - 1 + 1) : f[i] = s[1 + i - 1]
    BY <1>2
  <2>2. n \in Nat \ {0}
    BY <1>1
  <2> HIDE DEF f, n
  <2>3. f \in Seq(S) /\ Len(f) = n - 1 /\ \A i \in 1..(n - 1) : f[i] = s[i]
    BY <2>1, <2>2
  <2> QED
    BY <2>3 DEF f, n
<1>4. /\ Front(s) \in Seq(S)
      /\ Len(Front(s)) = Len(s) - 1
      /\ \A i \in 1..(Len(s) - 1) : Front(s)[i] = s[i]
  BY <1>3, Zenon DEF Front
<1>5. Front(s) = <<>> <=> Len(s) = 1
  <2>1. Front(s) # <<>> => Len(Front(s)) \in Nat \ {0}
    BY <1>4, EmptySeq
  <2>2. Front(s) = <<>> => Len(Front(s)) = 0
    BY EmptySeq
  <2> QED
    BY <1>1, <1>4, <2>1, <2>2
<1> QED
  BY <1>1, <1>4, <1>5

LEMMA ReplaceLast ==
    ASSUME NEW S, NEW s \in Seq(S), s # <<>>, NEW e \in S
    PROVE  [s EXCEPT ![Len(s)] = e] = Append(Front(s), e)
<1> DEFINE r == [s EXCEPT ![Len(s)] = e]
           a == Append(Front(s), e)
<1>1. /\ Len(s) \in Nat \ {0}
      /\ Front(s) \in Seq(S)
      /\ Len(Front(s)) = Len(s) - 1
      /\ \A i \in 1..(Len(s) - 1) : Front(s)[i] = s[i]
  BY FrontItems
<1>2. /\ r \in Seq(S)
      /\ Len(r) = Len(s)
      /\ \A j \in 1..Len(s) : r[j] = IF j = Len(s) THEN e ELSE s[j]
  BY <1>1, ExceptSeq
<1>3. /\ a \in Seq(S)
      /\ Len(a) = Len(s) - 1 + 1
      /\ \A i \in 1..(Len(s) - 1) : a[i] = Front(s)[i]
      /\ a[Len(s) - 1 + 1] = e
  BY <1>1, AppendItem
<1> HIDE DEF r, a
<1>4. /\ Len(r) = Len(a)
      /\ \A i \in 1..Len(r) : r[i] = a[i]
  BY <1>1, <1>2, <1>3
<1>5. r = a
  BY <1>2, <1>3, <1>4, SeqEqual
<1> QED
  BY <1>5 DEF r, a
-----------------------------------------------------------------------------
(* A set of naturals that has a member has a least one. *)
LEMMA LeastOf ==
    ASSUME NEW T \in SUBSET Nat, T # {}
    PROVE  \E m \in T : \A n \in T : m <= n
<1> DEFINE R == OpToRel(<, Nat)
<1>1. \A a, b \in Nat : a < b => <<a, b>> \in R
  <2> SUFFICES ASSUME NEW a \in Nat, NEW b \in Nat, a < b PROVE <<a, b>> \in R
    OBVIOUS
  <2>1. R = {ss \in Nat \X Nat : ss[1] < ss[2]}
    BY DEF OpToRel
  <2> HIDE DEF R
  <2>2. <<a, b>> \in Nat \X Nat /\ <<a, b>>[1] = a /\ <<a, b>>[2] = b
    OBVIOUS
  <2> QED
    BY <2>1, <2>2
<1>2. IsWellFoundedOn(R, Nat)
  BY NatLessThanWellFounded
<1> HIDE DEF R
<1>3. PICK m \in T : \A n \in T : ~(<<n, m>> \in R)
  BY <1>2, WFMin
<1>4. \A n \in T : m <= n
  <2> SUFFICES ASSUME NEW n \in T, ~(m <= n) PROVE FALSE
    OBVIOUS
  <2>1. n < m /\ n \in Nat /\ m \in Nat
    OBVIOUS
  <2>2. <<n, m>> \in R
    BY <1>1, <2>1, Zenon
  <2> QED
    BY <1>3, <2>2, Zenon
<1> QED
  BY <1>4, Zenon

(* What holds at 0 and goes from every number to the next holds throughout. *)
LEMMA Induction ==
    ASSUME NEW T, 0 \in T, \A n \in Nat : n \in T => n + 1 \in T
    PROVE  \A n \in Nat : n \in T
<1> DEFINE U == {n \in Nat : n \notin T}
<1> SUFFICES ASSUME U # {} PROVE FALSE
  OBVIOUS
<1>1. PICK m \in U : \A n \in U : m <= n
  BY LeastOf
<1>2. m \in Nat /\ m # 0 /\ m - 1 \in Nat /\ m - 1 \notin U
  BY <1>1
<1> QED
  BY <1>1, <1>2

(* The function f is d at 0, and at every other number what F makes of its   *)
(* value before.                                                             *)
Iterates(f, D, d, F) ==
    f \in [Nat -> D] /\ f[0] = d /\ \A n \in Nat : f[n + 1] = F[n][f[n]]

LEMMA Recursion ==
    ASSUME NEW D, NEW d \in D, NEW F \in [Nat -> [D -> D]]
    PROVE  \E f : Iterates(f, D, d, F)
<1> DEFINE Starts(g, n) == /\ g \in [0..n -> D]
                           /\ g[0] = d
                           /\ \A i \in 0..(n - 1) : g[i + 1] = F[i][g[i]]
           T == {n \in Nat : \E g : Starts(g, n)}
<1>1. 0 \in T
  <2>1. Starts([i \in 0..0 |-> d], 0)
    OBVIOUS
  <2> QED
    BY <2>1
<1>2. ASSUME NEW n \in Nat, n \in T
      PROVE  n + 1 \in T
  <2>1. PICK g : Starts(g, n)
    BY <1>2
  <2> DEFINE h == [i \in 0..(n + 1) |-> IF i = n + 1 THEN F[n][g[n]] ELSE g[i]]
  <2>2. g[n] \in D /\ F[n][g[n]] \in D
    BY <2>1
  <2>3. h \in [0..(n + 1) -> D]
    BY <2>1, <2>2
  <2>4. \A i \in 0..n : h[i] = g[i]
    OBVIOUS
  <2>5. h[n + 1] = F[n][g[n]]
    OBVIOUS
  <2> HIDE DEF h
  <2>6. \A i \in 0..n : h[i + 1] = F[i][h[i]]
    <3> SUFFICES ASSUME NEW i \in 0..n PROVE h[i + 1] = F[i][h[i]]
      OBVIOUS
    <3>1. CASE i = n
      BY <2>4, <2>5, <3>1
    <3>2. CASE i # n
      <4>1. i \in 0..(n - 1) /\ i + 1 \in 0..n
        BY <3>2
      <4> QED
        BY <2>1, <2>4, <4>1
    <3> QED
      BY <3>1, <3>2
  <2>7. Starts(h, n + 1)
    <3>1. h[0] = d
      BY <2>1, <2>4
    <3>2. 0..((n + 1) - 1) = 0..n
      OBVIOUS
    <3> QED
      BY <2>3, <2>6, <3>1, <3>2
  <2> QED
    BY <2>7
<1>3. \A n \in Nat : \E g : Starts(g, n)
  <2> HIDE DEF Starts
  <2>1. \A n \in Nat : n \in T
    BY <1>1, <1>2, Induction
  <2> QED
    BY <2>1
<1>4. ASSUME NEW n \in Nat, NEW m \in Nat, n <= m,
             NEW g, Starts(g, n), NEW h, Starts(h, m)
      PROVE  \A i \in 0..n : g[i] = h[i]
  <2> DEFINE S == {i \in Nat : i <= n => g[i] = h[i]}
  <2>1. 0 \in S
    BY <1>4
  <2>2. ASSUME NEW i \in Nat, i \in S
        PROVE  i + 1 \in S
    <3> SUFFICES ASSUME i + 1 <= n PROVE g[i + 1] = h[i + 1]
      OBVIOUS
    <3>1. i \in 0..(n - 1) /\ i \in 0..(m - 1) /\ g[i] = h[i]
      BY <1>4, <2>2
    <3> QED
      BY <1>4, <3>1
  <2>3. \A i \in Nat : i \in S
    <3> HIDE DEF S
    <3> QED
      BY <2>1, <2>2, Induction
  <2> QED
    BY <2>3
<1> DEFINE G(n) == CHOOSE g : Starts(g, n)
           f == [n \in Nat |-> G(n)[n]]
<1>5. \A n \in Nat : Starts(G(n), n)
  <2> HIDE DEF Starts
  <2> QED
    BY <1>3
<1>6. \A n \in Nat : f[n] = G(n)[n]
  OBVIOUS
<1>7. f \in [Nat -> D]
  <2>1. \A n \in Nat : G(n)[n] \in D
    <3> HIDE DEF G
    <3> QED
      BY <1>5
  <2> HIDE DEF G
  <2> QED
    BY <2>1
<1> HIDE DEF f, G
<1>8. f[0] = d
  <2>1. 0 \in Nat
    OBVIOUS
  <2> QED
    BY <1>5, <1>6, <2>1
<1>9. ASSUME NEW n \in Nat
      PROVE  f[n + 1] = F[n][f[n]]
  <2> DEFINE g == G(n)
             h == G(n + 1)
  <2>1. Starts(g, n) /\ Starts(h, n + 1)
    BY <1>5
  <2>2. g[n] = h[n]
    <3> HIDE DEF Starts, g, h
    <3>1. n \in 0..n /\ n <= n + 1 /\ n + 1 \in Nat
      OBVIOUS
    <3> QED
      BY <1>4, <2>1, <3>1
  <2>3. f[n] = g[n] /\ f[n + 1] = h[n + 1]
    BY <1>6
  <2>4. n \in 0..((n + 1) - 1)
    OBVIOUS
  <2> HIDE DEF g, h
  <2> QED
    BY <2>1, <2>2, <2>3, <2>4
<1> QED
  BY <1>7, <1>8, <1>9 DEF Iterates
=============================================================================
