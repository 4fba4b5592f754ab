--------------------------- MODULE SequenceLemmas ---------------------------
(***************************************************************************)
(* Facts about prefixes and parts of sequences, and about sets of          *)
(* naturals, that the proofs share.                                        *)
(***************************************************************************)
EXTENDS SequenceTheorems, WellFoundedInduction, Integers, TLAPS

(* The prefix of length n.                                                 *)
LEMMA PrefixOfSeq ==
  ASSUME NEW S, NEW s \in Seq(S), NEW n \in Nat, n <= Len(s)
  PROVE  /\ SubSeq(s, 1, n) \in Seq(S)
         /\ Len(SubSeq(s, 1, n)) = n
         /\ \A i \in 1..n : SubSeq(s, 1, n)[i] = s[i]
<1>1. \A i \in 1..n : s[i] \in S
  BY ElementOfSeq, LenProperties
<1>2. /\ SubSeq(s, 1, n) \in Seq(S)
      /\ Len(SubSeq(s, 1, n)) = IF 1 <= n THEN n - 1 + 1 ELSE 0
      /\ \A i \in 1 .. n - 1 + 1 : SubSeq(s, 1, n)[i] = s[1 + i - 1]
  BY <1>1, SubSeqProperties
<1> QED
  BY <1>2

(* A sequence without its last element.                                    *)
LEMMA WithoutLast ==
  ASSUME NEW S, NEW s \in Seq(S), s # << >>
  PROVE  /\ SubSeq(s, 1, Len(s) - 1) \in Seq(S)
         /\ Len(SubSeq(s, 1, Len(s) - 1)) = Len(s) - 1
         /\ \A i \in 1..(Len(s) - 1) : SubSeq(s, 1, Len(s) - 1)[i] = s[i]
         /\ s[Len(s)] \in S
<1>1. Len(s) \in Nat /\ Len(s) # 0
  BY LenProperties, EmptySeq
<1>2. Len(s) - 1 \in Nat /\ Len(s) - 1 <= Len(s)
  BY <1>1
<1>3. s[Len(s)] \in S
  BY <1>1, ElementOfSeq
<1> QED
  BY <1>2, <1>3, PrefixOfSeq

(* Two sequences that agree up to n have the same prefix of length n.      *)
LEMMA PrefixesAgree ==
  ASSUME NEW S, NEW s \in Seq(S), NEW t \in Seq(S), NEW n \in Nat,
         n <= Len(s), n <= Len(t),
         \A i \in 1..n : s[i] = t[i]
  PROVE  SubSeq(s, 1, n) = SubSeq(t, 1, n)
BY PrefixOfSeq, SeqEqual

(* Storing v behind the first n cells appends it to them.                  *)
LEMMA StoredIsAppended ==
  ASSUME NEW S, NEW s \in Seq(S), NEW v \in S, NEW n \in Nat, n < Len(s)
  PROVE  /\ [s EXCEPT ![n + 1] = v] \in Seq(S)
         /\ Len([s EXCEPT ![n + 1] = v]) = Len(s)
         /\ [s EXCEPT ![n + 1] = v][n + 1] = v
         /\ SubSeq([s EXCEPT ![n + 1] = v], 1, n + 1)
              = Append(SubSeq(s, 1, n), v)
<1> DEFINE t == [s EXCEPT ![n + 1] = v]
<1>1. n + 1 \in 1..Len(s)
  BY LenProperties
<1>2. /\ t \in Seq(S)
      /\ Len(t) = Len(s)
      /\ \A j \in 1..Len(s) : t[j] = IF j = n + 1 THEN v ELSE s[j]
  BY <1>1, ExceptSeq
<1> HIDE DEF t
<1>3. /\ SubSeq(t, 1, n + 1) \in Seq(S)
      /\ Len(SubSeq(t, 1, n + 1)) = n + 1
      /\ \A i \in 1..(n + 1) : SubSeq(t, 1, n + 1)[i] = t[i]
  BY <1>1, <1>2, PrefixOfSeq
<1>4. /\ SubSeq(s, 1, n) \in Seq(S)
      /\ Len(SubSeq(s, 1, n)) = n
      /\ \A i \in 1..n : SubSeq(s, 1, n)[i] = s[i]
  BY PrefixOfSeq
<1>5. /\ Append(SubSeq(s, 1, n), v) \in Seq(S)
      /\ Len(Append(SubSeq(s, 1, n), v)) = n + 1
      /\ \A i \in 1..n : Append(SubSeq(s, 1, n), v)[i] = SubSeq(s, 1, n)[i]
      /\ Append(SubSeq(s, 1, n), v)[n + 1] = v
  BY <1>4, AppendProperties
<1>6. \A i \in 1..(n + 1) :
        SubSeq(t, 1, n + 1)[i] = Append(SubSeq(s, 1, n), v)[i]
  BY <1>1, <1>2, <1>3, <1>4, <1>5
<1>7. SubSeq(t, 1, n + 1) = Append(SubSeq(s, 1, n), v)
  BY <1>3, <1>5, <1>6, SeqEqual
<1> QED
  BY <1>1, <1>2, <1>7 DEF t

(* A set of naturals has a least element.                                  *)
LEMMA NaturalOrder ==
  \E R : IsWellFoundedOn(R, Nat) /\ \A x, y \in Nat : y < x => <<y, x>> \in R
<1>1. IsWellFoundedOn(OpToRel(<, Nat), Nat)
  BY NatLessThanWellFounded
<1>2. \A x, y \in Nat : y < x => <<y, x>> \in OpToRel(<, Nat)
  BY DEF OpToRel
<1> QED
  BY <1>1, <1>2, Zenon

LEMMA LeastNatural ==
  ASSUME NEW S, S \subseteq Nat, S # {}
  PROVE  \E x \in S : \A y \in S : x <= y
<1>1. PICK R : IsWellFoundedOn(R, Nat) /\ \A x, y \in Nat : y < x => <<y, x>> \in R
  BY NaturalOrder
<1>2. PICK x \in S : \A y \in S : ~ (<<y, x>> \in R)
  BY <1>1, WFMin
<1>3. \A y \in S : ~ (y < x)
  BY <1>1, <1>2
<1> QED
  BY <1>2, <1>3

(* Induction over the naturals, for a set.                                 *)
LEMMA SetInduction ==
  ASSUME NEW S, 0 \in S, \A n \in Nat : n \in S => n + 1 \in S
  PROVE  Nat \subseteq S
<1> SUFFICES ASSUME Nat \ S # {}
             PROVE  FALSE
  OBVIOUS
<1>1. PICK x \in Nat \ S : \A y \in Nat \ S : x <= y
  BY LeastNatural
<1>2. x # 0 /\ x \in Nat
  BY <1>1
<1>3. x - 1 \in Nat /\ x - 1 \in S
  BY <1>1, <1>2
<1>4. (x - 1) + 1 \in S
  BY <1>3
<1> QED
  BY <1>1, <1>4

(* There is a function that adds up the numbers w[1], w[2] and so on.      *)
AddsUp(f, a, w, n) == \A i \in 0..n : f[i] = IF i = 0 THEN a ELSE f[i - 1] + w[i]

LEMMA SumsExist ==
  ASSUME NEW a, NEW w, NEW n \in Nat
  PROVE  \E f : AddsUp(f, a, w, n)
<1> DEFINE Summed(m) == \E f : f = [i \in 0..m |-> IF i = 0 THEN a ELSE f[i - 1] + w[i]]
           good == {m \in Nat : Summed(m)}
<1>1. 0 \in good
  <2> DEFINE f == [i \in 0..0 |-> a]
  <2>1. f = [i \in 0..0 |-> IF i = 0 THEN a ELSE f[i - 1] + w[i]]
    OBVIOUS
  <2> QED
    BY <2>1
<1>2. ASSUME NEW m \in Nat, m \in good
      PROVE  m + 1 \in good
  <2>1. PICK f : f = [i \in 0..m |-> IF i = 0 THEN a ELSE f[i - 1] + w[i]]
    BY <1>2
  <2> DEFINE g == [i \in 0..(m + 1) |-> IF i = m + 1 THEN f[m] + w[m + 1] ELSE f[i]]
  <2>2. \A i \in 0..m : f[i] = IF i = 0 THEN a ELSE f[i - 1] + w[i]
    BY <2>1
  <2>3. \A i \in 0..m : g[i] = f[i]
    OBVIOUS
  <2>4. \A i \in 0..(m + 1) : g[i] = IF i = 0 THEN a ELSE g[i - 1] + w[i]
    <3> SUFFICES ASSUME NEW i \in 0..(m + 1)
                 PROVE  g[i] = IF i = 0 THEN a ELSE g[i - 1] + w[i]
      OBVIOUS
    <3>1. CASE i = m + 1
      <4>1. g[i] = f[m] + w[m + 1] /\ m \in 0..m /\ i - 1 = m /\ i # 0
        BY <3>1
      <4> HIDE DEF g
      <4> QED
        BY <2>3, <3>1, <4>1
    <3>2. CASE i # m + 1
      <4>1. i \in 0..m /\ (i # 0 => i - 1 \in 0..m)
        BY <3>2
      <4> HIDE DEF g
      <4> QED
        BY <2>2, <2>3, <4>1
    <3> QED
      BY <3>1, <3>2
  <2>5. g = [i \in 0..(m + 1) |-> g[i]]
    OBVIOUS
  <2> HIDE DEF g
  <2>6. g = [i \in 0..(m + 1) |-> IF i = 0 THEN a ELSE g[i - 1] + w[i]]
    BY <2>4, <2>5
  <2>7. Summed(m + 1)
    BY <2>6
  <2> QED
    BY <2>7
<1> HIDE DEF good
<1>3. n \in good
  BY <1>1, <1>2, SetInduction
<1>4. PICK f : f = [i \in 0..n |-> IF i = 0 THEN a ELSE f[i - 1] + w[i]]
  BY <1>3 DEF good
<1>5. AddsUp(f, a, w, n)
  BY <1>4 DEF AddsUp
<1> QED
  BY <1>5

(* A sequence of numbers none of which is below the one before it.         *)
LEMMA NeverFalling ==
  ASSUME NEW n \in Nat, NEW f, \A i \in 0..n : f[i] \in Int,
         \A i \in 1..n : f[i - 1] <= f[i]
  PROVE  \A i, j \in 0..n : i <= j => f[i] <= f[j]
<1> SUFFICES ASSUME NEW i \in 0..n
             PROVE  \A j \in 0..n : i <= j => f[i] <= f[j]
  OBVIOUS
<1> DEFINE good == {d \in Nat : i + d <= n => f[i] <= f[i + d]}
<1>1. 0 \in good
  OBVIOUS
<1>2. ASSUME NEW d \in Nat, d \in good
      PROVE  d + 1 \in good
  <2> SUFFICES ASSUME i + (d + 1) <= n
               PROVE  f[i] <= f[i + (d + 1)]
    OBVIOUS
  <2>1. i + (d + 1) \in 1..n /\ (i + (d + 1)) - 1 = i + d /\ i + d \in 0..n
    OBVIOUS
  <2>2. f[i] <= f[i + d] /\ f[i + d] <= f[i + (d + 1)]
    BY <1>2, <2>1
  <2> QED
    BY <2>1, <2>2
<1> HIDE DEF good
<1>3. Nat \subseteq good
  BY <1>1, <1>2, SetInduction
<1> SUFFICES ASSUME NEW j \in 0..n, i <= j
             PROVE  f[i] <= f[j]
  OBVIOUS
<1>4. j - i \in Nat /\ i + (j - i) = j
  OBVIOUS
<1>5. j - i \in good
  BY <1>3, <1>4
<1> QED
  BY <1>4, <1>5 DEF good
-------------------------------------------------------------------------------
IsSeq(s) == \E W : s \in Seq(W)

(* Sequences one behind the other, and a sequence without its head.        *)
Follow(a, b, ab) ==
  /\ Len(a) \in Nat /\ Len(b) \in Nat /\ Len(ab) = Len(a) + Len(b)
  /\ \A i \in 1..Len(a) : i \in 1..Len(ab) /\ ab[i] = a[i]
  /\ \A j \in 1..Len(b) : Len(a) + j \in 1..Len(ab) /\ ab[Len(a) + j] = b[j]
  /\ \A i \in 1..Len(ab) : i \in 1..Len(a) \/ \E j \in 1..Len(b) : i = Len(a) + j

LEMMA Joined ==
  ASSUME NEW a, NEW b, IsSeq(a), IsSeq(b)
  PROVE  IsSeq(a \o b) /\ Follow(a, b, a \o b)
<1>1. PICK V : a \in Seq(V)
  BY DEF IsSeq
<1>2. PICK W : b \in Seq(W)
  BY DEF IsSeq
<1>3. a \in Seq(V \cup W) /\ b \in Seq(V \cup W)
  <2>1. V \subseteq V \cup W /\ W \subseteq V \cup W
    OBVIOUS
  <2> QED
    BY <1>1, <1>2, <2>1, SeqMonotonic
<1>4. /\ a \o b \in Seq(V \cup W)
      /\ Len(a \o b) = Len(a) + Len(b)
      /\ \A i \in 1..(Len(a) + Len(b)) :
           (a \o b)[i] = IF i <= Len(a) THEN a[i] ELSE b[i - Len(a)]
  BY <1>3, ConcatProperties
<1>5. Len(a) \in Nat /\ Len(b) \in Nat
  BY <1>3, LenProperties
<1>6. ASSUME NEW i \in 1..Len(a)
      PROVE  i \in 1..Len(a \o b) /\ (a \o b)[i] = a[i]
  <2>1. i \in 1..(Len(a) + Len(b)) /\ i <= Len(a)
    BY <1>5
  <2> QED
    BY <1>4, <2>1
<1>7. ASSUME NEW j \in 1..Len(b)
      PROVE  Len(a) + j \in 1..Len(a \o b) /\ (a \o b)[Len(a) + j] = b[j]
  <2>1. Len(a) + j \in 1..(Len(a) + Len(b)) /\ ~(Len(a) + j <= Len(a)) /\ Len(a) + j - Len(a) = j
    BY <1>5
  <2> QED
    BY <1>4, <2>1
<1>8. ASSUME NEW i \in 1..Len(a \o b), i \notin 1..Len(a)
      PROVE  \E j \in 1..Len(b) : i = Len(a) + j
  <2>1. i - Len(a) \in 1..Len(b) /\ i = Len(a) + (i - Len(a))
    BY <1>4, <1>5, <1>8
  <2> QED
    BY <2>1
<1>9. IsSeq(a \o b)
  BY <1>4 DEF IsSeq
<1> QED
  BY <1>4, <1>5, <1>6, <1>7, <1>8, <1>9 DEF Follow

LEMMA Beheaded ==
  ASSUME NEW s, IsSeq(s), s # << >>
  PROVE  /\ Len(s) \in Nat /\ 1 \in 1..Len(s) /\ Head(s) = s[1]
         /\ IsSeq(Tail(s)) /\ Len(Tail(s)) = Len(s) - 1
         /\ \A k \in 1..Len(Tail(s)) : k + 1 \in 1..Len(s) /\ Tail(s)[k] = s[k + 1]
         /\ \A k \in 1..Len(s) : k = 1 \/ k - 1 \in 1..Len(Tail(s))
<1>1. PICK W : s \in Seq(W)
  BY DEF IsSeq
<1>2. Len(s) \in Nat /\ Len(s) > 0
  BY <1>1, EmptySeq
<1>3. /\ Tail(s) \in Seq(W)
      /\ Len(Tail(s)) = Len(s) - 1
      /\ \A i \in 1..Len(Tail(s)) : Tail(s)[i] = s[i + 1]
  BY <1>1, HeadTailProperties
<1>4. Head(s) = s[1]
  BY <1>1
<1>5. \A k \in 1..Len(Tail(s)) : k + 1 \in 1..Len(s)
  BY <1>2, <1>3
<1>6. \A k \in 1..Len(s) : k = 1 \/ k - 1 \in 1..Len(Tail(s))
  BY <1>2, <1>3
<1>7. IsSeq(Tail(s)) /\ 1 \in 1..Len(s)
  BY <1>2, <1>3 DEF IsSeq
<1> QED
  BY <1>2, <1>3, <1>4, <1>5, <1>6, <1>7

LEMMA Short ==
  /\ IsSeq(<< >>) /\ Len(<< >>) = 0
  /\ \A x : IsSeq(<< x >>) /\ Len(<< x >>) = 1 /\ << x >>[1] = x
<1>1. << >> \in Seq({}) /\ Len(<< >>) = 0
  BY EmptySeq
<1>2. ASSUME NEW x PROVE << x >> \in Seq({x}) /\ Len(<< x >>) = 1 /\ << x >>[1] = x
  OBVIOUS
<1> QED
  BY <1>1, <1>2 DEF IsSeq

(* A sequence that is gathered from n parts, each behind or before the     *)
(* parts before it.                                                        *)
AppendedUpTo(f, w, n) == f = [l \in 0..n |-> IF l = 0 THEN << >> ELSE f[l - 1] \o w[l]]

PrependedUpTo(f, w, n) == f = [l \in 0..n |-> IF l = 0 THEN << >> ELSE w[l] \o f[l - 1]]

LEMMA GatheringsExist ==
  ASSUME NEW w, NEW n \in Nat
  PROVE  (\E f : AppendedUpTo(f, w, n)) /\ (\E f : PrependedUpTo(f, w, n))
<1> DEFINE good == {m \in Nat : (\E f : AppendedUpTo(f, w, m)) /\ (\E f : PrependedUpTo(f, w, m))}
<1>1. 0 \in good
  <2> DEFINE f == [l \in 0..0 |-> << >>]
  <2>1. AppendedUpTo(f, w, 0) /\ PrependedUpTo(f, w, 0)
    BY DEF AppendedUpTo, PrependedUpTo
  <2> QED
    BY <2>1
<1>2. ASSUME NEW m \in Nat, m \in good
      PROVE  m + 1 \in good
  <2>1. PICK f : AppendedUpTo(f, w, m)
    BY <1>2
  <2>2. PICK h : PrependedUpTo(h, w, m)
    BY <1>2
  <2>3. ASSUME NEW b, b = [l \in 0..(m + 1) |-> IF l = m + 1 THEN f[m] \o w[m + 1] ELSE f[l]]
        PROVE  AppendedUpTo(b, w, m + 1)
    <3>1. \A l \in 0..m : b[l] = f[l]
      BY <2>3
    <3>2. \A l \in 0..m : f[l] = IF l = 0 THEN << >> ELSE f[l - 1] \o w[l]
      BY <2>1 DEF AppendedUpTo
    <3>3. ASSUME NEW l \in 0..(m + 1)
          PROVE  b[l] = IF l = 0 THEN << >> ELSE b[l - 1] \o w[l]
      <4>1. CASE l = m + 1
        <5>1. b[l] = f[m] \o w[m + 1] /\ m \in 0..m /\ l - 1 = m /\ l # 0
          BY <2>3, <4>1
        <5> QED
          BY <3>1, <4>1, <5>1
      <4>2. CASE l # m + 1
        <5>1. l \in 0..m /\ (l # 0 => l - 1 \in 0..m)
          BY <4>2
        <5> QED
          BY <3>1, <3>2, <5>1
      <4> QED
        BY <4>1, <4>2
    <3>4. b = [l \in 0..(m + 1) |-> b[l]]
      BY <2>3
    <3> QED
      BY <3>3, <3>4 DEF AppendedUpTo
  <2>4. ASSUME NEW b, b = [l \in 0..(m + 1) |-> IF l = m + 1 THEN w[m + 1] \o h[m] ELSE h[l]]
        PROVE  PrependedUpTo(b, w, m + 1)
    <3>1. \A l \in 0..m : b[l] = h[l]
      BY <2>4
    <3>2. \A l \in 0..m : h[l] = IF l = 0 THEN << >> ELSE w[l] \o h[l - 1]
      BY <2>2 DEF PrependedUpTo
    <3>3. ASSUME NEW l \in 0..(m + 1)
          PROVE  b[l] = IF l = 0 THEN << >> ELSE w[l] \o b[l - 1]
      <4>1. CASE l = m + 1
        <5>1. b[l] = w[m + 1] \o h[m] /\ m \in 0..m /\ l - 1 = m /\ l # 0
          BY <2>4, <4>1
        <5> QED
          BY <3>1, <4>1, <5>1
      <4>2. CASE l # m + 1
        <5>1. l \in 0..m /\ (l # 0 => l - 1 \in 0..m)
          BY <4>2
        <5> QED
          BY <3>1, <3>2, <5>1
      <4> QED
        BY <4>1, <4>2
    <3>4. b = [l \in 0..(m + 1) |-> b[l]]
      BY <2>4
    <3> QED
      BY <3>3, <3>4 DEF PrependedUpTo
  <2>5. \E b : AppendedUpTo(b, w, m + 1)
    <3> DEFINE longer == [l \in 0..(m + 1) |-> IF l = m + 1 THEN f[m] \o w[m + 1] ELSE f[l]]
    <3>1. AppendedUpTo(longer, w, m + 1)
      BY <2>3
    <3> HIDE DEF longer
    <3> QED
      BY <3>1
  <2>6. \E b : PrependedUpTo(b, w, m + 1)
    <3> DEFINE longer == [l \in 0..(m + 1) |-> IF l = m + 1 THEN w[m + 1] \o h[m] ELSE h[l]]
    <3>1. PrependedUpTo(longer, w, m + 1)
      BY <2>4
    <3> HIDE DEF longer
    <3> QED
      BY <3>1
  <2> QED
    BY <2>5, <2>6
<1> HIDE DEF good
<1>3. n \in good
  BY <1>1, <1>2, SetInduction
<1> QED
  BY <1>3 DEF good

LEMMA Gathered ==
  ASSUME NEW n \in Nat, NEW S, NEW w, \A l \in 1..n : w[l] \in Seq(S),
         NEW f, AppendedUpTo(f, w, n) \/ PrependedUpTo(f, w, n)
  PROVE  f[n] \in Seq(S)
<1> DEFINE good == {m \in Nat : m <= n => f[m] \in Seq(S)}
<1>1. \A l \in 0..n : \/ l = 0 /\ f[l] = << >>
                      \/ l # 0 /\ f[l] = f[l - 1] \o w[l]
                      \/ l # 0 /\ f[l] = w[l] \o f[l - 1]
  BY DEF AppendedUpTo, PrependedUpTo
<1>2. 0 \in good
  <2>1. 0 \in 0..n /\ << >> \in Seq(S)
    BY EmptySeq
  <2> QED
    BY <1>1, <2>1
<1>3. ASSUME NEW m \in Nat, m \in good PROVE m + 1 \in good
  <2> SUFFICES ASSUME m + 1 <= n PROVE f[m + 1] \in Seq(S)
    OBVIOUS
  <2>1. m + 1 \in 0..n /\ m + 1 \in 1..n /\ m + 1 # 0 /\ m + 1 - 1 = m /\ m <= n
    OBVIOUS
  <2>2. f[m] \in Seq(S) /\ w[m + 1] \in Seq(S)
    BY <1>3, <2>1
  <2>3. f[m + 1] = f[m] \o w[m + 1] \/ f[m + 1] = w[m + 1] \o f[m]
    <3> HIDE DEF good
    <3> DEFINE l == m + 1
    <3>1. l \in 0..n /\ l # 0
      BY <2>1
    <3>2. l - 1 = m
      BY <2>1
    <3> HIDE DEF l
    <3>3. f[l] = f[l - 1] \o w[l] \/ f[l] = w[l] \o f[l - 1]
      BY <1>1, <3>1
    <3>4. f[l] = f[m] \o w[l] \/ f[l] = w[l] \o f[m]
      BY <3>2, <3>3
    <3> QED
      BY <3>4 DEF l
  <2> HIDE DEF good
  <2> QED
    BY <2>2, <2>3, ConcatProperties
<1> HIDE DEF good
<1>4. n \in good
  BY <1>2, <1>3, SetInduction
<1> QED
  BY <1>4 DEF good
===============================================================================
