---------------------------- MODULE BackendProofs ----------------------------
(***************************************************************************)
(* Proofs about module Backend: whatever tree is walked, the variables of  *)
(* a function that are visible together have places of their own; each     *)
(* jump has one label to go to, in programs that do not nest a test in the *)
(* body of an if; the tables of a function are there until its body is     *)
(* written, in programs whose scopes are balanced; and the type invariant, *)
(* in programs whose variables have names.                                 *)
(***************************************************************************)
EXTENDS Backend, SequenceLemmas, FiniteSetTheorems

CellAt(ts, p) == ts[p[1]][p[2]]

(* The cells up to any level have numbers below how many they are: this is *)
(* what stays true when the innermost scopes are closed again.             *)
NumberedUpTo(ts, l) ==
  /\ IsFiniteSet(CellsUpTo(ts, l))
  /\ \A p \in CellsUpTo(ts, l) :
       CellAt(ts, p).loc \in Nat /\ CellAt(ts, p).loc < Cardinality(CellsUpTo(ts, l))

Numbered(ts) ==
  /\ \A l \in 1..Len(ts) : NumberedUpTo(ts, l)
  /\ \A p, q \in CellsOf(ts) : p # q => CellAt(ts, p).loc # CellAt(ts, q).loc

Managers(S) == [tables : Seq(Seq(S)), in_func_start : BOOLEAN]

(* What a call has still to do is a sequence without "parameters" ...      *)
Calls(s) ==
  /\ IsSeq(s)
  /\ \A i \in 1..Len(s) : s[i].do # "parameters"

(* A manager more for each function whose body is still to be left.        *)
Leavers(s) == {i \in 1..Len(s) : s[i].do \in {"leave", "parameters"}}

Plain(s) == IsSeq(s) /\ Leavers(s) = {}

Nested == Len(mngrs) = Cardinality(Leavers(work)) + 1

(* ... but for its head, which counts the cells of the function's table.   *)
CountsParameters ==
  Len(mngrs) > 0 /\ Len(mngrs[1].tables) = 1
    /\ Head(work).counter = Cardinality(CellsOf(mngrs[1].tables))

WorkInv ==
  /\ IsSeq(work)
  /\ work # << >> => Calls(Tail(work))
  /\ (work # << >> /\ Head(work).do = "parameters") => CountsParameters

MngrsInv ==
  /\ \E S : mngrs \in Seq(Managers(S))
  /\ \A m \in 1..Len(mngrs) : Numbered(mngrs[m].tables)

BInv == WorkInv /\ MngrsInv /\ Nested
-------------------------------------------------------------------------------
(* Cells of a sequence of tables, one by one.                              *)
LEMMA CellIn ==
  ASSUME NEW ts, NEW l, NEW p
  PROVE  p \in CellsUpTo(ts, l) <=>
           \E k \in 1..l : \E c \in 1..Len(ts[k]) : p = <<k, c>>
BY DEF CellsUpTo

(* The cells up to a level depend on the tables up to that level, ...      *)
LEMMA SameCells ==
  ASSUME NEW t, NEW u, NEW l, \A k \in 1..l : t[k] = u[k]
  PROVE  CellsUpTo(t, l) = CellsUpTo(u, l)
<1>1. ASSUME NEW p PROVE p \in CellsUpTo(t, l) <=> p \in CellsUpTo(u, l)
  <2>1. (\E k \in 1..l : \E c \in 1..Len(t[k]) : p = <<k, c>>)
          <=> (\E k \in 1..l : \E c \in 1..Len(u[k]) : p = <<k, c>>)
    OBVIOUS
  <2>2. p \in CellsUpTo(t, l) <=> \E k \in 1..l : \E c \in 1..Len(t[k]) : p = <<k, c>>
    BY CellIn
  <2>3. p \in CellsUpTo(u, l) <=> \E k \in 1..l : \E c \in 1..Len(u[k]) : p = <<k, c>>
    BY CellIn
  <2> QED
    BY <2>1, <2>2, <2>3
<1> QED
  BY <1>1

(* ... and belong to those up to any level above.                          *)
LEMMA CellsBelow ==
  ASSUME NEW ts, NEW l \in Nat, NEW n \in Nat, l <= n
  PROVE  CellsUpTo(ts, l) \subseteq CellsUpTo(ts, n)
<1>1. 1..l \subseteq 1..n
  OBVIOUS
<1> SUFFICES ASSUME NEW p \in CellsUpTo(ts, l) PROVE p \in CellsUpTo(ts, n)
  OBVIOUS
<1>2. PICK k \in 1..l : \E c \in 1..Len(ts[k]) : p = <<k, c>>
  BY CellIn
<1>3. k \in 1..n
  BY <1>1
<1> QED
  BY <1>2, <1>3, CellIn

(* What a cell holds, if the tables hold the same.                         *)
LEMMA SameCell ==
  ASSUME NEW t, NEW u, NEW n, NEW p \in CellsUpTo(u, n),
         \A k \in 1..n : \A i \in 1..Len(u[k]) : t[k][i] = u[k][i]
  PROVE  CellAt(t, p) = CellAt(u, p)
<1>1. PICK k \in 1..n : \E i \in 1..Len(u[k]) : p = <<k, i>>
  BY CellIn
<1>2. PICK i \in 1..Len(u[k]) : p = <<k, i>>
  BY <1>1
<1>3. t[k][i] = u[k][i]
  OBVIOUS
<1> QED
  BY <1>2, <1>3 DEF CellAt

(* One more cell in the innermost table.                                   *)
LongerBelow(t, u, n) ==
  /\ n \in Nat /\ n > 0
  /\ \A k \in 1..n : k # n => t[k] = u[k]
  /\ Len(u[n]) \in Nat /\ Len(t[n]) = Len(u[n]) + 1

LEMMA OneMoreCell ==
  ASSUME NEW t, NEW u, NEW n, LongerBelow(t, u, n)
  PROVE  /\ CellsUpTo(t, n) = CellsUpTo(u, n) \cup {<<n, Len(u[n]) + 1>>}
         /\ <<n, Len(u[n]) + 1>> \notin CellsUpTo(u, n)
<1> DEFINE at == <<n, Len(u[n]) + 1>>
<1> USE DEF LongerBelow
<1>0. n \in 1..n /\ Len(u[n]) + 1 \in 1..Len(t[n]) /\ 1..Len(u[n]) \subseteq 1..Len(t[n])
  OBVIOUS
<1>1. ASSUME NEW p \in CellsUpTo(t, n) PROVE p \in CellsUpTo(u, n) \cup {at}
  <2>1. PICK k \in 1..n : \E i \in 1..Len(t[k]) : p = <<k, i>>
    BY CellIn
  <2>2. PICK i \in 1..Len(t[k]) : p = <<k, i>>
    BY <2>1
  <2>3. CASE k = n
    <3>1. i \in 1..Len(u[n]) \/ i = Len(u[n]) + 1
      BY <2>2, <2>3
    <3>2. CASE i \in 1..Len(u[n])
      BY <2>2, <2>3, <3>2, <1>0, CellIn
    <3> QED
      BY <2>2, <2>3, <3>1, <3>2
  <2>4. CASE k # n
    <3>1. i \in 1..Len(u[k])
      BY <2>2, <2>4
    <3> QED
      BY <2>2, <3>1, CellIn
  <2> QED
    BY <2>3, <2>4
<1>2. ASSUME NEW p \in CellsUpTo(u, n) PROVE p \in CellsUpTo(t, n)
  <2>1. PICK k \in 1..n : \E i \in 1..Len(u[k]) : p = <<k, i>>
    BY CellIn
  <2>2. PICK i \in 1..Len(u[k]) : p = <<k, i>>
    BY <2>1
  <2>3. i \in 1..Len(t[k])
    <3>1. CASE k = n
      BY <2>2, <3>1, <1>0
    <3>2. CASE k # n
      BY <2>2, <3>2
    <3> QED
      BY <3>1, <3>2
  <2> QED
    BY <2>2, <2>3, CellIn
<1>3. at \in CellsUpTo(t, n)
  BY <1>0, CellIn
<1>4. ASSUME at \in CellsUpTo(u, n) PROVE FALSE
  <2>1. PICK k \in 1..n : \E i \in 1..Len(u[k]) : at = <<k, i>>
    BY <1>4, CellIn
  <2>2. PICK i \in 1..Len(u[k]) : at = <<k, i>>
    BY <2>1
  <2>3. k = n /\ i = Len(u[n]) + 1
    BY <2>2
  <2> QED
    BY <2>2, <2>3
<1>5. CellsUpTo(t, n) = CellsUpTo(u, n) \cup {at}
  BY <1>1, <1>2, <1>3
<1> QED
  BY <1>4, <1>5

(* An innermost table without cells.                                       *)
LEMMA EmptyLevel ==
  ASSUME NEW t, NEW u, NEW n \in Nat, \A k \in 1..n : t[k] = u[k], Len(t[n + 1]) = 0
  PROVE  CellsUpTo(t, n + 1) = CellsUpTo(u, n)
<1>0. \A k \in 1..(n + 1) : k \in 1..n \/ k = n + 1
  OBVIOUS
<1>1. ASSUME NEW p \in CellsUpTo(t, n + 1) PROVE p \in CellsUpTo(t, n)
  <2>1. PICK k \in 1..(n + 1) : \E i \in 1..Len(t[k]) : p = <<k, i>>
    BY CellIn
  <2>2. PICK i \in 1..Len(t[k]) : p = <<k, i>>
    BY <2>1
  <2>3. k # n + 1
    BY <2>2
  <2>4. k \in 1..n
    BY <1>0, <2>3
  <2> QED
    BY <2>2, <2>4, CellIn
<1>2. CellsUpTo(t, n) \subseteq CellsUpTo(t, n + 1)
  BY CellsBelow
<1>3. CellsUpTo(t, n) = CellsUpTo(u, n)
  BY SameCells
<1> QED
  BY <1>1, <1>2, <1>3

(* A new variable, numbered by how many there are, is a cell of its own.   *)
LEMMA CellAdded ==
  ASSUME NEW S, NEW ts \in Seq(Seq(S)), Len(ts) > 0, Numbered(ts),
         NEW c \in S, c.loc = Cardinality(CellsOf(ts))
  PROVE  LET t == [ts EXCEPT ![Len(ts)] = Append(@, c)]
         IN  /\ t \in Seq(Seq(S))
             /\ Len(t) = Len(ts)
             /\ Numbered(t)
             /\ Cardinality(CellsOf(t)) = Cardinality(CellsOf(ts)) + 1
<1> DEFINE n == Len(ts)
           t == [ts EXCEPT ![n] = Append(@, c)]
           at == <<n, Len(ts[n]) + 1>>
<1>1. n \in Nat /\ n > 0 /\ n \in 1..n
  BY LenProperties
<1>2. ts[n] \in Seq(S) /\ Len(ts[n]) \in Nat
  BY <1>1, ElementOfSeq, LenProperties
<1>3. /\ Append(ts[n], c) \in Seq(S)
      /\ Len(Append(ts[n], c)) = Len(ts[n]) + 1
      /\ \A i \in 1..Len(ts[n]) : Append(ts[n], c)[i] = ts[n][i]
      /\ Append(ts[n], c)[Len(ts[n]) + 1] = c
  BY <1>2, AppendProperties
<1>4. /\ t \in Seq(Seq(S))
      /\ Len(t) = n
      /\ \A k \in 1..n : t[k] = IF k = n THEN Append(ts[n], c) ELSE ts[k]
  BY <1>1, <1>3, ExceptSeq
<1>5. c.loc = Cardinality(CellsUpTo(ts, n))
  BY DEF CellsOf
<1>6. /\ \A l \in 1..n : NumberedUpTo(ts, l)
      /\ \A p, q \in CellsUpTo(ts, n) : p # q => CellAt(ts, p).loc # CellAt(ts, q).loc
  BY DEF Numbered, CellsOf
<1> HIDE DEF n, t
<1>7. \A k \in 1..n : k # n => t[k] = ts[k]
  BY <1>4
<1>8. t[n] = Append(ts[n], c)
  BY <1>1, <1>4
<1>9. ASSUME NEW l \in 1..n, l # n PROVE CellsUpTo(t, l) = CellsUpTo(ts, l)
  <2>1. \A k \in 1..l : k \in 1..n /\ k # n
    BY <1>1, <1>9
  <2>2. \A k \in 1..l : t[k] = ts[k]
    BY <2>1, <1>7
  <2> QED
    BY <2>2, SameCells
<1>10. /\ CellsUpTo(t, n) = CellsUpTo(ts, n) \cup {at}
       /\ at \notin CellsUpTo(ts, n)
  <2>1. Len(t[n]) = Len(ts[n]) + 1
    BY <1>3, <1>8
  <2>2. n \in Nat /\ n > 0 /\ Len(ts[n]) \in Nat
    BY <1>1, <1>2
  <2> HIDE DEF at
  <2>3. /\ CellsUpTo(t, n) = CellsUpTo(ts, n) \cup {<<n, Len(ts[n]) + 1>>}
        /\ <<n, Len(ts[n]) + 1>> \notin CellsUpTo(ts, n)
    <3>1. LongerBelow(t, ts, n)
      BY <2>1, <2>2, <1>7 DEF LongerBelow
    <3> QED
      BY <3>1, OneMoreCell
  <2> QED
    BY <2>3 DEF at
<1>11. CellAt(t, at) = c
  BY <1>3, <1>8 DEF CellAt
<1>12. ASSUME NEW p \in CellsUpTo(ts, n) PROVE CellAt(t, p) = CellAt(ts, p)
  <2>1. \A k \in 1..n : \A i \in 1..Len(ts[k]) : t[k][i] = ts[k][i]
    BY <1>3, <1>7, <1>8
  <2> QED
    BY <2>1, SameCell
<1> DEFINE size == Cardinality(CellsUpTo(ts, n))
<1>13. /\ IsFiniteSet(CellsUpTo(ts, n))
       /\ size \in Nat
       /\ \A p \in CellsUpTo(ts, n) : CellAt(ts, p).loc \in Nat /\ CellAt(ts, p).loc < size
  <2>1. NumberedUpTo(ts, n)
    BY <1>1, <1>6
  <2> QED
    BY <2>1, FS_CardinalityType DEF NumberedUpTo
<1>14. /\ IsFiniteSet(CellsUpTo(t, n))
       /\ Cardinality(CellsUpTo(t, n)) = size + 1
  <2>1. /\ IsFiniteSet(CellsUpTo(ts, n) \cup {at})
        /\ Cardinality(CellsUpTo(ts, n) \cup {at}) = size + 1
    BY <1>10, <1>13, FS_AddElement
  <2> QED
    BY <2>1, <1>10
<1>15. c.loc = size
  BY <1>5
<1> HIDE DEF size, at
<1>16. ASSUME NEW p \in CellsUpTo(t, n)
       PROVE  CellAt(t, p).loc \in Nat /\ CellAt(t, p).loc < size + 1
  <2>1. CASE p = at
    BY <2>1, <1>11, <1>13, <1>15
  <2>2. CASE p \in CellsUpTo(ts, n)
    <3>1. CellAt(t, p) = CellAt(ts, p)
      BY <2>2, <1>12
    <3>2. CellAt(ts, p).loc \in Nat /\ CellAt(ts, p).loc < size
      BY <2>2, <1>13
    <3> QED
      BY <3>1, <3>2, <1>13
  <2> QED
    BY <2>1, <2>2, <1>10
<1>17. NumberedUpTo(t, n)
  BY <1>14, <1>16 DEF NumberedUpTo
<1>18. ASSUME NEW l \in 1..n PROVE NumberedUpTo(t, l)
  <2>1. CASE l # n
    <3>1. CellsUpTo(t, l) = CellsUpTo(ts, l)
      BY <2>1, <1>9
    <3>2. l \in Nat /\ l <= n
      BY <1>1
    <3>3. CellsUpTo(ts, l) \subseteq CellsUpTo(ts, n)
      BY <3>2, <1>1, CellsBelow
    <3>4. \A p \in CellsUpTo(ts, l) : CellAt(t, p) = CellAt(ts, p)
      BY <3>3, <1>12
    <3>5. NumberedUpTo(ts, l)
      BY <1>6
    <3> QED
      BY <3>1, <3>4, <3>5 DEF NumberedUpTo
  <2> QED
    BY <2>1, <1>17
<1>19. ASSUME NEW p \in CellsUpTo(t, n), NEW q \in CellsUpTo(t, n), p # q
       PROVE  CellAt(t, p).loc # CellAt(t, q).loc
  <2>1. \A r \in CellsUpTo(ts, n) : CellAt(t, r).loc \in Nat /\ CellAt(t, r).loc < size
    BY <1>12, <1>13
  <2>2. CellAt(t, at).loc = size
    BY <1>11, <1>15
  <2>3. \A r \in CellsUpTo(ts, n) : CellAt(t, r).loc # CellAt(t, at).loc
    BY <2>1, <2>2, <1>13
  <2>4. CASE p \in CellsUpTo(ts, n) /\ q \in CellsUpTo(ts, n)
    BY <2>4, <1>6, <1>12, <1>19
  <2>5. p = at \/ p \in CellsUpTo(ts, n)
    BY <1>10
  <2>6. q = at \/ q \in CellsUpTo(ts, n)
    BY <1>10
  <2> QED
    BY <2>3, <2>4, <2>5, <2>6, <1>19
<1>20. Numbered(t) /\ Cardinality(CellsOf(t)) = size + 1
  BY <1>4, <1>14, <1>18, <1>19 DEF Numbered, CellsOf
<1> QED
  BY <1>4, <1>20 DEF n, t, size, CellsOf

(* An empty table for a new scope.                                         *)
LEMMA ScopeOpened ==
  ASSUME NEW S, NEW ts \in Seq(Seq(S)), Len(ts) > 0, Numbered(ts)
  PROVE  Append(ts, << >>) \in Seq(Seq(S)) /\ Numbered(Append(ts, << >>))
<1> DEFINE t == Append(ts, << >>)
           n == Len(ts)
<1>1. n \in Nat /\ n > 0 /\ << >> \in Seq(S)
  BY LenProperties, EmptySeq
<1>2. /\ t \in Seq(Seq(S))
      /\ Len(t) = n + 1
      /\ \A k \in 1..n : t[k] = ts[k]
      /\ t[n + 1] = << >>
  BY <1>1, AppendProperties
<1>3. Len(t[n + 1]) = 0
  BY <1>2, EmptySeq
<1>4. /\ \A l \in 1..n : NumberedUpTo(ts, l)
      /\ \A p, q \in CellsUpTo(ts, n) : p # q => CellAt(ts, p).loc # CellAt(ts, q).loc
  BY DEF Numbered, CellsOf
<1> HIDE DEF t, n
<1>5. CellsUpTo(t, n + 1) = CellsUpTo(ts, n)
  BY <1>1, <1>2, <1>3, EmptyLevel
<1>6. \A p \in CellsUpTo(ts, n) : CellAt(t, p) = CellAt(ts, p)
  <2>1. \A k \in 1..n : \A i \in 1..Len(ts[k]) : t[k][i] = ts[k][i]
    BY <1>2
  <2> QED
    BY <2>1, SameCell
<1>7. ASSUME NEW l \in 1..n PROVE NumberedUpTo(t, l)
  <2>1. l \in Nat /\ l <= n /\ \A k \in 1..l : k \in 1..n
    BY <1>1
  <2>2. CellsUpTo(t, l) = CellsUpTo(ts, l)
    BY <2>1, <1>2, SameCells
  <2>3. CellsUpTo(ts, l) \subseteq CellsUpTo(ts, n)
    BY <2>1, <1>1, CellsBelow
  <2>4. \A p \in CellsUpTo(ts, l) : CellAt(t, p) = CellAt(ts, p)
    BY <2>3, <1>6
  <2> QED
    BY <2>2, <2>4, <1>4 DEF NumberedUpTo
<1>8. NumberedUpTo(t, n + 1)
  <2>1. NumberedUpTo(ts, n)
    BY <1>1, <1>4
  <2> QED
    BY <2>1, <1>5, <1>6 DEF NumberedUpTo
<1>9. \A l \in 1..(n + 1) : l \in 1..n \/ l = n + 1
  BY <1>1
<1>10. \A l \in 1..(n + 1) : NumberedUpTo(t, l)
  BY <1>7, <1>8, <1>9
<1>11. \A p, q \in CellsUpTo(t, n + 1) : p # q => CellAt(t, p).loc # CellAt(t, q).loc
  BY <1>4, <1>5, <1>6
<1>12. Numbered(t)
  BY <1>2, <1>10, <1>11 DEF Numbered, CellsOf
<1> QED
  BY <1>2, <1>12 DEF t

(* The innermost table is given up.                                        *)
LEMMA ScopeClosed ==
  ASSUME NEW S, NEW ts \in Seq(Seq(S)), Len(ts) > 1, Numbered(ts)
  PROVE  /\ SubSeq(ts, 1, Len(ts) - 1) \in Seq(Seq(S))
         /\ Numbered(SubSeq(ts, 1, Len(ts) - 1))
<1> DEFINE t == SubSeq(ts, 1, Len(ts) - 1)
           n == Len(ts) - 1
<1>1. n \in Nat /\ n > 0 /\ n + 1 = Len(ts) /\ n + 1 \in Nat
  BY LenProperties
<1>2. /\ t \in Seq(Seq(S))
      /\ Len(t) = n
      /\ \A k \in 1..n : t[k] = ts[k]
  BY EmptySeq, WithoutLast
<1>3. /\ \A l \in 1..Len(ts) : NumberedUpTo(ts, l)
      /\ \A p, q \in CellsUpTo(ts, Len(ts)) : p # q => CellAt(ts, p).loc # CellAt(ts, q).loc
  BY DEF Numbered, CellsOf
<1> HIDE DEF t, n
<1>4. \A p \in CellsUpTo(ts, n) : CellAt(t, p) = CellAt(ts, p)
  <2>1. \A k \in 1..n : \A i \in 1..Len(ts[k]) : t[k][i] = ts[k][i]
    BY <1>2
  <2> QED
    BY <2>1, SameCell
<1>5. ASSUME NEW l \in 1..n PROVE NumberedUpTo(t, l) /\ CellsUpTo(t, l) = CellsUpTo(ts, l)
  <2>1. l \in Nat /\ l <= n /\ l \in 1..Len(ts) /\ \A k \in 1..l : k \in 1..n
    BY <1>1
  <2>2. CellsUpTo(t, l) = CellsUpTo(ts, l)
    BY <2>1, <1>2, SameCells
  <2>3. CellsUpTo(ts, l) \subseteq CellsUpTo(ts, n)
    BY <2>1, <1>1, CellsBelow
  <2>4. \A p \in CellsUpTo(ts, l) : CellAt(t, p) = CellAt(ts, p)
    BY <2>3, <1>4
  <2>5. NumberedUpTo(ts, l)
    BY <2>1, <1>3
  <2> QED
    BY <2>2, <2>4, <2>5 DEF NumberedUpTo
<1>6. CellsUpTo(ts, n) \subseteq CellsUpTo(ts, Len(ts))
  BY <1>1, CellsBelow
<1>7. CellsUpTo(t, n) = CellsUpTo(ts, n)
  BY <1>1, <1>5
<1>8. \A p, q \in CellsUpTo(t, n) : p # q => CellAt(t, p).loc # CellAt(t, q).loc
  BY <1>3, <1>4, <1>6, <1>7
<1>9. Numbered(t)
  BY <1>2, <1>5, <1>8 DEF Numbered, CellsOf
<1> QED
  BY <1>2, <1>9 DEF t

(* No tables have no cells, nor has one empty table; the table a function  *)
(* begins with has one.                                                    *)
LEMMA FirstTables ==
  /\ Numbered(<< >>)
  /\ Numbered(<< << >> >>)
  /\ \A c : c.loc = 0 => Numbered(<< << c >> >>) /\ Cardinality(CellsOf(<< << c >> >>)) = 1
<1>1. Numbered(<< >>)
  <2>1. Len(<< >>) = 0
    BY EmptySeq
  <2>2. CellsOf(<< >>) = {}
    BY <2>1 DEF CellsOf, CellsUpTo
  <2> QED
    BY <2>1, <2>2 DEF Numbered
<1>2. Numbered(<< << >> >>)
  <2> DEFINE ts == << << >> >>
  <2>1. Len(ts) = 1 /\ ts[1] = << >>
    OBVIOUS
  <2>2. Len(ts[1]) = 0
    BY <2>1, EmptySeq
  <2> HIDE DEF ts
  <2>3. CellsUpTo(ts, 1) = {}
    BY <2>2 DEF CellsUpTo
  <2>4. IsFiniteSet({})
    BY FS_EmptySet
  <2>5. \A l \in 1..Len(ts) : l = 1
    BY <2>1
  <2>6. NumberedUpTo(ts, 1)
    BY <2>3, <2>4 DEF NumberedUpTo
  <2>7. Numbered(ts)
    BY <2>1, <2>3, <2>5, <2>6 DEF Numbered, CellsOf
  <2> QED
    BY <2>7 DEF ts
<1>3. ASSUME NEW c, c.loc = 0
      PROVE  Numbered(<< << c >> >>) /\ Cardinality(CellsOf(<< << c >> >>)) = 1
  <2> DEFINE ts == << << c >> >>
  <2>1. Len(ts) = 1 /\ ts[1] = << c >> /\ Len(ts[1]) = 1 /\ ts[1][1] = c
    OBVIOUS
  <2> HIDE DEF ts
  <2>2. CellsUpTo(ts, 1) = {<<1, 1>>}
    BY <2>1 DEF CellsUpTo
  <2>3. IsFiniteSet({<<1, 1>>}) /\ Cardinality({<<1, 1>>}) = 1
    BY FS_Singleton, Zenon
  <2>4. CellAt(ts, <<1, 1>>).loc = 0
    BY <2>1, <1>3 DEF CellAt
  <2>5. NumberedUpTo(ts, 1)
    BY <2>2, <2>3, <2>4 DEF NumberedUpTo
  <2>6. \A l \in 1..Len(ts) : l = 1
    BY <2>1
  <2>7. Numbered(ts)
    BY <2>1, <2>2, <2>5, <2>6 DEF Numbered, CellsOf
  <2>8. Cardinality(CellsOf(ts)) = 1
    BY <2>1, <2>2, <2>3 DEF CellsOf
  <2> QED
    BY <2>7, <2>8 DEF ts
<1> QED
  BY <1>1, <1>2, <1>3
-------------------------------------------------------------------------------
(* What is still to do.                                                    *)
LEMMA OneCall ==
  ASSUME NEW call
  PROVE  /\ call.do # "parameters" => Calls(<< call >>)
         /\ call.do \notin {"leave", "parameters"} => Plain(<< call >>)
         /\ call.do \in {"leave", "parameters"} => Leavers(<< call >>) = {1}
<1> DEFINE s == << call >>
<1>1. IsSeq(s) /\ Len(s) = 1 /\ s[1] = call
  BY Short
<1> HIDE DEF s
<1>2. 1..Len(s) = {1}
  BY <1>1
<1>3. call.do # "parameters" => Calls(s)
  BY <1>1, <1>2 DEF Calls
<1>4. call.do \notin {"leave", "parameters"} => Plain(s)
  BY <1>1, <1>2 DEF Plain, Leavers
<1>5. call.do \in {"leave", "parameters"} => Leavers(s) = {1}
  BY <1>1, <1>2 DEF Leavers
<1> QED
  BY <1>3, <1>4, <1>5 DEF s

LEMMA NoCall == Plain(<< >>)
BY Short DEF Plain, Leavers

LEMMA PlainIsCalls == \A s : Plain(s) => Calls(s)
BY DEF Plain, Leavers, Calls

LEMMA LeaversJoined ==
  ASSUME NEW a, NEW b, IsSeq(a), IsSeq(b)
  PROVE  /\ IsFiniteSet(Leavers(a)) /\ Cardinality(Leavers(a)) \in Nat
         /\ Cardinality(Leavers(a \o b)) = Cardinality(Leavers(a)) + Cardinality(Leavers(b))
         /\ Leavers(a) = {} /\ Leavers(b) = {} => Leavers(a \o b) = {}
<1> DEFINE ab == a \o b
           behind == {i \in Leavers(ab) : i > Len(a)}
<1>1. Follow(a, b, ab)
  BY Joined, Zenon
<1> HIDE DEF ab
<1>2. Len(a) \in Nat /\ Len(b) \in Nat /\ Len(ab) = Len(a) + Len(b)
  BY <1>1 DEF Follow
<1>3. IsFiniteSet(Leavers(a)) /\ IsFiniteSet(Leavers(b)) /\ IsFiniteSet(Leavers(ab))
  <2>1. IsFiniteSet(1..Len(a)) /\ IsFiniteSet(1..Len(b)) /\ IsFiniteSet(1..Len(ab))
    BY <1>2, FS_Interval
  <2>2. /\ Leavers(a) \subseteq 1..Len(a) /\ Leavers(b) \subseteq 1..Len(b)
        /\ Leavers(ab) \subseteq 1..Len(ab)
    BY DEF Leavers
  <2> QED
    BY <2>1, <2>2, FS_Subset
<1>4. /\ Cardinality(Leavers(a)) \in Nat /\ Cardinality(Leavers(b)) \in Nat
      /\ IsFiniteSet(behind)
  <2>1. behind \subseteq Leavers(ab)
    OBVIOUS
  <2> QED
    BY <1>3, <2>1, FS_CardinalityType, FS_Subset
<1>5. Leavers(ab) = Leavers(a) \cup behind
  <2>1. ASSUME NEW i \in Leavers(ab) PROVE i \in Leavers(a) \cup behind
    <3>1. i \in 1..Len(ab)
      BY DEF Leavers
    <3>2. CASE i \in 1..Len(a)
      BY <1>1, <3>2 DEF Follow, Leavers
    <3>3. CASE i \notin 1..Len(a)
      BY <1>2, <3>1, <3>3
    <3> QED
      BY <3>2, <3>3
  <2>2. ASSUME NEW i \in Leavers(a) PROVE i \in Leavers(ab)
    BY <1>1 DEF Follow, Leavers
  <2> QED
    BY <2>1, <2>2
<1>6. Leavers(a) \cap behind = {}
  BY <1>2 DEF Leavers
<1>7. Cardinality(behind) = Cardinality(Leavers(b))
  <2> DEFINE shifted == [j \in Leavers(b) |-> Len(a) + j]
  <2>1. \A j \in Leavers(b) : j \in 1..Len(b) /\ Len(a) + j \in behind
    <3>1. \A j \in Leavers(b) : j \in 1..Len(b) /\ Len(a) + j \in Leavers(ab)
      BY <1>1 DEF Follow, Leavers
    <3>2. \A j \in 1..Len(b) : Len(a) + j > Len(a)
      BY <1>2
    <3> QED
      BY <3>1, <3>2
  <2>2. \A i \in behind : \E j \in Leavers(b) : i = Len(a) + j
    <3>1. \A i \in behind : i \in 1..Len(ab) /\ i \notin 1..Len(a)
      BY <1>2 DEF Leavers
    <3>2. \A i \in behind : \E j \in 1..Len(b) : i = Len(a) + j
      BY <1>1, <3>1 DEF Follow
    <3>3. \A j \in 1..Len(b) : Len(a) + j \in Leavers(ab) => j \in Leavers(b)
      BY <1>1 DEF Follow, Leavers
    <3> QED
      BY <3>2, <3>3
  <2>3. \A j, k \in Leavers(b) : Len(a) + j = Len(a) + k => j = k
    BY <1>2, <2>1
  <2>4. shifted \in [Leavers(b) -> behind] /\ IsInjective(shifted)
    BY <2>1, <2>3 DEF IsInjective
  <2>5. \A i \in behind : \E j \in Leavers(b) : shifted[j] = i
    BY <2>2
  <2> HIDE DEF shifted, behind
  <2>6. shifted \in Bijection(Leavers(b), behind)
    BY <2>4, <2>5 DEF Bijection, Injection, Surjection
  <2> QED
    BY <2>6, <1>3, FS_Bijection DEF ExistsBijection
<1>8. Cardinality(Leavers(ab)) = Cardinality(Leavers(a)) + Cardinality(behind)
  <2> HIDE DEF behind
  <2>1. Cardinality(Leavers(a) \cup behind)
          = Cardinality(Leavers(a)) + Cardinality(behind) - Cardinality(Leavers(a) \cap behind)
    BY <1>3, <1>4, FS_Union
  <2>2. Cardinality(Leavers(a) \cap behind) = 0
    BY <1>6, FS_EmptySet
  <2>3. Cardinality(behind) \in Nat
    BY <1>4, FS_CardinalityType
  <2> QED
    BY <1>4, <1>5, <2>1, <2>2, <2>3
<1>9. Leavers(a) = {} /\ Leavers(b) = {} => Leavers(ab) = {}
  <2> SUFFICES ASSUME Leavers(a) = {}, Leavers(b) = {}
               PROVE  behind = {}
    BY <1>5
  <2>1. Cardinality(behind) = 0
    BY <1>7, FS_EmptySet
  <2> HIDE DEF behind
  <2> QED
    BY <1>4, <2>1, FS_EmptySet
<1> QED
  BY <1>3, <1>4, <1>7, <1>8, <1>9 DEF ab

LEMMA LeaversTail ==
  ASSUME NEW s, IsSeq(s), s # << >>
  PROVE  /\ Cardinality(Leavers(Tail(s))) \in Nat
         /\ Cardinality(Leavers(s)) =
              IF Head(s).do \in {"leave", "parameters"}
              THEN Cardinality(Leavers(Tail(s))) + 1 ELSE Cardinality(Leavers(Tail(s)))
<1> DEFINE h == << Head(s) >>
<1>1. IsSeq(h) /\ IsSeq(Tail(s)) /\ s = h \o Tail(s)
  <2>1. PICK W : s \in Seq(W)
    BY DEF IsSeq
  <2>2. s = << Head(s) >> \o Tail(s)
    BY <2>1, HeadTailProperties, ConcatProperties
  <2> QED
    BY <2>2, Short, Beheaded
<1>2. /\ Cardinality(Leavers(s)) = Cardinality(Leavers(h)) + Cardinality(Leavers(Tail(s)))
      /\ Cardinality(Leavers(Tail(s))) \in Nat
  <2> HIDE DEF h
  <2>1. Cardinality(Leavers(h \o Tail(s))) = Cardinality(Leavers(h)) + Cardinality(Leavers(Tail(s)))
    BY <1>1, LeaversJoined
  <2> QED
    BY <1>1, <2>1, LeaversJoined
<1>3. CASE Head(s).do \in {"leave", "parameters"}
  <2>1. Leavers(h) = {1}
    BY <1>3, OneCall
  <2>2. Cardinality({1}) = 1
    BY FS_Singleton
  <2> HIDE DEF h
  <2> QED
    BY <1>2, <1>3, <2>1, <2>2
<1>4. CASE Head(s).do \notin {"leave", "parameters"}
  <2>1. Leavers(h) = {}
    BY <1>4, OneCall DEF Plain
  <2>2. Cardinality({}) = 0
    BY FS_EmptySet
  <2> HIDE DEF h
  <2> QED
    BY <1>2, <1>4, <2>1, <2>2
<1> QED
  BY <1>3, <1>4

LEMMA CallsInTurn ==
  ASSUME NEW a, NEW b
  PROVE  /\ Calls(a) /\ Calls(b) => Calls(a \o b)
         /\ Plain(a) /\ Plain(b) => Plain(a \o b)
<1>1. Calls(a) /\ Calls(b) => Calls(a \o b)
  <2> SUFFICES ASSUME Calls(a), Calls(b) PROVE Calls(a \o b)
    OBVIOUS
  <2> DEFINE ab == a \o b
  <2>1. IsSeq(ab) /\ Follow(a, b, ab)
    BY Joined, Zenon DEF Calls
  <2> HIDE DEF ab
  <2>2. ASSUME NEW i \in 1..Len(ab) PROVE ab[i].do # "parameters"
    <3>1. CASE i \in 1..Len(a)
      <4>1. ab[i] = a[i]
        BY <2>1, <3>1 DEF Follow
      <4> QED
        BY <3>1, <4>1 DEF Calls
    <3>2. ASSUME NEW j \in 1..Len(b), i = Len(a) + j PROVE ab[i].do # "parameters"
      <4>1. ab[i] = b[j]
        BY <2>1, <3>2 DEF Follow
      <4> QED
        BY <4>1 DEF Calls
    <3> QED
      BY <2>1, <3>1, <3>2 DEF Follow
  <2>3. Calls(ab)
    BY <2>1, <2>2 DEF Calls
  <2> QED
    BY <2>3 DEF ab
<1>2. Plain(a) /\ Plain(b) => Plain(a \o b)
  BY Joined, LeaversJoined DEF Plain
<1> QED
  BY <1>1, <1>2

(* As many managers come as bodies that are to be left.                    *)
LEMMA StaysNested ==
  ASSUME Nested, IsSeq(work), work # << >>, NEW calls, IsSeq(calls),
         work' = calls \o Tail(work), Len(mngrs) \in Nat, Len(mngrs') \in Nat,
         Len(mngrs') + (IF Head(work).do \in {"leave", "parameters"} THEN 1 ELSE 0)
           = Len(mngrs) + Cardinality(Leavers(calls))
  PROVE  Nested'
<1>1. /\ Cardinality(Leavers(Tail(work))) \in Nat
      /\ Cardinality(Leavers(work)) =
              IF Head(work).do \in {"leave", "parameters"}
              THEN Cardinality(Leavers(Tail(work))) + 1 ELSE Cardinality(Leavers(Tail(work)))
  BY LeaversTail
<1>2. IsSeq(Tail(work))
  BY Beheaded
<1>3. /\ Cardinality(Leavers(work')) = Cardinality(Leavers(calls)) + Cardinality(Leavers(Tail(work)))
      /\ Cardinality(Leavers(calls)) \in Nat
  BY <1>2, LeaversJoined
<1>4. Len(mngrs) = Cardinality(Leavers(work)) + 1
  BY DEF Nested
<1>5. Len(mngrs') = Cardinality(Leavers(work')) + 1
  BY <1>1, <1>3, <1>4
<1> QED
  BY <1>5 DEF Nested

LEMMA PlainCalls ==
  /\ \A node : Plain(Asmbl(node))
  /\ \A node : Plain(Children(node))
  /\ \A lines : Plain(Write(lines))
  /\ \A var : Plain(PopVar(var))
  /\ Plain(Todo("if_test")) /\ Plain(Todo("if_end"))
  /\ \A func, comma, counter : Plain(Arguments(func, comma, counter))
  /\ \A jump : Plain(<< [do |-> "cond_end", jump |-> jump] >>)
<1>1. \A node : Plain(Asmbl(node))
  BY OneCall, NoCall DEF Asmbl
<1>2. \A node : Plain(Children(node))
  BY <1>1, CallsInTurn DEF Children
<1> QED
  BY <1>1, <1>2, OneCall DEF Write, PopVar, Todo, Arguments

(* The calls for a body, which is to be left.                              *)
LEMMA BodyCalls ==
  ASSUME NEW calls, Plain(calls)
  PROVE  /\ Calls(calls \o Todo("leave"))
         /\ Cardinality(Leavers(calls \o Todo("leave"))) = 1
<1>1. Calls(Todo("leave")) /\ Leavers(Todo("leave")) = {1} /\ IsSeq(Todo("leave"))
  BY OneCall, Short DEF Todo
<1>2. Cardinality(Leavers(calls \o Todo("leave"))) = 0 + 1
  <2>1. Cardinality({1}) = 1 /\ Cardinality({}) = 0
    BY FS_Singleton, FS_EmptySet
  <2>2. IsSeq(calls) /\ Leavers(calls) = {}
    BY DEF Plain
  <2> DEFINE last == Todo("leave")
  <2> HIDE DEF last
  <2>3. Cardinality(Leavers(calls \o last)) = Cardinality(Leavers(calls)) + Cardinality(Leavers(last))
    BY <1>1, <2>2, LeaversJoined DEF last
  <2> QED
    BY <1>1, <2>1, <2>2, <2>3 DEF last
<1>3. Calls(calls)
  BY PlainIsCalls
<1> QED
  BY <1>1, <1>2, <1>3, CallsInTurn

(* A handler that goes on with such calls.                                 *)
LEMMA CallsGoOn ==
  ASSUME WorkInv, work # << >>, NEW calls, Calls(calls), work' = calls \o Tail(work)
  PROVE  WorkInv'
<1>1. Calls(work')
  BY CallsInTurn DEF WorkInv
<1>2. PICK W : work' \in Seq(W)
  BY <1>1 DEF Calls, IsSeq
<1>3. ASSUME work' # << >>
      PROVE  Calls(Tail(work')) /\ Head(work').do # "parameters"
  <2>1. Len(work') \in Nat /\ Len(work') > 0
    BY <1>2, <1>3, EmptySeq
  <2>2. /\ Tail(work') \in Seq(W)
        /\ Len(Tail(work')) = Len(work') - 1
        /\ \A i \in 1..Len(Tail(work')) : Tail(work')[i] = work'[i + 1]
    BY <1>2, <1>3, HeadTailProperties
  <2>3. Head(work') = work'[1]
    BY <1>2, <1>3
  <2>4. \A i \in 1..Len(Tail(work')) : i + 1 \in 1..Len(work')
    BY <2>1, <2>2
  <2> QED
    BY <1>1, <2>1, <2>2, <2>3, <2>4, SMTT(30) DEF Calls, IsSeq
<1> QED
  BY <1>2, <1>3 DEF WorkInv, IsSeq
-------------------------------------------------------------------------------
(* The managers.                                                           *)
Good(m, S) == m \in Managers(S) /\ Numbered(m.tables)

LEMMA WiderManagers ==
  ASSUME NEW S, NEW T, S \subseteq T
  PROVE  /\ Seq(Seq(S)) \subseteq Seq(Seq(T))
         /\ Managers(S) \subseteq Managers(T)
<1>1. Seq(S) \subseteq Seq(T)
  BY SeqMonotonic
<1>2. Seq(Seq(S)) \subseteq Seq(Seq(T))
  BY <1>1, SeqMonotonic
<1> QED
  BY <1>2 DEF Managers

LEMMA FirstManager ==
  ASSUME NEW S, mngrs \in Seq(Managers(S)), mngrs # << >>, MngrsInv
  PROVE  Good(mngrs[1], S) /\ Tables \in Seq(Seq(S)) /\ 1 \in 1..Len(mngrs)
<1>1. 1 \in 1..Len(mngrs)
  BY EmptySeq
<1>2. mngrs[1] \in Managers(S)
  BY <1>1, ElementOfSeq
<1> QED
  BY <1>1, <1>2 DEF Good, MngrsInv, Managers, Tables

(* The first manager is changed; if there is none, nothing is.             *)
LEMMA FirstChanged ==
  ASSUME NEW S, mngrs \in Seq(Managers(S)), MngrsInv, NEW m,
         mngrs # << >> => \E T : S \subseteq T /\ Good(m, T),
         mngrs' = [mngrs EXCEPT ![1] = m]
  PROVE  MngrsInv' /\ Len(mngrs') = Len(mngrs)
<1>1. CASE mngrs = << >>
  <2>1. Len(mngrs) = 0 /\ DOMAIN mngrs = {}
    BY <1>1
  <2>2. mngrs' = mngrs
    BY <1>1, <2>1
  <2> QED
    BY <2>2 DEF MngrsInv
<1>2. CASE mngrs # << >>
  <2>1. PICK T : S \subseteq T /\ Good(m, T)
    BY <1>2
  <2>2. mngrs \in Seq(Managers(T))
    BY <2>1, WiderManagers, SeqMonotonic
  <2>3. 1 \in 1..Len(mngrs)
    BY <1>2, FirstManager
  <2>4. /\ mngrs' \in Seq(Managers(T))
        /\ Len(mngrs') = Len(mngrs)
        /\ \A j \in 1..Len(mngrs) : mngrs'[j] = IF j = 1 THEN m ELSE mngrs[j]
    BY <2>1, <2>2, <2>3, ExceptSeq DEF Good
  <2>5. \A j \in 1..Len(mngrs') : Numbered(mngrs'[j].tables)
    BY <2>1, <2>4 DEF Good, MngrsInv
  <2> QED
    BY <2>4, <2>5 DEF MngrsInv
<1> QED
  BY <1>1, <1>2

LEMMA FirstAdded ==
  ASSUME MngrsInv, NEW T, NEW m, Good(m, T), mngrs' = << m >> \o mngrs
  PROVE  MngrsInv' /\ Len(mngrs') = Len(mngrs) + 1 /\ mngrs'[1] = m /\ Len(mngrs) \in Nat
<1>1. PICK S : mngrs \in Seq(Managers(S))
  BY DEF MngrsInv
<1>2. S \subseteq S \cup T /\ T \subseteq S \cup T
  OBVIOUS
<1>3. m \in Managers(S \cup T) /\ mngrs \in Seq(Managers(S \cup T))
  BY <1>1, <1>2, WiderManagers, SeqMonotonic DEF Good
<1>4. << m >> \in Seq(Managers(S \cup T)) /\ Len(<< m >>) = 1 /\ << m >>[1] = m
  BY <1>3
<1>5. /\ mngrs' \in Seq(Managers(S \cup T))
      /\ Len(mngrs') = 1 + Len(mngrs)
      /\ \A i \in 1..(1 + Len(mngrs)) :
           mngrs'[i] = IF i <= 1 THEN << m >>[i] ELSE mngrs[i - 1]
  BY <1>3, <1>4, ConcatProperties
<1>6. Len(mngrs) \in Nat
  BY <1>1, LenProperties
<1>7. mngrs'[1] = m /\ Len(mngrs') = Len(mngrs) + 1
  BY <1>4, <1>5, <1>6
<1>8. \A i \in 1..Len(mngrs') : i # 1 => i - 1 \in 1..Len(mngrs) /\ mngrs'[i] = mngrs[i - 1]
  BY <1>5, <1>6
<1>9. \A i \in 1..Len(mngrs') : Numbered(mngrs'[i].tables)
  BY <1>7, <1>8 DEF Good, MngrsInv
<1> QED
  BY <1>5, <1>6, <1>7, <1>9 DEF MngrsInv

LEMMA FirstDropped ==
  ASSUME MngrsInv, mngrs' = SubSeq(mngrs, 2, Len(mngrs)), Len(mngrs) > 0
  PROVE  MngrsInv' /\ Len(mngrs') + 1 = Len(mngrs)
<1>1. PICK S : mngrs \in Seq(Managers(S))
  BY DEF MngrsInv
<1>2. Len(mngrs) \in Nat
  BY <1>1, LenProperties
<1>3. \A i \in 2..Len(mngrs) : i \in 1..Len(mngrs) /\ mngrs[i] \in Managers(S)
  BY <1>1, <1>2, ElementOfSeq
<1>4. /\ mngrs' \in Seq(Managers(S))
      /\ Len(mngrs') = IF 2 <= Len(mngrs) THEN Len(mngrs) - 2 + 1 ELSE 0
      /\ \A i \in 1..(Len(mngrs) - 2 + 1) : mngrs'[i] = mngrs[2 + i - 1]
  BY <1>2, <1>3, SubSeqProperties
<1>5. \A i \in 1..Len(mngrs') : mngrs'[i] = mngrs[2 + i - 1] /\ 2 + i - 1 \in 1..Len(mngrs)
  BY <1>2, <1>4
<1>6. Len(mngrs') + 1 = Len(mngrs)
  BY <1>2, <1>4
<1> QED
  BY <1>4, <1>5, <1>6 DEF MngrsInv

(* get_loc with init_flag keeps the numbers apart.                         *)
LEMMA VariableMade ==
  ASSUME MngrsInv, HasTables, NEW var, mngrs' = WithTables(TablesWith(Tables, var))
  PROVE  MngrsInv' /\ Len(mngrs') = Len(mngrs)
<1>1. PICK S : mngrs \in Seq(Managers(S))
  BY DEF MngrsInv
<1> DEFINE c == Cell(var, OverallSize(Tables))
           m == [mngrs[1] EXCEPT !.tables = TablesWith(Tables, var)]
<1>2. mngrs' = [mngrs EXCEPT ![1] = m]
  BY DEF WithTables
<1>3. ASSUME mngrs # << >> PROVE Good(m, S \cup {c})
  <2>1. Good(mngrs[1], S) /\ Tables \in Seq(Seq(S))
    BY <1>1, <1>3, FirstManager
  <2>2. S \subseteq S \cup {c} /\ c \in S \cup {c}
    OBVIOUS
  <2>3. mngrs[1] \in Managers(S \cup {c}) /\ Tables \in Seq(Seq(S \cup {c}))
    BY <2>1, <2>2, WiderManagers DEF Good
  <2>4. Numbered(Tables) /\ Len(Tables) > 0
    BY <2>1, <2>3, EmptySeq DEF Good, Tables, HasTables
  <2>5. c.loc = Cardinality(CellsOf(Tables))
    BY DEF Cell, OverallSize
  <2>6. InitVar(Tables, var) \in Seq(Seq(S \cup {c})) /\ Numbered(InitVar(Tables, var))
    <3> DEFINE T == S \cup {c}
               ts == Tables
    <3> HIDE DEF c
    <3>1. InitVar(ts, var) = [ts EXCEPT ![Len(ts)] = Append(@, c)]
      BY DEF InitVar, c
    <3>2. /\ ts \in Seq(Seq(T)) /\ Len(ts) > 0 /\ Numbered(ts)
          /\ c \in T /\ c.loc = Cardinality(CellsOf(ts))
      BY <2>2, <2>3, <2>4, <2>5
    <3> HIDE DEF T, ts
    <3>3. /\ [ts EXCEPT ![Len(ts)] = Append(@, c)] \in Seq(Seq(T))
          /\ Numbered([ts EXCEPT ![Len(ts)] = Append(@, c)])
      BY <3>2, CellAdded
    <3> QED
      BY <3>1, <3>3 DEF T, ts
  <2>7. /\ TablesWith(Tables, var) \in Seq(Seq(S \cup {c}))
        /\ Numbered(TablesWith(Tables, var))
    BY <2>3, <2>4, <2>6 DEF TablesWith
  <2> HIDE DEF c
  <2>8. m \in Managers(S \cup {c}) /\ m.tables = TablesWith(Tables, var)
    BY <2>3, <2>7 DEF Managers
  <2> QED
    BY <2>7, <2>8 DEF Good
<1>4. mngrs # << >> => \E T : S \subseteq T /\ Good(m, T)
  BY <1>3
<1> HIDE DEF m, c
<1> QED
  BY <1>1, <1>2, <1>4, FirstChanged

(* The handler that goes on with the parameters of a function.             *)
LEMMA ParametersGoOn ==
  ASSUME WorkInv, work # << >>, NEW func, NEW comma, NEW k,
         work' = Parameters(func, comma, k) \o Tail(work),
         Len(mngrs') > 0, Len(mngrs'[1].tables) = 1,
         k = Cardinality(CellsOf(mngrs'[1].tables))
  PROVE  WorkInv' /\ IsSeq(Parameters(func, comma, k))
                  /\ Cardinality(Leavers(Parameters(func, comma, k))) = 1
<1> DEFINE p == [do |-> "parameters", func |-> func, comma |-> comma, counter |-> k]
           rest == Tail(work)
<1>1. PICK W : rest \in Seq(W)
  BY DEF WorkInv, Calls, IsSeq
<1>2. work' = << p >> \o rest
  BY DEF Parameters
<1>3. p.counter = k
  OBVIOUS
<1>4. Calls(rest)
  BY DEF WorkInv
<1> HIDE DEF p, rest
<1>5. << p >> \in Seq({p} \cup W) /\ Len(<< p >>) = 1 /\ << p >>[1] = p
  OBVIOUS
<1>6. rest \in Seq({p} \cup W) /\ Len(rest) \in Nat
  <2>1. W \subseteq {p} \cup W
    OBVIOUS
  <2> QED
    BY <1>1, <2>1, SeqMonotonic, LenProperties
<1>7. /\ work' \in Seq({p} \cup W)
      /\ Len(work') = 1 + Len(rest)
      /\ \A i \in 1..(1 + Len(rest)) : work'[i] = IF i <= 1 THEN << p >>[i] ELSE rest[i - 1]
  <2> DEFINE V == {p} \cup W
             front == << p >>
  <2>1. front \in Seq(V) /\ Len(front) = 1 /\ rest \in Seq(V) /\ work' = front \o rest
    BY <1>2, <1>5, <1>6
  <2> HIDE DEF V, front
  <2>2. /\ front \o rest \in Seq(V)
        /\ Len(front \o rest) = Len(front) + Len(rest)
        /\ \A i \in 1..(Len(front) + Len(rest)) :
             (front \o rest)[i] = IF i <= Len(front) THEN front[i] ELSE rest[i - Len(front)]
    BY <2>1, ConcatProperties
  <2>3. /\ work' \in Seq(V)
        /\ Len(work') = 1 + Len(rest)
        /\ \A i \in 1..(1 + Len(rest)) : work'[i] = IF i <= 1 THEN front[i] ELSE rest[i - 1]
    BY <2>1, <2>2
  <2> QED
    BY <2>3 DEF V, front
<1>8. work'[1] = p /\ work' # << >>
  <2>1. 1 \in 1..(1 + Len(rest)) /\ 1 + Len(rest) # 0 /\ 1 <= 1
    BY <1>6
  <2>2. work'[1] = << p >>[1] /\ Len(work') # 0
    BY <1>7, <2>1
  <2> QED
    BY <1>5, <2>2, EmptySeq
<1>9. /\ Tail(work') \in Seq({p} \cup W)
      /\ Len(Tail(work')) = Len(work') - 1
      /\ \A i \in 1..Len(Tail(work')) : Tail(work')[i] = work'[i + 1]
  BY <1>7, <1>8, HeadTailProperties
<1>10. Head(work') = p
  BY <1>7, <1>8
<1>11. Calls(Tail(work'))
  <2>1. ASSUME NEW i \in 1..Len(Tail(work')) PROVE Tail(work')[i].do # "parameters"
    <3>1. /\ i + 1 \in 1..(1 + Len(rest)) /\ ~(i + 1 <= 1)
          /\ i + 1 - 1 \in 1..Len(rest) /\ i + 1 - 1 = i
      BY <1>6, <1>7, <1>9
    <3>2. Tail(work')[i] = work'[i + 1]
      BY <1>9
    <3>3. work'[i + 1] = rest[i + 1 - 1]
      <4>1. \A j \in 1..(1 + Len(rest)) : ~(j <= 1) => work'[j] = rest[j - 1]
        BY <1>7
      <4> DEFINE j == i + 1
      <4>2. j \in 1..(1 + Len(rest)) /\ ~(j <= 1)
        BY <3>1
      <4> HIDE DEF j
      <4>3. work'[j] = rest[j - 1]
        BY <4>1, <4>2
      <4> QED
        BY <4>3 DEF j
    <3>4. Tail(work')[i] = rest[i]
      BY <3>1, <3>2, <3>3
    <3> QED
      BY <3>1, <3>4, <1>4 DEF Calls
  <2> QED
    BY <2>1, <1>9 DEF Calls, IsSeq
<1>13. IsSeq(<< p >>) /\ Leavers(<< p >>) = {1} /\ << p >> = Parameters(func, comma, k)
  BY Short, OneCall DEF p, Parameters
<1>14. Cardinality({1}) = 1
  BY FS_Singleton
<1>12. CountsParameters'
  BY <1>3, <1>10 DEF CountsParameters
<1> QED
  BY <1>7, <1>11, <1>12, <1>13, <1>14 DEF WorkInv, IsSeq
-------------------------------------------------------------------------------
LEMMA BackendBegins == ASSUME NEW tree, Begin(tree) PROVE BInv
<1>1. Plain(work) /\ IsSeq(work)
  BY PlainCalls DEF Begin, Plain
<1>3. WorkInv
  <2>1. CASE work = << >>
    BY <2>1, <1>1 DEF WorkInv
  <2>2. CASE work # << >>
    <3>1. work = << [do |-> "asmbl", node |-> tree] >>
      BY <2>2 DEF Begin, Asmbl
    <3>2. Tail(work) = << >> /\ Head(work).do = "asmbl"
      BY <3>1
    <3> QED
      BY <3>2, <1>1, NoCall, PlainIsCalls DEF WorkInv
  <2> QED
    BY <2>1, <2>2
<1>4. MngrsInv
  <2>1. mngrs = << NoTables >>
    BY DEF Begin
  <2>2. << >> \in Seq(Seq({}))
    BY EmptySeq
  <2>3. NoTables \in Managers({}) /\ NoTables.tables = << >>
    BY <2>2 DEF NoTables, Manager, Managers
  <2> DEFINE m == NoTables
  <2> HIDE DEF m
  <2>4. mngrs = << m >>
    BY <2>1 DEF m
  <2>5. mngrs \in Seq(Managers({})) /\ Len(mngrs) = 1 /\ mngrs[1] = m
    BY <2>3, <2>4 DEF m
  <2>6. \A i \in 1..Len(mngrs) : Numbered(mngrs[i].tables)
    <3>1. \A i \in 1..Len(mngrs) : i = 1
      BY <2>5
    <3>2. m.tables = << >>
      BY <2>3 DEF m
    <3> QED
      BY <3>1, <3>2, <2>5, FirstTables
  <2> QED
    BY <2>5, <2>6 DEF MngrsInv
<1>5. Nested
  BY <1>1, FS_EmptySet DEF Begin, Nested, Plain
<1> QED
  BY <1>3, <1>4, <1>5 DEF BInv

LEMMA BackendStarts == BInit => BInv
BY BackendBegins DEF BInit

(* A handler that leaves the managers alone and goes on with plain calls.  *)
LEMMA PlainNested ==
  ASSUME BInv, work # << >>, Head(work).do \notin {"leave", "parameters"},
         NEW calls, Plain(calls), work' = calls \o Tail(work), Len(mngrs') = Len(mngrs)
  PROVE  WorkInv' /\ Nested'
<1>1. WorkInv'
  BY CallsGoOn, PlainIsCalls DEF BInv
<1>2. Cardinality(Leavers(calls)) = 0
  BY FS_EmptySet DEF Plain
<1>3. Len(mngrs) \in Nat
  BY LenProperties DEF BInv, MngrsInv
<1>4. Nested'
  BY <1>2, <1>3, StaysNested DEF BInv, WorkInv, Plain
<1> QED
  BY <1>1, <1>4

LEMMA PlainStep ==
  ASSUME BInv, work # << >>, Head(work).do \notin {"leave", "parameters"},
         NEW calls, Plain(calls), GoOn(calls), mngrs' = mngrs
  PROVE  BInv'
<1>1. WorkInv' /\ Nested'
  BY PlainNested DEF GoOn
<1>2. MngrsInv'
  BY DEF BInv, MngrsInv
<1> QED
  BY <1>1, <1>2 DEF BInv

LEMMA ScopeStartStep == ASSUME BInv, ScopeStart PROVE BInv'
<1>1. /\ work # << >> /\ Head(work).do = "asmbl" /\ Plain(Children(Visited))
      /\ work' = Children(Visited) \o Tail(work)
  BY PlainCalls DEF ScopeStart, Visiting, Now, GoOn
<1>2. PICK S : mngrs \in Seq(Managers(S))
  BY DEF BInv, MngrsInv
<1> DEFINE m == Upgraded(mngrs[1])
<1>3. mngrs' = [mngrs EXCEPT ![1] = m]
  BY DEF ScopeStart
<1>4. ASSUME mngrs # << >> PROVE Good(m, S)
  <2>1. Good(mngrs[1], S) /\ Tables \in Seq(Seq(S)) /\ Tables = mngrs[1].tables
    BY <1>2, <1>4, FirstManager DEF BInv, Tables
  <2>2. Len(Tables) > 0
    BY <2>1, EmptySeq DEF ScopeStart, HasTables
  <2>3. Append(Tables, << >>) \in Seq(Seq(S)) /\ Numbered(Append(Tables, << >>))
    BY <2>1, <2>2, ScopeOpened DEF Good
  <2>4. mngrs[1] \in Managers(S) /\ Numbered(mngrs[1].tables)
    BY <2>1 DEF Good
  <2>5. CASE mngrs[1].in_func_start
    <3>1. m = [mngrs[1] EXCEPT !.in_func_start = FALSE]
      BY <2>5 DEF Upgraded
    <3>2. m \in Managers(S) /\ m.tables = mngrs[1].tables
      BY <2>4, <3>1 DEF Managers
    <3> QED
      BY <2>4, <3>2 DEF Good
  <2>6. CASE ~mngrs[1].in_func_start
    <3>1. m = [mngrs[1] EXCEPT !.tables = Append(Tables, << >>)]
      BY <2>1, <2>6 DEF Upgraded
    <3>2. m \in Managers(S) /\ m.tables = Append(Tables, << >>)
      BY <2>3, <2>4, <3>1 DEF Managers
    <3> QED
      BY <2>3, <3>2 DEF Good
  <2> QED
    BY <2>5, <2>6
<1>5. mngrs # << >> => \E T : S \subseteq T /\ Good(m, T)
  BY <1>4
<1> HIDE DEF m
<1>6. MngrsInv' /\ Len(mngrs') = Len(mngrs)
  BY <1>2, <1>3, <1>5, FirstChanged DEF BInv
<1>7. WorkInv' /\ Nested'
  BY <1>1, <1>6, PlainNested
<1> QED
  BY <1>6, <1>7 DEF BInv

LEMMA ScopeEndStep == ASSUME BInv, ScopeEnd PROVE BInv'
<1>1. /\ work # << >> /\ Head(work).do = "asmbl" /\ Plain(Children(Visited))
      /\ work' = Children(Visited) \o Tail(work)
  BY PlainCalls DEF ScopeEnd, Visiting, Now, GoOn
<1>2. PICK S : mngrs \in Seq(Managers(S))
  BY DEF BInv, MngrsInv
<1> DEFINE m == Downgraded(mngrs[1])
<1>3. mngrs' = [mngrs EXCEPT ![1] = m]
  BY DEF ScopeEnd
<1>4. ASSUME mngrs # << >> PROVE Good(m, S)
  <2>1. Good(mngrs[1], S) /\ Tables \in Seq(Seq(S)) /\ Tables = mngrs[1].tables
    BY <1>2, <1>4, FirstManager DEF BInv, Tables
  <2>2. mngrs[1] \in Managers(S) /\ Numbered(Tables)
    BY <2>1 DEF Good
  <2>3. Len(Tables) \in Nat
    BY <2>1, LenProperties
  <2>4. CASE Len(Tables) <= 1
    <3>1. m = [mngrs[1] EXCEPT !.tables = << >>]
      BY <2>1, <2>4 DEF Downgraded
    <3>2. << >> \in Seq(Seq(S))
      BY EmptySeq
    <3>3. m \in Managers(S) /\ m.tables = << >>
      BY <2>2, <3>1, <3>2 DEF Managers
    <3> QED
      BY <3>3, FirstTables DEF Good
  <2>5. CASE Len(Tables) > 1
    <3> DEFINE ts == SubSeq(Tables, 1, Len(Tables) - 1)
    <3>1. ts \in Seq(Seq(S)) /\ Numbered(ts)
      BY <2>1, <2>2, <2>5, ScopeClosed
    <3>2. m = [mngrs[1] EXCEPT !.tables = ts]
      BY <2>1, <2>3, <2>5 DEF Downgraded
    <3> HIDE DEF ts
    <3>3. m \in Managers(S) /\ m.tables = ts
      BY <2>2, <3>1, <3>2 DEF Managers
    <3> QED
      BY <3>1, <3>3 DEF Good
  <2> QED
    BY <2>3, <2>4, <2>5
<1>5. mngrs # << >> => \E T : S \subseteq T /\ Good(m, T)
  BY <1>4
<1> HIDE DEF m
<1>6. MngrsInv' /\ Len(mngrs') = Len(mngrs)
  BY <1>2, <1>3, <1>5, FirstChanged DEF BInv
<1>7. WorkInv' /\ Nested'
  BY <1>1, <1>6, PlainNested
<1> QED
  BY <1>6, <1>7 DEF BInv

LEMMA WritePopVarStep == ASSUME BInv, WritePopVar PROVE BInv'
<1>1. HasTables /\ mngrs' = WithTables(TablesWith(Tables, Head(work).var))
  BY DEF WritePopVar
<1>2. MngrsInv' /\ Len(mngrs') = Len(mngrs)
  BY <1>1, VariableMade DEF BInv
<1> DEFINE calls == << >>
<1>3. work # << >> /\ Head(work).do = "pop_var" /\ Plain(calls) /\ work' = calls \o Tail(work)
  BY NoCall DEF WritePopVar, Now, GoOn
<1> HIDE DEF calls
<1>4. WorkInv' /\ Nested'
  BY <1>2, <1>3, PlainNested
<1> QED
  BY <1>2, <1>4 DEF BInv

LEMMA WriteCallStep == ASSUME BInv, WriteCall PROVE BInv'
<1>1. HasTables /\ (mngrs' = WithTables(TablesWith(Tables, TempExch)) \/ mngrs' = mngrs)
  BY DEF WriteCall
<1>2. MngrsInv' /\ Len(mngrs') = Len(mngrs)
  <2>1. CASE mngrs' = WithTables(TablesWith(Tables, TempExch))
    BY <1>1, <2>1, VariableMade DEF BInv
  <2>2. CASE mngrs' = mngrs
    BY <2>2 DEF BInv, MngrsInv
  <2> QED
    BY <1>1, <2>1, <2>2
<1> DEFINE calls == << >>
<1>3. work # << >> /\ Head(work).do = "arguments" /\ Plain(calls) /\ work' = calls \o Tail(work)
  BY NoCall DEF WriteCall, Now, GoOn
<1> HIDE DEF calls
<1>4. WorkInv' /\ Nested'
  BY <1>2, <1>3, PlainNested
<1> QED
  BY <1>2, <1>4 DEF BInv

LEMMA WriteFuncDeclStep == ASSUME BInv, WriteFuncDecl PROVE BInv'
<1> DEFINE c == Cell(RetVar, 0)
           m == Manager(<< << c >> >>, TRUE)
<1>1. mngrs' = << m >> \o mngrs
  BY DEF WriteFuncDecl
<1>2. /\ work # << >> /\ Head(work).do = "asmbl"
      /\ work' = Parameters(Visited, Visited.left, 1) \o Tail(work)
  BY DEF WriteFuncDecl, Visiting, Now, GoOn
<1>3. c.loc = 0
  BY DEF Cell
<1> HIDE DEF c
<1>4. m \in Managers({c}) /\ m.tables = << << c >> >> /\ Len(m.tables) = 1
  BY DEF Manager, Managers
<1>5. Good(m, {c}) /\ Cardinality(CellsOf(m.tables)) = 1
  BY <1>3, <1>4, FirstTables DEF Good
<1> HIDE DEF m
<1>6. MngrsInv' /\ Len(mngrs') = Len(mngrs) + 1 /\ mngrs'[1] = m /\ Len(mngrs) \in Nat
  BY <1>1, <1>5, FirstAdded DEF BInv
<1> DEFINE calls == Parameters(Visited, Visited.left, 1)
<1>7. WorkInv' /\ IsSeq(calls) /\ Cardinality(Leavers(calls)) = 1
  <2>1. Len(mngrs') > 0
    BY <1>6
  <2> QED
    BY <1>2, <1>4, <1>5, <1>6, <2>1, ParametersGoOn DEF BInv
<1> HIDE DEF calls
<1>8. work' = calls \o Tail(work)
  BY <1>2 DEF calls
<1>10. Len(mngrs') \in Nat
  BY <1>6
<1>11. Len(mngrs') + (IF Head(work).do \in {"leave", "parameters"} THEN 1 ELSE 0)
         = Len(mngrs) + Cardinality(Leavers(calls))
  BY <1>2, <1>6, <1>7
<1>9. Nested'
  BY <1>2, <1>6, <1>7, <1>8, <1>10, <1>11, StaysNested DEF BInv, WorkInv
<1> QED
  BY <1>6, <1>7, <1>9 DEF BInv

LEMMA WriteMainStep == ASSUME BInv, WriteMain PROVE BInv'
<1> DEFINE m == Manager(<< << >> >>, TRUE)
<1>1. mngrs' = << m >> \o mngrs
  BY DEF WriteMain
<1>2. << << >> >> \in Seq(Seq({}))
  BY EmptySeq
<1>3. m \in Managers({}) /\ m.tables = << << >> >>
  BY <1>2 DEF Manager, Managers
<1>4. Good(m, {})
  BY <1>3, FirstTables DEF Good
<1> HIDE DEF m
<1>5. MngrsInv' /\ Len(mngrs') = Len(mngrs) + 1 /\ Len(mngrs) \in Nat
  BY <1>1, <1>4, FirstAdded DEF BInv
<1> DEFINE calls == Asmbl(Visited.right) \o Todo("leave")
<1>6. work # << >> /\ Head(work).do = "asmbl" /\ work' = calls \o Tail(work)
  BY DEF WriteMain, Visiting, Now, GoOn
<1>7. Calls(calls) /\ Cardinality(Leavers(calls)) = 1
  BY PlainCalls, BodyCalls
<1> HIDE DEF calls
<1>8. WorkInv'
  BY <1>6, <1>7, CallsGoOn DEF BInv
<1>10. Len(mngrs') \in Nat
  BY <1>5
<1>11. Len(mngrs') + (IF Head(work).do \in {"leave", "parameters"} THEN 1 ELSE 0)
         = Len(mngrs) + Cardinality(Leavers(calls))
  BY <1>5, <1>6, <1>7
<1>9. Nested'
  BY <1>5, <1>6, <1>7, <1>10, <1>11, StaysNested DEF BInv, WorkInv, Calls
<1> QED
  BY <1>5, <1>8, <1>9 DEF BInv

LEMMA LeaveStep == ASSUME BInv, Leave PROVE BInv'
<1> DEFINE calls == << >>
<1>1. /\ work # << >> /\ Head(work).do = "leave" /\ work' = calls \o Tail(work)
      /\ Plain(calls)
  BY NoCall DEF Leave, Now, GoOn
<1> HIDE DEF calls
<1>2. WorkInv'
  BY <1>1, CallsGoOn, PlainIsCalls DEF BInv
<1>3. Len(mngrs) > 0
  <2>1. Cardinality(Leavers(Tail(work))) \in Nat
          /\ Cardinality(Leavers(work)) = Cardinality(Leavers(Tail(work))) + 1
    BY <1>1, LeaversTail DEF BInv, WorkInv
  <2> QED
    BY <2>1 DEF BInv, Nested
<1>4. MngrsInv' /\ Len(mngrs') + 1 = Len(mngrs)
  BY <1>3, FirstDropped DEF BInv, Leave
<1>5. Cardinality(Leavers(calls)) = 0 /\ IsSeq(calls)
  BY <1>1, FS_EmptySet DEF Plain
<1>6. Len(mngrs) \in Nat /\ Len(mngrs') \in Nat
  BY <1>4, LenProperties DEF BInv, MngrsInv
<1>7. Nested'
  BY <1>1, <1>4, <1>5, <1>6, StaysNested, SMTT(30) DEF BInv, WorkInv
<1> QED
  BY <1>2, <1>4, <1>7 DEF BInv

(* A parameter becomes the next cell of the function's only table.         *)
LEMMA WriteParameterStep == ASSUME BInv, WriteParameter PROVE BInv'
<1> DEFINE k == Head(work).counter
           c == Cell(Head(work).comma.left.value, k)
<1>1. /\ work # << >> /\ CountsParameters /\ Head(work).do = "parameters"
      /\ work' = Parameters(Head(work).func, Head(work).comma.right, k + 1) \o Tail(work)
  BY DEF WriteParameter, Now, GoOn, BInv, WorkInv
<1>2. Len(mngrs) > 0 /\ Len(Tables) = 1 /\ k = Cardinality(CellsOf(Tables))
  BY <1>1 DEF CountsParameters, Tables
<1>3. PICK S : mngrs \in Seq(Managers(S))
  BY DEF BInv, MngrsInv
<1>4. mngrs # << >>
  BY <1>2, EmptySeq
<1>5. Good(mngrs[1], S) /\ Tables = mngrs[1].tables /\ 1 \in 1..Len(mngrs)
  BY <1>3, <1>4, FirstManager DEF BInv, Tables
<1> DEFINE ts == Tables
           T == S \cup {c}
           grown == [ts EXCEPT ![Len(ts)] = Append(@, c)]
           m == [mngrs[1] EXCEPT !.tables = grown]
<1>6. mngrs' = [mngrs EXCEPT ![1] = m]
  <2>1. mngrs' = [mngrs EXCEPT ![1].tables = [Tables EXCEPT ![1] = Append(@, c)]]
    BY DEF WriteParameter, WithTables
  <2>2. [Tables EXCEPT ![1] = Append(@, c)] = grown
    BY <1>2
  <2> QED
    BY <2>1, <2>2
<1>7. mngrs[1] \in Managers(T) /\ ts \in Seq(Seq(T)) /\ Numbered(ts)
  <2>1. S \subseteq T
    OBVIOUS
  <2>2. Managers(S) \subseteq Managers(T)
    BY <2>1, WiderManagers
  <2>3. mngrs[1] \in Managers(T)
    BY <1>5, <2>2 DEF Good
  <2> QED
    BY <1>5, <2>3 DEF Good, Managers
<1>8. c \in T /\ c.loc = Cardinality(CellsOf(ts)) /\ Len(ts) = 1 /\ S \subseteq T
  BY <1>2 DEF Cell
<1> HIDE DEF c, T, ts, k
<1>9. /\ grown \in Seq(Seq(T)) /\ Len(grown) = Len(ts) /\ Numbered(grown)
      /\ Cardinality(CellsOf(grown)) = Cardinality(CellsOf(ts)) + 1
  <2>1. /\ ts \in Seq(Seq(T)) /\ Len(ts) > 0 /\ Numbered(ts)
        /\ c \in T /\ c.loc = Cardinality(CellsOf(ts))
    BY <1>7, <1>8
  <2>2. /\ [ts EXCEPT ![Len(ts)] = Append(@, c)] \in Seq(Seq(T))
        /\ Len([ts EXCEPT ![Len(ts)] = Append(@, c)]) = Len(ts)
        /\ Numbered([ts EXCEPT ![Len(ts)] = Append(@, c)])
        /\ Cardinality(CellsOf([ts EXCEPT ![Len(ts)] = Append(@, c)])) = Cardinality(CellsOf(ts)) + 1
    BY <2>1, CellAdded
  <2> QED
    BY <2>2
<1> HIDE DEF grown
<1>10. m \in Managers(T) /\ m.tables = grown
  BY <1>7, <1>9 DEF Managers
<1> HIDE DEF m
<1>11. Good(m, T)
  BY <1>9, <1>10 DEF Good
<1>12. MngrsInv' /\ Len(mngrs') = Len(mngrs)
  BY <1>3, <1>6, <1>8, <1>11, FirstChanged DEF BInv
<1>13. Len(mngrs') > 0 /\ mngrs'[1] = m
  <2>1. mngrs \in Seq(Managers(T))
    <3>1. Managers(S) \subseteq Managers(T)
      BY <1>8, WiderManagers
    <3> QED
      BY <1>3, <3>1, SeqMonotonic
  <2>2. m \in Managers(T)
    BY <1>10
  <2>3. /\ Len(mngrs') = Len(mngrs)
        /\ \A j \in 1..Len(mngrs) : mngrs'[j] = IF j = 1 THEN m ELSE mngrs[j]
    BY <1>5, <1>6, <2>1, <2>2, ExceptSeq
  <2> QED
    BY <1>2, <1>5, <2>3
<1>14. k + 1 = Cardinality(CellsOf(mngrs'[1].tables)) /\ Len(mngrs'[1].tables) = 1
  BY <1>2, <1>8, <1>9, <1>10, <1>13 DEF ts
<1> DEFINE calls == Parameters(Head(work).func, Head(work).comma.right, k + 1)
<1>15. WorkInv' /\ IsSeq(calls) /\ Cardinality(Leavers(calls)) = 1
  BY <1>1, <1>13, <1>14, ParametersGoOn DEF BInv
<1>16. Len(mngrs) \in Nat
  BY <1>3, LenProperties
<1> HIDE DEF calls
<1>17. work' = calls \o Tail(work)
  BY <1>1 DEF calls
<1>18. Nested'
  BY <1>1, <1>12, <1>15, <1>16, <1>17, StaysNested DEF BInv, WorkInv
<1> QED
  BY <1>12, <1>15, <1>18 DEF BInv

LEMMA WriteBodyStep == ASSUME BInv, WriteBody PROVE BInv'
<1> DEFINE body == Asmbl(Head(work).func.right) \o Write(<< NoArg("RET") >>)
           calls == body \o Todo("leave")
<1>1. Plain(body)
  BY PlainCalls, CallsInTurn
<1>2. work # << >> /\ Head(work).do = "parameters" /\ mngrs' = mngrs
  BY DEF WriteBody, Now
<1>3. work' = (Asmbl(Head(work).func.right) \o Write(<< NoArg("RET") >>) \o Todo("leave")) \o Tail(work)
  BY DEF WriteBody, GoOn
<1>4. work' = calls \o Tail(work)
  BY <1>3
<1> HIDE DEF body
<1>5. Calls(calls) /\ Cardinality(Leavers(calls)) = 1
  BY <1>1, BodyCalls
<1> HIDE DEF calls
<1>6. WorkInv'
  BY <1>2, <1>4, <1>5, CallsGoOn DEF BInv
<1>7. MngrsInv' /\ Len(mngrs) \in Nat
  BY <1>2, LenProperties DEF BInv, MngrsInv
<1>8. Nested'
  BY <1>2, <1>4, <1>5, <1>7, StaysNested DEF BInv, WorkInv, Calls
<1> QED
  BY <1>6, <1>7, <1>8 DEF BInv

LEMMA BackendStep == BInv /\ [BNext]_bvars => BInv'
<1> SUFFICES ASSUME BInv, [BNext]_bvars PROVE BInv'
  OBVIOUS
<1>1. CASE ScopeStart
  BY <1>1, ScopeStartStep
<1>2. CASE ScopeEnd
  BY <1>2, ScopeEndStep
<1>3. CASE Semicolon
  <2> DEFINE calls == Children(Visited)
  <2>1. Plain(calls)
    BY PlainCalls
  <2>2. /\ work # << >> /\ Head(work).do \notin {"leave", "parameters"}
        /\ GoOn(calls) /\ mngrs' = mngrs
    BY <1>3 DEF Semicolon, Visiting, Now
  <2> HIDE DEF calls
  <2> QED
    BY <2>1, <2>2, PlainStep
<1>4. CASE WriteLines
  <2> DEFINE calls == << >>
  <2>1. Plain(calls)
    BY NoCall
  <2>2. /\ work # << >> /\ Head(work).do \notin {"leave", "parameters"}
        /\ GoOn(calls) /\ mngrs' = mngrs
    BY <1>4 DEF WriteLines, Visiting, Now
  <2> HIDE DEF calls
  <2> QED
    BY <2>1, <2>2, PlainStep
<1>5. CASE WriteNum
  <2> DEFINE calls == << >>
  <2>1. Plain(calls)
    BY NoCall
  <2>2. /\ work # << >> /\ Head(work).do \notin {"leave", "parameters"}
        /\ GoOn(calls) /\ mngrs' = mngrs
    BY <1>5 DEF WriteNum, Visiting, Now
  <2> HIDE DEF calls
  <2> QED
    BY <2>1, <2>2, PlainStep
<1>6. CASE WriteVar
  <2> DEFINE calls == << >>
  <2>1. Plain(calls)
    BY NoCall
  <2>2. /\ work # << >> /\ Head(work).do \notin {"leave", "parameters"}
        /\ GoOn(calls) /\ mngrs' = mngrs
    BY <1>6 DEF WriteVar, Visiting, Now
  <2> HIDE DEF calls
  <2> QED
    BY <2>1, <2>2, PlainStep
<1>7. CASE WritePopVar
  BY <1>7, WritePopVarStep
<1>8. CASE WriteOp
  <2> DEFINE assignment == Asmbl(Visited.right) \o PopVar(Visited.left.value)
             operation == Children(Visited) \o Write(<< OpLine(Visited.value) >>)
  <2>1. Plain(assignment) /\ Plain(operation)
    BY PlainCalls, CallsInTurn
  <2>2. /\ work # << >> /\ Head(work).do \notin {"leave", "parameters"} /\ mngrs' = mngrs
        /\ GoOn(assignment) \/ GoOn(operation)
    BY <1>8 DEF WriteOp, Visiting, Now
  <2> HIDE DEF assignment, operation
  <2> QED
    BY <2>1, <2>2, PlainStep
<1>9. CASE WriteGetvar
  <2> DEFINE calls == PopVar(Visited.right.value)
  <2>1. Plain(calls)
    BY PlainCalls
  <2>2. /\ work # << >> /\ Head(work).do \notin {"leave", "parameters"}
        /\ GoOn(calls) /\ mngrs' = mngrs
    BY <1>9 DEF WriteGetvar, Visiting, Now
  <2> HIDE DEF calls
  <2> QED
    BY <2>1, <2>2, PlainStep
<1>10. CASE WritePutexpr
  <2> DEFINE calls == Asmbl(Visited.right) \o Write(<< NoArg("OUT") >>)
  <2>1. Plain(calls)
    BY PlainCalls, CallsInTurn
  <2>2. /\ work # << >> /\ Head(work).do \notin {"leave", "parameters"}
        /\ GoOn(calls) /\ mngrs' = mngrs
    BY <1>10 DEF WritePutexpr, Visiting, Now
  <2> HIDE DEF calls
  <2> QED
    BY <2>1, <2>2, PlainStep
<1>11. CASE WriteCondExpr
  <2> DEFINE calls == Asmbl(Visited.right) \o Asmbl(Visited.left)
                     \o << [do |-> "cond_end", jump |-> CondJump[Visited.type]] >>
  <2>1. Plain(calls)
    BY PlainCalls, CallsInTurn
  <2>2. /\ work # << >> /\ Head(work).do \notin {"leave", "parameters"}
        /\ GoOn(calls) /\ mngrs' = mngrs
    BY <1>11 DEF WriteCondExpr, Visiting, Now
  <2> HIDE DEF calls
  <2> QED
    BY <2>1, <2>2, PlainStep
<1>12. CASE WriteCondEnd
  <2> DEFINE calls == << >>
  <2>1. Plain(calls)
    BY NoCall
  <2>2. /\ work # << >> /\ Head(work).do \notin {"leave", "parameters"}
        /\ GoOn(calls) /\ mngrs' = mngrs
    BY <1>12 DEF WriteCondEnd, Visiting, Now
  <2> HIDE DEF calls
  <2> QED
    BY <2>1, <2>2, PlainStep
<1>13. CASE WriteWhile
  <2> DEFINE calls == Asmbl(Visited.left)
                     \o Write(<< Literal(0), Jump("JE", BreakLabel(label_ct)) >>)
                     \o Asmbl(Visited.right)
                     \o Write(<< Jump("JMP", WhileLabel(label_ct)), LabelLine(BreakLabel(label_ct)) >>)
  <2>1. Plain(calls)
    BY PlainCalls, CallsInTurn
  <2>2. /\ work # << >> /\ Head(work).do \notin {"leave", "parameters"}
        /\ GoOn(calls) /\ mngrs' = mngrs
    BY <1>13 DEF WriteWhile, Visiting, Now
  <2> HIDE DEF calls
  <2> QED
    BY <2>1, <2>2, PlainStep
<1>14. CASE WriteIf
  <2> DEFINE calls == Asmbl(Visited.left) \o Todo("if_test") \o Asmbl(Visited.right) \o Todo("if_end")
  <2>1. Plain(calls)
    BY PlainCalls, CallsInTurn
  <2>2. /\ work # << >> /\ Head(work).do \notin {"leave", "parameters"}
        /\ GoOn(calls) /\ mngrs' = mngrs
    BY <1>14 DEF WriteIf, Visiting, Now
  <2> HIDE DEF calls
  <2> QED
    BY <2>1, <2>2, PlainStep
<1>15. CASE WriteIfTest
  <2> DEFINE calls == << >>
  <2>1. Plain(calls)
    BY NoCall
  <2>2. /\ work # << >> /\ Head(work).do \notin {"leave", "parameters"}
        /\ GoOn(calls) /\ mngrs' = mngrs
    BY <1>15 DEF WriteIfTest, Visiting, Now
  <2> HIDE DEF calls
  <2> QED
    BY <2>1, <2>2, PlainStep
<1>16. CASE WriteIfEnd
  <2> DEFINE calls == << >>
  <2>1. Plain(calls)
    BY NoCall
  <2>2. /\ work # << >> /\ Head(work).do \notin {"leave", "parameters"}
        /\ GoOn(calls) /\ mngrs' = mngrs
    BY <1>16 DEF WriteIfEnd, Visiting, Now
  <2> HIDE DEF calls
  <2> QED
    BY <2>1, <2>2, PlainStep
<1>17. CASE WriteFunc
  <2> DEFINE calls == Arguments(Visited, Visited.left, 0)
  <2>1. Plain(calls)
    BY PlainCalls
  <2>2. /\ work # << >> /\ Head(work).do \notin {"leave", "parameters"}
        /\ GoOn(calls) /\ mngrs' = mngrs
    BY <1>17 DEF WriteFunc, Visiting, Now
  <2> HIDE DEF calls
  <2> QED
    BY <2>1, <2>2, PlainStep
<1>18. CASE WriteArgument
  <2> DEFINE calls == Asmbl(Head(work).comma.left)
                     \o Arguments(Head(work).func, Head(work).comma.right, Head(work).counter + 1)
  <2>1. Plain(calls)
    BY PlainCalls, CallsInTurn
  <2>2. /\ work # << >> /\ Head(work).do \notin {"leave", "parameters"}
        /\ GoOn(calls) /\ mngrs' = mngrs
    BY <1>18 DEF WriteArgument, Visiting, Now
  <2> HIDE DEF calls
  <2> QED
    BY <2>1, <2>2, PlainStep
<1>19. CASE WriteCall
  BY <1>19, WriteCallStep
<1>20. CASE WriteFuncDecl
  BY <1>20, WriteFuncDeclStep
<1>21. CASE WriteParameter
  BY <1>21, WriteParameterStep
<1>22. CASE WriteBody
  BY <1>22, WriteBodyStep
<1>23. CASE WriteMain
  BY <1>23, WriteMainStep
<1>24. CASE Leave
  BY <1>24, LeaveStep
<1>25. CASE WriteReturn
  <2> DEFINE calls == Asmbl(Visited.right) \o Write(<< PopInto(Place(0)), NoArg("RET") >>)
  <2>1. Plain(calls)
    BY PlainCalls, CallsInTurn
  <2>2. /\ work # << >> /\ Head(work).do \notin {"leave", "parameters"}
        /\ GoOn(calls) /\ mngrs' = mngrs
    BY <1>25 DEF WriteReturn, Visiting, Now
  <2> HIDE DEF calls
  <2> QED
    BY <2>1, <2>2, PlainStep
<1>26. CASE UseWithoutTables \/ Assembled \/ UNCHANGED bvars
  <2>1. work' = work /\ mngrs' = mngrs
    BY <1>26 DEF UseWithoutTables, Assembled, bvars
  <2> QED
    BY <2>1 DEF BInv, WorkInv, MngrsInv, CountsParameters, Nested
<1> QED
  BY <1>1, <1>2, <1>3, <1>4, <1>5, <1>6, <1>7, <1>8, <1>9,
     <1>10, <1>11, <1>12, <1>13, <1>14, <1>15, <1>16, <1>17, <1>18,
     <1>19, <1>20, <1>21, <1>22, <1>23, <1>24, <1>25, <1>26 DEF BNext

LEMMA NumbersApart == BInv => NoSharedLocation
<1> SUFFICES ASSUME BInv, NEW m \in DOMAIN mngrs,
                    NEW p \in CellsOf(mngrs[m].tables), NEW q \in CellsOf(mngrs[m].tables), p # q
             PROVE  mngrs[m].tables[p[1]][p[2]].loc # mngrs[m].tables[q[1]][q[2]].loc
  BY DEF NoSharedLocation
<1>1. m \in 1..Len(mngrs)
  BY LenProperties DEF BInv, MngrsInv
<1>2. Numbered(mngrs[m].tables)
  BY <1>1 DEF BInv, MngrsInv
<1> QED
  BY <1>2 DEF Numbered, CellAt

(* No two variables of a function that are visible together are given one  *)
(* place, whatever tree the backend is handed and however its scopes open  *)
(* and close (get_loc, upgrade_n_table, downgrade_n_table).                *)
THEOREM VariablesKeepApart == BSpec => []NoSharedLocation
<1>1. BInit => BInv
  BY BackendStarts
<1>2. BInv /\ [BNext]_bvars => BInv'
  BY BackendStep
<1>3. BInv => NoSharedLocation
  BY NumbersApart
<1> QED
  BY <1>1, <1>2, <1>3, PTL DEF BSpec
-------------------------------------------------------------------------------
(* The labels of loops, ifs and comparisons.                               *)
Numbers(name) == {n \in Nat : name = WhileLabel(n) \/ name = BreakLabel(n)}

(* The label a node is the declaration of.                                 *)
Own(node) ==
  CASE node.type = "FUNC_DECL" -> {node.value}
    [] node.type = "MAIN" -> {MainLabel}
    [] OTHER -> {}

Callers == {"FUNC", "CMD_FUNC"}
Testers == {"IF", "WHILE"} \cup Conditions
Holders == {"SEMICOLON", "SCOPE_START", "SCOPE_END", "WHILE", "IF", "FUNC_DECL", "MAIN"}

(* A node and its two children, of which each may be NULL: what it         *)
(* declares, each name once; a body of an if that tests nothing.           *)
NodeFits(n, g) ==
  /\ n.left \in g.nodes \cup {NoNode} /\ n.right \in g.nodes \cup {NoNode}
  /\ g.decls[n] = Own(n) \cup g.decls[n.left] \cup g.decls[n.right]
  /\ Own(n) \cap (g.decls[n.left] \cup g.decls[n.right]) = {}
  /\ g.decls[n.left] \cap g.decls[n.right] = {}
  /\ \A name \in g.decls[n] : Numbers(name) = {}
  /\ n.type \notin Holders => g.decls[n] = {}
  /\ n.type \in {"FUNC_DECL", "MAIN"} => g.decls[n.left] = {}
  /\ n.type = "IF" => n.right \in g.plain \cup {NoNode}

PlainFits(n, g) ==
  /\ n.type \notin Testers
  /\ n.left \in g.plain \cup {NoNode} /\ n.right \in g.plain \cup {NoNode}

(* g tells what there is in a tree: its nodes, those that test nothing,    *)
(* and which functions each of them declares.                              *)
Fits(tree, g) ==
  /\ tree \in g.nodes \cup {NoNode}
  /\ g.decls[NoNode] = {}
  /\ g.plain \subseteq g.nodes
  /\ \A n \in g.nodes : NodeFits(n, g)
  /\ \A n \in g.plain : PlainFits(n, g)
  /\ \A n \in g.nodes : n.type \in Callers => n.value \in g.decls[tree]

(* A program that declares what it calls, each function once and none by   *)
(* the name of a label, and in which the body of an if, unlike its         *)
(* condition and unlike the body of a while, contains no comparison, while *)
(* or if: write_if reads label_ct once before its body and once behind.    *)
WellLabelled(tree) == \E g : Fits(tree, g)
-------------------------------------------------------------------------------
LabelsIn(lines) == {lines[i].name : i \in {j \in 1..Len(lines) : lines[j].op = "LABEL"}}

OncePerLine(lines) ==
  \A i, j \in 1..Len(lines) :
    lines[i].op = "LABEL" /\ lines[j].op = "LABEL" /\ lines[i].name = lines[j].name => i = j

(* The labels that a call is going to write, but for those it has no       *)
(* number for yet.                                                         *)
Owes(call, g) ==
  CASE call.do = "write" -> LabelsIn(call.lines)
    [] call.do = "asmbl" -> g.decls[call.node]
    [] call.do = "parameters" -> {call.func.value} \cup g.decls[call.func.right]
    [] OTHER -> {}

CallFits(call, g) ==
  /\ call.do = "write" => IsSeq(call.lines) /\ OncePerLine(call.lines)
  /\ call.do = "asmbl" => call.node \in g.nodes /\ call.node # NoNode
  /\ call.do = "arguments" =>
       call.counter \in Nat /\ call.func \in g.nodes /\ call.func.type \in Callers
         /\ call.comma \in g.nodes \cup {NoNode} /\ g.decls[call.comma] = {}
  /\ call.do = "parameters" => call.func \in g.nodes /\ call.func.type = "FUNC_DECL"
  /\ call.do = "cond_end" => call.jump # "LABEL"

(* A call that draws no number.                                            *)
Calm(call, g) ==
  /\ call.do \notin {"cond_end", "if_test", "if_end"}
  /\ call.do = "asmbl" => call.node \in g.plain
  /\ call.do = "arguments" => call.comma \in g.plain \cup {NoNode}
  /\ call.do = "parameters" => call.func.right \in g.plain \cup {NoNode}

(* Sequences of calls.                                                     *)
OwedBy(s, g) == UNION {Owes(s[k], g) : k \in 1..Len(s)}

Orderly(s, g) ==
  /\ IsSeq(s)
  /\ \A k \in 1..Len(s) : CallFits(s[k], g)
  /\ \A k, l \in 1..Len(s) : k # l => Owes(s[k], g) \cap Owes(s[l], g) = {}

AllCalm(s, g) == \A k \in 1..Len(s) : Calm(s[k], g)

(* The end of an if comes before any number is drawn.                      *)
EndAhead(s, g) ==
  \E k \in 1..Len(s) : s[k].do = "if_end" /\ \A i \in 1..(k - 1) : Calm(s[i], g)

EndBehind(s, g, k) ==
  \E l \in (k + 1)..Len(s) :
    s[l].do = "if_end" /\ \A i \in (k + 1)..(l - 1) : Calm(s[i], g)

Tested(s, g) == \A k \in 1..Len(s) : s[k].do = "if_test" => EndBehind(s, g, k)

(* The jumps of some lines lead to names of a set.                         *)
JumpsInto(lines, names) ==
  \A i \in 1..Len(lines) : lines[i].op \in LabelCommands => lines[i].name \in names

WritesInto(s, names) ==
  \A k \in 1..Len(s) : s[k].do = "write" => JumpsInto(s[k].lines, names)
-------------------------------------------------------------------------------
Known(g) == LabelsIn(asm_file) \cup OwedBy(work, g)

Open(g) == IF EndAhead(work, g) THEN {BreakLabel(label_ct)} ELSE {}

LabelInvWith(g) ==
  /\ label_ct \in Nat
  /\ IsSeq(asm_file)
  /\ Orderly(work, g)
  /\ Tested(work, g)
  /\ OncePerLine(asm_file)
  /\ LabelsIn(asm_file) \cap OwedBy(work, g) = {}
  /\ \A name \in Known(g) : \A n \in Numbers(name) : n < label_ct
  /\ g.decls[root] \subseteq Known(g)
  /\ WritesInto(work, Known(g))
  /\ JumpsInto(asm_file, Known(g) \cup Open(g))
  /\ bstage = "written" => work = << >>

LabelInv == \E g : Fits(root, g) /\ LabelInvWith(g)
-------------------------------------------------------------------------------
(* Lines.                                                                  *)
LEMMA LabelIn ==
  ASSUME NEW s, NEW name
  PROVE  name \in LabelsIn(s) <=> \E i \in 1..Len(s) : s[i].op = "LABEL" /\ s[i].name = name
BY DEF LabelsIn

LEMMA LinesJoined ==
  ASSUME NEW a, NEW b, IsSeq(a), IsSeq(b)
  PROVE  /\ LabelsIn(a \o b) = LabelsIn(a) \cup LabelsIn(b)
         /\ OncePerLine(a) /\ OncePerLine(b) /\ LabelsIn(a) \cap LabelsIn(b) = {}
              => OncePerLine(a \o b)
         /\ \A names : JumpsInto(a, names) /\ JumpsInto(b, names) => JumpsInto(a \o b, names)
<1> DEFINE ab == a \o b
<1>a. Follow(a, b, ab)
  BY Joined, Zenon
<1> HIDE DEF ab
<1>1. /\ \A i \in 1..Len(a) : i \in 1..Len(ab) /\ ab[i] = a[i]
      /\ \A j \in 1..Len(b) : Len(a) + j \in 1..Len(ab) /\ ab[Len(a) + j] = b[j]
      /\ \A i \in 1..Len(ab) : i \in 1..Len(a) \/ \E j \in 1..Len(b) : i = Len(a) + j
  BY <1>a DEF Follow
<1>2. LabelsIn(ab) = LabelsIn(a) \cup LabelsIn(b)
  <2>1. ASSUME NEW name \in LabelsIn(ab) PROVE name \in LabelsIn(a) \cup LabelsIn(b)
    <3>1. PICK i \in 1..Len(ab) : ab[i].op = "LABEL" /\ ab[i].name = name
      BY <2>1, LabelIn
    <3>2. CASE i \in 1..Len(a)
      BY <1>1, <3>1, <3>2, LabelIn
    <3>3. CASE \E j \in 1..Len(b) : i = Len(a) + j
      BY <1>1, <3>1, <3>3, LabelIn
    <3> QED
      BY <1>1, <3>2, <3>3
  <2>2. ASSUME NEW name \in LabelsIn(a) PROVE name \in LabelsIn(ab)
    BY <1>1, <2>2, LabelIn
  <2>3. ASSUME NEW name \in LabelsIn(b) PROVE name \in LabelsIn(ab)
    <3>1. PICK j \in 1..Len(b) : b[j].op = "LABEL" /\ b[j].name = name
      BY <2>3, LabelIn
    <3>2. Len(a) + j \in 1..Len(ab) /\ ab[Len(a) + j] = b[j]
      BY <1>1
    <3> QED
      BY <3>1, <3>2, LabelIn
  <2> QED
    BY <2>1, <2>2, <2>3
<1>3. ASSUME OncePerLine(a), OncePerLine(b), LabelsIn(a) \cap LabelsIn(b) = {},
             NEW i \in 1..Len(ab), NEW j \in 1..Len(ab),
             ab[i].op = "LABEL", ab[j].op = "LABEL", ab[i].name = ab[j].name
      PROVE  i = j
  <2>1. CASE i \in 1..Len(a) /\ j \in 1..Len(a)
    BY <2>1, <1>1, <1>3 DEF OncePerLine
  <2>2. ASSUME NEW x \in 1..Len(b), NEW y \in 1..Len(b), i = Len(a) + x, j = Len(a) + y
        PROVE  i = j
    <3>1. b[x].op = "LABEL" /\ b[y].op = "LABEL" /\ b[x].name = b[y].name
      BY <1>1, <1>3, <2>2
    <3>2. x = y
      BY <1>3, <3>1 DEF OncePerLine
    <3> QED
      BY <2>2, <3>2
  <2>3. ASSUME NEW k \in 1..Len(a), NEW x \in 1..Len(b), ab[k].op = "LABEL",
               ab[Len(a) + x].op = "LABEL", ab[k].name = ab[Len(a) + x].name
        PROVE  FALSE
    <3>1. a[k].name \in LabelsIn(a)
      BY <1>1, <2>3 DEF LabelsIn
    <3>2. b[x].name \in LabelsIn(b)
      BY <1>1, <2>3 DEF LabelsIn
    <3>3. a[k].name = b[x].name
      BY <1>1, <2>3
    <3> QED
      BY <1>3, <3>1, <3>2, <3>3
  <2>4. CASE i \in 1..Len(a) /\ j \notin 1..Len(a)
    BY <2>3, <2>4, <1>1, <1>3
  <2>5. CASE i \notin 1..Len(a) /\ j \in 1..Len(a)
    BY <2>3, <2>5, <1>1, <1>3
  <2> QED
    BY <2>1, <2>2, <2>4, <2>5, <1>1
<1>4. ASSUME NEW names, JumpsInto(a, names), JumpsInto(b, names)
      PROVE  JumpsInto(ab, names)
  BY <1>1, <1>4 DEF JumpsInto
<1>5. OncePerLine(a) /\ OncePerLine(b) /\ LabelsIn(a) \cap LabelsIn(b) = {} => OncePerLine(ab)
  BY <1>3 DEF OncePerLine
<1> QED
  BY <1>2, <1>4, <1>5 DEF ab

LEMMA NoLine ==
  LabelsIn(<< >>) = {} /\ OncePerLine(<< >>) /\ \A names : JumpsInto(<< >>, names)
BY Short DEF LabelsIn, OncePerLine, JumpsInto

LEMMA OneLine ==
  ASSUME NEW x
  PROVE  /\ LabelsIn(<< x >>) = IF x.op = "LABEL" THEN {x.name} ELSE {}
         /\ OncePerLine(<< x >>)
         /\ \A names : (x.op \in LabelCommands => x.name \in names) => JumpsInto(<< x >>, names)
<1> DEFINE s == << x >>
<1>1. Len(s) = 1 /\ s[1] = x
  BY Short
<1> HIDE DEF s
<1>2. 1..Len(s) = {1}
  BY <1>1
<1>3. LabelsIn(s) = IF x.op = "LABEL" THEN {x.name} ELSE {}
  BY <1>1, <1>2 DEF LabelsIn
<1>4. OncePerLine(s)
  BY <1>2 DEF OncePerLine
<1>5. \A names : (x.op \in LabelCommands => x.name \in names) => JumpsInto(s, names)
  BY <1>1, <1>2 DEF JumpsInto
<1> QED
  BY <1>3, <1>4, <1>5 DEF s

(* Lines without labels and jumps.                                         *)
Bare(lines) ==
  /\ IsSeq(lines)
  /\ \A i \in 1..Len(lines) : lines[i].op \notin LabelCommands \cup {"LABEL"}

LEMMA BareLines ==
  ASSUME NEW lines, Bare(lines)
  PROVE  /\ IsSeq(lines) /\ LabelsIn(lines) = {} /\ OncePerLine(lines)
         /\ \A names : JumpsInto(lines, names)
BY DEF Bare, LabelsIn, OncePerLine, JumpsInto

LEMMA BareJoined ==
  ASSUME NEW a, NEW b, Bare(a), Bare(b)
  PROVE  Bare(a \o b)
<1>1. IsSeq(a) /\ IsSeq(b)
  BY DEF Bare
<1> QED
  BY <1>1, Joined DEF Bare, Follow

LEMMA BareOne ==
  ASSUME NEW x, x.op \notin LabelCommands \cup {"LABEL"}
  PROVE  Bare(<< x >>)
<1> DEFINE s == << x >>
<1>1. IsSeq(s) /\ Len(s) = 1 /\ s[1] = x
  BY Short
<1> HIDE DEF s
<1>2. Bare(s)
  BY <1>1 DEF Bare
<1> QED
  BY <1>2 DEF s
-------------------------------------------------------------------------------
(* Calls.                                                                  *)
LEMMA OwedIn ==
  ASSUME NEW s, NEW g, NEW name
  PROVE  name \in OwedBy(s, g) <=> \E k \in 1..Len(s) : name \in Owes(s[k], g)
BY DEF OwedBy

LEMMA NoneOwed == \A g : Orderly(<< >>, g) /\ OwedBy(<< >>, g) = {}
BY Short DEF Orderly, OwedBy

LEMMA OneOwed ==
  ASSUME NEW x, NEW g, CallFits(x, g)
  PROVE  Orderly(<< x >>, g) /\ OwedBy(<< x >>, g) = Owes(x, g)
<1> DEFINE s == << x >>
<1>1. IsSeq(s) /\ Len(s) = 1 /\ s[1] = x
  BY Short
<1> HIDE DEF s
<1>2. 1..Len(s) = {1}
  BY <1>1
<1>3. Orderly(s, g)
  <2>1. \A k \in 1..Len(s) : CallFits(s[k], g)
    BY <1>1, <1>2
  <2>2. \A k, l \in 1..Len(s) : k # l => Owes(s[k], g) \cap Owes(s[l], g) = {}
    BY <1>2
  <2> QED
    BY <1>1, <2>1, <2>2 DEF Orderly
<1>4. OwedBy(s, g) = Owes(x, g)
  BY <1>1, <1>2 DEF OwedBy
<1> QED
  BY <1>3, <1>4 DEF s

LEMMA OwedJoined ==
  ASSUME NEW a, NEW b, NEW g, IsSeq(a), IsSeq(b)
  PROVE  OwedBy(a \o b, g) = OwedBy(a, g) \cup OwedBy(b, g)
<1> DEFINE ab == a \o b
<1>1. Follow(a, b, ab)
  BY Joined, Zenon
<1> HIDE DEF ab
<1>2. ASSUME NEW name \in OwedBy(ab, g) PROVE name \in OwedBy(a, g) \cup OwedBy(b, g)
  <2>1. PICK i \in 1..Len(ab) : name \in Owes(ab[i], g)
    BY <1>2, OwedIn
  <2>2. CASE i \in 1..Len(a)
    <3>1. ab[i] = a[i]
      BY <1>1, <2>2 DEF Follow
    <3> QED
      BY <2>1, <2>2, <3>1, OwedIn
  <2>3. ASSUME NEW j \in 1..Len(b), i = Len(a) + j PROVE name \in OwedBy(b, g)
    <3>1. ab[i] = b[j]
      BY <1>1, <2>3 DEF Follow
    <3> QED
      BY <2>1, <3>1, OwedIn
  <2> QED
    BY <1>1, <2>2, <2>3 DEF Follow
<1>3. ASSUME NEW name \in OwedBy(a, g) PROVE name \in OwedBy(ab, g)
  <2>1. PICK i \in 1..Len(a) : name \in Owes(a[i], g)
    BY <1>3, OwedIn
  <2>2. i \in 1..Len(ab) /\ ab[i] = a[i]
    BY <1>1 DEF Follow
  <2> QED
    BY <2>1, <2>2, OwedIn
<1>4. ASSUME NEW name \in OwedBy(b, g) PROVE name \in OwedBy(ab, g)
  <2>1. PICK j \in 1..Len(b) : name \in Owes(b[j], g)
    BY <1>4, OwedIn
  <2>2. Len(a) + j \in 1..Len(ab) /\ ab[Len(a) + j] = b[j]
    BY <1>1 DEF Follow
  <2> QED
    BY <2>1, <2>2, OwedIn
<1> QED
  BY <1>2, <1>3, <1>4 DEF ab

LEMMA OrderlyJoined ==
  ASSUME NEW a, NEW b, NEW g, Orderly(a, g), Orderly(b, g),
         OwedBy(a, g) \cap OwedBy(b, g) = {}
  PROVE  Orderly(a \o b, g)
<1> DEFINE ab == a \o b
<1>a. IsSeq(a) /\ IsSeq(b)
  BY DEF Orderly
<1>1. Follow(a, b, ab) /\ IsSeq(ab)
  BY <1>a, Joined, Zenon
<1> HIDE DEF ab
<1>2. ASSUME NEW k \in 1..Len(ab) PROVE CallFits(ab[k], g)
  <2>1. CASE k \in 1..Len(a)
    <3>1. ab[k] = a[k]
      BY <1>1, <2>1 DEF Follow
    <3> QED
      BY <2>1, <3>1 DEF Orderly
  <2>2. ASSUME NEW j \in 1..Len(b), k = Len(a) + j PROVE CallFits(ab[k], g)
    <3>1. ab[k] = b[j]
      BY <1>1, <2>2 DEF Follow
    <3> QED
      BY <3>1 DEF Orderly
  <2> QED
    BY <1>1, <2>1, <2>2 DEF Follow
<1>3. ASSUME NEW k \in 1..Len(ab), NEW l \in 1..Len(ab), k # l,
             NEW name, name \in Owes(ab[k], g), name \in Owes(ab[l], g)
      PROVE  FALSE
  <2>1. ASSUME NEW i \in 1..Len(a), NEW j \in 1..Len(b),
               name \in Owes(ab[i], g), name \in Owes(ab[Len(a) + j], g)
        PROVE  FALSE
    <3>1. ab[i] = a[i] /\ ab[Len(a) + j] = b[j]
      BY <1>1 DEF Follow
    <3>2. name \in OwedBy(a, g) /\ name \in OwedBy(b, g)
      BY <2>1, <3>1, OwedIn
    <3> QED
      BY <3>2
  <2>2. CASE k \in 1..Len(a) /\ l \in 1..Len(a)
    <3>1. ab[k] = a[k] /\ ab[l] = a[l]
      BY <1>1, <2>2 DEF Follow
    <3> QED
      BY <1>3, <2>2, <3>1 DEF Orderly
  <2>3. ASSUME NEW i \in 1..Len(b), NEW j \in 1..Len(b), k = Len(a) + i, l = Len(a) + j
        PROVE  FALSE
    <3>1. ab[k] = b[i] /\ ab[l] = b[j] /\ i # j
      BY <1>1, <1>3, <2>3 DEF Follow
    <3> QED
      BY <1>3, <3>1 DEF Orderly
  <2>4. CASE k \in 1..Len(a) /\ \E j \in 1..Len(b) : l = Len(a) + j
    BY <1>3, <2>1, <2>4
  <2>5. CASE l \in 1..Len(a) /\ \E j \in 1..Len(b) : k = Len(a) + j
    BY <1>3, <2>1, <2>5
  <2> QED
    BY <1>1, <2>2, <2>3, <2>4, <2>5 DEF Follow
<1>4. \A k, l \in 1..Len(ab) : k # l => Owes(ab[k], g) \cap Owes(ab[l], g) = {}
  BY <1>3
<1>5. Orderly(ab, g)
  BY <1>1, <1>2, <1>4 DEF Orderly
<1> QED
  BY <1>5 DEF ab

LEMMA OrderlyTail ==
  ASSUME NEW s, NEW g, Orderly(s, g), s # << >>
  PROVE  /\ CallFits(Head(s), g)
         /\ Orderly(Tail(s), g)
         /\ OwedBy(s, g) = Owes(Head(s), g) \cup OwedBy(Tail(s), g)
         /\ Owes(Head(s), g) \cap OwedBy(Tail(s), g) = {}
<1> DEFINE t == Tail(s)
           h == Head(s)
<1>a. IsSeq(s)
  BY DEF Orderly
<1>1. /\ 1 \in 1..Len(s) /\ h = s[1] /\ IsSeq(t)
      /\ \A k \in 1..Len(t) : k + 1 \in 1..Len(s) /\ t[k] = s[k + 1]
      /\ \A k \in 1..Len(s) : k = 1 \/ k - 1 \in 1..Len(t)
  BY <1>a, Beheaded
<1> HIDE DEF t, h
<1>2. CallFits(h, g)
  BY <1>1 DEF Orderly
<1>3. Orderly(t, g)
  <2>1. \A k \in 1..Len(t) : CallFits(t[k], g)
    BY <1>1 DEF Orderly
  <2>2. ASSUME NEW k \in 1..Len(t), NEW l \in 1..Len(t), k # l
        PROVE  Owes(t[k], g) \cap Owes(t[l], g) = {}
    <3>1. k + 1 \in 1..Len(s) /\ l + 1 \in 1..Len(s) /\ k + 1 # l + 1
      BY <1>1, <2>2
    <3>2. t[k] = s[k + 1] /\ t[l] = s[l + 1]
      BY <1>1
    <3> QED
      BY <3>1, <3>2 DEF Orderly
  <2> QED
    BY <1>1, <2>1, <2>2 DEF Orderly
<1>4. ASSUME NEW name \in OwedBy(s, g) PROVE name \in Owes(h, g) \cup OwedBy(t, g)
  <2>1. PICK k \in 1..Len(s) : name \in Owes(s[k], g)
    BY <1>4, OwedIn
  <2>2. CASE k = 1
    BY <1>1, <2>1, <2>2
  <2>3. CASE k - 1 \in 1..Len(t)
    <3>1. t[k - 1] = s[k]
      <4>1. t[k - 1] = s[(k - 1) + 1] /\ (k - 1) + 1 = k
        BY <1>1, <2>3
      <4> QED
        BY <4>1
    <3> QED
      BY <2>1, <2>3, <3>1, OwedIn
  <2> QED
    BY <1>1, <2>2, <2>3
<1>5. ASSUME NEW name \in Owes(h, g) PROVE name \in OwedBy(s, g)
  BY <1>1, <1>5, OwedIn
<1>6. ASSUME NEW name \in OwedBy(t, g) PROVE name \in OwedBy(s, g) /\ name \notin Owes(h, g)
  <2>1. PICK k \in 1..Len(t) : name \in Owes(t[k], g)
    BY <1>6, OwedIn
  <2>2. k + 1 \in 1..Len(s) /\ t[k] = s[k + 1] /\ k + 1 # 1
    BY <1>1
  <2>3. name \in OwedBy(s, g)
    BY <2>1, <2>2, OwedIn
  <2>4. Owes(s[k + 1], g) \cap Owes(s[1], g) = {}
    BY <1>1, <2>2 DEF Orderly
  <2> QED
    BY <1>1, <2>1, <2>2, <2>3, <2>4
<1>7. OwedBy(s, g) = Owes(h, g) \cup OwedBy(t, g) /\ Owes(h, g) \cap OwedBy(t, g) = {}
  BY <1>4, <1>5, <1>6
<1> QED
  BY <1>2, <1>3, <1>7 DEF t, h
-------------------------------------------------------------------------------
(* The ends of ifs.                                                        *)
LEMMA EndBehindCalm ==
  ASSUME NEW a, NEW b, NEW g, IsSeq(a), IsSeq(b), AllCalm(a, g), EndAhead(b, g)
  PROVE  EndAhead(a \o b, g)
<1> DEFINE ab == a \o b
<1>1. Follow(a, b, ab)
  BY Joined, Zenon
<1> HIDE DEF ab
<1>2. PICK k \in 1..Len(b) : b[k].do = "if_end" /\ \A i \in 1..(k - 1) : Calm(b[i], g)
  BY DEF EndAhead
<1>3. Len(a) + k \in 1..Len(ab) /\ ab[Len(a) + k] = b[k] /\ Len(a) \in Nat /\ Len(b) \in Nat
  BY <1>1 DEF Follow
<1>4. ASSUME NEW i \in 1..(Len(a) + k - 1) PROVE Calm(ab[i], g)
  <2>1. i \in 1..Len(ab) /\ k \in Int
    BY <1>3
  <2>2. CASE i \in 1..Len(a)
    <3>1. ab[i] = a[i]
      BY <1>1, <2>2 DEF Follow
    <3> QED
      BY <2>2, <3>1 DEF AllCalm
  <2>3. ASSUME NEW j \in 1..Len(b), i = Len(a) + j PROVE Calm(ab[i], g)
    <3>1. ab[i] = b[j]
      BY <1>1, <2>3 DEF Follow
    <3>2. j \in 1..(k - 1)
      BY <1>3, <2>3
    <3> QED
      BY <1>2, <3>1, <3>2
  <2> QED
    BY <1>1, <2>1, <2>2, <2>3 DEF Follow
<1>5. EndAhead(ab, g)
  BY <1>2, <1>3, <1>4 DEF EndAhead
<1> QED
  BY <1>5 DEF ab

LEMMA EndInTail ==
  ASSUME NEW s, NEW g, IsSeq(s), EndAhead(s, g)
  PROVE  /\ s # << >>
         /\ Head(s).do = "if_end" \/ (Calm(Head(s), g) /\ EndAhead(Tail(s), g))
<1>1. PICK k \in 1..Len(s) : s[k].do = "if_end" /\ \A i \in 1..(k - 1) : Calm(s[i], g)
  BY DEF EndAhead
<1>2. s # << >>
  BY <1>1, Short
<1> DEFINE t == Tail(s)
           h == Head(s)
<1>3. /\ Len(s) \in Nat /\ h = s[1]
      /\ \A i \in 1..Len(t) : i + 1 \in 1..Len(s) /\ t[i] = s[i + 1]
      /\ \A i \in 1..Len(s) : i = 1 \/ i - 1 \in 1..Len(t)
      /\ Len(t) = Len(s) - 1
  BY <1>2, Beheaded
<1> HIDE DEF t, h
<1>4. CASE k = 1
  BY <1>1, <1>2, <1>3, <1>4 DEF h
<1>5. CASE k # 1
  <2>1. k - 1 \in 1..Len(t) /\ (k - 1) + 1 = k
    BY <1>3, <1>5
  <2>2. t[k - 1] = s[k]
    BY <1>3, <2>1
  <2>3. ASSUME NEW i \in 1..((k - 1) - 1) PROVE Calm(t[i], g)
    <3>1. i \in 1..Len(t) /\ i + 1 \in 1..(k - 1)
      BY <1>3, <2>1
    <3> QED
      BY <1>1, <1>3, <3>1
  <2>4. EndAhead(t, g)
    BY <1>1, <2>1, <2>2, <2>3 DEF EndAhead
  <2>5. 1 \in 1..(k - 1)
    BY <1>5
  <2> QED
    BY <1>1, <1>2, <1>3, <2>4, <2>5 DEF t, h
<1> QED
  BY <1>4, <1>5

LEMMA TestedJoined ==
  ASSUME NEW a, NEW b, NEW g, IsSeq(a), IsSeq(b), Tested(a, g), Tested(b, g)
  PROVE  Tested(a \o b, g)
<1> DEFINE ab == a \o b
<1>1. Follow(a, b, ab)
  BY Joined, Zenon
<1> HIDE DEF ab
<1>a. Len(a) \in Nat /\ Len(b) \in Nat /\ Len(ab) = Len(a) + Len(b)
  BY <1>1 DEF Follow
<1>2. ASSUME NEW k \in 1..Len(ab), ab[k].do = "if_test" PROVE EndBehind(ab, g, k)
  <2>1. CASE k \in 1..Len(a)
    <3>1. a[k].do = "if_test"
      BY <1>1, <1>2, <2>1 DEF Follow
    <3>2. PICK l \in (k + 1)..Len(a) : a[l].do = "if_end" /\ \A i \in (k + 1)..(l - 1) : Calm(a[i], g)
      BY <2>1, <3>1 DEF Tested, EndBehind
    <3>3. l \in 1..Len(a) /\ l \in (k + 1)..Len(ab)
      BY <1>a, <2>1
    <3>4. ab[l].do = "if_end"
      BY <1>1, <3>2, <3>3 DEF Follow
    <3>5. ASSUME NEW i \in (k + 1)..(l - 1) PROVE Calm(ab[i], g)
      <4>1. i \in 1..Len(a)
        BY <1>a, <2>1
      <4>2. ab[i] = a[i]
        BY <1>1, <4>1 DEF Follow
      <4> QED
        BY <3>2, <4>2
    <3> QED
      BY <3>3, <3>4, <3>5 DEF EndBehind
  <2>2. ASSUME NEW x \in 1..Len(b), k = Len(a) + x PROVE EndBehind(ab, g, k)
    <3>1. b[x].do = "if_test"
      BY <1>1, <1>2, <2>2 DEF Follow
    <3>2. PICK l \in (x + 1)..Len(b) : b[l].do = "if_end" /\ \A i \in (x + 1)..(l - 1) : Calm(b[i], g)
      BY <3>1 DEF Tested, EndBehind
    <3>3. l \in 1..Len(b) /\ Len(a) + l \in (k + 1)..Len(ab)
      BY <1>a, <2>2
    <3>4. ab[Len(a) + l].do = "if_end"
      BY <1>1, <3>2, <3>3 DEF Follow
    <3>5. ASSUME NEW i \in (k + 1)..((Len(a) + l) - 1) PROVE Calm(ab[i], g)
      <4>1. i - Len(a) \in 1..Len(b) /\ i - Len(a) \in (x + 1)..(l - 1) /\ Len(a) + (i - Len(a)) = i
        BY <1>a, <2>2
      <4>2. ab[Len(a) + (i - Len(a))] = b[i - Len(a)]
        BY <1>1, <4>1 DEF Follow
      <4> QED
        BY <3>2, <4>1, <4>2
    <3> QED
      BY <3>3, <3>4, <3>5 DEF EndBehind
  <2> QED
    BY <1>1, <2>1, <2>2 DEF Follow
<1>3. Tested(ab, g)
  BY <1>2 DEF Tested
<1> QED
  BY <1>3 DEF ab

LEMMA TestedTail ==
  ASSUME NEW s, NEW g, IsSeq(s), s # << >>, Tested(s, g)
  PROVE  /\ Tested(Tail(s), g)
         /\ Head(s).do = "if_test" => EndAhead(Tail(s), g)
<1> DEFINE t == Tail(s)
           h == Head(s)
<1>1. /\ Len(s) \in Nat /\ h = s[1] /\ 1 \in 1..Len(s)
      /\ \A i \in 1..Len(t) : i + 1 \in 1..Len(s) /\ t[i] = s[i + 1]
      /\ Len(t) = Len(s) - 1
  BY Beheaded
<1> HIDE DEF t, h
<1>2. ASSUME NEW k \in 1..Len(s), s[k].do = "if_test"
      PROVE  \E l \in k..Len(t) : t[l].do = "if_end" /\ \A i \in k..(l - 1) : Calm(t[i], g)
  <2>1. PICK l \in (k + 1)..Len(s) : s[l].do = "if_end" /\ \A i \in (k + 1)..(l - 1) : Calm(s[i], g)
    BY <1>2 DEF Tested, EndBehind
  <2>2. l - 1 \in k..Len(t) /\ l - 1 \in 1..Len(t) /\ (l - 1) + 1 = l
    BY <1>1
  <2>3. t[l - 1] = s[l]
    BY <1>1, <2>2
  <2>4. ASSUME NEW i \in k..((l - 1) - 1) PROVE Calm(t[i], g)
    <3>1. i \in 1..Len(t) /\ i + 1 \in (k + 1)..(l - 1)
      BY <1>1
    <3> QED
      BY <1>1, <2>1, <3>1
  <2> QED
    BY <2>1, <2>2, <2>3, <2>4
<1>3. ASSUME NEW k \in 1..Len(t), t[k].do = "if_test" PROVE EndBehind(t, g, k)
  <2>1. k + 1 \in 1..Len(s) /\ s[k + 1].do = "if_test"
    BY <1>1, <1>3
  <2> QED
    BY <1>2, <2>1 DEF EndBehind
<1>4. ASSUME h.do = "if_test" PROVE EndAhead(t, g)
  <2>1. s[1].do = "if_test"
    BY <1>1, <1>4
  <2> QED
    BY <1>1, <1>2, <2>1 DEF EndAhead
<1> QED
  BY <1>3, <1>4 DEF Tested, t, h

LEMMA WritesJoined ==
  ASSUME NEW a, NEW b, NEW names, IsSeq(a), IsSeq(b),
         WritesInto(a, names), WritesInto(b, names)
  PROVE  WritesInto(a \o b, names)
<1> DEFINE ab == a \o b
<1>1. Follow(a, b, ab)
  BY Joined, Zenon
<1> HIDE DEF ab
<1>2. ASSUME NEW k \in 1..Len(ab), ab[k].do = "write" PROVE JumpsInto(ab[k].lines, names)
  <2>1. CASE k \in 1..Len(a)
    <3>1. ab[k] = a[k]
      BY <1>1, <2>1 DEF Follow
    <3> QED
      BY <1>2, <2>1, <3>1 DEF WritesInto
  <2>2. ASSUME NEW j \in 1..Len(b), k = Len(a) + j PROVE JumpsInto(ab[k].lines, names)
    <3>1. ab[k] = b[j]
      BY <1>1, <2>2 DEF Follow
    <3> QED
      BY <1>2, <3>1 DEF WritesInto
  <2> QED
    BY <1>1, <2>1, <2>2 DEF Follow
<1>3. WritesInto(ab, names)
  BY <1>2 DEF WritesInto
<1> QED
  BY <1>3 DEF ab

LEMMA WritesTail ==
  ASSUME NEW s, NEW names, IsSeq(s), s # << >>, WritesInto(s, names)
  PROVE  /\ WritesInto(Tail(s), names)
         /\ Head(s).do = "write" => JumpsInto(Head(s).lines, names)
<1> DEFINE t == Tail(s)
           h == Head(s)
<1>1. /\ h = s[1] /\ 1 \in 1..Len(s)
      /\ \A i \in 1..Len(t) : i + 1 \in 1..Len(s) /\ t[i] = s[i + 1]
  BY Beheaded
<1> HIDE DEF t, h
<1>2. WritesInto(t, names)
  BY <1>1 DEF WritesInto
<1>3. h.do = "write" => JumpsInto(h.lines, names)
  BY <1>1 DEF WritesInto
<1> QED
  BY <1>2, <1>3 DEF t, h

LEMMA WiderNames ==
  ASSUME NEW names, NEW more, names \subseteq more
  PROVE  /\ \A lines : JumpsInto(lines, names) => JumpsInto(lines, more)
         /\ \A s : WritesInto(s, names) => WritesInto(s, more)
<1>1. \A lines : JumpsInto(lines, names) => JumpsInto(lines, more)
  BY DEF JumpsInto
<1> QED
  BY <1>1 DEF WritesInto
-------------------------------------------------------------------------------
(* A step of a handler that goes on with calls and writes lines: what it   *)
(* owed is written or owed, and new labels have numbers of their own.      *)
NewNames(calls, lines, g) == LabelsIn(lines) \cup OwedBy(calls, g)

Drawn(name, from, to) ==
  \E n \in from..(to - 1) : name = WhileLabel(n) \/ name = BreakLabel(n)

LEMMA DrawnNumbers ==
  ASSUME NEW name, NEW from \in Nat, NEW to \in Nat, Drawn(name, from, to)
  PROVE  \E n \in Numbers(name) : from <= n /\ n < to /\ \A m \in Numbers(name) : m = n
<1>1. PICK n \in from..(to - 1) : name = WhileLabel(n) \/ name = BreakLabel(n)
  BY DEF Drawn
<1>2. n \in Nat /\ from <= n /\ n < to
  OBVIOUS
<1>3. n \in Numbers(name)
  BY <1>1, <1>2 DEF Numbers
<1>4. ASSUME NEW m \in Numbers(name) PROVE m = n
  <2>1. name = WhileLabel(m) \/ name = BreakLabel(m)
    BY DEF Numbers
  <2> QED
    BY <1>1, <2>1 DEF WhileLabel, BreakLabel
<1> QED
  BY <1>2, <1>3, <1>4

LEMMA StepOn ==
  ASSUME NEW g, LabelInvWith(g), work # << >>, NEW calls, NEW lines,
         root' = root, bstage' # "written",
         work' = calls \o Tail(work), asm_file' = asm_file \o lines,
         label_ct' \in Nat, label_ct <= label_ct',
         Orderly(calls, g), Tested(calls, g), IsSeq(lines), OncePerLine(lines),
         LabelsIn(lines) \cap OwedBy(calls, g) = {},
         Owes(Head(work), g) \subseteq NewNames(calls, lines, g),
         \A name \in NewNames(calls, lines, g) :
           name \in Owes(Head(work), g) \/ Drawn(name, label_ct, label_ct'),
         WritesInto(calls, Known(g) \cup NewNames(calls, lines, g)),
         JumpsInto(lines, Known(g) \cup NewNames(calls, lines, g) \cup Open(g)'),
         Open(g) \subseteq LabelsIn(lines) \cup Open(g)'
  PROVE  LabelInvWith(g)'
<1> DEFINE new == NewNames(calls, lines, g)
           rest == Tail(work)
           head == Head(work)
           made == LabelsIn(asm_file)
<1>1. /\ label_ct \in Nat /\ IsSeq(asm_file) /\ Orderly(work, g) /\ Tested(work, g)
      /\ OncePerLine(asm_file) /\ made \cap OwedBy(work, g) = {}
      /\ WritesInto(work, Known(g)) /\ g.decls[root] \subseteq Known(g)
      /\ IsSeq(work)
  BY DEF LabelInvWith, Orderly
<1>2. /\ Orderly(rest, g)
      /\ OwedBy(work, g) = Owes(head, g) \cup OwedBy(rest, g)
      /\ Owes(head, g) \cap OwedBy(rest, g) = {}
  BY <1>1, OrderlyTail
<1>3. IsSeq(rest) /\ IsSeq(calls)
  BY <1>2 DEF Orderly
<1>4. OwedBy(work', g) = OwedBy(calls, g) \cup OwedBy(rest, g)
  BY <1>3, OwedJoined
<1>5. LabelsIn(asm_file') = made \cup LabelsIn(lines)
  BY <1>1, LinesJoined
<1>6. new = LabelsIn(lines) \cup OwedBy(calls, g)
  BY DEF NewNames
<1> HIDE DEF new, rest, head, made
<1>7. Owes(head, g) \subseteq new
  BY DEF new, head
<1>8. Known(g)' = Known(g) \cup new
  <2>1. Known(g) = made \cup Owes(head, g) \cup OwedBy(rest, g)
    BY <1>2 DEF Known, made
  <2>2. Known(g)' = made \cup LabelsIn(lines) \cup OwedBy(calls, g) \cup OwedBy(rest, g)
    BY <1>4, <1>5 DEF Known
  <2> QED
    BY <2>1, <2>2, <1>6, <1>7
<1>9. ASSUME NEW name \in new, name \notin Owes(head, g) PROVE name \notin Known(g)
  <2>1. Drawn(name, label_ct, label_ct')
    BY <1>9 DEF new, head
  <2>2. PICK n \in Numbers(name) : label_ct <= n
    BY <1>1, <2>1, DrawnNumbers
  <2>3. n \in Nat
    BY DEF Numbers
  <2>4. name \in Known(g) => n < label_ct
    BY DEF LabelInvWith
  <2> QED
    BY <1>1, <2>2, <2>3, <2>4
<1>10. new \cap OwedBy(rest, g) = {} /\ new \cap made = {}
  <2>1. made \subseteq Known(g) /\ OwedBy(rest, g) \subseteq Known(g)
    BY <1>2 DEF Known, made
  <2>2. made \cap Owes(head, g) = {}
    BY <1>1, <1>2
  <2> QED
    BY <1>2, <1>9, <2>1, <2>2
<1>11. Orderly(work', g)
  <2>1. OwedBy(calls, g) \cap OwedBy(rest, g) = {}
    BY <1>6, <1>10
  <2> QED
    BY <1>2, <2>1, OrderlyJoined DEF rest
<1>12. Tested(work', g)
  <2>1. Tested(rest, g)
    BY <1>1, TestedTail DEF rest
  <2> QED
    BY <1>3, <2>1, TestedJoined DEF rest
<1>13. IsSeq(asm_file')
  BY <1>1, Joined
<1>14. OncePerLine(asm_file')
  <2>1. LabelsIn(asm_file) \cap LabelsIn(lines) = {}
    BY <1>6, <1>10 DEF made
  <2> QED
    BY <1>1, <2>1, LinesJoined
<1>15. LabelsIn(asm_file') \cap OwedBy(work', g) = {}
  <2>1. made \cap OwedBy(rest, g) = {}
    BY <1>1, <1>2
  <2> QED
    BY <1>4, <1>5, <1>6, <1>10, <2>1
<1>16. ASSUME NEW name \in Known(g)', NEW n \in Numbers(name) PROVE n < label_ct'
  <2>1. n \in Nat
    BY DEF Numbers
  <2>2. CASE name \in Known(g)
    <3>1. n < label_ct
      BY <2>2 DEF LabelInvWith
    <3> QED
      BY <1>1, <2>1, <3>1
  <2>3. CASE name \notin Known(g)
    <3>1. name \in new /\ name \notin Owes(head, g)
      BY <1>2, <1>8, <2>3 DEF Known
    <3>2. Drawn(name, label_ct, label_ct')
      BY <3>1 DEF new, head
    <3>3. PICK k \in Numbers(name) : k < label_ct' /\ \A m \in Numbers(name) : m = k
      BY <1>1, <3>2, DrawnNumbers
    <3> QED
      BY <3>3
  <2> QED
    BY <2>2, <2>3
<1>17. g.decls[root'] \subseteq Known(g)'
  BY <1>1, <1>8
<1>18. WritesInto(work', Known(g)')
  <2>1. WritesInto(rest, Known(g))
    BY <1>1, WritesTail DEF rest
  <2>2. WritesInto(rest, Known(g)')
    BY <1>8, <2>1, WiderNames
  <2>3. WritesInto(calls, Known(g)')
    BY <1>8 DEF new
  <2> QED
    BY <1>3, <2>2, <2>3, WritesJoined DEF rest
<1>19. JumpsInto(asm_file', Known(g)' \cup Open(g)')
  <2>1. JumpsInto(asm_file, Known(g) \cup Open(g))
    BY DEF LabelInvWith
  <2>2. Known(g) \cup Open(g) \subseteq Known(g)' \cup Open(g)'
    BY <1>6, <1>8
  <2>3. JumpsInto(asm_file, Known(g)' \cup Open(g)')
    BY <2>1, <2>2, WiderNames
  <2>4. JumpsInto(lines, Known(g)' \cup Open(g)')
    BY <1>8 DEF new
  <2> QED
    BY <1>1, <2>3, <2>4, LinesJoined
<1> QED
  BY <1>11, <1>12, <1>13, <1>14, <1>15, <1>16, <1>17, <1>18, <1>19 DEF LabelInvWith
-------------------------------------------------------------------------------
LEMMA BareMoves ==
  ASSUME NEW S, NEW s \in Seq(S), \A x \in S : x.op \in {"PUSH", "POP"}
  PROVE  Bare(s)
<1>1. IsSeq(s)
  BY DEF IsSeq
<1>2. ASSUME NEW i \in 1..Len(s) PROVE s[i].op \notin LabelCommands \cup {"LABEL"}
  <2>1. s[i] \in S
    BY ElementOfSeq
  <2>2. s[i].op \in {"PUSH", "POP"}
    BY <2>1
  <2> QED
    BY <2>2 DEF LabelCommands
<1> QED
  BY <1>1, <1>2 DEF Bare

(* The lines of push_all and pop_all, which have no labels and no jumps.   *)
Pushes(ts) == {PushFrom(Place(CellAt(ts, p).loc)) : p \in CellsOf(ts)}

Pops(ts) == {PopInto(Place(CellAt(ts, p).loc)) : p \in CellsOf(ts)}

LEMMA AllPushed ==
  ASSUME NEW S, NEW ts \in Seq(Seq(S))
  PROVE  PushAll(ts) \in Seq(Pushes(ts))
<1> DEFINE n == Len(ts)
           P == Pushes(ts)
           w == [l \in 1..n |-> [c \in 1..Len(ts[l]) |-> PushFrom(Place(ts[l][c].loc))]]
<1>1. n \in Nat /\ \A l \in 1..n : Len(ts[l]) \in Nat
  BY LenProperties, ElementOfSeq
<1>3. ASSUME NEW l \in 1..n, NEW c \in 1..Len(ts[l])
      PROVE  PushFrom(Place(ts[l][c].loc)) \in P
  <2>1. <<l, c>> \in CellsOf(ts)
    BY CellIn DEF CellsOf
  <2> QED
    BY <2>1 DEF CellAt, Pushes
<1> HIDE DEF P
<1>4. ASSUME NEW l \in 1..n PROVE w[l] \in Seq(P)
  <2>1. \A c \in 1..Len(ts[l]) : PushFrom(Place(ts[l][c].loc)) \in P
    BY <1>3
  <2>2. Len(ts[l]) \in Nat
    BY <1>1
  <2>3. [c \in 1..Len(ts[l]) |-> PushFrom(Place(ts[l][c].loc))] \in Seq(P)
    BY <2>1, <2>2, IsASeq
  <2> QED
    BY <2>3
<1>5. \E f : PrependedUpTo(f, w, n)
  <2> HIDE DEF w, n
  <2> QED
    BY <1>1, GatheringsExist
<1>6. ASSUME NEW f
      PROVE  PrependedUpTo(f, w, n) <=>
               f = [l \in 0..n |->
                      IF l = 0 THEN << >>
                      ELSE [c \in 1..Len(ts[l]) |-> PushFrom(Place(ts[l][c].loc))] \o f[l - 1]]
  <2>1. ASSUME NEW l \in 0..n
        PROVE  (IF l = 0 THEN << >> ELSE w[l] \o f[l - 1])
                 = IF l = 0 THEN << >>
                   ELSE [c \in 1..Len(ts[l]) |-> PushFrom(Place(ts[l][c].loc))] \o f[l - 1]
    <3>1. l = 0 \/ l \in 1..n
      BY <1>1
    <3> QED
      BY <3>1
  <2> QED
    BY <2>1 DEF PrependedUpTo
<1> DEFINE from == CHOOSE f : f = [l \in 0..n |->
                      IF l = 0 THEN << >>
                      ELSE [c \in 1..Len(ts[l]) |-> PushFrom(Place(ts[l][c].loc))] \o f[l - 1]]
<1>7. PushAll(ts) = from[n]
  BY DEF PushAll
<1>8. PrependedUpTo(from, w, n)
  <2>1. \E f : f = [l \in 0..n |->
                      IF l = 0 THEN << >>
                      ELSE [c \in 1..Len(ts[l]) |-> PushFrom(Place(ts[l][c].loc))] \o f[l - 1]]
    BY <1>5, <1>6
  <2>2. from = [l \in 0..n |->
                      IF l = 0 THEN << >>
                      ELSE [c \in 1..Len(ts[l]) |-> PushFrom(Place(ts[l][c].loc))] \o from[l - 1]]
    BY <2>1
  <2> QED
    BY <1>6, <2>2
<1> HIDE DEF from, w, n
<1>9. from[n] \in Seq(P)
  BY <1>1, <1>4, <1>8, Gathered
<1> QED
  BY <1>7, <1>9 DEF P

LEMMA AllPopped ==
  ASSUME NEW S, NEW ts \in Seq(Seq(S))
  PROVE  PopAll(ts) \in Seq(Pops(ts))
<1> DEFINE n == Len(ts)
           P == Pops(ts)
           kept(l) == IF l = 1 THEN 1 ELSE 0
           part(l) == [i \in 1..(Len(ts[l]) - kept(l)) |->
                         PopInto(Place(ts[l][Len(ts[l]) + 1 - i].loc))]
           w == [l \in 1..n |-> part(l)]
<1>1. n \in Nat /\ \A l \in 1..n : Len(ts[l]) \in Nat
  BY LenProperties, ElementOfSeq
<1>3. ASSUME NEW l \in 1..n, NEW c \in 1..Len(ts[l])
      PROVE  PopInto(Place(ts[l][c].loc)) \in P
  <2>1. <<l, c>> \in CellsOf(ts)
    BY CellIn DEF CellsOf
  <2> QED
    BY <2>1 DEF CellAt, Pops
<1> HIDE DEF P
<1>4. ASSUME NEW l \in 1..n PROVE w[l] \in Seq(P)
  <2> DEFINE m == Len(ts[l]) - kept(l)
             k == IF m >= 0 THEN m ELSE 0
             e(i) == PopInto(Place(ts[l][Len(ts[l]) + 1 - i].loc))
  <2>1. Len(ts[l]) \in Nat /\ kept(l) \in {0, 1}
    BY <1>1
  <2>2. k \in Nat /\ 1..m = 1..k /\ \A i \in 1..k : Len(ts[l]) + 1 - i \in 1..Len(ts[l])
    <3> DEFINE size == Len(ts[l])
               less == kept(l)
    <3>1. size \in Nat /\ less \in {0, 1}
      BY <2>1
    <3> HIDE DEF size, less, kept
    <3>2. m \in Int /\ m <= size
      BY <3>1 DEF size, less
    <3>3. k \in Nat /\ 1..m = 1..k /\ k <= size
      BY <3>1, <3>2
    <3>4. \A i \in 1..k : size + 1 - i \in 1..size
      BY <3>1, <3>3
    <3> QED
      BY <3>3, <3>4 DEF size
  <2>3. \A i \in 1..k : e(i) \in P
    BY <1>3, <2>2
  <2> HIDE DEF e, k
  <2>4. [i \in 1..k |-> e(i)] \in Seq(P)
    BY <2>2, <2>3, IsASeq
  <2>5. part(l) = [i \in 1..k |-> e(i)]
    BY <2>2 DEF e
  <2> QED
    BY <2>4, <2>5
<1>5. \E f : AppendedUpTo(f, w, n)
  <2> HIDE DEF w, n, part
  <2> QED
    BY <1>1, GatheringsExist
<1> HIDE DEF part
<1>6. ASSUME NEW f
      PROVE  AppendedUpTo(f, w, n) <=>
               f = [l \in 0..n |->
                      IF l = 0 THEN << >>
                      ELSE f[l - 1] \o part(l)]
  <2>1. ASSUME NEW l \in 0..n
        PROVE  (IF l = 0 THEN << >> ELSE f[l - 1] \o w[l])
                 = IF l = 0 THEN << >>
                   ELSE f[l - 1] \o part(l)
    <3>1. l = 0 \/ l \in 1..n
      BY <1>1
    <3> QED
      BY <3>1
  <2> QED
    BY <2>1 DEF AppendedUpTo
<1> DEFINE upTo == CHOOSE f : f = [l \in 0..n |->
                      IF l = 0 THEN << >>
                      ELSE f[l - 1] \o part(l)]
<1>7. PopAll(ts) = upTo[n]
  BY DEF PopAll, part
<1>8. AppendedUpTo(upTo, w, n)
  <2>1. \E f : f = [l \in 0..n |->
                      IF l = 0 THEN << >>
                      ELSE f[l - 1] \o part(l)]
    BY <1>5, <1>6
  <2>2. upTo = [l \in 0..n |->
                      IF l = 0 THEN << >>
                      ELSE upTo[l - 1] \o part(l)]
    BY <2>1
  <2> QED
    BY <1>6, <2>2
<1> HIDE DEF upTo, w, n, part
<1>9. upTo[n] \in Seq(P)
  BY <1>1, <1>4, <1>8, Gathered
<1> QED
  BY <1>7, <1>9 DEF P

LEMMA BareVariables ==
  ASSUME NEW S, NEW ts \in Seq(Seq(S))
  PROVE  Bare(PushAll(ts)) /\ Bare(PopAll(ts))
<1>1. \A x \in Pushes(ts) \cup Pops(ts) : x.op \in {"PUSH", "POP"}
  BY DEF Pushes, Pops, PushFrom, PopInto, Asm
<1> QED
  BY <1>1, AllPushed, AllPopped, BareMoves
-------------------------------------------------------------------------------
(* What a handler goes on with, and which labels that is going to write.   *)
Going(s, g, owed, names) ==
  /\ Orderly(s, g) /\ OwedBy(s, g) = owed
  /\ Tested(s, g) /\ WritesInto(s, names)

LEMMA OneGoes ==
  ASSUME NEW x, NEW g, NEW names, CallFits(x, g), x.do # "if_test",
         x.do = "write" => JumpsInto(x.lines, names)
  PROVE  Going(<< x >>, g, Owes(x, g), names)
<1> DEFINE s == << x >>
<1>1. Orderly(s, g) /\ OwedBy(s, g) = Owes(x, g)
  BY OneOwed
<1>2. Len(s) = 1 /\ s[1] = x
  BY Short
<1> HIDE DEF s
<1>3. 1..Len(s) = {1}
  BY <1>2
<1>4. Tested(s, g) /\ WritesInto(s, names)
  BY <1>2, <1>3 DEF Tested, WritesInto
<1>5. Going(s, g, Owes(x, g), names)
  BY <1>1, <1>4 DEF Going
<1> QED
  BY <1>5 DEF s

LEMMA NoneGoes == \A g, names : Going(<< >>, g, {}, names)
BY NoneOwed, Short DEF Going, Tested, WritesInto

LEMMA GoesJoined ==
  ASSUME NEW a, NEW b, NEW g, NEW names, NEW o, NEW p,
         Going(a, g, o, names), Going(b, g, p, names), o \cap p = {}
  PROVE  Going(a \o b, g, o \cup p, names)
<1>1. IsSeq(a) /\ IsSeq(b)
  BY DEF Going, Orderly
<1>2. OwedBy(a, g) = o /\ OwedBy(b, g) = p
  BY DEF Going
<1>3. OwedBy(a \o b, g) = o \cup p
  BY <1>1, <1>2, OwedJoined
<1>4. Orderly(a \o b, g)
  BY <1>2, OrderlyJoined DEF Going
<1>5. Tested(a \o b, g)
  BY <1>1, TestedJoined DEF Going
<1>6. WritesInto(a \o b, names)
  BY <1>1, WritesJoined DEF Going
<1> QED
  BY <1>3, <1>4, <1>5, <1>6 DEF Going

LEMMA NodeGoes ==
  ASSUME NEW g, NEW n \in g.nodes \cup {NoNode}, NEW names, g.decls[NoNode] = {}
  PROVE  Going(Asmbl(n), g, g.decls[n], names)
<1>1. CASE n = NoNode
  BY <1>1, NoneGoes DEF Asmbl
<1>2. CASE n # NoNode
  <2> DEFINE x == [do |-> "asmbl", node |-> n]
  <2>1. CallFits(x, g) /\ x.do # "if_test" /\ x.do # "write" /\ Owes(x, g) = g.decls[n]
    BY <1>2 DEF CallFits, Owes
  <2>2. Asmbl(n) = << x >>
    BY <1>2 DEF Asmbl
  <2> HIDE DEF x
  <2> QED
    BY <2>1, <2>2, OneGoes
<1> QED
  BY <1>1, <1>2

LEMMA WriteGoes ==
  ASSUME NEW g, NEW lines, NEW names, IsSeq(lines), OncePerLine(lines), JumpsInto(lines, names)
  PROVE  Going(Write(lines), g, LabelsIn(lines), names)
<1> DEFINE x == [do |-> "write", lines |-> lines]
<1>1. /\ CallFits(x, g) /\ x.do # "if_test" /\ x.lines = lines
      /\ Owes(x, g) = LabelsIn(lines) /\ Write(lines) = << x >>
  BY DEF CallFits, Owes, Write
<1> HIDE DEF x
<1> QED
  BY <1>1, OneGoes

LEMMA BareGoes ==
  ASSUME NEW g, NEW lines, NEW names, Bare(lines)
  PROVE  Going(Write(lines), g, {}, names)
BY BareLines, WriteGoes

LEMMA OtherGoes ==
  ASSUME NEW g, NEW x, NEW names, x.do \in {"pop_var", "leave", "if_end"}
  PROVE  Going(<< x >>, g, {}, names)
<1>1. CallFits(x, g) /\ x.do # "if_test" /\ x.do # "write" /\ Owes(x, g) = {}
  BY DEF CallFits, Owes
<1> QED
  BY <1>1, OneGoes

LEMMA CondEndGoes ==
  ASSUME NEW g, NEW jump, jump # "LABEL", NEW names
  PROVE  Going(<< [do |-> "cond_end", jump |-> jump] >>, g, {}, names)
<1> DEFINE x == [do |-> "cond_end", jump |-> jump]
<1>1. CallFits(x, g) /\ x.do # "if_test" /\ x.do # "write" /\ Owes(x, g) = {}
  BY DEF CallFits, Owes
<1> HIDE DEF x
<1>2. Going(<< x >>, g, {}, names)
  BY <1>1, OneGoes
<1> QED
  BY <1>2 DEF x

LEMMA ArgumentsGo ==
  ASSUME NEW g, NEW names, NEW func \in g.nodes, func.type \in Callers,
         NEW comma \in g.nodes \cup {NoNode}, g.decls[comma] = {}, NEW counter \in Nat
  PROVE  Going(Arguments(func, comma, counter), g, {}, names)
<1> DEFINE x == [do |-> "arguments", func |-> func, comma |-> comma, counter |-> counter]
<1>1. /\ CallFits(x, g) /\ x.do # "if_test" /\ x.do # "write" /\ Owes(x, g) = {}
      /\ Arguments(func, comma, counter) = << x >>
  BY DEF CallFits, Owes, Arguments
<1> HIDE DEF x
<1> QED
  BY <1>1, OneGoes

LEMMA ParametersGo ==
  ASSUME NEW g, NEW names, NEW func \in g.nodes, func.type = "FUNC_DECL", NEW comma, NEW counter
  PROVE  Going(Parameters(func, comma, counter), g, {func.value} \cup g.decls[func.right], names)
<1> DEFINE x == [do |-> "parameters", func |-> func, comma |-> comma, counter |-> counter]
<1>1. /\ CallFits(x, g) /\ x.do # "if_test" /\ x.do # "write"
      /\ Owes(x, g) = {func.value} \cup g.decls[func.right]
      /\ Parameters(func, comma, counter) = << x >>
  BY DEF CallFits, Owes, Parameters
<1> HIDE DEF x
<1> QED
  BY <1>1, OneGoes

(* Calls that draw no number.                                              *)
LEMMA OneCalm ==
  ASSUME NEW x, NEW g, Calm(x, g)
  PROVE  AllCalm(<< x >>, g)
<1> DEFINE s == << x >>
<1>1. Len(s) = 1 /\ s[1] = x
  BY Short
<1> HIDE DEF s
<1>2. AllCalm(s, g)
  BY <1>1 DEF AllCalm
<1> QED
  BY <1>2 DEF s

LEMMA NoneCalm == \A g : AllCalm(<< >>, g)
BY Short DEF AllCalm

LEMMA CalmJoined ==
  ASSUME NEW a, NEW b, NEW g, IsSeq(a), IsSeq(b), AllCalm(a, g), AllCalm(b, g)
  PROVE  AllCalm(a \o b, g)
<1> DEFINE ab == a \o b
<1>1. Follow(a, b, ab)
  BY Joined, Zenon
<1> HIDE DEF ab
<1>2. AllCalm(ab, g)
  BY <1>1 DEF AllCalm, Follow
<1> QED
  BY <1>2 DEF ab

LEMMA NodeCalm ==
  ASSUME NEW g, NEW n \in g.plain \cup {NoNode}
  PROVE  AllCalm(Asmbl(n), g)
<1>1. CASE n = NoNode
  BY <1>1, NoneCalm DEF Asmbl
<1>2. CASE n # NoNode
  <2> DEFINE x == [do |-> "asmbl", node |-> n]
  <2>1. Calm(x, g) /\ Asmbl(n) = << x >>
    BY <1>2 DEF Calm, Asmbl
  <2> HIDE DEF x
  <2> QED
    BY <2>1, OneCalm
<1> QED
  BY <1>1, <1>2

LEMMA OtherCalm ==
  ASSUME NEW g, NEW x, x.do \in {"pop_var", "leave", "write"}
  PROVE  AllCalm(<< x >>, g)
<1>1. Calm(x, g)
  BY DEF Calm
<1> QED
  BY <1>1, OneCalm

LEMMA ArgumentsCalm ==
  ASSUME NEW g, NEW func, NEW comma \in g.plain \cup {NoNode}, NEW counter
  PROVE  AllCalm(Arguments(func, comma, counter), g)
<1> DEFINE x == [do |-> "arguments", func |-> func, comma |-> comma, counter |-> counter]
<1>1. Calm(x, g) /\ Arguments(func, comma, counter) = << x >>
  BY DEF Calm, Arguments
<1> HIDE DEF x
<1> QED
  BY <1>1, OneCalm

LEMMA ParametersCalm ==
  ASSUME NEW g, NEW func, func.right \in g.plain \cup {NoNode}, NEW comma, NEW counter
  PROVE  AllCalm(Parameters(func, comma, counter), g)
<1> DEFINE x == [do |-> "parameters", func |-> func, comma |-> comma, counter |-> counter]
<1>1. Calm(x, g) /\ Parameters(func, comma, counter) = << x >>
  BY DEF Calm, Parameters
<1> HIDE DEF x
<1> QED
  BY <1>1, OneCalm
-------------------------------------------------------------------------------
(* Steps that draw no number.                                              *)
LEMMA PlainOn ==
  ASSUME NEW g, LabelInvWith(g), work # << >>, NEW calls, NEW lines, NEW owed,
         root' = root, bstage' # "written", label_ct' = label_ct,
         work' = calls \o Tail(work), asm_file' = asm_file \o lines,
         Going(calls, g, owed, Known(g)),
         IsSeq(lines), OncePerLine(lines), JumpsInto(lines, Known(g)),
         LabelsIn(lines) \cap owed = {}, LabelsIn(lines) \cup owed = Owes(Head(work), g),
         Head(work).do # "if_end", Calm(Head(work), g) => AllCalm(calls, g)
  PROVE  LabelInvWith(g)'
<1>1. /\ Orderly(calls, g) /\ OwedBy(calls, g) = owed /\ Tested(calls, g)
      /\ WritesInto(calls, Known(g)) /\ IsSeq(calls)
  BY DEF Going, Orderly
<1>2. NewNames(calls, lines, g) = Owes(Head(work), g)
  BY <1>1 DEF NewNames
<1>3. label_ct \in Nat /\ label_ct' \in Nat /\ label_ct <= label_ct'
  BY DEF LabelInvWith
<1>4. WritesInto(calls, Known(g) \cup NewNames(calls, lines, g))
  BY <1>1, WiderNames
<1>5. JumpsInto(lines, Known(g) \cup NewNames(calls, lines, g) \cup Open(g)')
  BY WiderNames
<1>6. ASSUME EndAhead(work, g) PROVE EndAhead(work', g)
  <2>1. IsSeq(work)
    BY DEF LabelInvWith, Orderly
  <2>2. Calm(Head(work), g) /\ EndAhead(Tail(work), g)
    BY <1>6, <2>1, EndInTail
  <2>3. IsSeq(Tail(work))
    BY <2>1, Beheaded
  <2> QED
    BY <1>1, <2>2, <2>3, EndBehindCalm
<1>7. Open(g) \subseteq LabelsIn(lines) \cup Open(g)'
  BY <1>6 DEF Open
<1> QED
  BY <1>1, <1>2, <1>3, <1>4, <1>5, <1>7, StepOn

LEMMA BareOn ==
  ASSUME NEW g, LabelInvWith(g), work # << >>, NEW calls, NEW lines, Bare(lines),
         root' = root, bstage' # "written", label_ct' = label_ct,
         work' = calls \o Tail(work), asm_file' = asm_file \o lines,
         Going(calls, g, Owes(Head(work), g), Known(g)),
         Head(work).do # "if_end", Calm(Head(work), g) => AllCalm(calls, g)
  PROVE  LabelInvWith(g)'
<1>1. /\ IsSeq(lines) /\ LabelsIn(lines) = {} /\ OncePerLine(lines)
      /\ JumpsInto(lines, Known(g))
  BY BareLines
<1> QED
  BY <1>1, PlainOn

LEMMA SilentOn ==
  ASSUME NEW g, LabelInvWith(g), work # << >>, NEW calls,
         root' = root, bstage' # "written", label_ct' = label_ct,
         work' = calls \o Tail(work), asm_file' = asm_file,
         Going(calls, g, Owes(Head(work), g), Known(g)),
         Head(work).do # "if_end", Calm(Head(work), g) => AllCalm(calls, g)
  PROVE  LabelInvWith(g)'
<1> DEFINE lines == << >>
<1>1. Bare(lines)
  BY Short DEF Bare
<1>2. asm_file' = asm_file \o lines
  <2>1. PICK W : asm_file \in Seq(W)
    BY DEF LabelInvWith, IsSeq
  <2> QED
    BY <2>1, ConcatEmptySeq
<1> HIDE DEF lines
<1> QED
  BY <1>1, <1>2, BareOn

(* What is known of the call that is handled.                              *)
LEMMA HeadFits ==
  ASSUME NEW g, LabelInvWith(g), work # << >>
  PROVE  CallFits(Head(work), g)
BY OrderlyTail DEF LabelInvWith

LEMMA VisitedFits ==
  ASSUME NEW g, Fits(root, g), LabelInvWith(g), Now("asmbl")
  PROVE  /\ work # << >> /\ bstage = "asmbl" /\ Head(work).do = "asmbl"
         /\ Visited \in g.nodes /\ NodeFits(Visited, g)
         /\ Owes(Head(work), g) = g.decls[Visited]
         /\ Calm(Head(work), g) => Visited \in g.plain /\ PlainFits(Visited, g)
         /\ g.decls[NoNode] = {} /\ g.plain \subseteq g.nodes
<1>1. work # << >> /\ Head(work).do = "asmbl" /\ bstage = "asmbl"
  BY DEF Now
<1>2. Visited \in g.nodes
  BY <1>1, HeadFits DEF CallFits, Visited
<1>3. NodeFits(Visited, g)
  BY <1>2 DEF Fits
<1>4. Owes(Head(work), g) = g.decls[Visited]
  BY <1>1 DEF Owes, Visited
<1>5. Calm(Head(work), g) => Visited \in g.plain
  BY <1>1 DEF Calm, Visited
<1> QED
  BY <1>1, <1>2, <1>3, <1>4, <1>5 DEF Fits

(* A node that may hold no declaration.                                    *)
LEMMA NothingDeclared ==
  ASSUME NEW g, NEW n, NodeFits(n, g), n.type \notin Holders
  PROVE  g.decls[n] = {} /\ g.decls[n.left] = {} /\ g.decls[n.right] = {}
BY DEF NodeFits

LEMMA ChildrenGo ==
  ASSUME NEW g, NEW n, NodeFits(n, g), g.decls[NoNode] = {}, NEW names, Own(n) = {}
  PROVE  /\ Going(Children(n), g, g.decls[n], names)
         /\ PlainFits(n, g) => AllCalm(Children(n), g)
<1>1. /\ n.left \in g.nodes \cup {NoNode} /\ n.right \in g.nodes \cup {NoNode}
      /\ g.decls[n.left] \cap g.decls[n.right] = {}
      /\ g.decls[n] = g.decls[n.left] \cup g.decls[n.right]
  BY DEF NodeFits
<1>2. Going(Asmbl(n.left), g, g.decls[n.left], names)
  BY <1>1, NodeGoes
<1>3. Going(Asmbl(n.right), g, g.decls[n.right], names)
  BY <1>1, NodeGoes
<1>4. Going(Children(n), g, g.decls[n], names)
  BY <1>1, <1>2, <1>3, GoesJoined DEF Children
<1>5. IsSeq(Asmbl(n.left)) /\ IsSeq(Asmbl(n.right))
  BY <1>2, <1>3 DEF Going, Orderly
<1>6. ASSUME PlainFits(n, g) PROVE AllCalm(Children(n), g)
  <2>1. n.left \in g.plain \cup {NoNode} /\ n.right \in g.plain \cup {NoNode}
    BY <1>6 DEF PlainFits
  <2>2. AllCalm(Asmbl(n.left), g) /\ AllCalm(Asmbl(n.right), g)
    BY <2>1, NodeCalm
  <2> QED
    BY <1>5, <2>2, CalmJoined DEF Children
<1> QED
  BY <1>4, <1>6

(* Nodes whose children are visited in turn.                               *)
LEMMA ChildrenOn ==
  ASSUME NEW g, Fits(root, g), LabelInvWith(g), ScopeStart \/ ScopeEnd \/ Semicolon
  PROVE  LabelInvWith(g)'
<1> DEFINE calls == Children(Visited)
<1>1. /\ Now("asmbl") /\ Visited.type \in {"SCOPE_START", "SCOPE_END", "SEMICOLON"}
      /\ work' = calls \o Tail(work)
      /\ root' = root /\ label_ct' = label_ct /\ asm_file' = asm_file /\ bstage' = bstage
  BY DEF ScopeStart, ScopeEnd, Semicolon, Visiting, GoOn, Visited
<1>2. /\ work # << >> /\ bstage = "asmbl" /\ Head(work).do = "asmbl"
      /\ NodeFits(Visited, g) /\ Owes(Head(work), g) = g.decls[Visited]
      /\ Calm(Head(work), g) => PlainFits(Visited, g)
      /\ g.decls[NoNode] = {}
  BY <1>1, VisitedFits
<1>3. Own(Visited) = {}
  BY <1>1 DEF Own
<1>4. Going(calls, g, g.decls[Visited], Known(g)) /\ (PlainFits(Visited, g) => AllCalm(calls, g))
  BY <1>2, <1>3, ChildrenGo
<1> HIDE DEF calls
<1> QED
  BY <1>1, <1>2, <1>4, SilentOn
-------------------------------------------------------------------------------
(* Handlers that end with a few lines.                                     *)
LEMMA EndsHere ==
  ASSUME NEW g, LabelInvWith(g), work # << >>, NEW lines, Bare(lines),
         root' = root, bstage' # "written", label_ct' = label_ct,
         GoOn(<< >>), Emit(lines), Owes(Head(work), g) = {}, Head(work).do # "if_end"
  PROVE  LabelInvWith(g)'
<1> DEFINE calls == << >>
<1>1. Going(calls, g, {}, Known(g)) /\ AllCalm(calls, g)
  BY NoneGoes, NoneCalm
<1>2. work' = calls \o Tail(work)
  BY DEF GoOn
<1>3. asm_file' = asm_file \o lines
  BY DEF Emit
<1> HIDE DEF calls
<1> QED
  BY <1>1, <1>2, <1>3, BareOn

LEMMA WriteLinesOn == ASSUME NEW g, LabelInvWith(g), WriteLines PROVE LabelInvWith(g)'
<1> DEFINE calls == << >>
           lines == Head(work).lines
<1>1. /\ work # << >> /\ Head(work).do = "write" /\ bstage' # "written"
      /\ root' = root /\ label_ct' = label_ct
      /\ work' = calls \o Tail(work) /\ asm_file' = asm_file \o lines
  BY DEF WriteLines, Now, GoOn, Emit
<1>2. Going(calls, g, {}, Known(g)) /\ AllCalm(calls, g)
  BY NoneGoes, NoneCalm
<1>3. IsSeq(lines) /\ OncePerLine(lines)
  BY <1>1, HeadFits DEF CallFits
<1>4. Owes(Head(work), g) = LabelsIn(lines)
  BY <1>1 DEF Owes
<1>5. JumpsInto(lines, Known(g))
  BY <1>1, WritesTail DEF LabelInvWith, Orderly
<1> DEFINE owed == {}
<1>6. Going(calls, g, owed, Known(g))
  BY <1>2
<1>7. LabelsIn(lines) \cap owed = {} /\ LabelsIn(lines) \cup owed = Owes(Head(work), g)
  BY <1>4
<1> HIDE DEF calls, lines, owed
<1> QED
  BY <1>1, <1>2, <1>3, <1>5, <1>6, <1>7, PlainOn

LEMMA WriteNumOn == ASSUME NEW g, Fits(root, g), LabelInvWith(g), WriteNum PROVE LabelInvWith(g)'
<1> DEFINE lines == << Literal(Visited.value) >>
<1>1. /\ Now("asmbl") /\ Visited.type = "NUM"
      /\ root' = root /\ label_ct' = label_ct /\ bstage' = bstage /\ GoOn(<< >>) /\ Emit(lines)
  BY DEF WriteNum, Visiting, Visited
<1>2. /\ work # << >> /\ bstage = "asmbl" /\ Head(work).do = "asmbl"
      /\ NodeFits(Visited, g) /\ Owes(Head(work), g) = g.decls[Visited]
  BY <1>1, VisitedFits
<1>3. g.decls[Visited] = {}
  BY <1>1, <1>2, NothingDeclared DEF Holders
<1>4. Bare(lines)
  BY BareOne DEF Literal, Asm, LabelCommands
<1> HIDE DEF lines
<1> QED
  BY <1>1, <1>2, <1>3, <1>4, EndsHere

LEMMA WriteVarOn == ASSUME NEW g, Fits(root, g), LabelInvWith(g), WriteVar PROVE LabelInvWith(g)'
<1> DEFINE lines == << PushFrom(PlaceOf(Tables, Visited.value)) >>
<1>1. /\ Now("asmbl") /\ Visited.type = "VAR"
      /\ root' = root /\ label_ct' = label_ct /\ bstage' = bstage /\ GoOn(<< >>) /\ Emit(lines)
  BY DEF WriteVar, Visiting, Visited
<1>2. /\ work # << >> /\ bstage = "asmbl" /\ Head(work).do = "asmbl"
      /\ NodeFits(Visited, g) /\ Owes(Head(work), g) = g.decls[Visited]
  BY <1>1, VisitedFits
<1>3. g.decls[Visited] = {}
  BY <1>1, <1>2, NothingDeclared DEF Holders
<1>4. Bare(lines)
  BY BareOne DEF PushFrom, Asm, LabelCommands
<1> HIDE DEF lines
<1> QED
  BY <1>1, <1>2, <1>3, <1>4, EndsHere

LEMMA WritePopVarOn == ASSUME NEW g, LabelInvWith(g), WritePopVar PROVE LabelInvWith(g)'
<1> DEFINE lines == << PopInto(PlaceWith(Tables, Head(work).var)) >>
<1>1. /\ work # << >> /\ Head(work).do = "pop_var" /\ bstage' # "written"
      /\ root' = root /\ label_ct' = label_ct /\ GoOn(<< >>) /\ Emit(lines)
  BY DEF WritePopVar, Now
<1>2. Owes(Head(work), g) = {}
  BY <1>1 DEF Owes
<1>3. Bare(lines)
  BY BareOne DEF PopInto, Asm, LabelCommands
<1> HIDE DEF lines
<1> QED
  BY <1>1, <1>2, <1>3, EndsHere

LEMMA LeaveOn == ASSUME NEW g, LabelInvWith(g), Leave PROVE LabelInvWith(g)'
<1> DEFINE calls == << >>
<1>1. /\ work # << >> /\ Head(work).do = "leave" /\ bstage' # "written"
      /\ root' = root /\ label_ct' = label_ct /\ asm_file' = asm_file
      /\ work' = calls \o Tail(work)
  BY DEF Leave, Now, GoOn
<1>2. Going(calls, g, {}, Known(g)) /\ AllCalm(calls, g) /\ Owes(Head(work), g) = {}
  BY <1>1, NoneGoes, NoneCalm DEF Owes
<1> HIDE DEF calls
<1> QED
  BY <1>1, <1>2, SilentOn
-------------------------------------------------------------------------------
(* Handlers of nodes that declare nothing: a child or two, then what comes *)
(* behind them.                                                            *)
Continues(s, g) == IsSeq(s) /\ \A names : Going(s, g, {}, names)

LEMMA Continued ==
  ASSUME NEW g, NEW a, NEW b, Continues(a, g), Continues(b, g)
  PROVE  /\ Continues(a \o b, g)
         /\ AllCalm(a, g) /\ AllCalm(b, g) => AllCalm(a \o b, g)
<1>1. IsSeq(a \o b)
  BY Joined DEF Continues
<1>2. ASSUME NEW names PROVE Going(a \o b, g, {}, names)
  <2>1. Going(a, g, {}, names) /\ Going(b, g, {}, names)
    BY DEF Continues
  <2>2. Going(a \o b, g, {} \cup {}, names)
    BY <2>1, GoesJoined
  <2> QED
    BY <2>2
<1>3. AllCalm(a, g) /\ AllCalm(b, g) => AllCalm(a \o b, g)
  BY CalmJoined DEF Continues
<1> QED
  BY <1>1, <1>2, <1>3 DEF Continues

LEMMA ContinuesWith ==
  ASSUME NEW g
  PROVE  /\ \A lines : Bare(lines) => Continues(Write(lines), g) /\ AllCalm(Write(lines), g)
         /\ \A var : Continues(PopVar(var), g) /\ AllCalm(PopVar(var), g)
         /\ \A jump : jump # "LABEL" => Continues(<< [do |-> "cond_end", jump |-> jump] >>, g)
         /\ Continues(Todo("leave"), g) /\ AllCalm(Todo("leave"), g)
<1>1. ASSUME NEW lines, Bare(lines)
      PROVE  Continues(Write(lines), g) /\ AllCalm(Write(lines), g)
  <2>1. AllCalm(Write(lines), g) /\ IsSeq(Write(lines))
    <3> DEFINE x == [do |-> "write", lines |-> lines]
    <3>1. x.do = "write" /\ Write(lines) = << x >>
      BY DEF Write
    <3> HIDE DEF x
    <3> QED
      BY <3>1, OtherCalm, Short
  <2> QED
    BY <1>1, <2>1, BareGoes DEF Continues
<1>2. ASSUME NEW var
      PROVE  Continues(PopVar(var), g) /\ AllCalm(PopVar(var), g)
  <2> DEFINE x == [do |-> "pop_var", var |-> var]
  <2>1. x.do = "pop_var" /\ PopVar(var) = << x >>
    BY DEF PopVar
  <2> HIDE DEF x
  <2> QED
    BY <2>1, OtherGoes, OtherCalm, Short DEF Continues
<1>3. ASSUME NEW jump, jump # "LABEL"
      PROVE  Continues(<< [do |-> "cond_end", jump |-> jump] >>, g)
  BY <1>3, CondEndGoes, Short DEF Continues
<1>4. Continues(Todo("leave"), g) /\ AllCalm(Todo("leave"), g)
  <2> DEFINE x == [do |-> "leave"]
  <2>1. x.do = "leave" /\ Todo("leave") = << x >>
    BY DEF Todo
  <2> HIDE DEF x
  <2> QED
    BY <2>1, OtherGoes, OtherCalm, Short DEF Continues
<1> QED
  BY <1>1, <1>2, <1>3, <1>4

LEMMA NodeContinues ==
  ASSUME NEW g, NEW n \in g.nodes \cup {NoNode}, g.decls[NoNode] = {}, g.decls[n] = {}
  PROVE  Continues(Asmbl(n), g)
<1>1. \A names : Going(Asmbl(n), g, {}, names)
  BY NodeGoes
<1>2. IsSeq(Asmbl(n))
  BY <1>1 DEF Going, Orderly
<1> QED
  BY <1>1, <1>2 DEF Continues

(* The child of a node that declares nothing.                              *)
LEMMA ChildContinues ==
  ASSUME NEW g, NEW n, NodeFits(n, g), g.decls[NoNode] = {}, g.decls[n] = {}
  PROVE  /\ Continues(Asmbl(n.left), g) /\ Continues(Asmbl(n.right), g)
         /\ PlainFits(n, g) => AllCalm(Asmbl(n.left), g) /\ AllCalm(Asmbl(n.right), g)
<1>1. /\ n.left \in g.nodes \cup {NoNode} /\ n.right \in g.nodes \cup {NoNode}
      /\ g.decls[n.left] = {} /\ g.decls[n.right] = {}
  BY DEF NodeFits
<1>2. Continues(Asmbl(n.left), g) /\ Continues(Asmbl(n.right), g)
  BY <1>1, NodeContinues
<1>3. ASSUME PlainFits(n, g) PROVE AllCalm(Asmbl(n.left), g) /\ AllCalm(Asmbl(n.right), g)
  BY <1>3, NodeCalm DEF PlainFits
<1> QED
  BY <1>2, <1>3

LEMMA ContinuesOn ==
  ASSUME NEW g, Fits(root, g), LabelInvWith(g), Now("asmbl"), Visited.type \notin Holders,
         NEW calls, NEW lines, Bare(lines),
         root' = root, bstage' = bstage, label_ct' = label_ct,
         work' = calls \o Tail(work), asm_file' = asm_file \o lines \/ (lines = << >> /\ asm_file' = asm_file),
         Continues(calls, g),
         Visited.type \in Testers \/ (PlainFits(Visited, g) => AllCalm(calls, g))
  PROVE  LabelInvWith(g)'
<1>1. /\ work # << >> /\ bstage = "asmbl" /\ Head(work).do = "asmbl"
      /\ NodeFits(Visited, g) /\ Owes(Head(work), g) = g.decls[Visited]
      /\ Calm(Head(work), g) => PlainFits(Visited, g)
  BY VisitedFits
<1>2. Owes(Head(work), g) = {}
  BY <1>1, NothingDeclared
<1>3. Going(calls, g, Owes(Head(work), g), Known(g))
  BY <1>2 DEF Continues
<1>4. Calm(Head(work), g) => AllCalm(calls, g)
  BY <1>1 DEF PlainFits
<1>5. CASE asm_file' = asm_file \o lines
  BY <1>1, <1>3, <1>4, <1>5, BareOn
<1>6. CASE asm_file' = asm_file
  BY <1>1, <1>3, <1>4, <1>6, SilentOn
<1> QED
  BY <1>5, <1>6
-------------------------------------------------------------------------------
LEMMA WriteOpOn == ASSUME NEW g, Fits(root, g), LabelInvWith(g), WriteOp PROVE LabelInvWith(g)'
<1> DEFINE assignment == Asmbl(Visited.right) \o PopVar(Visited.left.value)
           operation == Children(Visited) \o Write(<< OpLine(Visited.value) >>)
           lines == << >>
<1>1. /\ Now("asmbl") /\ Visited.type \in {"OP", "UNR_OP"}
      /\ root' = root /\ label_ct' = label_ct /\ asm_file' = asm_file /\ bstage' = bstage
      /\ work' = assignment \o Tail(work) \/ work' = operation \o Tail(work)
  BY DEF WriteOp, Visiting, GoOn, Visited
<1>2. NodeFits(Visited, g) /\ g.decls[NoNode] = {} /\ g.decls[Visited] = {}
  BY <1>1, VisitedFits, NothingDeclared DEF Holders
<1>3. /\ Continues(Asmbl(Visited.left), g) /\ Continues(Asmbl(Visited.right), g)
      /\ PlainFits(Visited, g)
           => AllCalm(Asmbl(Visited.left), g) /\ AllCalm(Asmbl(Visited.right), g)
  BY <1>2, ChildContinues
<1>4. Continues(assignment, g) /\ (PlainFits(Visited, g) => AllCalm(assignment, g))
  BY <1>3, ContinuesWith, Continued
<1>5. Bare(<< OpLine(Visited.value) >>)
  BY BareOne DEF OpLine, NoArg, Asm, LabelCommands
<1>6. Continues(operation, g) /\ (PlainFits(Visited, g) => AllCalm(operation, g))
  <2>1. Continues(Children(Visited), g) /\ (PlainFits(Visited, g) => AllCalm(Children(Visited), g))
    BY <1>3, Continued DEF Children
  <2> QED
    BY <1>5, <2>1, ContinuesWith, Continued
<1>7. Bare(lines) /\ lines = << >>
  BY Short DEF Bare
<1>8. Visited.type \notin Holders
  BY <1>1 DEF Holders
<1> HIDE DEF assignment, operation, lines
<1> QED
  BY <1>1, <1>4, <1>6, <1>7, <1>8, ContinuesOn

LEMMA WriteGetvarOn == ASSUME NEW g, Fits(root, g), LabelInvWith(g), WriteGetvar PROVE LabelInvWith(g)'
<1> DEFINE calls == PopVar(Visited.right.value)
           lines == << NoArg("IN") >>
<1>1. /\ Now("asmbl") /\ Visited.type = "STD_FUNC"
      /\ root' = root /\ label_ct' = label_ct /\ bstage' = bstage
      /\ work' = calls \o Tail(work) /\ asm_file' = asm_file \o lines
  BY DEF WriteGetvar, Visiting, GoOn, Emit, Visited
<1>2. Continues(calls, g) /\ AllCalm(calls, g)
  BY ContinuesWith
<1>3. Bare(lines)
  BY BareOne DEF NoArg, Asm, LabelCommands
<1>4. Visited.type \notin Holders
  BY <1>1 DEF Holders
<1> HIDE DEF calls, lines
<1> QED
  BY <1>1, <1>2, <1>3, <1>4, ContinuesOn

LEMMA WritePutexprOn == ASSUME NEW g, Fits(root, g), LabelInvWith(g), WritePutexpr PROVE LabelInvWith(g)'
<1> DEFINE calls == Asmbl(Visited.right) \o Write(<< NoArg("OUT") >>)
           lines == << >>
<1>1. /\ Now("asmbl") /\ Visited.type = "STD_FUNC"
      /\ root' = root /\ label_ct' = label_ct /\ bstage' = bstage
      /\ work' = calls \o Tail(work) /\ asm_file' = asm_file
  BY DEF WritePutexpr, Visiting, GoOn, Visited
<1>2. NodeFits(Visited, g) /\ g.decls[NoNode] = {} /\ g.decls[Visited] = {}
  BY <1>1, VisitedFits, NothingDeclared DEF Holders
<1>3. /\ Continues(Asmbl(Visited.right), g)
      /\ PlainFits(Visited, g) => AllCalm(Asmbl(Visited.right), g)
  BY <1>2, ChildContinues
<1>4. Bare(<< NoArg("OUT") >>)
  BY BareOne DEF NoArg, Asm, LabelCommands
<1>5. Continues(calls, g) /\ (PlainFits(Visited, g) => AllCalm(calls, g))
  BY <1>3, <1>4, ContinuesWith, Continued
<1>6. Bare(lines) /\ lines = << >>
  BY Short DEF Bare
<1>7. Visited.type \notin Holders
  BY <1>1 DEF Holders
<1> HIDE DEF calls, lines
<1> QED
  BY <1>1, <1>5, <1>6, <1>7, ContinuesOn

LEMMA WriteReturnOn == ASSUME NEW g, Fits(root, g), LabelInvWith(g), WriteReturn PROVE LabelInvWith(g)'
<1> DEFINE end == << PopInto(Place(0)), NoArg("RET") >>
           calls == Asmbl(Visited.right) \o Write(end)
           lines == << >>
<1>1. /\ Now("asmbl") /\ Visited.type = "RETURN"
      /\ root' = root /\ label_ct' = label_ct /\ bstage' = bstage
      /\ work' = calls \o Tail(work) /\ asm_file' = asm_file
  BY DEF WriteReturn, Visiting, GoOn, Visited
<1>2. NodeFits(Visited, g) /\ g.decls[NoNode] = {} /\ g.decls[Visited] = {}
  BY <1>1, VisitedFits, NothingDeclared DEF Holders
<1>3. /\ Continues(Asmbl(Visited.right), g)
      /\ PlainFits(Visited, g) => AllCalm(Asmbl(Visited.right), g)
  BY <1>2, ChildContinues
<1>4. Bare(end)
  <2>1. Bare(<< PopInto(Place(0)) >>) /\ Bare(<< NoArg("RET") >>)
    BY BareOne DEF PopInto, NoArg, Asm, LabelCommands
  <2>2. end = << PopInto(Place(0)) >> \o << NoArg("RET") >>
    OBVIOUS
  <2> QED
    BY <2>1, <2>2, BareJoined
<1> HIDE DEF end
<1>5. Continues(calls, g) /\ (PlainFits(Visited, g) => AllCalm(calls, g))
  BY <1>3, <1>4, ContinuesWith, Continued
<1>6. Bare(lines) /\ lines = << >>
  BY Short DEF Bare
<1>7. Visited.type \notin Holders
  BY <1>1 DEF Holders
<1> HIDE DEF calls, lines
<1> QED
  BY <1>1, <1>5, <1>6, <1>7, ContinuesOn

LEMMA WriteCondExprOn == ASSUME NEW g, Fits(root, g), LabelInvWith(g), WriteCondExpr PROVE LabelInvWith(g)'
<1> DEFINE end == << [do |-> "cond_end", jump |-> CondJump[Visited.type]] >>
           calls == Asmbl(Visited.right) \o Asmbl(Visited.left) \o end
           lines == << Literal(0) >>
<1>1. /\ Now("asmbl") /\ Visited.type \in Conditions
      /\ root' = root /\ label_ct' = label_ct /\ bstage' = bstage
      /\ work' = calls \o Tail(work) /\ asm_file' = asm_file \o lines
  BY DEF WriteCondExpr, Visiting, GoOn, Emit, Visited
<1>2. NodeFits(Visited, g) /\ g.decls[NoNode] = {} /\ g.decls[Visited] = {}
  BY <1>1, VisitedFits, NothingDeclared DEF Holders, Conditions
<1>3. Continues(Asmbl(Visited.left), g) /\ Continues(Asmbl(Visited.right), g)
  BY <1>2, ChildContinues
<1>4. CondJump[Visited.type] # "LABEL"
  BY <1>1 DEF Conditions, CondJump
<1>5. Continues(end, g)
  BY <1>4, ContinuesWith
<1>6. Continues(calls, g)
  BY <1>3, <1>5, Continued
<1>7. Bare(lines)
  BY BareOne DEF Literal, Asm, LabelCommands
<1>8. Visited.type \notin Holders /\ Visited.type \in Testers
  BY <1>1 DEF Holders, Testers, Conditions
<1> HIDE DEF calls, lines
<1> QED
  BY <1>1, <1>6, <1>7, <1>8, ContinuesOn
-------------------------------------------------------------------------------
(* Calls of functions.                                                     *)
LEMMA AManager == ASSUME BInv PROVE mngrs # << >>
<1>1. PICK W : work \in Seq(W)
  BY DEF BInv, WorkInv, IsSeq
<1>2. Len(work) \in Nat
  BY <1>1
<1>3. Leavers(work) \subseteq 1..Len(work) /\ IsFiniteSet(1..Len(work))
  BY <1>2, FS_Interval DEF Leavers
<1>4. Cardinality(Leavers(work)) \in Nat
  BY <1>3, FS_Subset, FS_CardinalityType
<1>5. Len(mngrs) # 0
  BY <1>4 DEF BInv, Nested
<1> QED
  BY <1>5

LEMMA TheTables ==
  ASSUME BInv
  PROVE  \E S : Tables \in Seq(Seq(S))
<1>1. PICK S : mngrs \in Seq(Managers(S))
  BY DEF BInv, MngrsInv
<1>2. 1 \in 1..Len(mngrs)
  BY <1>1, AManager, EmptySeq
<1>3. mngrs[1] \in Managers(S)
  BY <1>1, <1>2, ElementOfSeq
<1> QED
  BY <1>3 DEF Tables, Managers

LEMMA WriteFuncOn ==
  ASSUME NEW g, Fits(root, g), LabelInvWith(g), BInv, WriteFunc
  PROVE  LabelInvWith(g)'
<1> DEFINE calls == Arguments(Visited, Visited.left, 0)
           lines == PushAll(Tables)
<1>1. /\ Now("asmbl") /\ Visited.type \in Callers
      /\ root' = root /\ label_ct' = label_ct /\ bstage' = bstage
      /\ work' = calls \o Tail(work) /\ asm_file' = asm_file \o lines
  BY DEF WriteFunc, Visiting, GoOn, Emit, Visited, Callers
<1>2. /\ Visited \in g.nodes /\ NodeFits(Visited, g) /\ g.decls[NoNode] = {} /\ g.plain \subseteq g.nodes
  BY <1>1, VisitedFits
<1>3. Visited.type \notin Holders
  BY <1>1 DEF Holders, Callers
<1>4. Visited.left \in g.nodes \cup {NoNode} /\ g.decls[Visited.left] = {}
  BY <1>2, <1>3, NothingDeclared DEF NodeFits
<1>5. Continues(calls, g)
  BY <1>1, <1>2, <1>4, ArgumentsGo, Short DEF Continues, Arguments
<1>6. PlainFits(Visited, g) => AllCalm(calls, g)
  BY ArgumentsCalm DEF PlainFits
<1>7. Bare(lines)
  BY TheTables, BareVariables
<1> HIDE DEF calls, lines
<1> QED
  BY <1>1, <1>3, <1>5, <1>6, <1>7, ContinuesOn

LEMMA WriteArgumentOn == ASSUME NEW g, Fits(root, g), LabelInvWith(g), WriteArgument PROVE LabelInvWith(g)'
<1> DEFINE call == Head(work)
           comma == call.comma
           more == Arguments(call.func, comma.right, call.counter + 1)
           calls == Asmbl(comma.left) \o more
<1>1. /\ work # << >> /\ call.do = "arguments" /\ bstage' # "written" /\ comma # NoNode
      /\ root' = root /\ label_ct' = label_ct /\ asm_file' = asm_file
      /\ work' = calls \o Tail(work)
  BY DEF WriteArgument, Now, GoOn
<1>2. /\ call.func \in g.nodes /\ call.func.type \in Callers /\ call.counter \in Nat
      /\ comma \in g.nodes /\ g.decls[comma] = {}
  BY <1>1, HeadFits DEF CallFits
<1>3. NodeFits(comma, g) /\ g.decls[NoNode] = {} /\ Owes(call, g) = {}
  BY <1>1, <1>2 DEF Fits, Owes
<1>4. Calm(call, g) => PlainFits(comma, g)
  BY <1>1 DEF Calm, Fits
<1> HIDE DEF comma, call
<1>5. /\ Continues(Asmbl(comma.left), g)
      /\ PlainFits(comma, g) => AllCalm(Asmbl(comma.left), g)
  BY <1>2, <1>3, ChildContinues
<1>6. comma.right \in g.nodes \cup {NoNode} /\ g.decls[comma.right] = {} /\ call.counter + 1 \in Nat
  BY <1>2, <1>3 DEF NodeFits
<1>7. Continues(more, g)
  BY <1>2, <1>6, ArgumentsGo, Short DEF Continues, Arguments
<1>8. PlainFits(comma, g) => AllCalm(more, g)
  BY ArgumentsCalm DEF PlainFits
<1>9. Continues(calls, g) /\ (Calm(call, g) => AllCalm(calls, g))
  BY <1>4, <1>5, <1>7, <1>8, Continued
<1> HIDE DEF calls
<1>10. Going(calls, g, {}, Known(g))
  BY <1>9 DEF Continues
<1> QED
  BY <1>1, <1>3, <1>9, <1>10, SilentOn DEF call

(* Lines without labels, whose jumps lead to names of a set.               *)
Labelless(lines, names) ==
  /\ IsSeq(lines) /\ LabelsIn(lines) = {} /\ OncePerLine(lines)
  /\ JumpsInto(lines, names)

LEMMA LabellessJoined ==
  ASSUME NEW a, NEW b, NEW names, Labelless(a, names), Labelless(b, names)
  PROVE  Labelless(a \o b, names)
<1>1. IsSeq(a) /\ IsSeq(b) /\ LabelsIn(a) \cap LabelsIn(b) = {}
  BY DEF Labelless
<1>2. IsSeq(a \o b)
  BY <1>1, Joined
<1> QED
  BY <1>1, <1>2, LinesJoined DEF Labelless

LEMMA BareLabelless == ASSUME NEW lines, Bare(lines), NEW names PROVE Labelless(lines, names)
BY BareLines DEF Labelless

LEMMA JumpLabelless ==
  ASSUME NEW op, op # "LABEL", NEW name, NEW names, name \in names
  PROVE  Labelless(<< Jump(op, name) >>, names)
<1> DEFINE x == Jump(op, name)
<1>1. x.op # "LABEL" /\ x.name = name
  BY DEF Jump, Asm
<1> HIDE DEF x
<1>2. Labelless(<< x >>, names)
  BY <1>1, OneLine, Short DEF Labelless
<1> QED
  BY <1>2 DEF x

LEMMA WriteCallOn ==
  ASSUME NEW g, Fits(root, g), LabelInvWith(g), BInv, WriteCall
  PROVE  LabelInvWith(g)'
<1> DEFINE func == Head(work).func
           args == Head(work).counter
           exch == PlaceWith(Tables, TempExch)
           saved == IF func.type = "FUNC"
                    THEN << PopInto(exch), PushFrom(Place(0)), PushFrom(exch), PopInto(Place(0)) >>
                    ELSE << PopInto(Place(0)) >>
           direct == IF func.type = "FUNC" THEN << PushFrom(Place(0)) >> ELSE << >>
           end == IF Tables = << << >> >> THEN direct ELSE saved
           pops == [i \in 1..args |-> PopInto(Place(args + 1 - i))]
           call == << Jump("CALL", func.value) >>
           lines == pops \o call \o PopAll(Tables) \o end
           calls == << >>
<1>1. /\ work # << >> /\ Head(work).do = "arguments" /\ bstage' # "written"
      /\ root' = root /\ label_ct' = label_ct
      /\ work' = calls \o Tail(work) /\ asm_file' = asm_file \o lines
  BY DEF WriteCall, Now, GoOn, Emit
<1>2. func \in g.nodes /\ func.type \in Callers /\ args \in Nat
  BY <1>1, HeadFits DEF CallFits
<1>3. func.value \in Known(g)
  BY <1>2 DEF Fits, LabelInvWith
<1>4. \A place : PopInto(place).op = "POP" /\ PushFrom(place).op = "PUSH"
  BY DEF PopInto, PushFrom, Asm
<1>5. \A place : Bare(<< PopInto(place) >>) /\ Bare(<< PushFrom(place) >>)
  BY <1>4, BareOne DEF LabelCommands
<1>6. Bare(end)
  <2>1. Bare(<< >>)
    BY Short DEF Bare
  <2>2. Bare(direct)
    BY <1>5, <2>1
  <2>3. Bare(<< PopInto(exch), PushFrom(Place(0)), PushFrom(exch), PopInto(Place(0)) >>)
    <3> DEFINE l == << PopInto(exch), PushFrom(Place(0)), PushFrom(exch), PopInto(Place(0)) >>
               S == {PopInto(exch), PushFrom(Place(0)), PushFrom(exch), PopInto(Place(0))}
    <3>1. \A x \in S : x.op \in {"PUSH", "POP"}
      BY <1>4
    <3>2. l \in Seq(S)
      OBVIOUS
    <3> HIDE DEF l, S
    <3>3. Bare(l)
      BY <3>1, <3>2, BareMoves
    <3> QED
      BY <3>3 DEF l
  <2>4. Bare(saved)
    BY <1>5, <2>3
  <2> QED
    BY <2>2, <2>4
<1>7. Bare(pops)
  <2> DEFINE S == {PopInto(Place(args + 1 - i)) : i \in 1..args}
  <2>1. pops \in Seq(S)
    <3>1. \A i \in 1..args : PopInto(Place(args + 1 - i)) \in S
      OBVIOUS
    <3> HIDE DEF S, args
    <3> QED
      BY <1>2, <3>1, IsASeq
  <2>2. \A x \in S : x.op \in {"PUSH", "POP"}
    BY <1>4
  <2> HIDE DEF S, pops
  <2> QED
    BY <2>1, <2>2, BareMoves
<1>8. Bare(PopAll(Tables))
  BY TheTables, BareVariables
<1>9. Labelless(call, Known(g))
  BY <1>3, JumpLabelless
<1> HIDE DEF pops, call, end
<1>10. Labelless(lines, Known(g))
  BY <1>6, <1>7, <1>8, <1>9, BareLabelless, LabellessJoined
<1> DEFINE owed == {}
<1>11. Owes(Head(work), g) = {}
  BY <1>1 DEF Owes
<1>12. Going(calls, g, owed, Known(g)) /\ AllCalm(calls, g)
  BY NoneGoes, NoneCalm
<1>13. LabelsIn(lines) \cap owed = {} /\ LabelsIn(lines) \cup owed = Owes(Head(work), g)
  BY <1>10, <1>11 DEF Labelless
<1> HIDE DEF lines, calls, owed
<1>14. IsSeq(lines) /\ OncePerLine(lines) /\ JumpsInto(lines, Known(g))
  BY <1>10 DEF Labelless
<1> QED
  BY <1>1, <1>12, <1>13, <1>14, PlainOn
-------------------------------------------------------------------------------
(* Functions and main.                                                     *)
LEMMA WriteFuncDeclOn == ASSUME NEW g, Fits(root, g), LabelInvWith(g), WriteFuncDecl PROVE LabelInvWith(g)'
<1> DEFINE calls == Parameters(Visited, Visited.left, 1)
<1>1. /\ Now("asmbl") /\ Visited.type = "FUNC_DECL"
      /\ root' = root /\ label_ct' = label_ct /\ asm_file' = asm_file /\ bstage' = bstage
      /\ work' = calls \o Tail(work)
  BY DEF WriteFuncDecl, Visiting, GoOn, Visited
<1>2. /\ work # << >> /\ bstage = "asmbl" /\ Head(work).do = "asmbl"
      /\ Visited \in g.nodes /\ NodeFits(Visited, g) /\ Owes(Head(work), g) = g.decls[Visited]
      /\ Calm(Head(work), g) => PlainFits(Visited, g)
  BY <1>1, VisitedFits
<1>3. Going(calls, g, {Visited.value} \cup g.decls[Visited.right], Known(g))
  BY <1>1, <1>2, ParametersGo
<1>4. g.decls[Visited] = {Visited.value} \cup g.decls[Visited.right]
  BY <1>1, <1>2 DEF NodeFits, Own
<1>5. PlainFits(Visited, g) => AllCalm(calls, g)
  BY ParametersCalm DEF PlainFits
<1> HIDE DEF calls
<1> QED
  BY <1>1, <1>2, <1>3, <1>4, <1>5, SilentOn

LEMMA WriteParameterOn == ASSUME NEW g, Fits(root, g), LabelInvWith(g), WriteParameter PROVE LabelInvWith(g)'
<1> DEFINE decl == Head(work)
           calls == Parameters(decl.func, decl.comma.right, decl.counter + 1)
<1>1. /\ work # << >> /\ decl.do = "parameters" /\ bstage' # "written"
      /\ root' = root /\ label_ct' = label_ct /\ asm_file' = asm_file
      /\ work' = calls \o Tail(work)
  BY DEF WriteParameter, Now, GoOn
<1>2. decl.func \in g.nodes /\ decl.func.type = "FUNC_DECL"
  BY <1>1, HeadFits DEF CallFits
<1>3. Going(calls, g, {decl.func.value} \cup g.decls[decl.func.right], Known(g))
  BY <1>2, ParametersGo
<1>4. Owes(decl, g) = {decl.func.value} \cup g.decls[decl.func.right]
  BY <1>1 DEF Owes
<1>5. Calm(decl, g) => AllCalm(calls, g)
  BY <1>1, ParametersCalm DEF Calm
<1> HIDE DEF calls
<1> QED
  BY <1>1, <1>3, <1>4, <1>5, SilentOn

(* A label line, then the rest.                                            *)
LEMMA NamedOn ==
  ASSUME NEW g, LabelInvWith(g), work # << >>, NEW calls, NEW owed, NEW name,
         root' = root, bstage' # "written", label_ct' = label_ct,
         work' = calls \o Tail(work), asm_file' = asm_file \o << LabelLine(name) >>,
         Going(calls, g, owed, Known(g)), name \notin owed,
         Owes(Head(work), g) = {name} \cup owed,
         Head(work).do # "if_end", Calm(Head(work), g) => AllCalm(calls, g)
  PROVE  LabelInvWith(g)'
<1> DEFINE x == LabelLine(name)
           lines == << x >>
<1>1. x.op = "LABEL" /\ x.name = name /\ x.op \notin LabelCommands
  BY DEF LabelLine, Asm, LabelCommands
<1> HIDE DEF x
<1>2. /\ IsSeq(lines) /\ LabelsIn(lines) = {name} /\ OncePerLine(lines)
      /\ JumpsInto(lines, Known(g))
  BY <1>1, OneLine, Short
<1>3. asm_file' = asm_file \o lines
  BY DEF x
<1> HIDE DEF lines
<1> QED
  BY <1>2, <1>3, PlainOn

LEMMA WriteBodyOn == ASSUME NEW g, Fits(root, g), LabelInvWith(g), WriteBody PROVE LabelInvWith(g)'
<1> DEFINE func == Head(work).func
           ret == << NoArg("RET") >>
           calls == Asmbl(func.right) \o Write(ret) \o Todo("leave")
           owed == g.decls[func.right]
<1>1. /\ work # << >> /\ Head(work).do = "parameters" /\ bstage' # "written"
      /\ root' = root /\ label_ct' = label_ct
      /\ work' = calls \o Tail(work) /\ asm_file' = asm_file \o << LabelLine(func.value) >>
  BY DEF WriteBody, Now, GoOn, Emit
<1>2. func \in g.nodes /\ func.type = "FUNC_DECL"
  BY <1>1, HeadFits DEF CallFits
<1>3. NodeFits(func, g) /\ g.decls[NoNode] = {}
  BY <1>2 DEF Fits
<1>4. Owes(Head(work), g) = {func.value} \cup owed
  BY <1>1 DEF Owes
<1>5. func.value \notin owed /\ func.right \in g.nodes \cup {NoNode}
  BY <1>2, <1>3 DEF NodeFits, Own
<1>6. Calm(Head(work), g) => func.right \in g.plain \cup {NoNode}
  BY <1>1 DEF Calm
<1> HIDE DEF func
<1>7. Bare(ret)
  BY BareOne DEF NoArg, Asm, LabelCommands
<1> HIDE DEF ret
<1>8. Going(Asmbl(func.right), g, owed, Known(g))
  BY <1>3, <1>5, NodeGoes
<1>9. /\ Continues(Write(ret), g) /\ AllCalm(Write(ret), g)
      /\ Continues(Todo("leave"), g) /\ AllCalm(Todo("leave"), g)
  BY <1>7, ContinuesWith
<1>10. Going(calls, g, owed, Known(g))
  <2> DEFINE a == Asmbl(func.right)
             b == Write(ret)
             c == Todo("leave")
  <2>1. Going(a, g, owed, Known(g)) /\ Going(b, g, {}, Known(g)) /\ Going(c, g, {}, Known(g))
    BY <1>8, <1>9 DEF Continues
  <2> HIDE DEF a, b, c, owed
  <2>2. Going(a \o b, g, owed \cup {}, Known(g))
    BY <2>1, GoesJoined
  <2>3. Going(a \o b, g, owed, Known(g))
    BY <2>2
  <2>4. Going(a \o b \o c, g, owed \cup {}, Known(g))
    BY <2>1, <2>3, GoesJoined
  <2> QED
    BY <2>4 DEF a, b, c
<1>11. Calm(Head(work), g) => AllCalm(calls, g)
  <2>1. IsSeq(Asmbl(func.right)) /\ IsSeq(Write(ret)) /\ IsSeq(Todo("leave"))
    BY <1>8, <1>9 DEF Going, Orderly, Continues
  <2>2. Calm(Head(work), g) => AllCalm(Asmbl(func.right), g)
    BY <1>6, NodeCalm
  <2> QED
    BY <1>9, <2>1, <2>2, CalmJoined, Joined
<1> HIDE DEF calls, owed
<1> QED
  BY <1>1, <1>4, <1>5, <1>10, <1>11, NamedOn

LEMMA WriteMainOn == ASSUME NEW g, Fits(root, g), LabelInvWith(g), WriteMain PROVE LabelInvWith(g)'
<1> DEFINE calls == Asmbl(Visited.right) \o Todo("leave")
           owed == g.decls[Visited.right]
<1>1. /\ Now("asmbl") /\ Visited.type = "MAIN"
      /\ root' = root /\ label_ct' = label_ct /\ bstage' = bstage
      /\ work' = calls \o Tail(work) /\ asm_file' = asm_file \o << LabelLine(MainLabel) >>
  BY DEF WriteMain, Visiting, GoOn, Emit, Visited
<1>2. /\ work # << >> /\ bstage = "asmbl" /\ Head(work).do = "asmbl"
      /\ Visited \in g.nodes /\ NodeFits(Visited, g) /\ Owes(Head(work), g) = g.decls[Visited]
      /\ Calm(Head(work), g) => PlainFits(Visited, g)
      /\ g.decls[NoNode] = {}
  BY <1>1, VisitedFits
<1>3. /\ g.decls[Visited] = {MainLabel} \cup owed /\ MainLabel \notin owed
      /\ Visited.right \in g.nodes \cup {NoNode}
  BY <1>1, <1>2 DEF NodeFits, Own
<1>4. Going(Asmbl(Visited.right), g, owed, Known(g))
  BY <1>2, <1>3, NodeGoes
<1>5. Continues(Todo("leave"), g) /\ AllCalm(Todo("leave"), g)
  BY ContinuesWith
<1>6. Going(calls, g, owed, Known(g))
  <2> DEFINE a == Asmbl(Visited.right)
             c == Todo("leave")
  <2>1. Going(a, g, owed, Known(g)) /\ Going(c, g, {}, Known(g))
    BY <1>4, <1>5 DEF Continues
  <2> HIDE DEF a, c, owed
  <2>2. Going(a \o c, g, owed \cup {}, Known(g))
    BY <2>1, GoesJoined
  <2> QED
    BY <2>2 DEF a, c
<1>7. PlainFits(Visited, g) => AllCalm(calls, g)
  <2>1. IsSeq(Asmbl(Visited.right)) /\ IsSeq(Todo("leave"))
    BY <1>4, <1>5 DEF Going, Orderly, Continues
  <2> QED
    BY <1>5, <2>1, NodeCalm, CalmJoined DEF PlainFits
<1> HIDE DEF calls, owed
<1> QED
  BY <1>1, <1>2, <1>3, <1>6, <1>7, NamedOn
-------------------------------------------------------------------------------
(* Comparisons, ifs and whiles.                                            *)
LEMMA NotOpen ==
  ASSUME NEW g, LabelInvWith(g), work # << >>, Head(work).do # "if_end", ~Calm(Head(work), g)
  PROVE  Open(g) = {}
<1>1. IsSeq(work)
  BY DEF LabelInvWith, Orderly
<1>2. ~EndAhead(work, g)
  BY <1>1, EndInTail
<1> QED
  BY <1>2 DEF Open

(* No label of a number that was not drawn yet is known.                   *)
LEMMA NotKnown ==
  ASSUME NEW g, LabelInvWith(g), NEW name \in Known(g)
  PROVE  name # WhileLabel(label_ct) /\ name # BreakLabel(label_ct)
<1>1. label_ct \in Nat /\ \A n \in Numbers(name) : n < label_ct
  BY DEF LabelInvWith
<1>2. name = WhileLabel(label_ct) \/ name = BreakLabel(label_ct) => label_ct \in Numbers(name)
  BY <1>1 DEF Numbers
<1> QED
  BY <1>1, <1>2

LEMMA OwesKnown ==
  ASSUME NEW g, LabelInvWith(g), work # << >>
  PROVE  Owes(Head(work), g) \subseteq Known(g)
<1>1. Orderly(work, g)
  BY DEF LabelInvWith
<1>2. OwedBy(work, g) = Owes(Head(work), g) \cup OwedBy(Tail(work), g)
  BY <1>1, OrderlyTail
<1>3. Owes(Head(work), g) \subseteq OwedBy(work, g)
  BY <1>2
<1> QED
  BY <1>3 DEF Known

LEMMA WriteCondEndOn == ASSUME NEW g, LabelInvWith(g), WriteCondEnd PROVE LabelInvWith(g)'
<1> DEFINE here == BreakLabel(label_ct)
           a == Jump(Head(work).jump, here)
           b == Literal(1)
           c == NoArg("ADD")
           d == LabelLine(here)
           e == Literal(0)
           lines == << a, b, c, d, e, c >>
           calls == << >>
<1>1. /\ work # << >> /\ Head(work).do = "cond_end" /\ bstage' # "written"
      /\ root' = root /\ label_ct' = label_ct + 1
      /\ work' = calls \o Tail(work) /\ asm_file' = asm_file \o lines
  BY DEF WriteCondEnd, Now, GoOn, Emit, NextLabel
<1>2. Head(work).jump # "LABEL" /\ label_ct \in Nat
  BY <1>1, HeadFits DEF CallFits, LabelInvWith
<1>13. /\ a.op = Head(work).jump /\ a.name = here
       /\ d.op = "LABEL" /\ d.name = here
       /\ b.op \notin LabelCommands \cup {"LABEL"}
       /\ c.op \notin LabelCommands \cup {"LABEL"}
       /\ e.op \notin LabelCommands \cup {"LABEL"}
  BY DEF Jump, Literal, NoArg, LabelLine, Asm, LabelCommands
<1> HIDE DEF a, b, c, d, e
<1>14. lines \in Seq({a, b, c, d, e}) /\ Len(lines) = 6
  OBVIOUS
<1>15. /\ lines[1] = a /\ lines[2] = b /\ lines[3] = c
       /\ lines[4] = d /\ lines[5] = e /\ lines[6] = c
  OBVIOUS
<1>3. /\ IsSeq(lines) /\ Len(lines) = 6
      /\ lines[1].op = Head(work).jump /\ lines[1].name = here
      /\ lines[4].op = "LABEL" /\ lines[4].name = here
      /\ \A i \in {2, 3, 5, 6} : lines[i].op \notin LabelCommands \cup {"LABEL"}
  <2> HIDE DEF lines
  <2> QED
    BY <1>13, <1>14, <1>15 DEF IsSeq
<1> HIDE DEF lines
<1>4. 1..Len(lines) = 1..6
  BY <1>3
<1>5. \A i \in 1..6 : lines[i].op = "LABEL" => i = 4
  BY <1>2, <1>3
<1>6. LabelsIn(lines) = {here} /\ OncePerLine(lines)
  BY <1>3, <1>4, <1>5 DEF LabelsIn, OncePerLine
<1>7. \A names : here \in names => JumpsInto(lines, names)
  BY <1>3, <1>4 DEF JumpsInto, LabelCommands
<1>8. Owes(Head(work), g) = {} /\ ~Calm(Head(work), g)
  BY <1>1 DEF Owes, Calm
<1>9. Open(g) = {}
  BY <1>1, <1>8, NotOpen
<1>10. Orderly(calls, g) /\ OwedBy(calls, g) = {} /\ Tested(calls, g) /\ \A names : WritesInto(calls, names)
  BY NoneGoes DEF Going
<1>11. NewNames(calls, lines, g) = {here}
  BY <1>6, <1>10 DEF NewNames
<1>12. label_ct' \in Nat /\ label_ct <= label_ct' /\ Drawn(here, label_ct, label_ct')
  BY <1>1, <1>2 DEF Drawn
<1> HIDE DEF calls, here
<1> QED
  BY <1>1, <1>3, <1>6, <1>7, <1>8, <1>9, <1>10, <1>11, <1>12, StepOn

LEMMA WriteIfEndOn == ASSUME NEW g, LabelInvWith(g), WriteIfEnd PROVE LabelInvWith(g)'
<1> DEFINE here == BreakLabel(label_ct)
           x == LabelLine(here)
           lines == << x >>
           calls == << >>
<1>1. /\ work # << >> /\ Head(work).do = "if_end" /\ bstage' # "written"
      /\ root' = root /\ label_ct' = label_ct + 1
      /\ work' = calls \o Tail(work) /\ asm_file' = asm_file \o lines
  BY DEF WriteIfEnd, Now, GoOn, Emit, NextLabel
<1>2. label_ct \in Nat
  BY DEF LabelInvWith
<1>3. x.op = "LABEL" /\ x.name = here /\ x.op \notin LabelCommands
  BY DEF LabelLine, Asm, LabelCommands
<1> HIDE DEF x
<1>4. /\ IsSeq(lines) /\ LabelsIn(lines) = {here} /\ OncePerLine(lines)
      /\ \A names : JumpsInto(lines, names)
  BY <1>3, OneLine, Short
<1>5. Owes(Head(work), g) = {}
  BY <1>1 DEF Owes
<1>6. Open(g) \subseteq {here}
  BY DEF Open
<1>7. Orderly(calls, g) /\ OwedBy(calls, g) = {} /\ Tested(calls, g) /\ \A names : WritesInto(calls, names)
  BY NoneGoes DEF Going
<1> HIDE DEF lines
<1>8. NewNames(calls, lines, g) = {here}
  BY <1>4, <1>7 DEF NewNames
<1>9. label_ct' \in Nat /\ label_ct <= label_ct' /\ Drawn(here, label_ct, label_ct')
  BY <1>1, <1>2 DEF Drawn
<1> HIDE DEF calls, here
<1> QED
  BY <1>1, <1>4, <1>5, <1>6, <1>7, <1>8, <1>9, StepOn

LEMMA WriteIfTestOn == ASSUME NEW g, LabelInvWith(g), WriteIfTest PROVE LabelInvWith(g)'
<1> DEFINE here == BreakLabel(label_ct)
           a == << Literal(0) >>
           b == << Jump("JE", here) >>
           lines == << Literal(0), Jump("JE", here) >>
           calls == << >>
<1>1. /\ work # << >> /\ Head(work).do = "if_test" /\ bstage' # "written"
      /\ root' = root /\ label_ct' = label_ct
      /\ work' = calls \o Tail(work) /\ asm_file' = asm_file \o lines
  BY DEF WriteIfTest, Now, GoOn, Emit
<1>2. label_ct \in Nat /\ label_ct' \in Nat /\ label_ct <= label_ct'
  BY <1>1 DEF LabelInvWith
<1>3. \A names : here \in names => Labelless(lines, names)
  <2>1. Bare(a) /\ lines = a \o b
    BY BareOne DEF Literal, Asm, LabelCommands
  <2>2. \A names : here \in names => Labelless(b, names)
    BY JumpLabelless
  <2> HIDE DEF a, b, here, lines
  <2> QED
    BY <2>1, <2>2, BareLabelless, LabellessJoined
<1>4. IsSeq(work) /\ Tested(work, g)
  BY DEF LabelInvWith, Orderly
<1>5. EndAhead(Tail(work), g) /\ IsSeq(Tail(work))
  BY <1>1, <1>4, TestedTail, Beheaded
<1>6. EndAhead(work', g)
  BY <1>1, <1>5, Short, NoneCalm, EndBehindCalm
<1>7. Open(g)' = {here}
  BY <1>1, <1>6 DEF Open
<1>8. Owes(Head(work), g) = {} /\ ~Calm(Head(work), g)
  BY <1>1 DEF Owes, Calm
<1>9. Open(g) = {}
  BY <1>1, <1>8, NotOpen
<1>10. Orderly(calls, g) /\ OwedBy(calls, g) = {} /\ Tested(calls, g) /\ \A names : WritesInto(calls, names)
  BY NoneGoes DEF Going
<1>11. /\ IsSeq(lines) /\ LabelsIn(lines) = {} /\ OncePerLine(lines)
       /\ \A names : here \in names => JumpsInto(lines, names)
  <2> HIDE DEF lines
  <2>1. here \in {here}
    OBVIOUS
  <2> QED
    BY <1>3, <2>1 DEF Labelless
<1> HIDE DEF calls, here, lines
<1>12. NewNames(calls, lines, g) = {}
  BY <1>10, <1>11 DEF NewNames
<1> QED
  BY <1>1, <1>2, <1>7, <1>8, <1>9, <1>10, <1>11, <1>12, StepOn

LEMMA Regrouped ==
  ASSUME NEW a, NEW b, NEW c, IsSeq(a), IsSeq(b), IsSeq(c)
  PROVE  (a \o b) \o c = a \o (b \o c)
<1>1. PICK A, B, C : a \in Seq(A) /\ b \in Seq(B) /\ c \in Seq(C)
  BY DEF IsSeq
<1> DEFINE D == A \cup B \cup C
<1>2. A \subseteq D /\ B \subseteq D /\ C \subseteq D
  OBVIOUS
<1> HIDE DEF D
<1>3. a \in Seq(D) /\ b \in Seq(D) /\ c \in Seq(D)
  BY <1>1, <1>2, SeqMonotonic
<1> QED
  BY <1>3, ConcatAssociative

(* Between its test and its end, an if has only calls that draw no number. *)
LEMMA TestedIf ==
  ASSUME NEW g, NEW b, IsSeq(b), Tested(b, g), EndAhead(b, g)
  PROVE  Tested(Todo("if_test") \o b, g)
<1> DEFINE t == Todo("if_test")
           tb == t \o b
<1>1. IsSeq(t) /\ Len(t) = 1
  BY Short DEF Todo
<1> HIDE DEF t
<1>2. Follow(t, b, tb)
  BY <1>1, Joined, Zenon
<1> HIDE DEF tb
<1>3. /\ Len(b) \in Nat /\ Len(tb) = 1 + Len(b)
      /\ \A j \in 1..Len(b) : 1 + j \in 1..Len(tb) /\ tb[1 + j] = b[j]
      /\ \A i \in 1..Len(tb) : i \in 1..1 \/ \E j \in 1..Len(b) : i = 1 + j
  BY <1>1, <1>2 DEF Follow
<1>4. ASSUME NEW k \in 0..Len(b),
             NEW l \in (k + 1)..Len(b), b[l].do = "if_end",
             \A i \in (k + 1)..(l - 1) : Calm(b[i], g)
      PROVE  EndBehind(tb, g, k + 1)
  <2>1. l \in 1..Len(b) /\ 1 + l \in ((k + 1) + 1)..Len(tb)
    BY <1>3
  <2>2. tb[1 + l].do = "if_end"
    BY <1>3, <1>4, <2>1
  <2>3. ASSUME NEW i \in ((k + 1) + 1)..((1 + l) - 1) PROVE Calm(tb[i], g)
    <3>1. i - 1 \in (k + 1)..(l - 1) /\ i - 1 \in 1..Len(b) /\ 1 + (i - 1) = i
      BY <1>3, <2>1
    <3>2. tb[1 + (i - 1)] = b[i - 1]
      BY <1>3, <3>1
    <3> QED
      BY <1>4, <3>1, <3>2
  <2> QED
    BY <2>1, <2>2, <2>3 DEF EndBehind
<1>5. EndBehind(tb, g, 1)
  <2>1. PICK l \in 1..Len(b) : b[l].do = "if_end" /\ \A i \in 1..(l - 1) : Calm(b[i], g)
    BY DEF EndAhead
  <2>2. 0 \in 0..Len(b) /\ 0 + 1 = 1
    BY <1>3
  <2> QED
    BY <1>4, <2>1, <2>2
<1>6. ASSUME NEW j \in 1..Len(b), tb[1 + j].do = "if_test" PROVE EndBehind(tb, g, 1 + j)
  <2>1. b[j].do = "if_test"
    BY <1>3, <1>6
  <2>2. PICK l \in (j + 1)..Len(b) : b[l].do = "if_end" /\ \A i \in (j + 1)..(l - 1) : Calm(b[i], g)
    BY <2>1 DEF Tested, EndBehind
  <2>3. j \in 0..Len(b) /\ j + 1 = 1 + j
    BY <1>3
  <2> QED
    BY <1>4, <2>2, <2>3
<1>7. Tested(tb, g)
  <2> SUFFICES ASSUME NEW k \in 1..Len(tb), tb[k].do = "if_test" PROVE EndBehind(tb, g, k)
    BY DEF Tested
  <2> QED
    BY <1>3, <1>5, <1>6
<1> QED
  BY <1>7 DEF tb, t

LEMMA WriteIfOn == ASSUME NEW g, Fits(root, g), LabelInvWith(g), WriteIf PROVE LabelInvWith(g)'
<1> DEFINE a == Asmbl(Visited.left)
           t == Todo("if_test")
           b == Asmbl(Visited.right)
           e == Todo("if_end")
           calls == a \o t \o b \o e
           left == g.decls[Visited.left]
           right == g.decls[Visited.right]
<1>1. /\ Now("asmbl") /\ Visited.type = "IF"
      /\ root' = root /\ label_ct' = label_ct /\ asm_file' = asm_file /\ bstage' = bstage
      /\ work' = calls \o Tail(work)
  BY DEF WriteIf, Visiting, GoOn, Visited
<1>2. /\ work # << >> /\ bstage = "asmbl" /\ Head(work).do = "asmbl"
      /\ NodeFits(Visited, g) /\ Owes(Head(work), g) = g.decls[Visited]
      /\ Calm(Head(work), g) => PlainFits(Visited, g)
      /\ g.decls[NoNode] = {} /\ g.plain \subseteq g.nodes
  BY <1>1, VisitedFits
<1>3. /\ Visited.left \in g.nodes \cup {NoNode} /\ Visited.right \in g.plain \cup {NoNode}
      /\ Visited.right \in g.nodes \cup {NoNode}
      /\ left \cap right = {} /\ g.decls[Visited] = left \cup right
  BY <1>1, <1>2 DEF NodeFits, Own
<1>4. ~Calm(Head(work), g)
  BY <1>1, <1>2 DEF PlainFits, Testers
<1>5. Going(a, g, left, Known(g)) /\ Going(b, g, right, Known(g)) /\ AllCalm(b, g)
  BY <1>2, <1>3, NodeGoes, NodeCalm
<1>6. Going(e, g, {}, Known(g)) /\ EndAhead(e, g)
  <2> DEFINE x == [do |-> "if_end"]
  <2>1. x.do = "if_end" /\ e = << x >>
    BY DEF Todo
  <2> HIDE DEF x, e
  <2>2. Going(e, g, {}, Known(g))
    BY <2>1, OtherGoes
  <2>3. Len(e) = 1 /\ e[1] = x
    BY <2>1, Short
  <2>4. 1 \in 1..Len(e) /\ 1..(1 - 1) = {}
    BY <2>3
  <2>5. EndAhead(e, g)
    BY <2>1, <2>3, <2>4 DEF EndAhead
  <2> QED
    BY <2>2, <2>5
<1>7. IsSeq(t) /\ Orderly(t, g) /\ OwedBy(t, g) = {} /\ WritesInto(t, Known(g))
  <2> DEFINE x == [do |-> "if_test"]
  <2>1. x.do = "if_test" /\ t = << x >>
    BY DEF Todo
  <2>2. CallFits(x, g) /\ Owes(x, g) = {}
    BY <2>1 DEF CallFits, Owes
  <2> HIDE DEF x, t
  <2>3. Len(t) = 1 /\ t[1] = x /\ IsSeq(t)
    BY <2>1, Short
  <2>4. WritesInto(t, Known(g))
    BY <2>1, <2>3 DEF WritesInto
  <2> QED
    BY <2>1, <2>2, <2>3, <2>4, OneOwed
<1>8. IsSeq(a) /\ IsSeq(b) /\ IsSeq(e)
  BY <1>5, <1>6 DEF Going, Orderly
<1>9. Tested(t \o (b \o e), g)
  <2>1. EndAhead(b \o e, g)
    BY <1>5, <1>6, <1>8, EndBehindCalm
  <2>2. Tested(b \o e, g) /\ IsSeq(b \o e)
    BY <1>5, <1>6, <1>8, TestedJoined, Joined DEF Going
  <2> QED
    BY <2>1, <2>2, TestedIf
<1> HIDE DEF a, t, b, e, left, right
<1>10. Going(b \o e, g, right, Known(g))
  <2>1. Going(b \o e, g, right \cup {}, Known(g))
    BY <1>5, <1>6, GoesJoined
  <2> QED
    BY <2>1
<1> DEFINE be == b \o e
           tbe == t \o be
<1>11. Going(tbe, g, right, Known(g))
  <2>1. IsSeq(be) /\ Orderly(be, g) /\ OwedBy(be, g) = right /\ WritesInto(be, Known(g))
    BY <1>10 DEF Going, Orderly
  <2>2. Tested(tbe, g)
    BY <1>9
  <2> HIDE DEF be
  <2>3. OwedBy(tbe, g) = right
    BY <1>7, <2>1, OwedJoined
  <2>4. Orderly(tbe, g)
    BY <1>7, <2>1, OrderlyJoined
  <2>5. WritesInto(tbe, Known(g))
    BY <1>7, <2>1, WritesJoined
  <2> QED
    BY <2>2, <2>3, <2>4, <2>5 DEF Going
<1>12. calls = a \o tbe
  <2>1. (a \o t) \o b = a \o (t \o b) /\ IsSeq(t \o b)
    BY <1>7, <1>8, Regrouped, Joined
  <2>2. (a \o (t \o b)) \o e = a \o ((t \o b) \o e)
    BY <1>8, <2>1, Regrouped
  <2>3. (t \o b) \o e = t \o (b \o e)
    BY <1>7, <1>8, Regrouped
  <2> QED
    BY <2>1, <2>2, <2>3
<1> HIDE DEF tbe
<1>13. Going(a \o tbe, g, left \cup right, Known(g))
  BY <1>3, <1>5, <1>11, GoesJoined
<1>14. Going(calls, g, Owes(Head(work), g), Known(g))
  BY <1>2, <1>3, <1>12, <1>13
<1> HIDE DEF calls
<1> QED
  BY <1>1, <1>2, <1>4, <1>14, SilentOn

LEMMA WriteWhileOn == ASSUME NEW g, Fits(root, g), LabelInvWith(g), WriteWhile PROVE LabelInvWith(g)'
<1> DEFINE top == WhileLabel(label_ct)
           out == BreakLabel(label_ct)
           x == LabelLine(top)
           lines == << x >>
           test == << Literal(0), Jump("JE", out) >>
           back == << Jump("JMP", top), LabelLine(out) >>
           a == Asmbl(Visited.left)
           b == Write(test)
           c == Asmbl(Visited.right)
           d == Write(back)
           calls == a \o b \o c \o d
           left == g.decls[Visited.left]
           right == g.decls[Visited.right]
           names == Known(g) \cup {top, out}
<1>1. /\ Now("asmbl") /\ Visited.type = "WHILE"
      /\ root' = root /\ label_ct' = label_ct + 1 /\ bstage' = bstage
      /\ work' = calls \o Tail(work) /\ asm_file' = asm_file \o lines
  BY DEF WriteWhile, Visiting, GoOn, Emit, Visited, NextLabel
<1>2. /\ work # << >> /\ bstage = "asmbl" /\ Head(work).do = "asmbl"
      /\ NodeFits(Visited, g) /\ Owes(Head(work), g) = g.decls[Visited]
      /\ Calm(Head(work), g) => PlainFits(Visited, g)
      /\ g.decls[NoNode] = {}
  BY <1>1, VisitedFits
<1>3. /\ Visited.left \in g.nodes \cup {NoNode} /\ Visited.right \in g.nodes \cup {NoNode}
      /\ left \cap right = {} /\ g.decls[Visited] = left \cup right
  BY <1>1, <1>2 DEF NodeFits, Own
<1>4. ~Calm(Head(work), g)
  BY <1>1, <1>2 DEF PlainFits, Testers
<1>5. Open(g) = {}
  BY <1>2, <1>4, NotOpen
<1>6. top # out
  BY DEF WhileLabel, BreakLabel
<1>7. left \cup right \subseteq Known(g) /\ top \notin left \cup right /\ out \notin left \cup right
  BY <1>2, <1>3, OwesKnown, NotKnown
<1>8. label_ct' \in Nat /\ label_ct <= label_ct'
        /\ Drawn(top, label_ct, label_ct') /\ Drawn(out, label_ct, label_ct')
  BY <1>1 DEF LabelInvWith, Drawn
<1>9. x.op = "LABEL" /\ x.name = top /\ x.op \notin LabelCommands
  BY DEF LabelLine, Asm, LabelCommands
<1> HIDE DEF x
<1>10. /\ IsSeq(lines) /\ LabelsIn(lines) = {top} /\ OncePerLine(lines)
       /\ \A more : JumpsInto(lines, more)
  BY <1>9, OneLine, Short
<1>11. Going(a, g, left, names) /\ Going(c, g, right, names)
  BY <1>2, <1>3, NodeGoes
<1>12. Going(b, g, {}, names)
  <2> DEFINE p == << Literal(0) >>
             q == << Jump("JE", out) >>
  <2>1. Bare(p) /\ test = p \o q
    BY BareOne DEF Literal, Asm, LabelCommands
  <2>2. out \in names
    OBVIOUS
  <2>3. Labelless(q, names)
    BY <2>2, JumpLabelless
  <2> HIDE DEF p, q, names, test
  <2>4. Labelless(test, names)
    BY <2>1, <2>3, BareLabelless, LabellessJoined
  <2> QED
    BY <2>4, WriteGoes DEF Labelless
<1>13. Going(d, g, {out}, names)
  <2> DEFINE p == << Jump("JMP", top) >>
             y == LabelLine(out)
             q == << y >>
  <2>1. back = p \o q
    OBVIOUS
  <2>2. top \in names
    OBVIOUS
  <2>3. Labelless(p, names)
    BY <2>2, JumpLabelless
  <2>4. y.op = "LABEL" /\ y.name = out /\ y.op \notin LabelCommands
    BY DEF LabelLine, Asm, LabelCommands
  <2> HIDE DEF y, p, names, back
  <2>5. IsSeq(q) /\ LabelsIn(q) = {out} /\ OncePerLine(q) /\ JumpsInto(q, names)
    BY <2>4, OneLine, Short
  <2> HIDE DEF q
  <2>6. IsSeq(p) /\ LabelsIn(p) = {} /\ OncePerLine(p) /\ JumpsInto(p, names)
    BY <2>3 DEF Labelless
  <2>7. /\ IsSeq(back) /\ LabelsIn(back) = {out} /\ OncePerLine(back)
        /\ JumpsInto(back, names)
    BY <2>1, <2>5, <2>6, LinesJoined, Joined
  <2> QED
    BY <2>7, WriteGoes
<1> HIDE DEF a, b, c, d, left, right, lines, names, top, out
<1>14. Going(calls, g, left \cup right \cup {out}, names)
  <2>1. Going(a \o b, g, left \cup {}, names)
    BY <1>11, <1>12, GoesJoined
  <2>2. Going(a \o b, g, left, names)
    BY <2>1
  <2>3. Going(a \o b \o c, g, left \cup right, names)
    BY <1>3, <1>11, <2>2, GoesJoined
  <2>4. (left \cup right) \cap {out} = {}
    BY <1>7
  <2> QED
    BY <1>13, <2>3, <2>4, GoesJoined
<1> HIDE DEF calls
<1>15. /\ Orderly(calls, g) /\ Tested(calls, g) /\ WritesInto(calls, names)
       /\ OwedBy(calls, g) = left \cup right \cup {out}
  BY <1>14 DEF Going
<1>16. NewNames(calls, lines, g) = left \cup right \cup {top, out}
  BY <1>10, <1>15 DEF NewNames
<1>17. WritesInto(calls, Known(g) \cup NewNames(calls, lines, g))
  <2>1. Known(g) \cup NewNames(calls, lines, g) = names
    BY <1>7, <1>16 DEF names
  <2> QED
    BY <1>15, <2>1
<1>18. LabelsIn(lines) \cap OwedBy(calls, g) = {}
  BY <1>6, <1>7, <1>10, <1>15
<1>19. Owes(Head(work), g) \subseteq NewNames(calls, lines, g)
  BY <1>2, <1>3, <1>16
<1>20. \A name \in NewNames(calls, lines, g) :
         name \in Owes(Head(work), g) \/ Drawn(name, label_ct, label_ct')
  BY <1>2, <1>3, <1>8, <1>16
<1> QED
  BY <1>1, <1>2, <1>5, <1>8, <1>10, <1>15, <1>17, <1>18, <1>19, <1>20, StepOn
-------------------------------------------------------------------------------
LEMMA LabelsStart == ASSUME NEW tree, NEW g, Fits(tree, g), Begin(tree) PROVE LabelInvWith(g)
<1> DEFINE lines == << >>
<1>1. Fits(tree, g)
  OBVIOUS
<1>2. root = tree /\ work = Asmbl(tree) /\ label_ct = 0 /\ asm_file = lines /\ bstage = "asmbl"
  BY DEF Begin
<1>3. /\ IsSeq(lines) /\ LabelsIn(lines) = {} /\ OncePerLine(lines)
      /\ \A names : JumpsInto(lines, names)
  BY NoLine, Short
<1> HIDE DEF lines
<1>4. tree \in g.nodes \cup {NoNode} /\ g.decls[NoNode] = {}
  BY <1>1 DEF Fits
<1>5. \A names : Going(work, g, g.decls[tree], names)
  BY <1>2, <1>4, NodeGoes
<1>6. Orderly(work, g) /\ Tested(work, g) /\ OwedBy(work, g) = g.decls[tree]
        /\ \A names : WritesInto(work, names)
  BY <1>5 DEF Going
<1>7. Known(g) = g.decls[tree]
  BY <1>2, <1>3, <1>6 DEF Known
<1>8. \A name \in g.decls[tree] : Numbers(name) = {}
  BY <1>1, <1>4 DEF Fits, NodeFits
<1> QED
  BY <1>2, <1>3, <1>6, <1>7, <1>8 DEF LabelInvWith

LEMMA Undisturbed ==
  ASSUME NEW g, LabelInvWith(g), UNCHANGED <<root, work, label_ct, asm_file>>,
         bstage' = bstage \/ bstage' # "written"
  PROVE  LabelInvWith(g)'
BY DEF LabelInvWith, Known, Open

LEMMA AssembledOn == ASSUME NEW g, LabelInvWith(g), Assembled PROVE LabelInvWith(g)'
<1> DEFINE lines == << NoArg("HLT") >>
<1>1. /\ work = << >> /\ work' = work /\ root' = root /\ label_ct' = label_ct
      /\ asm_file' = asm_file \o lines
  BY DEF Assembled, Emit
<1>2. Bare(lines)
  BY BareOne DEF NoArg, Asm, LabelCommands
<1> HIDE DEF lines
<1>3. /\ IsSeq(lines) /\ LabelsIn(lines) = {} /\ OncePerLine(lines)
      /\ \A names : JumpsInto(lines, names)
  BY <1>2, BareLines
<1>4. IsSeq(asm_file) /\ OncePerLine(asm_file) /\ JumpsInto(asm_file, Known(g) \cup Open(g))
  BY DEF LabelInvWith
<1>5. /\ IsSeq(asm_file') /\ LabelsIn(asm_file') = LabelsIn(asm_file) /\ OncePerLine(asm_file')
      /\ JumpsInto(asm_file', Known(g) \cup Open(g))
  BY <1>1, <1>3, <1>4, LinesJoined, Joined
<1>6. Known(g)' = Known(g) /\ Open(g)' = Open(g)
  BY <1>1, <1>5 DEF Known, Open
<1> QED
  BY <1>1, <1>5, <1>6 DEF LabelInvWith

LEMMA LabelsStep ==
  ASSUME NEW g, Fits(root, g), LabelInvWith(g), BInv, [BNext]_bvars
  PROVE  LabelInvWith(g)' /\ root' = root
<1>1. CASE ScopeStart \/ ScopeEnd \/ Semicolon
  BY <1>1, ChildrenOn DEF ScopeStart, ScopeEnd, Semicolon
<1>2. CASE WriteLines
  BY <1>2, WriteLinesOn DEF WriteLines
<1>3. CASE WriteNum
  BY <1>3, WriteNumOn DEF WriteNum
<1>4. CASE WriteVar
  BY <1>4, WriteVarOn DEF WriteVar
<1>5. CASE WritePopVar
  BY <1>5, WritePopVarOn DEF WritePopVar
<1>6. CASE WriteOp
  BY <1>6, WriteOpOn DEF WriteOp
<1>7. CASE WriteGetvar
  BY <1>7, WriteGetvarOn DEF WriteGetvar
<1>8. CASE WritePutexpr
  BY <1>8, WritePutexprOn DEF WritePutexpr
<1>9. CASE WriteCondExpr
  BY <1>9, WriteCondExprOn DEF WriteCondExpr
<1>10. CASE WriteCondEnd
  BY <1>10, WriteCondEndOn DEF WriteCondEnd
<1>11. CASE WriteWhile
  BY <1>11, WriteWhileOn DEF WriteWhile
<1>12. CASE WriteIf
  BY <1>12, WriteIfOn DEF WriteIf
<1>13. CASE WriteIfTest
  BY <1>13, WriteIfTestOn DEF WriteIfTest
<1>14. CASE WriteIfEnd
  BY <1>14, WriteIfEndOn DEF WriteIfEnd
<1>15. CASE WriteFunc
  BY <1>15, WriteFuncOn DEF WriteFunc
<1>16. CASE WriteArgument
  BY <1>16, WriteArgumentOn DEF WriteArgument
<1>17. CASE WriteCall
  BY <1>17, WriteCallOn DEF WriteCall
<1>18. CASE WriteFuncDecl
  BY <1>18, WriteFuncDeclOn DEF WriteFuncDecl
<1>19. CASE WriteParameter
  BY <1>19, WriteParameterOn DEF WriteParameter
<1>20. CASE WriteBody
  BY <1>20, WriteBodyOn DEF WriteBody
<1>21. CASE WriteMain
  BY <1>21, WriteMainOn DEF WriteMain
<1>22. CASE Leave
  BY <1>22, LeaveOn DEF Leave
<1>23. CASE WriteReturn
  BY <1>23, WriteReturnOn DEF WriteReturn
<1>24. CASE UseWithoutTables
  BY <1>24, Undisturbed DEF UseWithoutTables
<1>25. CASE Assembled
  BY <1>25, AssembledOn DEF Assembled
<1>26. CASE UNCHANGED bvars
  BY <1>26, Undisturbed DEF bvars
<1> QED
  BY <1>1, <1>2, <1>3, <1>4, <1>5, <1>6, <1>7, <1>8, <1>9,
     <1>10, <1>11, <1>12, <1>13, <1>14, <1>15, <1>16, <1>17, <1>18,
     <1>19, <1>20, <1>21, <1>22, <1>23, <1>24, <1>25, <1>26 DEF BNext

LEMMA LabelsStay == LabelInv /\ BInv /\ [BNext]_bvars => LabelInv'
<1> SUFFICES ASSUME LabelInv, BInv, [BNext]_bvars PROVE LabelInv'
  OBVIOUS
<1>1. PICK g : Fits(root, g) /\ LabelInvWith(g)
  BY DEF LabelInv
<1>2. LabelInvWith(g)' /\ root' = root
  BY <1>1, LabelsStep
<1> QED
  BY <1>1, <1>2 DEF LabelInv

LEMMA JumpsLand == LabelInv => EveryJumpHasOneLabel
<1> SUFFICES ASSUME LabelInv, bstage = "written", NEW j \in DOMAIN asm_file,
                    asm_file[j].op \in LabelCommands
             PROVE  \E l \in DOMAIN asm_file :
                      /\ asm_file[l].op = "LABEL" /\ asm_file[l].name = asm_file[j].name
                      /\ \A k \in DOMAIN asm_file :
                           asm_file[k].op = "LABEL" /\ asm_file[k].name = asm_file[j].name => k = l
  BY DEF EveryJumpHasOneLabel
<1>1. PICK g : LabelInvWith(g)
  BY DEF LabelInv
<1>2. work = << >> /\ IsSeq(asm_file)
  BY <1>1 DEF LabelInvWith
<1>3. Known(g) = LabelsIn(asm_file) /\ Open(g) = {}
  BY <1>2, NoneOwed, Short DEF Known, Open, EndAhead
<1>4. DOMAIN asm_file = 1..Len(asm_file)
  BY <1>2 DEF IsSeq
<1>5. asm_file[j].name \in LabelsIn(asm_file)
  BY <1>1, <1>3, <1>4 DEF LabelInvWith, JumpsInto
<1>6. PICK l \in 1..Len(asm_file) : asm_file[l].op = "LABEL" /\ asm_file[l].name = asm_file[j].name
  BY <1>5, LabelIn
<1>7. \A k \in 1..Len(asm_file) :
        asm_file[k].op = "LABEL" /\ asm_file[k].name = asm_file[j].name => k = l
  BY <1>1, <1>6 DEF LabelInvWith, OncePerLine
<1> QED
  BY <1>4, <1>6, <1>7

(* Every jump that is written has one label line to go to, and every call  *)
(* the function it calls, however whiles, ifs and comparisons are nested   *)
(* (label_ct in write_while, write_if and write_cond_expr), in a program   *)
(* whose ifs have bodies that draw no label of their own.                  *)
THEOREM OneLabelForEachJump ==
  ASSUME \A tree \in Trees : WellLabelled(tree)
  PROVE  BSpec => []EveryJumpHasOneLabel
<1>1. BInit => BInv /\ LabelInv
  <2> SUFFICES ASSUME BInit PROVE BInv /\ LabelInv
    OBVIOUS
  <2>1. PICK tree \in Trees : Begin(tree)
    BY DEF BInit
  <2>2. PICK g : Fits(tree, g)
    BY DEF WellLabelled
  <2>3. root = tree
    BY <2>1 DEF Begin
  <2> QED
    BY <2>1, <2>2, <2>3, LabelsStart, BackendStarts DEF LabelInv
<1>2. BInv /\ LabelInv /\ [BNext]_bvars => (BInv /\ LabelInv)'
  BY BackendStep, LabelsStay
<1>3. LabelInv => EveryJumpHasOneLabel
  BY JumpsLand
<1> QED
  BY <1>1, <1>2, <1>3, PTL DEF BSpec
-------------------------------------------------------------------------------
(* How many scopes a node opens, less the ones it closes.                  *)
Opens(n) ==
  CASE n.type = "SCOPE_START" -> 1
    [] n.type = "SCOPE_END" -> -1
    [] OTHER -> 0

(* A node, walked with its children: rise is what it leaves open, need how *)
(* many scopes have to be open before it so that none of them closes the   *)
(* outermost one of its function.  Expressions have no scopes, and the     *)
(* body of a function starts with none.                                    *)
NodeBalanced(n, g) ==
  /\ n.left \in g.nodes \cup {NoNode} /\ n.right \in g.nodes \cup {NoNode}
  /\ g.rise[n] \in Int /\ g.need[n] \in Nat
  /\ n.type \in {"SEMICOLON", "SCOPE_START", "SCOPE_END"} =>
       /\ g.rise[n] = Opens(n) + g.rise[n.left] + g.rise[n.right]
       /\ g.need[n] + Opens(n) >= g.need[n.left]
       /\ g.need[n] + Opens(n) + g.rise[n.left] >= g.need[n.right]
  /\ n.type = "SCOPE_END" => g.need[n] >= 2
  /\ n.type \in {"IF", "WHILE"} =>
       n.left.type \notin Holders /\ g.rise[n] = g.rise[n.right] /\ g.need[n] = g.need[n.right]
  /\ n.type \in {"FUNC_DECL", "MAIN"} => g.rise[n] = 0 /\ g.need[n.right] = 0
  /\ n.type \notin Holders =>
       /\ g.rise[n] = 0 /\ g.need[n] = 0
       /\ n.left.type \notin Holders /\ n.right.type \notin Holders

Balances(tree, g) ==
  /\ tree \in g.nodes \cup {NoNode}
  /\ g.rise[NoNode] = 0 /\ g.need[NoNode] = 0
  /\ \A n \in g.nodes : NodeBalanced(n, g)

(* A program in which no command of a function closes the function's       *)
(* outermost scope: of its closing braces, the parser leaves the last to   *)
(* the commands behind the function (sce_debt).                            *)
Balanced(tree) == \E g : Balances(tree, g)

Balance(tree) == CHOOSE g : Balances(tree, g)
-------------------------------------------------------------------------------
Depth(m) == Len(m.tables) - (IF m.in_func_start THEN 1 ELSE 0)

(* Managers are counted from the global one, which is 1.                   *)
AtHeight(ms, h) == ms[Len(ms) + 1 - h]

Leaves(call) == call.do \in {"leave", "parameters"}

Rises(call, g) == IF call.do = "asmbl" THEN g.rise[call.node] ELSE 0
Needs(call, g) == IF call.do = "asmbl" THEN g.need[call.node] ELSE 0

CallBalanced(call, g) ==
  /\ call.do = "asmbl" => call.node \in g.nodes
  /\ call.do = "arguments" => call.comma \in g.nodes \cup {NoNode} /\ call.comma.type \notin Holders
  /\ call.do = "parameters" => call.func \in g.nodes /\ call.func.type = "FUNC_DECL"

(* A call takes the depth of the manager it is passed from a to b; the end *)
(* of a function goes back to the manager below, as that was left.  Of the *)
(* global manager nothing is said.                                         *)
Moves(call, g, ms, h, a, i, b) ==
  /\ h > 1 /\ call.do = "asmbl" => a >= Needs(call, g)
  /\ Leaves(call) => h > 1 /\ i = h - 1 /\ (i > 1 => b = Depth(AtHeight(ms, i)))
  /\ ~Leaves(call) => i = h /\ (h > 1 => b = a + Rises(call, g))

Walked(s, g, ms, h, a, at, d) ==
  /\ at[1] = h /\ (h > 1 => d[1] = a)
  /\ \A k \in 1..(Len(s) + 1) : at[k] \in 1..h
  /\ \A k, l \in 1..(Len(s) + 1) : k <= l => at[l] <= at[k]
  /\ \A k \in 1..Len(s) : Moves(s[k], g, ms, at[k], d[k], at[k + 1], d[k + 1])

(* From height h and depth a the calls find the scopes open they need.     *)
Walk(s, g, ms, h, a) ==
  /\ IsSeq(s) /\ h \in Nat \ {0}
  /\ \A k \in 1..Len(s) : CallBalanced(s[k], g)
  /\ \E at, d : Walked(s, g, ms, h, a, at, d)

OpenBodies == \A m \in 1..(Len(mngrs) - 1) : mngrs[m].tables # << >>

LevelInvWith(g) ==
  /\ OpenBodies
  /\ Walk(work, g, mngrs, Len(mngrs), Depth(mngrs[1]))

LevelInv == Balances(root, Balance(root)) /\ LevelInvWith(Balance(root))
-------------------------------------------------------------------------------
(* Walks.                                                                  *)
LEMMA NoWalk ==
  ASSUME NEW g, NEW ms, NEW h \in Nat \ {0}, NEW a
  PROVE  Walk(<< >>, g, ms, h, a)
<1> DEFINE s == << >>
           at == [k \in 1..1 |-> h]
           d == [k \in 1..1 |-> a]
<1>1. IsSeq(s) /\ Len(s) = 0
  BY Short
<1>2. h \in 1..h
  OBVIOUS
<1> HIDE DEF s
<1>3. Walked(s, g, ms, h, a, at, d)
  <2>1. 1..(Len(s) + 1) = {1} /\ 1..Len(s) = {}
    BY <1>1
  <2>2. at[1] = h /\ d[1] = a
    OBVIOUS
  <2> HIDE DEF at, d
  <2> QED
    BY <1>2, <2>1, <2>2 DEF Walked
<1>4. \A k \in 1..Len(s) : CallBalanced(s[k], g)
  BY <1>1
<1> HIDE DEF at, d
<1>5. Walk(s, g, ms, h, a)
  BY <1>1, <1>3, <1>4, Zenon DEF Walk
<1> QED
  BY <1>5 DEF s

LEMMA WalkTail ==
  ASSUME NEW s, NEW g, NEW ms, NEW h, NEW a, Walk(s, g, ms, h, a), s # << >>
  PROVE  /\ h \in Nat \ {0} /\ CallBalanced(Head(s), g)
         /\ h > 1 /\ Head(s).do = "asmbl" => a >= Needs(Head(s), g)
         /\ Leaves(Head(s)) =>
              h > 1 /\ Walk(Tail(s), g, ms, h - 1, Depth(AtHeight(ms, h - 1)))
         /\ ~Leaves(Head(s)) => Walk(Tail(s), g, ms, h, a + Rises(Head(s), g))
<1> DEFINE t == Tail(s)
           n == Len(s)
<1>1. /\ n \in Nat /\ 1 \in 1..n /\ Head(s) = s[1] /\ IsSeq(t) /\ Len(t) = n - 1
      /\ \A k \in 1..Len(t) : k + 1 \in 1..n /\ t[k] = s[k + 1]
  BY Beheaded DEF Walk
<1>2. h \in Nat \ {0} /\ \A k \in 1..n : CallBalanced(s[k], g)
  BY DEF Walk
<1>3. PICK at, d : Walked(s, g, ms, h, a, at, d)
  BY DEF Walk
<1>4. /\ at[1] = h /\ (h > 1 => d[1] = a)
      /\ \A k \in 1..(n + 1) : at[k] \in 1..h
      /\ \A k, l \in 1..(n + 1) : k <= l => at[l] <= at[k]
      /\ \A k \in 1..n : Moves(s[k], g, ms, at[k], d[k], at[k + 1], d[k + 1])
  BY <1>3 DEF Walked
<1>5. Moves(s[1], g, ms, h, d[1], at[2], d[2])
  BY <1>1, <1>4
<1> DEFINE e == [k \in 1..n |-> at[k + 1]]
           f == [k \in 1..n |-> d[k + 1]]
           i == at[2]
           b == d[2]
<1>6. i \in 1..h /\ i \in Nat \ {0}
  <2>1. 2 \in 1..(n + 1)
    BY <1>1
  <2> QED
    BY <1>2, <1>4, <2>1
<1>7. \A c : (i > 1 => c = b) => Walked(t, g, ms, i, c, e, f)
  <2>1. e[1] = i /\ f[1] = b
    BY <1>1
  <2>2. \A k \in 1..n : e[k] = at[k + 1] /\ f[k] = d[k + 1] /\ k + 1 \in 1..(n + 1) /\ 2 <= k + 1
    BY <1>1
  <2> HIDE DEF e, f
  <2>3. Len(t) + 1 = n
    BY <1>1
  <2>4. 2 \in 1..(n + 1)
    BY <1>1
  <2>5. \A k \in 1..(Len(t) + 1) : e[k] \in 1..i
    <3> SUFFICES ASSUME NEW k \in 1..n PROVE e[k] \in 1..i
      BY <2>3
    <3>1. at[k + 1] \in 1..h /\ at[k + 1] <= i
      BY <1>4, <2>2, <2>4
    <3> QED
      BY <1>6, <2>2, <3>1
  <2>6. \A k, l \in 1..(Len(t) + 1) : k <= l => e[l] <= e[k]
    <3> SUFFICES ASSUME NEW k \in 1..n, NEW l \in 1..n, k <= l PROVE e[l] <= e[k]
      BY <2>3
    <3>1. k + 1 <= l + 1
      OBVIOUS
    <3> QED
      BY <1>4, <2>2, <3>1
  <2>7. \A k \in 1..Len(t) : Moves(t[k], g, ms, e[k], f[k], e[k + 1], f[k + 1])
    <3> SUFFICES ASSUME NEW k \in 1..Len(t)
                 PROVE  Moves(t[k], g, ms, e[k], f[k], e[k + 1], f[k + 1])
      OBVIOUS
    <3> DEFINE j == k + 1
    <3>1. k \in 1..n /\ j \in 1..n /\ t[k] = s[j]
      BY <1>1
    <3>2. e[k] = at[j] /\ f[k] = d[j] /\ e[j] = at[j + 1] /\ f[j] = d[j + 1]
      BY <2>2, <3>1
    <3> HIDE DEF j
    <3>3. Moves(t[k], g, ms, e[k], f[k], e[j], f[j])
      BY <1>4, <3>1, <3>2
    <3> QED
      BY <3>3 DEF j
  <2> HIDE DEF i, b
  <2> QED
    BY <2>1, <2>5, <2>6, <2>7 DEF Walked
<1>8. \A k \in 1..Len(t) : CallBalanced(t[k], g)
  BY <1>1, <1>2
<1> HIDE DEF e, f, i, b, t
<1>9. \A c : (i > 1 => c = b) => Walk(t, g, ms, i, c)
  BY <1>1, <1>6, <1>7, <1>8, Zenon DEF Walk
<1>10. /\ h > 1 /\ Head(s).do = "asmbl" => a >= Needs(Head(s), g)
       /\ CallBalanced(Head(s), g)
  BY <1>1, <1>2, <1>4, <1>5 DEF Moves
<1>11. ASSUME Leaves(Head(s))
       PROVE  h > 1 /\ Walk(t, g, ms, h - 1, Depth(AtHeight(ms, h - 1)))
  <2>1. h > 1 /\ i = h - 1 /\ (i > 1 => b = Depth(AtHeight(ms, i)))
    BY <1>1, <1>5, <1>11 DEF Moves, i, b
  <2>2. Walk(t, g, ms, i, Depth(AtHeight(ms, i)))
    BY <1>9, <2>1
  <2> QED
    BY <2>1, <2>2
<1>12. ASSUME ~Leaves(Head(s))
       PROVE  Walk(t, g, ms, h, a + Rises(Head(s), g))
  <2>1. i = h /\ (i > 1 => b = a + Rises(Head(s), g))
    BY <1>1, <1>4, <1>5, <1>12 DEF Moves, i, b
  <2> QED
    BY <1>9, <2>1
<1> QED
  BY <1>2, <1>10, <1>11, <1>12 DEF t

LEMMA WalkOne ==
  ASSUME NEW c, NEW s, NEW g, NEW ms, NEW h \in Nat \ {0}, NEW a, NEW i, NEW b,
         CallBalanced(c, g), Moves(c, g, ms, h, a, i, b), i <= h, Walk(s, g, ms, i, b)
  PROVE  Walk(<< c >> \o s, g, ms, h, a)
<1> DEFINE one == << c >>
           t == one \o s
<1>1. IsSeq(s) /\ i \in Nat \ {0} /\ \A k \in 1..Len(s) : CallBalanced(s[k], g)
  BY DEF Walk
<1>2. IsSeq(one) /\ Len(one) = 1 /\ one[1] = c
  BY Short
<1>3. PICK at, d : Walked(s, g, ms, i, b, at, d)
  BY DEF Walk
<1> HIDE DEF one
<1>4. IsSeq(t) /\ Follow(one, s, t)
  BY <1>1, <1>2, Joined, Zenon
<1> HIDE DEF t
<1> DEFINE n == Len(s)
<1>5. /\ n \in Nat /\ Len(t) = n + 1 /\ t[1] = c
      /\ \A k \in 1..n : t[k + 1] = s[k]
  <2>1. Len(one) = 1 /\ n \in Nat /\ Len(t) = 1 + n
    BY <1>2, <1>4 DEF Follow
  <2>2. t[1] = c
    BY <1>2, <1>4 DEF Follow
  <2>3. \A k \in 1..n : t[1 + k] = s[k]
    BY <1>4, <2>1 DEF Follow
  <2>4. \A k \in 1..n : k + 1 = 1 + k
    OBVIOUS
  <2> QED
    BY <2>1, <2>2, <2>3, <2>4
<1> DEFINE e == [k \in 1..(n + 2) |-> IF k = 1 THEN h ELSE at[k - 1]]
           f == [k \in 1..(n + 2) |-> IF k = 1 THEN a ELSE d[k - 1]]
<1>6. /\ at[1] = i /\ (i > 1 => d[1] = b)
      /\ \A k \in 1..(n + 1) : at[k] \in 1..i
      /\ \A k, l \in 1..(n + 1) : k <= l => at[l] <= at[k]
      /\ \A k \in 1..n : Moves(s[k], g, ms, at[k], d[k], at[k + 1], d[k + 1])
  BY <1>3 DEF Walked
<1>7. /\ e[1] = h /\ f[1] = a
      /\ \A k \in 1..(n + 1) : k + 1 \in 1..(n + 2) /\ e[k + 1] = at[k] /\ f[k + 1] = d[k]
      /\ \A k \in 1..(n + 2) : k = 1 \/ (k - 1 \in 1..(n + 1) /\ e[k] = at[k - 1] /\ f[k] = d[k - 1])
  BY <1>5
<1> HIDE DEF e, f
<1>8. Walked(t, g, ms, h, a, e, f)
  <2>1. \A k \in 1..(n + 2) : e[k] \in 1..h
    <3> SUFFICES ASSUME NEW k \in 1..(n + 2) PROVE e[k] \in 1..h
      OBVIOUS
    <3>1. CASE k = 1
      BY <1>7, <3>1
    <3>2. CASE k # 1
      <4>1. at[k - 1] \in 1..i /\ e[k] = at[k - 1]
        BY <1>6, <1>7, <3>2
      <4> QED
        BY <1>1, <4>1
    <3> QED
      BY <3>1, <3>2
  <2>2. \A k, l \in 1..(n + 2) : k <= l => e[l] <= e[k]
    <3> SUFFICES ASSUME NEW k \in 1..(n + 2), NEW l \in 1..(n + 2), k <= l PROVE e[l] <= e[k]
      OBVIOUS
    <3>1. CASE k = 1
      <4>1. e[l] \in 1..h
        BY <2>1
      <4> QED
        BY <1>7, <3>1, <4>1
    <3>2. CASE k # 1
      <4>1. /\ k - 1 \in 1..(n + 1) /\ l - 1 \in 1..(n + 1) /\ k - 1 <= l - 1
            /\ e[k] = at[k - 1] /\ e[l] = at[l - 1]
        BY <1>5, <1>7, <3>2
      <4> QED
        BY <1>6, <4>1
    <3> QED
      BY <3>1, <3>2
  <2>3. \A k \in 1..(n + 1) : Moves(t[k], g, ms, e[k], f[k], e[k + 1], f[k + 1])
    <3> SUFFICES ASSUME NEW k \in 1..(n + 1)
                 PROVE  Moves(t[k], g, ms, e[k], f[k], e[k + 1], f[k + 1])
      OBVIOUS
    <3>1. CASE k = 1
      <4>1. 1 \in 1..(n + 1)
        BY <1>5
      <4>2. e[1 + 1] = i /\ f[1 + 1] = d[1] /\ e[1] = h /\ f[1] = a /\ t[1] = c
        BY <1>5, <1>6, <1>7, <4>1
      <4>3. Moves(c, g, ms, h, a, i, d[1])
        BY <1>6 DEF Moves
      <4> QED
        BY <3>1, <4>2, <4>3
    <3>2. CASE k # 1
      <4> DEFINE j == k - 1
      <4>1. j \in 1..n /\ j + 1 = k /\ j \in 1..(n + 1) /\ k \in 1..(n + 1)
        BY <1>5, <3>2
      <4>2. t[k] = s[j] /\ e[k] = at[j] /\ f[k] = d[j] /\ e[k + 1] = at[k] /\ f[k + 1] = d[k]
        BY <1>5, <1>7, <4>1
      <4> HIDE DEF j
      <4>3. Moves(s[j], g, ms, at[j], d[j], at[k], d[k])
        BY <1>6, <4>1
      <4> QED
        BY <4>2, <4>3
    <3> QED
      BY <3>1, <3>2
  <2>4. Len(t) + 1 = n + 2 /\ Len(t) = n + 1
    BY <1>5
  <2> QED
    BY <1>7, <2>1, <2>2, <2>3, <2>4 DEF Walked
<1>9. \A k \in 1..Len(t) : CallBalanced(t[k], g)
  <2> SUFFICES ASSUME NEW k \in 1..Len(t) PROVE CallBalanced(t[k], g)
    OBVIOUS
  <2>1. CASE k = 1
    BY <1>5, <2>1
  <2>2. CASE k # 1
    <3>1. k - 1 \in 1..n /\ t[(k - 1) + 1] = s[k - 1] /\ (k - 1) + 1 = k
      BY <1>5, <2>2
    <3> QED
      BY <1>1, <3>1
  <2> QED
    BY <2>1, <2>2
<1>10. Walk(t, g, ms, h, a)
  BY <1>4, <1>8, <1>9, Zenon DEF Walk
<1> QED
  BY <1>10 DEF t, one

(* A walk knows the managers only that it goes down to.                    *)
LEMMA WalkSame ==
  ASSUME NEW s, NEW g, NEW ms, NEW ns, NEW h, NEW a, Walk(s, g, ms, h, a),
         \A i \in 1..(h - 1) : AtHeight(ns, i) = AtHeight(ms, i)
  PROVE  Walk(s, g, ns, h, a)
<1>1. IsSeq(s) /\ h \in Nat \ {0} /\ \A k \in 1..Len(s) : CallBalanced(s[k], g)
  BY DEF Walk
<1>2. PICK at, d : Walked(s, g, ms, h, a, at, d)
  BY DEF Walk
<1>3. /\ at[1] = h /\ (h > 1 => d[1] = a)
      /\ \A k \in 1..(Len(s) + 1) : at[k] \in 1..h
      /\ \A k, l \in 1..(Len(s) + 1) : k <= l => at[l] <= at[k]
      /\ \A k \in 1..Len(s) : Moves(s[k], g, ms, at[k], d[k], at[k + 1], d[k + 1])
  BY <1>2 DEF Walked
<1>4. Len(s) \in Nat
  BY <1>1, LenProperties DEF IsSeq
<1>5. ASSUME NEW k \in 1..Len(s)
      PROVE  Moves(s[k], g, ns, at[k], d[k], at[k + 1], d[k + 1])
  <2> DEFINE p == at[k]
             q == at[k + 1]
  <2>1. Moves(s[k], g, ms, p, d[k], q, d[k + 1])
    BY <1>3
  <2>2. p \in 1..h /\ q \in 1..h
    BY <1>3, <1>4
  <2> HIDE DEF p, q
  <2>3. q = p - 1 => AtHeight(ns, q) = AtHeight(ms, q)
    <3> SUFFICES ASSUME q = p - 1 PROVE AtHeight(ns, q) = AtHeight(ms, q)
      OBVIOUS
    <3>1. q \in 1..(h - 1)
      BY <1>1, <2>2
    <3> QED
      BY <3>1
  <2>4. Moves(s[k], g, ns, p, d[k], q, d[k + 1])
    BY <2>1, <2>3 DEF Moves
  <2> QED
    BY <2>4 DEF p, q
<1>6. Walked(s, g, ns, h, a, at, d)
  BY <1>3, <1>5 DEF Walked
<1> QED
  BY <1>1, <1>6, Zenon DEF Walk
-------------------------------------------------------------------------------
(* Calls that take a walk at height h from depth a to b.                   *)
Takes(s, g, h, a, b) ==
  IsSeq(s) /\ \A t, ms : Walk(t, g, ms, h, b) => Walk(s \o t, g, ms, h, a)

LEMMA TakesInTurn ==
  ASSUME NEW s, NEW t, NEW g, NEW h, NEW a, NEW b, NEW c,
         Takes(s, g, h, a, b), Takes(t, g, h, b, c)
  PROVE  Takes(s \o t, g, h, a, c)
<1>1. IsSeq(s) /\ IsSeq(t)
  BY DEF Takes
<1>2. IsSeq(s \o t)
  BY <1>1, Joined
<1>3. ASSUME NEW u, NEW ms, Walk(u, g, ms, h, c)
      PROVE  Walk((s \o t) \o u, g, ms, h, a)
  <2>1. Walk(t \o u, g, ms, h, b)
    BY <1>3 DEF Takes
  <2>2. Walk(s \o (t \o u), g, ms, h, a)
    BY <2>1 DEF Takes
  <2>3. IsSeq(u)
    BY <1>3 DEF Walk
  <2>4. (s \o t) \o u = s \o (t \o u)
    BY <1>1, <2>3, Regrouped, SMTT(30)
  <2> QED
    BY <2>2, <2>4
<1> QED
  BY <1>2, <1>3 DEF Takes

LEMMA NoneTakes ==
  ASSUME NEW g, NEW h, NEW a
  PROVE  Takes(<< >>, g, h, a, a)
<1>1. IsSeq(<< >>)
  BY Short
<1>2. ASSUME NEW t, NEW ms, Walk(t, g, ms, h, a)
      PROVE  Walk(<< >> \o t, g, ms, h, a)
  <2>1. PICK W : t \in Seq(W)
    BY <1>2 DEF Walk, IsSeq
  <2>2. << >> \o t = t
    BY <2>1
  <2> QED
    BY <1>2, <2>2
<1> QED
  BY <1>1, <1>2 DEF Takes

LEMMA OneTakes ==
  ASSUME NEW c, NEW g, NEW h \in Nat \ {0}, NEW a, CallBalanced(c, g), ~Leaves(c),
         h > 1 /\ c.do = "asmbl" => a >= Needs(c, g)
  PROVE  Takes(<< c >>, g, h, a, a + Rises(c, g))
<1> DEFINE s == << c >>
           b == a + Rises(c, g)
<1>1. IsSeq(s)
  BY Short
<1>2. ASSUME NEW t, NEW ms, Walk(t, g, ms, h, b)
      PROVE  Walk(s \o t, g, ms, h, a)
  <2>1. Moves(c, g, ms, h, a, h, b)
    BY DEF Moves
  <2>2. h <= h
    OBVIOUS
  <2> HIDE DEF b
  <2> QED
    BY <1>2, <2>1, <2>2, WalkOne
<1> HIDE DEF s, b
<1>3. Takes(s, g, h, a, b)
  BY <1>1, <1>2 DEF Takes
<1> QED
  BY <1>3 DEF s, b

LEMMA NodeTakes ==
  ASSUME NEW g, NEW n \in g.nodes \cup {NoNode}, g.rise[NoNode] = 0,
         NEW h \in Nat \ {0}, NEW a \in Int, h > 1 => a >= g.need[n]
  PROVE  Takes(Asmbl(n), g, h, a, a + g.rise[n])
<1>1. CASE n = NoNode
  <2>1. a + g.rise[n] = a
    BY <1>1
  <2> QED
    BY <1>1, <2>1, NoneTakes DEF Asmbl
<1>2. CASE n # NoNode
  <2> DEFINE c == [do |-> "asmbl", node |-> n]
  <2>1. /\ CallBalanced(c, g) /\ ~Leaves(c)
        /\ Needs(c, g) = g.need[n] /\ Rises(c, g) = g.rise[n]
    BY <1>2 DEF CallBalanced, Leaves, Needs, Rises
  <2>2. Asmbl(n) = << c >>
    BY <1>2 DEF Asmbl
  <2> HIDE DEF c
  <2>3. Takes(<< c >>, g, h, a, a + Rises(c, g))
    BY <2>1, OneTakes
  <2> QED
    BY <2>1, <2>2, <2>3
<1> QED
  BY <1>1, <1>2

(* At the bottom, a depth says nothing.                                    *)
LEMMA WalkAtBottom ==
  ASSUME NEW s, NEW g, NEW ms, NEW a, NEW b, Walk(s, g, ms, 1, a)
  PROVE  Walk(s, g, ms, 1, b)
<1>1. PICK at, d : Walked(s, g, ms, 1, a, at, d)
  BY DEF Walk
<1>2. Walked(s, g, ms, 1, b, at, d)
  BY <1>1 DEF Walked
<1> QED
  BY <1>2, Zenon DEF Walk

(* Calls that leave as many scopes open as they find.                      *)
Flat(s, g) == \A h \in Nat \ {0} : \A a \in Nat : Takes(s, g, h, a, a)

LEMMA NoneFlat == \A g : Flat(<< >>, g)
BY NoneTakes DEF Flat

LEMMA FlatJoined ==
  ASSUME NEW s, NEW t, NEW g, Flat(s, g), Flat(t, g)
  PROVE  Flat(s \o t, g)
BY TakesInTurn DEF Flat

LEMMA OtherTakes ==
  ASSUME NEW c, NEW g, c.do \notin {"asmbl", "arguments", "parameters", "leave"},
         NEW h \in Nat \ {0}, NEW a \in Int
  PROVE  Takes(<< c >>, g, h, a, a)
<1>1. CallBalanced(c, g) /\ ~Leaves(c) /\ Rises(c, g) = 0 /\ c.do # "asmbl"
  BY DEF CallBalanced, Leaves, Rises
<1>2. Takes(<< c >>, g, h, a, a + Rises(c, g))
  BY <1>1, OneTakes
<1>3. a + Rises(c, g) = a
  BY <1>1
<1> QED
  BY <1>2, <1>3

LEMMA OthersTake ==
  ASSUME NEW g, NEW h \in Nat \ {0}, NEW a \in Int
  PROVE  /\ \A lines : Takes(Write(lines), g, h, a, a)
         /\ \A var : Takes(PopVar(var), g, h, a, a)
         /\ Takes(Todo("if_test"), g, h, a, a) /\ Takes(Todo("if_end"), g, h, a, a)
         /\ \A jump : Takes(<< [do |-> "cond_end", jump |-> jump] >>, g, h, a, a)
BY OtherTakes DEF Write, PopVar, Todo

LEMMA OthersFlat ==
  ASSUME NEW g
  PROVE  /\ \A lines : Flat(Write(lines), g)
         /\ \A var : Flat(PopVar(var), g)
         /\ \A jump : Flat(<< [do |-> "cond_end", jump |-> jump] >>, g)
<1>1. ASSUME NEW h \in Nat \ {0}, NEW a \in Nat
      PROVE  /\ \A lines : Takes(Write(lines), g, h, a, a)
             /\ \A var : Takes(PopVar(var), g, h, a, a)
             /\ \A jump : Takes(<< [do |-> "cond_end", jump |-> jump] >>, g, h, a, a)
  <2>1. a \in Int
    OBVIOUS
  <2> QED
    BY <2>1, OthersTake
<1> QED
  BY <1>1 DEF Flat

(* Expressions open and close nothing.                                     *)
LEMMA ExpressionFlat ==
  ASSUME NEW tree, NEW g, Balances(tree, g), NEW n \in g.nodes \cup {NoNode}, n.type \notin Holders
  PROVE  g.rise[n] = 0 /\ g.need[n] = 0 /\ Flat(Asmbl(n), g)
<1>1. g.rise[n] = 0 /\ g.need[n] = 0 /\ g.rise[NoNode] = 0
  BY DEF Balances, NodeBalanced
<1>2. ASSUME NEW h \in Nat \ {0}, NEW a \in Nat PROVE Takes(Asmbl(n), g, h, a, a)
  <2>1. Takes(Asmbl(n), g, h, a, a + g.rise[n])
    BY <1>1, NodeTakes
  <2>2. a + g.rise[n] = a
    BY <1>1
  <2> QED
    BY <2>1, <2>2
<1> QED
  BY <1>1, <1>2 DEF Flat

LEMMA ArgumentsFlat ==
  ASSUME NEW g, NEW comma \in g.nodes \cup {NoNode}, comma.type \notin Holders, NEW func, NEW counter
  PROVE  Flat(Arguments(func, comma, counter), g)
<1> DEFINE c == [do |-> "arguments", func |-> func, comma |-> comma, counter |-> counter]
<1>1. CallBalanced(c, g) /\ ~Leaves(c) /\ Rises(c, g) = 0 /\ c.do # "asmbl"
  BY DEF CallBalanced, Leaves, Rises
<1>2. Arguments(func, comma, counter) = << c >>
  BY DEF Arguments
<1> HIDE DEF c
<1>3. ASSUME NEW h \in Nat \ {0}, NEW a \in Nat PROVE Takes(<< c >>, g, h, a, a)
  <2>1. Takes(<< c >>, g, h, a, a + Rises(c, g))
    BY <1>1, OneTakes
  <2>2. a + Rises(c, g) = a
    BY <1>1
  <2> QED
    BY <2>1, <2>2
<1> QED
  BY <1>2, <1>3 DEF Flat
-------------------------------------------------------------------------------
(* The managers: there is one, and the depth of a function that has tables *)
(* is a number.                                                            *)
LEMMA SomeManager ==
  ASSUME BInv, work # << >>
  PROVE  /\ Len(mngrs) \in Nat \ {0} /\ mngrs # << >>
         /\ Len(mngrs[1].tables) \in Nat /\ Depth(mngrs[1]) \in Int
         /\ mngrs[1].tables # << >> => Len(mngrs[1].tables) >= 1 /\ Depth(mngrs[1]) \in Nat
<1>1. PICK S : mngrs \in Seq(Managers(S))
  BY DEF BInv, MngrsInv
<1>2. /\ Cardinality(Leavers(Tail(work))) \in Nat
      /\ Cardinality(Leavers(work)) =
              IF Head(work).do \in {"leave", "parameters"}
              THEN Cardinality(Leavers(Tail(work))) + 1 ELSE Cardinality(Leavers(Tail(work)))
  BY LeaversTail DEF BInv, WorkInv
<1>3. Len(mngrs) \in Nat \ {0}
  BY <1>2 DEF BInv, Nested
<1>4. mngrs # << >>
  BY <1>3, EmptySeq
<1>5. Tables \in Seq(Seq(S)) /\ Tables = mngrs[1].tables
  BY <1>1, <1>4, FirstManager DEF BInv, Tables
<1>6. Len(Tables) \in Nat /\ (Tables # << >> => Len(Tables) >= 1)
  BY <1>5, EmptySeq
<1>7. Depth(mngrs[1]) \in Int /\ (Tables # << >> => Depth(mngrs[1]) \in Nat)
  BY <1>5, <1>6 DEF Depth
<1> QED
  BY <1>3, <1>4, <1>5, <1>6, <1>7

(* What is known of the call that is handled, and of those behind it.      *)
LEMMA HeadLevels ==
  ASSUME NEW g, LevelInvWith(g), work # << >>
  PROVE  LET h == Len(mngrs) IN
         /\ h \in Nat \ {0} /\ CallBalanced(Head(work), g)
         /\ h > 1 /\ Head(work).do = "asmbl" => Depth(mngrs[1]) >= Needs(Head(work), g)
         /\ Leaves(Head(work)) =>
              h > 1 /\ Walk(Tail(work), g, mngrs, h - 1, Depth(AtHeight(mngrs, h - 1)))
         /\ ~Leaves(Head(work)) =>
              Walk(Tail(work), g, mngrs, h, Depth(mngrs[1]) + Rises(Head(work), g))
<1> DEFINE h == Len(mngrs)
           a == Depth(mngrs[1])
<1>1. Walk(work, g, mngrs, h, a)
  BY DEF LevelInvWith
<1> HIDE DEF h, a
<1>2. /\ h \in Nat \ {0} /\ CallBalanced(Head(work), g)
      /\ h > 1 /\ Head(work).do = "asmbl" => a >= Needs(Head(work), g)
      /\ Leaves(Head(work)) =>
           h > 1 /\ Walk(Tail(work), g, mngrs, h - 1, Depth(AtHeight(mngrs, h - 1)))
      /\ ~Leaves(Head(work)) => Walk(Tail(work), g, mngrs, h, a + Rises(Head(work), g))
  BY <1>1, WalkTail
<1> QED
  BY <1>2 DEF h, a

(* A handler that keeps the managers but for the first, and goes on with   *)
(* calls that take its depth to where the handled call takes it.           *)
LEMMA LevelsOn ==
  ASSUME NEW g, LevelInvWith(g), BInv, work # << >>, ~Leaves(Head(work)),
         Len(mngrs') = Len(mngrs), \A i \in 2..Len(mngrs) : mngrs'[i] = mngrs[i],
         Len(mngrs) > 1 => mngrs'[1].tables # << >>,
         NEW calls, work' = calls \o Tail(work), NEW a, NEW b,
         Takes(calls, g, Len(mngrs), a, b),
         Len(mngrs) > 1 => a = Depth(mngrs'[1]) /\ b = Depth(mngrs[1]) + Rises(Head(work), g)
  PROVE  LevelInvWith(g)'
<1> DEFINE h == Len(mngrs)
           c == Depth(mngrs[1]) + Rises(Head(work), g)
           t == Tail(work)
<1>1. h \in Nat \ {0} /\ Walk(t, g, mngrs, h, c)
  BY HeadLevels
<1>2. ASSUME NEW i \in 1..(h - 1) PROVE AtHeight(mngrs', i) = AtHeight(mngrs, i)
  <2>1. h + 1 - i \in 2..h
    BY <1>1
  <2> QED
    BY <2>1 DEF AtHeight
<1>3. Walk(t, g, mngrs', h, c)
  <2> HIDE DEF h, c, t
  <2> QED
    BY <1>1, <1>2, WalkSame
<1>4. Walk(t, g, mngrs', h, b)
  <2>1. CASE h > 1
    BY <1>3, <2>1
  <2>2. CASE h = 1
    <3> HIDE DEF h, c, t
    <3> QED
      BY <1>3, <2>2, WalkAtBottom
  <2> QED
    BY <1>1, <2>1, <2>2
<1>5. Walk(work', g, mngrs', h, a)
  BY <1>4 DEF Takes
<1>6. Walk(work', g, mngrs', h, Depth(mngrs'[1]))
  <2>1. CASE h > 1
    BY <1>5, <2>1
  <2>2. CASE h = 1
    <3> DEFINE e == Depth(mngrs'[1])
               w == work'
               ms == mngrs'
    <3> HIDE DEF h, c, t, e, w, ms
    <3>1. Walk(w, g, ms, 1, a)
      BY <1>5, <2>2 DEF w, ms
    <3>2. Walk(w, g, ms, 1, e)
      BY <3>1, WalkAtBottom
    <3> QED
      BY <2>2, <3>2 DEF w, ms, e
  <2> QED
    BY <1>1, <2>1, <2>2
<1>7. OpenBodies'
  <2> SUFFICES ASSUME NEW m \in 1..(h - 1) PROVE mngrs'[m].tables # << >>
    BY DEF OpenBodies
  <2>1. CASE m = 1
    BY <1>1, <2>1
  <2>2. CASE m # 1
    <3>1. m \in 2..h
      BY <1>1, <2>2
    <3> QED
      BY <3>1 DEF LevelInvWith, OpenBodies
  <2> QED
    BY <2>1, <2>2
<1> QED
  BY <1>6, <1>7 DEF LevelInvWith

(* ... and one that leaves them all alone and goes on with flat calls.     *)
LEMMA FlatOn ==
  ASSUME NEW g, LevelInvWith(g), BInv, work # << >>, ~Leaves(Head(work)), Rises(Head(work), g) = 0,
         mngrs' = mngrs, NEW calls, work' = calls \o Tail(work), Flat(calls, g)
  PROVE  LevelInvWith(g)'
<1> DEFINE a == IF Len(mngrs) > 1 THEN Depth(mngrs[1]) ELSE 0
<1>1. /\ Len(mngrs) \in Nat \ {0} /\ Depth(mngrs[1]) \in Int
      /\ mngrs[1].tables # << >> => Depth(mngrs[1]) \in Nat
  BY SomeManager
<1>2. Len(mngrs) > 1 => mngrs[1].tables # << >>
  <2> SUFFICES ASSUME Len(mngrs) > 1 PROVE mngrs[1].tables # << >>
    OBVIOUS
  <2>1. 1 \in 1..(Len(mngrs) - 1)
    BY <1>1
  <2> QED
    BY <2>1 DEF LevelInvWith, OpenBodies
<1>3. a \in Nat
  BY <1>1, <1>2
<1>4. Takes(calls, g, Len(mngrs), a, a)
  BY <1>1, <1>3 DEF Flat
<1>5. Len(mngrs) > 1 => a = Depth(mngrs[1]) /\ a = Depth(mngrs[1]) + Rises(Head(work), g)
  BY <1>1
<1> HIDE DEF a
<1> QED
  BY <1>2, <1>4, <1>5, LevelsOn

LEMMA VisitedBalanced ==
  ASSUME NEW g, Balances(root, g), LevelInvWith(g), Now("asmbl")
  PROVE  /\ work # << >> /\ ~Leaves(Head(work))
         /\ Visited \in g.nodes /\ NodeBalanced(Visited, g)
         /\ Rises(Head(work), g) = g.rise[Visited]
         /\ Len(mngrs) > 1 => Depth(mngrs[1]) >= g.need[Visited]
<1>1. work # << >> /\ Head(work).do = "asmbl"
  BY DEF Now
<1>2. CallBalanced(Head(work), g) /\ (Len(mngrs) > 1 => Depth(mngrs[1]) >= Needs(Head(work), g))
  BY <1>1, HeadLevels
<1>3. Visited \in g.nodes
  BY <1>1, <1>2 DEF CallBalanced, Visited
<1>4. NodeBalanced(Visited, g)
  BY <1>3 DEF Balances
<1> QED
  BY <1>1, <1>2, <1>3, <1>4 DEF Leaves, Rises, Needs, Visited

(* The expressions.                                                        *)
LEMMA ExpressionOn ==
  ASSUME NEW g, Balances(root, g), LevelInvWith(g), BInv, Now("asmbl"),
         Visited.type \notin Holders, mngrs' = mngrs,
         NEW calls, work' = calls \o Tail(work), Flat(calls, g)
  PROVE  LevelInvWith(g)'
<1>1. /\ work # << >> /\ ~Leaves(Head(work)) /\ NodeBalanced(Visited, g)
      /\ Rises(Head(work), g) = g.rise[Visited]
  BY VisitedBalanced
<1>2. g.rise[Visited] = 0
  BY <1>1 DEF NodeBalanced
<1> QED
  BY <1>1, <1>2, FlatOn

LEMMA PartsFlat ==
  ASSUME NEW g, Balances(root, g), LevelInvWith(g), Now("asmbl"), Visited.type \notin Holders
  PROVE  /\ Flat(Asmbl(Visited.left), g) /\ Flat(Asmbl(Visited.right), g)
         /\ Visited.left \in g.nodes \cup {NoNode} /\ Visited.left.type \notin Holders
<1>1. NodeBalanced(Visited, g)
  BY VisitedBalanced
<1>2. /\ Visited.left \in g.nodes \cup {NoNode} /\ Visited.left.type \notin Holders
      /\ Visited.right \in g.nodes \cup {NoNode} /\ Visited.right.type \notin Holders
  BY <1>1 DEF NodeBalanced
<1> QED
  BY <1>2, ExpressionFlat

LEMMA WriteNumLevel == ASSUME NEW g, Balances(root, g), LevelInvWith(g), BInv, WriteNum \/ WriteVar
                       PROVE  LevelInvWith(g)'
<1> DEFINE calls == << >>
<1>1. /\ Now("asmbl") /\ Visited.type \notin Holders /\ mngrs' = mngrs
      /\ work' = calls \o Tail(work)
  BY DEF WriteNum, WriteVar, Visiting, GoOn, Visited, Holders
<1>2. Flat(calls, g)
  BY NoneFlat
<1> HIDE DEF calls
<1> QED
  BY <1>1, <1>2, ExpressionOn

LEMMA WriteOpLevel == ASSUME NEW g, Balances(root, g), LevelInvWith(g), BInv, WriteOp
                      PROVE  LevelInvWith(g)'
<1> DEFINE a == Asmbl(Visited.right) \o PopVar(Visited.left.value)
           w == Write(<< OpLine(Visited.value) >>)
           o == Asmbl(Visited.left) \o Asmbl(Visited.right) \o w
<1>1. /\ Now("asmbl") /\ Visited.type \notin Holders /\ mngrs' = mngrs
      /\ work' = a \o Tail(work) \/ work' = o \o Tail(work)
  BY DEF WriteOp, Visiting, GoOn, Visited, Holders, Children
<1>2. Flat(a, g)
  BY <1>1, PartsFlat, OthersFlat, FlatJoined
<1>3. Flat(o, g)
  <2>1. Flat(w, g)
    BY OthersFlat
  <2> HIDE DEF w
  <2> QED
    BY <1>1, <2>1, PartsFlat, FlatJoined
<1> HIDE DEF a, o
<1> QED
  BY <1>1, <1>2, <1>3, ExpressionOn

LEMMA WriteGetvarLevel == ASSUME NEW g, Balances(root, g), LevelInvWith(g), BInv, WriteGetvar
                          PROVE  LevelInvWith(g)'
<1> DEFINE calls == PopVar(Visited.right.value)
<1>1. /\ Now("asmbl") /\ Visited.type \notin Holders /\ mngrs' = mngrs
      /\ work' = calls \o Tail(work)
  BY DEF WriteGetvar, Visiting, GoOn, Visited, Holders
<1>2. Flat(calls, g)
  BY OthersFlat
<1> HIDE DEF calls
<1> QED
  BY <1>1, <1>2, ExpressionOn

LEMMA WritePutexprLevel == ASSUME NEW g, Balances(root, g), LevelInvWith(g), BInv, WritePutexpr
                           PROVE  LevelInvWith(g)'
<1> DEFINE calls == Asmbl(Visited.right) \o Write(<< NoArg("OUT") >>)
<1>1. /\ Now("asmbl") /\ Visited.type \notin Holders /\ mngrs' = mngrs
      /\ work' = calls \o Tail(work)
  BY DEF WritePutexpr, Visiting, GoOn, Visited, Holders
<1>2. Flat(calls, g)
  BY <1>1, PartsFlat, OthersFlat, FlatJoined
<1> HIDE DEF calls
<1> QED
  BY <1>1, <1>2, ExpressionOn

LEMMA WriteReturnLevel == ASSUME NEW g, Balances(root, g), LevelInvWith(g), BInv, WriteReturn
                          PROVE  LevelInvWith(g)'
<1> DEFINE calls == Asmbl(Visited.right) \o Write(<< PopInto(Place(0)), NoArg("RET") >>)
<1>1. /\ Now("asmbl") /\ Visited.type \notin Holders /\ mngrs' = mngrs
      /\ work' = calls \o Tail(work)
  BY DEF WriteReturn, Visiting, GoOn, Visited, Holders
<1>2. Flat(calls, g)
  BY <1>1, PartsFlat, OthersFlat, FlatJoined
<1> HIDE DEF calls
<1> QED
  BY <1>1, <1>2, ExpressionOn

LEMMA WriteCondExprLevel == ASSUME NEW g, Balances(root, g), LevelInvWith(g), BInv, WriteCondExpr
                            PROVE  LevelInvWith(g)'
<1> DEFINE e == << [do |-> "cond_end", jump |-> CondJump[Visited.type]] >>
           calls == Asmbl(Visited.right) \o Asmbl(Visited.left) \o e
<1>1. /\ Now("asmbl") /\ Visited.type \notin Holders /\ mngrs' = mngrs
      /\ work' = calls \o Tail(work)
  BY DEF WriteCondExpr, Visiting, GoOn, Visited, Holders, Conditions
<1>2. Flat(e, g)
  BY OthersFlat
<1> HIDE DEF e
<1>3. Flat(calls, g)
  BY <1>1, <1>2, PartsFlat, FlatJoined
<1> HIDE DEF calls
<1> QED
  BY <1>1, <1>3, ExpressionOn

LEMMA WriteFuncLevel == ASSUME NEW g, Balances(root, g), LevelInvWith(g), BInv, WriteFunc
                        PROVE  LevelInvWith(g)'
<1> DEFINE calls == Arguments(Visited, Visited.left, 0)
<1>1. /\ Now("asmbl") /\ Visited.type \notin Holders /\ mngrs' = mngrs
      /\ work' = calls \o Tail(work)
  BY DEF WriteFunc, Visiting, GoOn, Visited, Holders
<1>2. Flat(calls, g)
  BY <1>1, PartsFlat, ArgumentsFlat
<1> HIDE DEF calls
<1> QED
  BY <1>1, <1>2, ExpressionOn

LEMMA WriteArgumentLevel == ASSUME NEW g, Balances(root, g), LevelInvWith(g), BInv, WriteArgument
                            PROVE  LevelInvWith(g)'
<1> DEFINE comma == Head(work).comma
           rest == Arguments(Head(work).func, comma.right, Head(work).counter + 1)
           calls == Asmbl(comma.left) \o rest
<1>1. /\ work # << >> /\ Head(work).do = "arguments" /\ comma # NoNode /\ mngrs' = mngrs
      /\ work' = calls \o Tail(work)
  BY DEF WriteArgument, Now, GoOn
<1>2. ~Leaves(Head(work)) /\ Rises(Head(work), g) = 0
  BY <1>1 DEF Leaves, Rises
<1>3. comma \in g.nodes /\ comma.type \notin Holders
  BY <1>1, HeadLevels DEF CallBalanced
<1>4. NodeBalanced(comma, g)
  BY <1>3 DEF Balances
<1>5. /\ comma.left \in g.nodes \cup {NoNode} /\ comma.left.type \notin Holders
      /\ comma.right \in g.nodes \cup {NoNode} /\ comma.right.type \notin Holders
  BY <1>3, <1>4 DEF NodeBalanced
<1>6. Flat(Asmbl(comma.left), g) /\ Flat(rest, g)
  BY <1>5, ExpressionFlat, ArgumentsFlat
<1>7. Flat(calls, g)
  BY <1>6, FlatJoined
<1> HIDE DEF calls
<1> QED
  BY <1>1, <1>2, <1>7, FlatOn

(* Handlers that only end.                                                 *)
LEMMA EndsLevel ==
  ASSUME NEW g, LevelInvWith(g), BInv,
         WriteLines \/ WriteCondEnd \/ WriteIfTest \/ WriteIfEnd
  PROVE  LevelInvWith(g)'
<1> DEFINE calls == << >>
<1>1. /\ work # << >> /\ Head(work).do \in {"write", "cond_end", "if_test", "if_end"}
      /\ mngrs' = mngrs /\ work' = calls \o Tail(work)
  BY DEF WriteLines, WriteCondEnd, WriteIfTest, WriteIfEnd, Now, GoOn
<1>2. ~Leaves(Head(work)) /\ Rises(Head(work), g) = 0
  BY <1>1 DEF Leaves, Rises
<1>3. Flat(calls, g)
  BY NoneFlat
<1> HIDE DEF calls
<1> QED
  BY <1>1, <1>2, <1>3, FlatOn

(* The children of a node, one behind the other.                           *)
LEMMA ChildrenTake ==
  ASSUME NEW g, Balances(root, g), NEW n \in g.nodes,
         n.type \in {"SEMICOLON", "SCOPE_START", "SCOPE_END"},
         NEW h \in Nat \ {0}, NEW a \in Int, NEW b \in Int,
         h > 1 => a >= g.need[n] + Opens(n), b = a - Opens(n) + g.rise[n]
  PROVE  Takes(Children(n), g, h, a, b)
<1>1. NodeBalanced(n, g) /\ g.rise[NoNode] = 0
  BY DEF Balances
<1>2. /\ n.left \in g.nodes \cup {NoNode} /\ n.right \in g.nodes \cup {NoNode}
      /\ g.rise[n] \in Int /\ g.need[n] \in Nat
      /\ g.rise[n] = Opens(n) + g.rise[n.left] + g.rise[n.right]
      /\ g.need[n] + Opens(n) >= g.need[n.left]
      /\ g.need[n] + Opens(n) + g.rise[n.left] >= g.need[n.right]
  BY <1>1 DEF NodeBalanced
<1>3. /\ g.rise[n.left] \in Int /\ g.rise[n.right] \in Int /\ Opens(n) \in Int
      /\ g.need[n.left] \in Nat /\ g.need[n.right] \in Nat
  BY <1>2 DEF Balances, NodeBalanced, Opens
<1> DEFINE c == a + g.rise[n.left]
<1>4. c \in Int /\ c + g.rise[n.right] = b
  BY <1>2, <1>3
<1>5. h > 1 => a >= g.need[n.left] /\ c >= g.need[n.right]
  BY <1>2, <1>3
<1>6. Takes(Asmbl(n.left), g, h, a, c)
  BY <1>1, <1>2, <1>5, NodeTakes
<1> HIDE DEF c
<1>7. Takes(Asmbl(n.right), g, h, c, c + g.rise[n.right])
  BY <1>1, <1>2, <1>4, <1>5, NodeTakes
<1>8. Takes(Asmbl(n.right), g, h, c, b)
  BY <1>4, <1>7
<1> QED
  BY <1>6, <1>8, TakesInTurn DEF Children

(* The scopes.                                                             *)
(* The first manager is changed.                                           *)
LEMMA FirstOnly ==
  ASSUME BInv, work # << >>, NEW m, mngrs' = [mngrs EXCEPT ![1] = m]
  PROVE  /\ Len(mngrs') = Len(mngrs) /\ mngrs'[1] = m
         /\ \A i \in 2..Len(mngrs) : mngrs'[i] = mngrs[i]
<1>1. PICK S : mngrs \in Seq(Managers(S))
  BY DEF BInv, MngrsInv
<1>2. 1 \in 1..Len(mngrs)
  BY SomeManager
<1> DEFINE T == Managers(S) \cup {m}
<1>3. mngrs \in Seq(T) /\ m \in T
  <2>1. Managers(S) \subseteq T
    OBVIOUS
  <2> HIDE DEF T
  <2>2. mngrs \in Seq(T)
    BY <1>1, <2>1, SeqMonotonic
  <2> QED
    BY <2>2 DEF T
<1> HIDE DEF T
<1>4. /\ Len(mngrs') = Len(mngrs)
      /\ \A j \in 1..Len(mngrs) : mngrs'[j] = IF j = 1 THEN m ELSE mngrs[j]
  BY <1>2, <1>3, ExceptSeq
<1> QED
  BY <1>2, <1>4

(* A scope begins or ends: the first manager is as deep as its tables say. *)
LEMMA ScopeOn ==
  ASSUME NEW g, Balances(root, g), LevelInvWith(g), BInv, Now("asmbl"),
         Visited.type \in {"SCOPE_START", "SCOPE_END"},
         NEW m, mngrs' = [mngrs EXCEPT ![1] = m], work' = Children(Visited) \o Tail(work),
         Len(mngrs) > 1 => m.tables # << >> /\ Depth(m) = Depth(mngrs[1]) + Opens(Visited)
  PROVE  LevelInvWith(g)'
<1> DEFINE calls == Children(Visited)
           h == Len(mngrs)
           d == Depth(mngrs[1])
           a == d + Opens(Visited)
           b == d + g.rise[Visited]
<1>2. /\ work # << >> /\ ~Leaves(Head(work)) /\ Visited \in g.nodes
      /\ Rises(Head(work), g) = g.rise[Visited] /\ (h > 1 => d >= g.need[Visited])
      /\ g.rise[Visited] \in Int /\ g.need[Visited] \in Nat
  BY VisitedBalanced DEF NodeBalanced
<1>3. h \in Nat \ {0} /\ d \in Int /\ Opens(Visited) \in Int
  BY <1>2, SomeManager DEF Opens
<1>4. a \in Int /\ b \in Int
  BY <1>2, <1>3
<1>5. (h > 1 => a >= g.need[Visited] + Opens(Visited)) /\ b = a - Opens(Visited) + g.rise[Visited]
  BY <1>2, <1>3
<1>6. Len(mngrs') = h /\ mngrs'[1] = m /\ \A i \in 2..h : mngrs'[i] = mngrs[i]
  BY <1>2, FirstOnly
<1>7. h > 1 => a = Depth(mngrs'[1]) /\ b = Depth(mngrs[1]) + Rises(Head(work), g)
  <2>1. h > 1 => a = Depth(m)
    OBVIOUS
  <2>2. Depth(mngrs'[1]) = Depth(m)
    BY <1>6
  <2> QED
    BY <1>2, <2>1, <2>2
<1>8. h > 1 => mngrs'[1].tables # << >>
  BY <1>6
<1> HIDE DEF a, b
<1>9. Takes(calls, g, h, a, b)
  BY <1>2, <1>3, <1>4, <1>5, ChildrenTake
<1> QED
  BY <1>2, <1>6, <1>7, <1>8, <1>9, LevelsOn

LEMMA ScopeStartLevel == ASSUME NEW g, Balances(root, g), LevelInvWith(g), BInv, ScopeStart
                         PROVE  LevelInvWith(g)'
<1> DEFINE m == Upgraded(mngrs[1])
<1>1. /\ Now("asmbl") /\ Visited.type = "SCOPE_START" /\ work # << >> /\ Tables # << >>
      /\ mngrs' = [mngrs EXCEPT ![1] = m] /\ work' = Children(Visited) \o Tail(work)
  BY DEF ScopeStart, Visiting, GoOn, Visited, Now, HasTables
<1>2. PICK S : mngrs \in Seq(Managers(S))
  BY DEF BInv, MngrsInv
<1>3. /\ mngrs[1] \in Managers(S) /\ Tables = mngrs[1].tables /\ Tables \in Seq(Seq(S))
      /\ Len(Tables) \in Nat
  BY <1>1, <1>2, SomeManager, FirstManager, LenProperties DEF Good, BInv, Tables
<1>4. Opens(Visited) = 1
  BY <1>1 DEF Opens
<1>5. m.tables # << >> /\ Depth(m) = Depth(mngrs[1]) + 1
  <2>1. CASE mngrs[1].in_func_start
    <3>1. m.tables = Tables /\ m.in_func_start = FALSE
      BY <1>3, <2>1 DEF Upgraded, Managers
    <3> HIDE DEF m
    <3>2. Depth(m) = Len(Tables) - 0
      BY <3>1, Zenon DEF Depth
    <3>3. Depth(mngrs[1]) = Len(Tables) - 1
      BY <1>3, <2>1, Zenon DEF Depth
    <3> QED
      BY <1>1, <1>3, <3>1, <3>2, <3>3
  <2>2. CASE ~mngrs[1].in_func_start
    <3> DEFINE none == << >>
    <3>1. m.tables = Append(Tables, none) /\ m.in_func_start = mngrs[1].in_func_start
      BY <1>3, <2>2 DEF Upgraded, Managers
    <3>2. none \in Seq(S)
      BY EmptySeq
    <3> HIDE DEF m, none
    <3>3. Len(m.tables) = Len(Tables) + 1 /\ m.tables \in Seq(Seq(S))
      BY <1>3, <3>1, <3>2, AppendProperties
    <3>4. m.tables # << >>
      BY <1>3, <3>3, EmptySeq
    <3> QED
      BY <1>3, <2>2, <3>1, <3>3, <3>4 DEF Depth
  <2> QED
    BY <2>1, <2>2
<1> HIDE DEF m
<1> QED
  BY <1>1, <1>4, <1>5, ScopeOn

LEMMA ScopeEndLevel == ASSUME NEW g, Balances(root, g), LevelInvWith(g), BInv, ScopeEnd
                       PROVE  LevelInvWith(g)'
<1> DEFINE m == Downgraded(mngrs[1])
<1>1. /\ Now("asmbl") /\ Visited.type = "SCOPE_END" /\ work # << >>
      /\ mngrs' = [mngrs EXCEPT ![1] = m] /\ work' = Children(Visited) \o Tail(work)
  BY DEF ScopeEnd, Visiting, GoOn, Visited, Now
<1>2. PICK S : mngrs \in Seq(Managers(S))
  BY DEF BInv, MngrsInv
<1>3. /\ mngrs[1] \in Managers(S) /\ Tables = mngrs[1].tables /\ Tables \in Seq(Seq(S))
      /\ Len(Tables) \in Nat
  BY <1>1, <1>2, SomeManager, FirstManager, LenProperties DEF Good, BInv, Tables
<1>4. Opens(Visited) = -1
  BY <1>1 DEF Opens
<1>5. ASSUME Len(mngrs) > 1 PROVE m.tables # << >> /\ Depth(m) = Depth(mngrs[1]) + -1
  <2>1. NodeBalanced(Visited, g) /\ Depth(mngrs[1]) >= g.need[Visited]
    BY <1>1, <1>5, VisitedBalanced
  <2>2. g.need[Visited] \in Nat /\ g.need[Visited] >= 2
    BY <1>1, <2>1 DEF NodeBalanced
  <2>3. Len(Tables) >= 2
    <3>1. Depth(mngrs[1]) = Len(Tables) - 1 \/ Depth(mngrs[1]) = Len(Tables) - 0
      BY <1>3, Zenon DEF Depth
    <3> QED
      BY <1>3, <2>1, <2>2, <3>1
  <2> DEFINE ts == SubSeq(Tables, 1, Len(Tables) - 1)
  <2>4. m.tables = ts /\ m.in_func_start = mngrs[1].in_func_start
    BY <1>3, <2>3 DEF Downgraded, Managers
  <2>5. Tables # << >>
    BY <1>3, <2>3, EmptySeq
  <2>6. ts \in Seq(Seq(S)) /\ Len(ts) = Len(Tables) - 1
    BY <1>3, <2>5, WithoutLast
  <2> HIDE DEF ts, m
  <2>7. ts # << >>
    BY <2>3, <2>6, <1>3, EmptySeq
  <2>8. Depth(m) = Len(ts) - (IF mngrs[1].in_func_start THEN 1 ELSE 0)
    BY <2>4 DEF Depth
  <2>9. Depth(mngrs[1]) = Len(Tables) - (IF mngrs[1].in_func_start THEN 1 ELSE 0)
    BY <1>3 DEF Depth
  <2> QED
    BY <1>3, <2>4, <2>6, <2>7, <2>8, <2>9
<1> HIDE DEF m
<1> QED
  BY <1>1, <1>4, <1>5, ScopeOn

(* An if or a while: a condition, which is an expression, and a body.      *)
LEMMA BodyTakes ==
  ASSUME NEW g, Balances(root, g), LevelInvWith(g), BInv, Now("asmbl"),
         Visited.type \in {"IF", "WHILE"}
  PROVE  LET h == Len(mngrs)
             a == Depth(mngrs[1])
         IN  /\ h \in Nat \ {0} /\ a \in Int /\ a + g.rise[Visited] \in Int
             /\ Takes(Asmbl(Visited.left), g, h, a, a)
             /\ Takes(Asmbl(Visited.right), g, h, a, a + g.rise[Visited])
<1> DEFINE h == Len(mngrs)
           a == Depth(mngrs[1])
<1>1. /\ work # << >> /\ NodeBalanced(Visited, g) /\ Visited \in g.nodes
      /\ h > 1 => a >= g.need[Visited]
  BY VisitedBalanced
<1>2. /\ Visited.left \in g.nodes \cup {NoNode} /\ Visited.left.type \notin Holders
      /\ Visited.right \in g.nodes \cup {NoNode}
      /\ g.rise[Visited] = g.rise[Visited.right] /\ g.need[Visited] = g.need[Visited.right]
      /\ g.rise[Visited] \in Int /\ g.need[Visited] \in Nat
  BY <1>1 DEF NodeBalanced
<1>3. h \in Nat \ {0} /\ a \in Int
  BY <1>1, SomeManager
<1> HIDE DEF h, a
<1>4. g.rise[Visited.left] = 0 /\ g.need[Visited.left] = 0 /\ g.rise[NoNode] = 0
  BY <1>2, ExpressionFlat DEF Balances
<1>5. h > 1 => a >= g.need[Visited.left] /\ a >= g.need[Visited.right]
  BY <1>1, <1>2, <1>3, <1>4
<1>6. /\ Takes(Asmbl(Visited.left), g, h, a, a + g.rise[Visited.left])
      /\ Takes(Asmbl(Visited.right), g, h, a, a + g.rise[Visited.right])
  BY <1>2, <1>3, <1>4, <1>5, NodeTakes
<1>7. a + g.rise[Visited.left] = a /\ a + g.rise[Visited] \in Int
  BY <1>2, <1>3, <1>4
<1>8. /\ Takes(Asmbl(Visited.left), g, h, a, a)
      /\ Takes(Asmbl(Visited.right), g, h, a, a + g.rise[Visited])
  BY <1>2, <1>6, <1>7
<1> QED
  BY <1>3, <1>7, <1>8 DEF h, a

(* A node that leaves the managers alone.                                  *)
LEMMA NodeOn ==
  ASSUME NEW g, Balances(root, g), LevelInvWith(g), BInv, Now("asmbl"), mngrs' = mngrs,
         NEW calls, work' = calls \o Tail(work),
         Takes(calls, g, Len(mngrs), Depth(mngrs[1]), Depth(mngrs[1]) + g.rise[Visited])
  PROVE  LevelInvWith(g)'
<1> DEFINE h == Len(mngrs)
           a == Depth(mngrs[1])
           b == a + g.rise[Visited]
<1>1. /\ work # << >> /\ ~Leaves(Head(work)) /\ Rises(Head(work), g) = g.rise[Visited]
  BY VisitedBalanced
<1>2. h \in Nat \ {0}
  BY <1>1, SomeManager
<1>3. h > 1 => mngrs'[1].tables # << >>
  <2> SUFFICES ASSUME h > 1 PROVE mngrs[1].tables # << >>
    OBVIOUS
  <2>1. 1 \in 1..(h - 1)
    BY <1>2
  <2> QED
    BY <2>1 DEF LevelInvWith, OpenBodies
<1>4. a = Depth(mngrs'[1]) /\ b = Depth(mngrs[1]) + Rises(Head(work), g)
  BY <1>1
<1>5. Takes(calls, g, h, a, b)
  OBVIOUS
<1>6. Len(mngrs') = h /\ \A i \in 2..h : mngrs'[i] = mngrs[i]
  OBVIOUS
<1> HIDE DEF a, b
<1> QED
  BY <1>1, <1>3, <1>4, <1>5, <1>6, LevelsOn

LEMMA SemicolonLevel == ASSUME NEW g, Balances(root, g), LevelInvWith(g), BInv, Semicolon
                        PROVE  LevelInvWith(g)'
<1> DEFINE calls == Children(Visited)
           h == Len(mngrs)
           a == Depth(mngrs[1])
           b == a + g.rise[Visited]
<1>1. /\ Now("asmbl") /\ Visited.type = "SEMICOLON" /\ mngrs' = mngrs
      /\ work' = calls \o Tail(work)
  BY DEF Semicolon, Visiting, GoOn, Visited
<1>2. /\ work # << >> /\ Visited \in g.nodes /\ (h > 1 => a >= g.need[Visited])
      /\ g.rise[Visited] \in Int /\ g.need[Visited] \in Nat
  BY <1>1, VisitedBalanced DEF NodeBalanced
<1>3. h \in Nat \ {0} /\ a \in Int /\ b \in Int
  BY <1>2, SomeManager
<1>4. Opens(Visited) = 0
  BY <1>1 DEF Opens
<1>5. (h > 1 => a >= g.need[Visited] + Opens(Visited)) /\ b = a - Opens(Visited) + g.rise[Visited]
  BY <1>2, <1>3, <1>4
<1> HIDE DEF a, b
<1>6. Takes(calls, g, h, a, b)
  BY <1>1, <1>2, <1>3, <1>5, ChildrenTake
<1> QED
  BY <1>1, <1>6, NodeOn DEF a, b

LEMMA WriteWhileLevel == ASSUME NEW g, Balances(root, g), LevelInvWith(g), BInv, WriteWhile
                         PROVE  LevelInvWith(g)'
<1> DEFINE h == Len(mngrs)
           d == Depth(mngrs[1])
           e == d + g.rise[Visited]
           test == Write(<< Literal(0), Jump("JE", BreakLabel(label_ct)) >>)
           back == Write(<< Jump("JMP", WhileLabel(label_ct)), LabelLine(BreakLabel(label_ct)) >>)
           left == Asmbl(Visited.left)
           right == Asmbl(Visited.right)
           calls == left \o test \o right \o back
<1>1. /\ Now("asmbl") /\ Visited.type = "WHILE" /\ mngrs' = mngrs
      /\ work' = calls \o Tail(work)
  BY DEF WriteWhile, Visiting, GoOn, Visited
<1>2. /\ h \in Nat \ {0} /\ d \in Int /\ e \in Int
      /\ Takes(left, g, h, d, d) /\ Takes(right, g, h, d, e)
  BY <1>1, BodyTakes
<1>3. Takes(test, g, h, d, d) /\ Takes(back, g, h, e, e)
  <2> HIDE DEF h, d, e
  <2> QED
    BY <1>2, OthersTake
<1> HIDE DEF left, right, test, back, d, e
<1>4. Takes(left \o test, g, h, d, d)
  BY <1>2, <1>3, TakesInTurn
<1>5. Takes(left \o test \o right, g, h, d, e)
  BY <1>2, <1>4, TakesInTurn
<1>6. Takes(calls, g, h, d, e)
  BY <1>3, <1>5, TakesInTurn
<1> HIDE DEF calls
<1> QED
  BY <1>1, <1>6, NodeOn DEF d, e

LEMMA WriteIfLevel == ASSUME NEW g, Balances(root, g), LevelInvWith(g), BInv, WriteIf
                      PROVE  LevelInvWith(g)'
<1> DEFINE h == Len(mngrs)
           d == Depth(mngrs[1])
           e == d + g.rise[Visited]
           test == Todo("if_test")
           end == Todo("if_end")
           left == Asmbl(Visited.left)
           right == Asmbl(Visited.right)
           calls == left \o test \o right \o end
<1>1. /\ Now("asmbl") /\ Visited.type = "IF" /\ mngrs' = mngrs
      /\ work' = calls \o Tail(work)
  BY DEF WriteIf, Visiting, GoOn, Visited
<1>2. /\ h \in Nat \ {0} /\ d \in Int /\ e \in Int
      /\ Takes(left, g, h, d, d) /\ Takes(right, g, h, d, e)
  BY <1>1, BodyTakes
<1>3. Takes(test, g, h, d, d) /\ Takes(end, g, h, e, e)
  <2> HIDE DEF h, d, e
  <2> QED
    BY <1>2, OthersTake
<1> HIDE DEF left, right, test, end, d, e
<1>4. Takes(left \o test, g, h, d, d)
  BY <1>2, <1>3, TakesInTurn
<1>5. Takes(left \o test \o right, g, h, d, e)
  BY <1>2, <1>4, TakesInTurn
<1>6. Takes(calls, g, h, d, e)
  BY <1>3, <1>5, TakesInTurn
<1> HIDE DEF calls
<1> QED
  BY <1>1, <1>6, NodeOn DEF d, e

(* get_loc with init_flag may make a variable, but no scope.               *)
LEMMA VariableLevel ==
  ASSUME NEW g, LevelInvWith(g), BInv, work # << >>, ~Leaves(Head(work)), Rises(Head(work), g) = 0,
         HasTables, NEW var, mngrs' = WithTables(TablesWith(Tables, var)), work' = << >> \o Tail(work)
  PROVE  LevelInvWith(g)'
<1> DEFINE ts == TablesWith(Tables, var)
           m == [mngrs[1] EXCEPT !.tables = ts]
           h == Len(mngrs)
           a == IF h > 1 THEN Depth(mngrs[1]) ELSE 0
           calls == << >>
<1>1. mngrs' = [mngrs EXCEPT ![1] = m]
  BY DEF WithTables
<1>2. PICK S : mngrs \in Seq(Managers(S))
  BY DEF BInv, MngrsInv
<1>3. /\ h \in Nat \ {0} /\ mngrs[1] \in Managers(S) /\ Tables = mngrs[1].tables
      /\ Tables \in Seq(Seq(S)) /\ Len(Tables) >= 1 /\ Depth(mngrs[1]) \in Nat
  BY <1>2, SomeManager, FirstManager DEF Good, BInv, Tables, HasTables
<1>4. Len(ts) = Len(Tables) /\ ts # << >>
  <2>1. CASE Named(Tables, var) = {}
    <3> DEFINE v == Append(Tables[Len(Tables)], Cell(var, OverallSize(Tables)))
               U == Seq(S) \cup {v}
    <3>1. ts = [Tables EXCEPT ![Len(Tables)] = v]
      BY <2>1 DEF TablesWith, InitVar
    <3>2. Seq(S) \subseteq U /\ v \in U
      OBVIOUS
    <3> HIDE DEF ts, v, U
    <3>3. Tables \in Seq(U)
      BY <1>3, <3>2, SeqMonotonic
    <3>4. Len(Tables) \in 1..Len(Tables)
      BY <1>3, LenProperties
    <3>5. Len(ts) = Len(Tables)
      BY <3>1, <3>2, <3>3, <3>4, ExceptSeq
    <3> QED
      BY <1>3, <3>5, Short
  <2>2. CASE Named(Tables, var) # {}
    BY <1>3, <2>2, Short DEF TablesWith
  <2> QED
    BY <2>1, <2>2
<1>5. m.tables = ts /\ m.in_func_start = mngrs[1].in_func_start
  BY <1>3 DEF Managers
<1> HIDE DEF m, ts
<1>6. Depth(m) = Depth(mngrs[1]) /\ m.tables # << >>
  BY <1>3, <1>4, <1>5 DEF Depth
<1>7. Len(mngrs') = h /\ mngrs'[1] = m /\ \A i \in 2..h : mngrs'[i] = mngrs[i]
  BY <1>1, FirstOnly
<1>8. a \in Nat
  BY <1>3
<1>9. Flat(calls, g) /\ work' = calls \o Tail(work)
  BY NoneFlat
<1> HIDE DEF calls
<1>10. Takes(calls, g, h, a, a)
  BY <1>3, <1>8, <1>9 DEF Flat
<1>11. h > 1 => a = Depth(mngrs'[1]) /\ a = Depth(mngrs[1]) + Rises(Head(work), g)
  BY <1>3, <1>6, <1>7
<1>12. mngrs'[1].tables # << >>
  BY <1>6, <1>7
<1> HIDE DEF a
<1> QED
  BY <1>7, <1>9, <1>10, <1>11, <1>12, LevelsOn

LEMMA WritePopVarLevel == ASSUME NEW g, LevelInvWith(g), BInv, WritePopVar PROVE LevelInvWith(g)'
<1>1. /\ work # << >> /\ Head(work).do = "pop_var" /\ HasTables
      /\ mngrs' = WithTables(TablesWith(Tables, Head(work).var)) /\ work' = << >> \o Tail(work)
  BY DEF WritePopVar, Now, GoOn
<1>2. ~Leaves(Head(work)) /\ Rises(Head(work), g) = 0
  BY <1>1 DEF Leaves, Rises
<1> QED
  BY <1>1, <1>2, VariableLevel

LEMMA WriteCallLevel == ASSUME NEW g, LevelInvWith(g), BInv, WriteCall PROVE LevelInvWith(g)'
<1> DEFINE calls == << >>
<1>1. /\ work # << >> /\ Head(work).do = "arguments" /\ HasTables
      /\ mngrs' = WithTables(TablesWith(Tables, TempExch)) \/ mngrs' = mngrs
      /\ work' = calls \o Tail(work)
  BY DEF WriteCall, Now, GoOn
<1>2. ~Leaves(Head(work)) /\ Rises(Head(work), g) = 0
  BY <1>1 DEF Leaves, Rises
<1>3. CASE mngrs' = WithTables(TablesWith(Tables, TempExch))
  BY <1>1, <1>2, <1>3, VariableLevel
<1>4. CASE mngrs' = mngrs
  <2>1. Flat(calls, g)
    BY NoneFlat
  <2> HIDE DEF calls
  <2> QED
    BY <1>1, <1>2, <1>4, <2>1, FlatOn
<1> QED
  BY <1>1, <1>3, <1>4

(* The bodies of functions: whatever scopes a body leaves open, its end    *)
(* finds the manager below as that was left.                               *)
LEMMA EndOfBody ==
  ASSUME NEW s, NEW g, NEW ms, NEW h \in Nat, h > 1, Walk(s, g, ms, h - 1, Depth(AtHeight(ms, h - 1))),
         NEW c, Leaves(c), CallBalanced(c, g), NEW d
  PROVE  Walk(<< c >> \o s, g, ms, h, d)
<1> DEFINE i == h - 1
           b == Depth(AtHeight(ms, i))
<1>1. Walk(s, g, ms, i, b) /\ i <= h /\ h \in Nat \ {0}
  OBVIOUS
<1>2. c.do # "asmbl"
  BY DEF Leaves
<1>3. Moves(c, g, ms, h, d, i, b)
  BY <1>2 DEF Moves
<1> HIDE DEF i, b
<1> QED
  BY <1>1, <1>3, WalkOne

(* A function has a manager of its own.                                    *)
LEMMA ManagerAdded ==
  ASSUME BInv, work # << >>, NEW m, mngrs' = << m >> \o mngrs
  PROVE  /\ Len(mngrs') = Len(mngrs) + 1 /\ mngrs'[1] = m
         /\ \A i \in 1..Len(mngrs) : mngrs'[i + 1] = mngrs[i]
<1> DEFINE one == << m >>
<1>1. IsSeq(one) /\ Len(one) = 1 /\ one[1] = m
  BY Short
<1>2. IsSeq(mngrs) /\ Len(mngrs) \in Nat
  BY SomeManager DEF BInv, MngrsInv, IsSeq
<1> HIDE DEF one
<1>3. Follow(one, mngrs, mngrs')
  BY <1>1, <1>2, Joined, Zenon DEF one
<1>4. Len(mngrs') = 1 + Len(mngrs) /\ mngrs'[1] = m
  BY <1>1, <1>3 DEF Follow
<1>5. \A i \in 1..Len(mngrs) : mngrs'[1 + i] = mngrs[i]
  BY <1>1, <1>3 DEF Follow
<1>6. \A i \in 1..Len(mngrs) : 1 + i = i + 1
  OBVIOUS
<1> QED
  BY <1>2, <1>4, <1>5, <1>6

LEMMA FunctionBegins ==
  ASSUME NEW g, Balances(root, g), LevelInvWith(g), BInv, Now("asmbl"), g.rise[Visited] = 0,
         NEW m, m.tables # << >>, mngrs' = << m >> \o mngrs,
         NEW c, Leaves(c), CallBalanced(c, g), NEW d
  PROVE  OpenBodies' /\ Walk(<< c >> \o Tail(work), g, mngrs', Len(mngrs'), d)
<1> DEFINE h == Len(mngrs)
           a == Depth(mngrs[1])
           ms == mngrs
           ns == mngrs'
           t == Tail(work)
<1>1. work # << >> /\ ~Leaves(Head(work)) /\ Rises(Head(work), g) = 0
  BY VisitedBalanced
<1>2. h \in Nat \ {0} /\ a \in Int /\ Walk(t, g, ms, h, a + Rises(Head(work), g))
  BY <1>1, HeadLevels, SomeManager
<1>3. a + Rises(Head(work), g) = a
  BY <1>1, <1>2
<1>4. Len(ns) = h + 1 /\ ns[1] = m /\ \A i \in 1..h : ns[i + 1] = ms[i]
  BY <1>1, ManagerAdded
<1>5. ASSUME NEW i \in 1..h PROVE AtHeight(ns, i) = AtHeight(ms, i)
  <2>1. h + 1 - i \in 1..h /\ (h + 1) + 1 - i = (h + 1 - i) + 1
    BY <1>2
  <2>2. ns[(h + 1 - i) + 1] = ms[h + 1 - i]
    BY <1>4, <2>1
  <2>3. AtHeight(ns, i) = ns[(h + 1 - i) + 1]
    BY <1>4, <2>1 DEF AtHeight
  <2> QED
    BY <2>2, <2>3 DEF AtHeight
<1>6. AtHeight(ns, h) = ms[1]
  <2>1. h \in 1..h /\ h + 1 - h = 1
    BY <1>2
  <2> QED
    BY <1>5, <2>1 DEF AtHeight
<1>7. \A i \in 1..(h - 1) : AtHeight(ns, i) = AtHeight(ms, i)
  BY <1>2, <1>5
<1> DEFINE k == h + 1
<1>8. k \in Nat /\ k > 1 /\ k - 1 = h /\ Depth(AtHeight(ns, h)) = a
  BY <1>2, <1>6
<1> HIDE DEF h, a, ms, ns, t
<1>9. Walk(t, g, ns, h, a)
  BY <1>2, <1>3, <1>7, WalkSame
<1> HIDE DEF k
<1>10. Walk(<< c >> \o t, g, ns, k, d)
  BY <1>8, <1>9, EndOfBody
<1>11. OpenBodies'
  <2> SUFFICES ASSUME NEW j \in 1..(Len(ns) - 1) PROVE ns[j].tables # << >>
    BY DEF OpenBodies, ns
  <2>1. CASE j = 1
    BY <1>4, <2>1
  <2>2. CASE j # 1
    <3>1. j - 1 \in 1..(h - 1) /\ j - 1 \in 1..h /\ (j - 1) + 1 = j
      BY <1>2, <1>4, <2>2
    <3>2. ns[j] = ms[j - 1]
      BY <1>4, <3>1
    <3>3. ms[j - 1].tables # << >>
      BY <3>1 DEF LevelInvWith, OpenBodies, h, ms
    <3> QED
      BY <3>2, <3>3
  <2> QED
    BY <2>1, <2>2
<1> QED
  BY <1>4, <1>10, <1>11 DEF k, ns, t

LEMMA WriteFuncDeclLevel == ASSUME NEW g, Balances(root, g), LevelInvWith(g), BInv, WriteFuncDecl
                            PROVE  LevelInvWith(g)'
<1> DEFINE c == [do |-> "parameters", func |-> Visited, comma |-> Visited.left, counter |-> 1]
           m == Manager(<< << Cell(RetVar, 0) >> >>, TRUE)
<1>1. /\ Now("asmbl") /\ Visited.type = "FUNC_DECL"
      /\ mngrs' = << m >> \o mngrs /\ work' = << c >> \o Tail(work)
  BY DEF WriteFuncDecl, Visiting, GoOn, Visited, Parameters
<1>2. Visited \in g.nodes /\ NodeBalanced(Visited, g)
  BY <1>1, VisitedBalanced
<1>3. g.rise[Visited] = 0
  BY <1>1, <1>2 DEF NodeBalanced
<1>4. Leaves(c) /\ CallBalanced(c, g)
  BY <1>1, <1>2 DEF Leaves, CallBalanced
<1>5. m.tables # << >>
  BY DEF Manager
<1> HIDE DEF c, m
<1>6. OpenBodies' /\ \A d : Walk(<< c >> \o Tail(work), g, mngrs', Len(mngrs'), d)
  BY <1>1, <1>3, <1>4, <1>5, FunctionBegins
<1> QED
  BY <1>1, <1>6 DEF LevelInvWith

LEMMA LeaveCall == \A g : Todo("leave") = << [do |-> "leave"] >>
                     /\ Leaves([do |-> "leave"]) /\ CallBalanced([do |-> "leave"], g)
BY DEF Todo, Leaves, CallBalanced

LEMMA WriteMainLevel == ASSUME NEW g, Balances(root, g), LevelInvWith(g), BInv, WriteMain
                        PROVE  LevelInvWith(g)'
<1> DEFINE c == [do |-> "leave"]
           last == Todo("leave")
           m == Manager(<< << >> >>, TRUE)
           body == Asmbl(Visited.right)
           t == Tail(work)
           h == Len(mngrs')
           d == g.rise[Visited.right]
<1>1. /\ Now("asmbl") /\ Visited.type = "MAIN"
      /\ mngrs' = << m >> \o mngrs /\ work' = (body \o last) \o t
  BY DEF WriteMain, Visiting, GoOn, Visited
<1>2. work # << >> /\ Visited \in g.nodes /\ NodeBalanced(Visited, g) /\ g.rise[NoNode] = 0
  BY <1>1, VisitedBalanced DEF Balances
<1>3. /\ g.rise[Visited] = 0 /\ g.need[Visited.right] = 0
      /\ Visited.right \in g.nodes \cup {NoNode}
  BY <1>1, <1>2 DEF NodeBalanced
<1>4. Leaves(c) /\ CallBalanced(c, g) /\ last = << c >>
  BY LeaveCall
<1>5. m.tables # << >> /\ Depth(m) = 0 /\ d \in Int
  <2> DEFINE none == << >>
  <2>1. m.tables = << none >> /\ m.in_func_start = TRUE
    BY DEF Manager
  <2> HIDE DEF m, none
  <2>2. Len(m.tables) = 1
    BY <2>1, Short
  <2>3. Depth(m) = 1 - 1
    BY <2>1, <2>2, Zenon DEF Depth
  <2>4. d \in Int
    BY <1>3 DEF Balances, NodeBalanced
  <2> QED
    BY <2>1, <2>2, <2>3, <2>4, Short
<1> HIDE DEF c, m
<1>6. OpenBodies' /\ \A e : Walk(<< c >> \o t, g, mngrs', h, e)
  BY <1>1, <1>3, <1>4, <1>5, FunctionBegins
<1>7. h \in Nat \ {0} /\ mngrs'[1] = m
  BY <1>1, <1>2, ManagerAdded, SomeManager
<1> HIDE DEF d, h
<1>8. Takes(body, g, h, 0, 0 + d)
  <2>1. h > 1 => 0 >= g.need[Visited.right]
    BY <1>3
  <2> QED
    BY <1>2, <1>3, <1>7, <2>1, NodeTakes DEF d
<1>9. 0 + d = d
  BY <1>5
<1>10. Takes(body, g, h, 0, d)
  BY <1>8, <1>9
<1>11. Walk(body \o (<< c >> \o t), g, mngrs', h, 0)
  BY <1>6, <1>10 DEF Takes
<1>12. (body \o last) \o t = body \o (<< c >> \o t)
  <2>1. IsSeq(body) /\ IsSeq(last) /\ IsSeq(t)
    BY <1>2, PlainCalls, Beheaded, BodyCalls, Short, <1>4 DEF Plain, BInv, WorkInv
  <2> HIDE DEF body, last, t
  <2> QED
    BY <1>4, <2>1, Regrouped
<1>13. Walk(work', g, mngrs', h, Depth(mngrs'[1]))
  BY <1>1, <1>5, <1>7, <1>11, <1>12
<1> QED
  BY <1>6, <1>13 DEF LevelInvWith, h

(* The parameters of a function become cells of its only table.            *)
LEMMA WriteParameterLevel == ASSUME NEW g, Balances(root, g), LevelInvWith(g), BInv, WriteParameter
                             PROVE  LevelInvWith(g)'
<1> DEFINE x == Head(work)
           c == [do |-> "parameters", func |-> x.func, comma |-> x.comma.right, counter |-> x.counter + 1]
           ts == [Tables EXCEPT ![1] = Append(@, Cell(x.comma.left.value, x.counter))]
           m == [mngrs[1] EXCEPT !.tables = ts]
           t == Tail(work)
           h == Len(mngrs)
           i == h - 1
           ms == mngrs
           ns == mngrs'
           d == Depth(ns[1])
<1>1. /\ work # << >> /\ x.do = "parameters"
      /\ mngrs' = [mngrs EXCEPT ![1] = m] /\ work' = << c >> \o t
  BY DEF WriteParameter, Now, GoOn, WithTables, Parameters
<1>2. Len(Tables) = 1
  BY <1>1 DEF BInv, WorkInv, CountsParameters, Tables
<1>3. /\ h \in Nat \ {0} /\ h > 1 /\ CallBalanced(x, g) /\ Leaves(x)
      /\ Walk(t, g, ms, i, Depth(AtHeight(ms, i)))
  BY <1>1, HeadLevels DEF Leaves
<1>4. Leaves(c) /\ CallBalanced(c, g)
  BY <1>1, <1>3 DEF Leaves, CallBalanced
<1>5. Len(ns) = h /\ ns[1] = m /\ \A j \in 2..h : ns[j] = ms[j]
  BY <1>1, FirstOnly
<1>6. m.tables # << >>
  <2>1. PICK S : mngrs \in Seq(Managers(S))
    BY DEF BInv, MngrsInv
  <2>2. mngrs[1] \in Managers(S) /\ Tables \in Seq(Seq(S))
    BY <1>1, <2>1, SomeManager, FirstManager DEF BInv, Good
  <2>3. m.tables = ts
    BY <2>2 DEF Managers
  <2>4. DOMAIN ts = 1..1
    BY <1>2, <2>2
  <2>5. DOMAIN ts # {}
    BY <2>4
  <2>6. DOMAIN << >> = {}
    BY EmptySeq
  <2> HIDE DEF ts
  <2> QED
    BY <2>3, <2>5, <2>6
<1>7. ASSUME NEW j \in 1..i PROVE AtHeight(ns, j) = AtHeight(ms, j)
  <2>1. h + 1 - j \in 2..h
    BY <1>3
  <2> QED
    BY <1>5, <2>1 DEF AtHeight
<1>8. i \in 1..i /\ (\A j \in 1..(i - 1) : j \in 1..i)
  BY <1>3
<1>9. Depth(AtHeight(ns, i)) = Depth(AtHeight(ms, i))
  <2>1. AtHeight(ns, i) = AtHeight(ms, i)
    BY <1>7, <1>8
  <2> QED
    BY <2>1
<1>10. OpenBodies'
  <2> SUFFICES ASSUME NEW j \in 1..(h - 1) PROVE ns[j].tables # << >>
    BY <1>5 DEF OpenBodies
  <2>1. CASE j = 1
    BY <1>5, <1>6, <2>1
  <2>2. CASE j # 1
    <3>1. j \in 2..h
      BY <1>3, <2>2
    <3> QED
      BY <1>5, <3>1 DEF LevelInvWith, OpenBodies
  <2> QED
    BY <2>1, <2>2
<1> HIDE DEF c, d, t, ms, ns
<1>11. Walk(t, g, ns, i, Depth(AtHeight(ms, i)))
  <2> DEFINE a == Depth(AtHeight(ms, i))
  <2>1. \A j \in 1..(i - 1) : AtHeight(ns, j) = AtHeight(ms, j)
    BY <1>7, <1>8
  <2>2. Walk(t, g, ms, i, a)
    BY <1>3
  <2> HIDE DEF a, i
  <2>3. Walk(t, g, ns, i, a)
    BY <2>1, <2>2, WalkSame
  <2> QED
    BY <2>3 DEF a
<1>12. h \in Nat /\ h > 1 /\ Walk(t, g, ns, h - 1, Depth(AtHeight(ns, h - 1)))
  BY <1>3, <1>9, <1>11
<1> HIDE DEF h
<1>13. Walk(<< c >> \o t, g, ns, h, d)
  BY <1>4, <1>12, EndOfBody
<1>14. Walk(work', g, ns, Len(ns), Depth(ns[1]))
  BY <1>1, <1>5, <1>13 DEF d
<1> QED
  BY <1>10, <1>14 DEF LevelInvWith, ns

LEMMA WriteBodyLevel == ASSUME NEW g, Balances(root, g), LevelInvWith(g), BInv, WriteBody
                        PROVE  LevelInvWith(g)'
<1> DEFINE func == Head(work).func
           c == [do |-> "leave"]
           last == Todo("leave")
           ret == Write(<< NoArg("RET") >>)
           body == Asmbl(func.right)
           t == Tail(work)
           h == Len(mngrs)
           a == Depth(mngrs[1])
           d == a + g.rise[func.right]
<1>1. /\ work # << >> /\ Head(work).do = "parameters" /\ mngrs' = mngrs
      /\ work' = (body \o ret \o last) \o t
  BY DEF WriteBody, Now, GoOn
<1>2. /\ h \in Nat /\ h \in Nat \ {0} /\ h > 1 /\ CallBalanced(Head(work), g) /\ Leaves(Head(work))
      /\ Walk(t, g, mngrs, h - 1, Depth(AtHeight(mngrs, h - 1)))
  BY <1>1, HeadLevels DEF Leaves
<1>3. func \in g.nodes /\ func.type = "FUNC_DECL"
  BY <1>1, <1>2 DEF CallBalanced
<1>4. /\ g.need[func.right] = 0 /\ func.right \in g.nodes \cup {NoNode}
      /\ g.rise[NoNode] = 0 /\ g.rise[func.right] \in Int
  BY <1>3 DEF Balances, NodeBalanced
<1>5. a \in Nat
  <2>1. 1 \in 1..(h - 1)
    BY <1>2
  <2>2. mngrs[1].tables # << >>
    BY <2>1 DEF LevelInvWith, OpenBodies
  <2> QED
    BY <1>1, <2>2, SomeManager
<1>6. Leaves(c) /\ CallBalanced(c, g) /\ last = << c >>
  BY LeaveCall
<1>7. IsSeq(body) /\ IsSeq(ret) /\ IsSeq(last) /\ IsSeq(t)
  BY <1>1, <1>6, PlainCalls, Beheaded, Short DEF Plain, BInv, WorkInv
<1> HIDE DEF func, c, last, ret, t, h, a
<1>8. d \in Int
  BY <1>4, <1>5
<1>9. Takes(body, g, h, a, d)
  <2>1. (h > 1 => a >= g.need[func.right]) /\ a \in Int
    BY <1>4, <1>5
  <2> QED
    BY <1>2, <1>4, <2>1, NodeTakes
<1> HIDE DEF d, body
<1>10. Takes(ret, g, h, d, d)
  BY <1>2, <1>8, OthersTake DEF ret
<1>11. Takes(body \o ret, g, h, a, d)
  BY <1>9, <1>10, TakesInTurn
<1>12. Walk(<< c >> \o t, g, mngrs, h, d)
  BY <1>2, <1>6, EndOfBody
<1>13. Walk((body \o ret) \o (<< c >> \o t), g, mngrs, h, a)
  BY <1>11, <1>12 DEF Takes
<1>14. (body \o ret \o last) \o t = (body \o ret) \o (<< c >> \o t)
  <2>1. IsSeq(body \o ret)
    BY <1>7, Joined
  <2> QED
    BY <1>6, <1>7, <2>1, Regrouped
<1>15. Walk(work', g, mngrs, h, a)
  BY <1>1, <1>13, <1>14
<1> QED
  BY <1>1, <1>15 DEF LevelInvWith, OpenBodies, h, a

LEMMA LeaveLevel == ASSUME NEW g, LevelInvWith(g), BInv, Leave PROVE LevelInvWith(g)'
<1> DEFINE t == Tail(work)
           h == Len(mngrs)
           i == h - 1
           ms == mngrs
           ns == mngrs'
           none == << >>
<1>1. /\ work # << >> /\ Head(work).do = "leave"
      /\ mngrs' = SubSeq(mngrs, 2, Len(mngrs)) /\ work' = none \o t
  BY DEF Leave, Now, GoOn
<1>2. h \in Nat /\ h > 1 /\ Walk(t, g, ms, i, Depth(AtHeight(ms, i)))
  BY <1>1, HeadLevels DEF Leaves
<1>3. Len(ns) = i /\ \A j \in 1..i : ns[j] = ms[j + 1]
  <2>1. PICK S : mngrs \in Seq(Managers(S))
    BY DEF BInv, MngrsInv
  <2>2. \A j \in 2..h : mngrs[j] \in Managers(S)
    BY <1>2, <2>1, ElementOfSeq
  <2>3. /\ Len(ns) = IF 2 <= h THEN h - 2 + 1 ELSE 0
        /\ \A j \in 1..(h - 2 + 1) : ns[j] = ms[2 + j - 1]
    BY <1>1, <1>2, <2>2, SubSeqProperties
  <2>4. 2 <= h /\ h - 2 + 1 = i /\ \A j \in 1..i : 2 + j - 1 = j + 1
    BY <1>2
  <2> HIDE DEF i, h, ms, ns
  <2>5. Len(ns) = i
    BY <2>3, <2>4
  <2>6. \A j \in 1..i : ns[j] = ms[j + 1]
    <3> SUFFICES ASSUME NEW j \in 1..i PROVE ns[j] = ms[j + 1]
      OBVIOUS
    <3>1. ns[j] = ms[2 + j - 1] /\ 2 + j - 1 = j + 1
      BY <2>3, <2>4
    <3> QED
      BY <3>1
  <2> QED
    BY <2>5, <2>6
<1>4. ASSUME NEW j \in 1..i PROVE AtHeight(ns, j) = AtHeight(ms, j)
  <2>1. i + 1 - j \in 1..i /\ (i + 1 - j) + 1 = h + 1 - j
    BY <1>2
  <2>2. ns[i + 1 - j] = ms[(i + 1 - j) + 1]
    BY <1>3, <2>1
  <2> QED
    BY <1>3, <2>1, <2>2 DEF AtHeight
<1>5. AtHeight(ns, i) = ns[1] /\ i \in 1..i /\ \A j \in 1..(i - 1) : j \in 1..i
  <2>1. i + 1 - i = 1
    BY <1>2
  <2> QED
    BY <1>2, <1>3, <2>1 DEF AtHeight
<1>6. AtHeight(ms, i) = ns[1]
  <2>1. AtHeight(ns, i) = AtHeight(ms, i)
    BY <1>4, <1>5
  <2> QED
    BY <1>5, <2>1
<1>7. \A j \in 1..(i - 1) : AtHeight(ns, j) = AtHeight(ms, j)
  BY <1>4, <1>5
<1> HIDE DEF t, ms, ns, none
<1>8. Walk(t, g, ns, i, Depth(ns[1]))
  <2> DEFINE a == Depth(ns[1])
  <2>1. Walk(t, g, ms, i, a)
    BY <1>2, <1>6
  <2> HIDE DEF a, i
  <2>2. Walk(t, g, ns, i, a)
    BY <1>7, <2>1, WalkSame
  <2> QED
    BY <2>2 DEF a
<1>9. work' = t
  <2>1. PICK W : t \in Seq(W)
    BY <1>8 DEF Walk, IsSeq
  <2> QED
    BY <1>1, <2>1 DEF none
<1>10. OpenBodies'
  <2> SUFFICES ASSUME NEW j \in 1..(i - 1) PROVE ns[j].tables # << >>
    BY <1>3 DEF OpenBodies, ns
  <2>1. j \in 1..i /\ j + 1 \in 1..(h - 1)
    BY <1>2
  <2>2. ns[j] = ms[j + 1]
    BY <1>3, <2>1
  <2> QED
    BY <2>1, <2>2 DEF LevelInvWith, OpenBodies, ms
<1>11. Walk(work', g, ns, Len(ns), Depth(ns[1]))
  BY <1>3, <1>8, <1>9
<1> QED
  BY <1>10, <1>11 DEF LevelInvWith, ns
-------------------------------------------------------------------------------
LEMMA LevelsStart == ASSUME NEW tree, Balanced(tree), Begin(tree) PROVE LevelInv
<1> DEFINE g == Balance(tree)
           none == << >>
           m == NoTables
           b == 0 + g.rise[tree]
<1>1. Balances(tree, g)
  BY DEF Balanced, Balance
<1>2. root = tree /\ work = Asmbl(tree) /\ mngrs = << m >>
  BY DEF Begin
<1>3. m.tables = none /\ m.in_func_start = FALSE
  BY DEF NoTables, Manager
<1> HIDE DEF g, m, none
<1>4. Len(mngrs) = 1 /\ mngrs[1] = m
  BY <1>2, Short
<1>5. tree \in g.nodes \cup {NoNode} /\ g.rise[NoNode] = 0
  BY <1>1 DEF Balances
<1>6. Takes(work, g, 1, 0, b)
  BY <1>2, <1>5, NodeTakes
<1>7. Walk(none, g, mngrs, 1, b)
  BY NoWalk DEF none
<1>8. Walk(work \o none, g, mngrs, 1, 0)
  BY <1>6, <1>7 DEF Takes
<1>9. work \o none = work
  <2>1. PICK W : work \in Seq(W)
    BY <1>6 DEF Takes, IsSeq
  <2> QED
    BY <2>1 DEF none
<1>10. Walk(work, g, mngrs, 1, Depth(mngrs[1]))
  <2> DEFINE a == Depth(mngrs[1])
  <2> HIDE DEF a
  <2>1. Walk(work, g, mngrs, 1, a)
    BY <1>8, <1>9, WalkAtBottom
  <2> QED
    BY <2>1 DEF a
<1>11. LevelInvWith(g)
  BY <1>4, <1>10 DEF LevelInvWith, OpenBodies
<1> QED
  BY <1>1, <1>2, <1>11 DEF LevelInv, g

LEMMA LevelsStep ==
  ASSUME NEW g, Balances(root, g), LevelInvWith(g), BInv, [BNext]_bvars
  PROVE  LevelInvWith(g)' /\ root' = root
<1>1. CASE ScopeStart
  BY <1>1, ScopeStartLevel DEF ScopeStart
<1>2. CASE ScopeEnd
  BY <1>2, ScopeEndLevel DEF ScopeEnd
<1>3. CASE Semicolon
  BY <1>3, SemicolonLevel DEF Semicolon
<1>4. CASE WriteLines \/ WriteCondEnd \/ WriteIfTest \/ WriteIfEnd
  BY <1>4, EndsLevel DEF WriteLines, WriteCondEnd, WriteIfTest, WriteIfEnd
<1>5. CASE WriteNum \/ WriteVar
  BY <1>5, WriteNumLevel DEF WriteNum, WriteVar
<1>6. CASE WritePopVar
  BY <1>6, WritePopVarLevel DEF WritePopVar
<1>7. CASE WriteOp
  BY <1>7, WriteOpLevel DEF WriteOp
<1>8. CASE WriteGetvar
  BY <1>8, WriteGetvarLevel DEF WriteGetvar
<1>9. CASE WritePutexpr
  BY <1>9, WritePutexprLevel DEF WritePutexpr
<1>10. CASE WriteCondExpr
  BY <1>10, WriteCondExprLevel DEF WriteCondExpr
<1>11. CASE WriteWhile
  BY <1>11, WriteWhileLevel DEF WriteWhile
<1>12. CASE WriteIf
  BY <1>12, WriteIfLevel DEF WriteIf
<1>13. CASE WriteFunc
  BY <1>13, WriteFuncLevel DEF WriteFunc
<1>14. CASE WriteArgument
  BY <1>14, WriteArgumentLevel DEF WriteArgument
<1>15. CASE WriteCall
  BY <1>15, WriteCallLevel DEF WriteCall
<1>16. CASE WriteFuncDecl
  BY <1>16, WriteFuncDeclLevel DEF WriteFuncDecl
<1>17. CASE WriteParameter
  BY <1>17, WriteParameterLevel DEF WriteParameter
<1>18. CASE WriteBody
  BY <1>18, WriteBodyLevel DEF WriteBody
<1>19. CASE WriteMain
  BY <1>19, WriteMainLevel DEF WriteMain
<1>20. CASE Leave
  BY <1>20, LeaveLevel DEF Leave
<1>21. CASE WriteReturn
  BY <1>21, WriteReturnLevel DEF WriteReturn
<1>22. CASE UseWithoutTables \/ Assembled \/ UNCHANGED bvars
  BY <1>22 DEF UseWithoutTables, Assembled, bvars, LevelInvWith, OpenBodies
<1> QED
  BY <1>1, <1>2, <1>3, <1>4, <1>5, <1>6, <1>7, <1>8, <1>9,
     <1>10, <1>11, <1>12, <1>13, <1>14, <1>15, <1>16, <1>17, <1>18,
     <1>19, <1>20, <1>21, <1>22 DEF BNext

LEMMA LevelsStay == LevelInv /\ BInv /\ [BNext]_bvars => LevelInv'
<1> SUFFICES ASSUME LevelInv, BInv, [BNext]_bvars PROVE LevelInv'
  OBVIOUS
<1> DEFINE g == Balance(root)
<1>1. Balances(root, g) /\ LevelInvWith(g)
  BY DEF LevelInv
<1>2. root' = root
  BY <1>1, LevelsStep
<1>3. PICK h : h = g
  OBVIOUS
<1>4. LevelInvWith(h)' /\ h = Balance(root')
  BY <1>1, <1>2, <1>3, LevelsStep
<1> QED
  BY <1>1, <1>2, <1>3, <1>4 DEF LevelInv

(* The tables of a function are there until its whole body is written      *)
(* (upgrade_n_table, downgrade_n_table, write_func_decl), in every program *)
(* whose commands close no function's outermost scope.                     *)
THEOREM BodiesStayOpen ==
  ASSUME \A tree \in Trees : Balanced(tree)
  PROVE  BSpec => []OpenUntilWritten
<1>1. BInit => BInv /\ LevelInv
  <2> SUFFICES ASSUME BInit PROVE BInv /\ LevelInv
    OBVIOUS
  <2>1. PICK tree \in Trees : Begin(tree)
    BY DEF BInit
  <2> QED
    BY <2>1, LevelsStart, BackendStarts
<1>2. BInv /\ LevelInv /\ [BNext]_bvars => (BInv /\ LevelInv)'
  BY BackendStep, LevelsStay
<1>3. LevelInv => OpenUntilWritten
  BY DEF LevelInv, LevelInvWith, OpenBodies, OpenUntilWritten
<1> QED
  BY <1>1, <1>2, <1>3, PTL DEF BSpec
-------------------------------------------------------------------------------
(* Names, where the backend makes a cell of one or writes it in a line.    *)
VarName == STRING \X Nat

(* The backend's own names; the prover knows of no string literal that it  *)
(* is a STRING.                                                            *)
OwnNames ==
  MainLabel \in VarName /\ {"", "while", "break", "_ret_var", "_temp_exch"} \subseteq STRING

NodeNamed(n, g) ==
  /\ n.left \in g.nodes \cup {NoNode} /\ n.right \in g.nodes \cup {NoNode}
  /\ n.type \in {"OP", "UNR_OP"} /\ n.value = "ASS" => n.left.value \in VarName
  /\ n.type = "STD_FUNC" /\ n.value = "GETVAR" => n.right.value \in VarName
  /\ n.type = "FUNC_DECL" => n.left \in g.commas \cup {NoNode}
  /\ n.type \in {"FUNC", "CMD_FUNC", "FUNC_DECL"} => n.value \in VarName
  /\ n.type = "NUM" => n.value \in Int

NamedBy(tree, g) ==
  /\ tree \in g.nodes \cup {NoNode}
  /\ \A n \in g.nodes : NodeNamed(n, g)
  /\ \A c \in g.commas : c.left.value \in VarName /\ c.right \in g.commas \cup {NoNode}

(* A program whose variables, parameters and functions have names, and     *)
(* whose numbers are whole.                                                *)
WellNamed(tree) == \E g : NamedBy(tree, g)

Naming(tree) == CHOOSE g : NamedBy(tree, g)

(* Lines, with places that there are.                                      *)
Placed(lines) == IsSeq(lines) /\ \A i \in 1..Len(lines) : GoodLine(lines[i])

CallNamed(call, g) ==
  /\ call.do = "asmbl" => call.node \in g.nodes
  /\ call.do = "write" => Placed(call.lines)
  /\ call.do = "pop_var" => call.var \in VarName
  /\ call.do = "cond_end" => call.jump \in LabelCommands
  /\ call.do = "arguments" =>
       call.comma \in g.nodes \cup {NoNode} /\ call.counter \in Nat /\ call.func.value \in VarName
  /\ call.do = "parameters" =>
       /\ call.comma \in g.commas \cup {NoNode} /\ call.counter \in Nat
       /\ call.func.right \in g.nodes \cup {NoNode} /\ call.func.value \in VarName

AllNamed(s, g) == IsSeq(s) /\ \A k \in 1..Len(s) : CallNamed(s[k], g)

TypeInvWith(g) ==
  /\ OwnNames
  /\ AllNamed(work, g)
  /\ mngrs \in Seq(Managers(CellType))
  /\ label_ct \in Nat
  /\ Placed(asm_file)
  /\ bstage \in {"wait", "asmbl", "written", "undefined"}

TypeInv == NamedBy(root, Naming(root)) /\ TypeInvWith(Naming(root))
-------------------------------------------------------------------------------
LEMMA PlacedJoined ==
  ASSUME NEW a, NEW b, Placed(a), Placed(b)
  PROVE  Placed(a \o b)
<1>1. IsSeq(a) /\ IsSeq(b)
  BY DEF Placed
<1> QED
  BY <1>1, Joined DEF Placed, Follow

LEMMA PlacedOne ==
  ASSUME NEW x, GoodLine(x)
  PROVE  Placed(<< x >>)
<1> DEFINE s == << x >>
<1>1. IsSeq(s) /\ Len(s) = 1 /\ s[1] = x
  BY Short
<1> HIDE DEF s
<1>2. Placed(s)
  BY <1>1 DEF Placed
<1> QED
  BY <1>2 DEF s

LEMMA PlacedNone == Placed(<< >>)
BY Short DEF Placed

LEMMA PlacedAll ==
  ASSUME NEW S, NEW s \in Seq(S), \A x \in S : GoodLine(x)
  PROVE  Placed(s)
<1>1. \A i \in 1..Len(s) : s[i] \in S
  BY ElementOfSeq
<1> QED
  BY <1>1 DEF Placed, IsSeq

LEMMA PlacedTwo ==
  ASSUME NEW x, NEW y, GoodLine(x), GoodLine(y)
  PROVE  Placed(<< x, y >>)
<1> DEFINE S == {x, y}
           s == << x, y >>
<1>1. s \in Seq(S)
  OBVIOUS
<1>2. \A z \in S : GoodLine(z)
  OBVIOUS
<1> HIDE DEF s, S
<1>3. Placed(s)
  BY <1>1, <1>2, PlacedAll
<1> QED
  BY <1>3 DEF s

LEMMA OwnAreNames ==
  ASSUME OwnNames
  PROVE  /\ NoName \in VarName /\ RetVar \in VarName /\ TempExch \in VarName
         /\ \A n \in Nat : WhileLabel(n) \in VarName /\ BreakLabel(n) \in VarName
<1>1. \A w \in {"", "while", "break", "_ret_var", "_temp_exch"}, n \in Nat : <<w, n>> \in VarName
  BY DEF OwnNames, VarName
<1> QED BY <1>1 DEF NoName, RetVar, TempExch, WhileLabel, BreakLabel

(* Lines without a place, and lines with one that Place gives.             *)
LEMMA NoPlace ==
  ASSUME OwnNames
  PROVE  /\ \A op \in PlainCommands \cup {"UNKNOWN"} : GoodLine(NoArg(op))
         /\ \A op \in LabelCommands, name \in VarName : GoodLine(Jump(op, name))
         /\ \A name \in VarName : GoodLine(LabelLine(name))
         /\ \A v \in Int : GoodLine(Literal(v))
<1>1. NoName \in VarName
  BY OwnAreNames
<1>2. ASSUME NEW op \in Commands \cup {"LABEL", "UNKNOWN"}, NEW mode \in {"NONE", "IMM"},
             NEW arg \in Int, NEW name \in VarName
      PROVE  GoodLine(Asm(op, mode, arg, name))
  <2>1. Asm(op, mode, arg, name) \in AsmLine
    BY DEF Asm, AsmLine, Modes, VarName
  <2>2. Asm(op, mode, arg, name).mode = mode
    BY DEF Asm
  <2> QED BY <2>1, <2>2 DEF GoodLine
<1>3. \A op \in PlainCommands \cup {"UNKNOWN"} : GoodLine(NoArg(op))
  BY <1>1, <1>2 DEF NoArg, Commands
<1>4. \A op \in LabelCommands, name \in VarName : GoodLine(Jump(op, name))
  BY <1>2 DEF Jump, Commands
<1>5. \A name \in VarName : GoodLine(LabelLine(name))
  BY <1>2 DEF LabelLine
<1>6. \A v \in Int : GoodLine(Literal(v))
  BY <1>1, <1>2 DEF Literal, Commands
<1> QED BY <1>3, <1>4, <1>5, <1>6

GoodPlaceOf(place) == GoodLine(PushFrom(place)) /\ GoodLine(PopInto(place))

LEMMA Places == ASSUME OwnNames PROVE GoodPlaceOf(NullPlace) /\ \A n \in Nat : GoodPlaceOf(Place(n))
<1>0. ASSUME NEW place, place.mode \in Modes, place.arg \in Int
      PROVE  PushFrom(place) \in AsmLine /\ PopInto(place) \in AsmLine
  BY <1>0, OwnAreNames DEF PushFrom, PopInto, Asm, AsmLine, Commands, VarName
<1>1. GoodPlaceOf(NullPlace)
  <2>1. NullPlace.mode \in Modes /\ NullPlace.arg \in Int
    BY DEF NullPlace, Modes
  <2> QED BY <1>0, <2>1 DEF GoodPlaceOf, GoodLine, PushFrom, PopInto, NullPlace, Asm
<1>2. ASSUME NEW n \in Nat PROVE GoodPlaceOf(Place(n))
  <2>1. CASE n >= AMOUNT_OF_REGS
    <3>1. Place(n).mode = "RAM_IMM" /\ Place(n).arg \in Nat
      BY <2>1 DEF Place, AMOUNT_OF_REGS
    <3>2. PushFrom(Place(n)) \in AsmLine /\ PopInto(Place(n)) \in AsmLine
      BY <1>0, <3>1 DEF Modes
    <3> QED
      BY <3>1, <3>2 DEF GoodPlaceOf, GoodLine, PushFrom, PopInto, Asm
  <2>2. CASE ~(n >= AMOUNT_OF_REGS)
    <3>1. Place(n).mode = "REG" /\ Place(n).arg \in 0..(AMOUNT_OF_REGS - 1)
      BY <2>2 DEF Place, AMOUNT_OF_REGS
    <3>2. PushFrom(Place(n)) \in AsmLine /\ PopInto(Place(n)) \in AsmLine
      BY <1>0, <3>1 DEF Modes, AMOUNT_OF_REGS
    <3> QED
      BY <3>1, <3>2 DEF GoodPlaceOf, GoodLine, PushFrom, PopInto, Asm
  <2> QED
    BY <2>1, <2>2
<1> QED
  BY <1>1, <1>2

(* The nearest variable of a name is one of those of that name.            *)
LEMMA NearestIsNamed ==
  ASSUME NEW S, NEW ts \in Seq(Seq(S)), NEW var, Named(ts, var) # {}
  PROVE  \E p \in CellsOf(ts) : Nearest(ts, var) = CellAt(ts, p)
<1> DEFINE N == Named(ts, var)
           Is(p) == \A q \in N : q[1] < p[1] \/ (q[1] = p[1] /\ p[2] <= q[2])
           n == Len(ts)
<1>1. n \in Nat /\ \A l \in 1..n : Len(ts[l]) \in Nat
  BY LenProperties, ElementOfSeq
<1>2. \A p \in N : p[1] \in 1..n /\ p[2] \in Nat /\ p \in CellsOf(ts)
  <2> SUFFICES ASSUME NEW p \in N PROVE p[1] \in 1..n /\ p[2] \in Nat /\ p \in CellsOf(ts)
    OBVIOUS
  <2>1. p \in CellsUpTo(ts, n) /\ p \in CellsOf(ts)
    BY DEF Named, CellsOf
  <2>2. PICK k \in 1..n : \E c \in 1..Len(ts[k]) : p = <<k, c>>
    BY <2>1, CellIn
  <2>3. PICK c \in 1..Len(ts[k]) : p = <<k, c>>
    BY <2>2
  <2> QED
    BY <1>1, <2>1, <2>3
<1> HIDE DEF N, n
<1> DEFINE above == {n - p[1] : p \in N}
<1>3. above \subseteq Nat /\ above # {}
  BY <1>1, <1>2 DEF N
<1> HIDE DEF above
<1>4. PICK x \in above : \A y \in above : x <= y
  BY <1>3, LeastNatural
<1>5. PICK o \in N : x = n - o[1]
  BY DEF above
<1>6. \A q \in N : q[1] <= o[1]
  <2> SUFFICES ASSUME NEW q \in N PROVE q[1] <= o[1]
    OBVIOUS
  <2>1. n - q[1] \in above
    BY DEF above
  <2>2. x <= n - q[1] /\ x = n - o[1]
    BY <1>4, <1>5, <2>1
  <2>3. q[1] \in Int /\ o[1] \in Int /\ n \in Int
    BY <1>1, <1>2
  <2> QED
    BY <2>2, <2>3
<1> DEFINE level == {q \in N : q[1] = o[1]}
           places == {q[2] : q \in level}
<1>7. places \subseteq Nat /\ places # {}
  BY <1>2, <1>5
<1>8. PICK y \in places : \A z \in places : y <= z
  BY <1>7, LeastNatural
<1>9. PICK p \in level : y = p[2]
  OBVIOUS
<1>10. Is(p)
  <2> SUFFICES ASSUME NEW q \in N PROVE q[1] < p[1] \/ (q[1] = p[1] /\ p[2] <= q[2])
    OBVIOUS
  <2>1. p[1] = o[1] /\ q[1] <= o[1] /\ q[1] \in Int /\ o[1] \in Int
    BY <1>1, <1>2, <1>6
  <2>2. CASE q[1] = o[1]
    <3>1. q[2] \in places
      BY <2>2
    <3> QED
      BY <1>8, <1>9, <2>1, <2>2, <3>1
  <2>3. CASE q[1] # o[1]
    BY <2>1, <2>3
  <2> QED
    BY <2>2, <2>3
<1>11. p \in N
  OBVIOUS
<1> DEFINE best == CHOOSE m \in N : Is(m)
<1>12. best \in N
  BY <1>10, <1>11
<1>13. Nearest(ts, var) = CellAt(ts, best)
  BY DEF Nearest, CellAt, N
<1> HIDE DEF best
<1> QED
  BY <1>2, <1>12, <1>13

-------------------------------------------------------------------------------
(* Calls that are named.                                                   *)
LEMMA NamedJoined ==
  ASSUME NEW a, NEW b, NEW g, AllNamed(a, g), AllNamed(b, g)
  PROVE  AllNamed(a \o b, g)
<1>1. IsSeq(a) /\ IsSeq(b)
  BY DEF AllNamed
<1> QED
  BY <1>1, Joined DEF AllNamed, Follow

LEMMA NoneNamed == \A g : AllNamed(<< >>, g)
BY Short DEF AllNamed

LEMMA OneNamed ==
  ASSUME NEW c, NEW g, CallNamed(c, g)
  PROVE  AllNamed(<< c >>, g)
<1> DEFINE s == << c >>
<1>1. IsSeq(s) /\ Len(s) = 1 /\ s[1] = c
  BY Short
<1> HIDE DEF s
<1>2. AllNamed(s, g)
  BY <1>1 DEF AllNamed
<1> QED
  BY <1>2 DEF s

LEMMA NodeIsNamed ==
  ASSUME NEW g, NEW n \in g.nodes \cup {NoNode}
  PROVE  AllNamed(Asmbl(n), g)
<1>1. CASE n = NoNode
  BY <1>1, NoneNamed DEF Asmbl
<1>2. CASE n # NoNode
  <2> DEFINE c == [do |-> "asmbl", node |-> n]
  <2>1. CallNamed(c, g)
    BY <1>2 DEF CallNamed
  <2>2. Asmbl(n) = << c >>
    BY <1>2 DEF Asmbl
  <2> HIDE DEF c
  <2> QED
    BY <2>1, <2>2, OneNamed
<1> QED
  BY <1>1, <1>2

LEMMA OtherNamed ==
  ASSUME NEW g
  PROVE  /\ \A lines : Placed(lines) => AllNamed(Write(lines), g)
         /\ \A var \in VarName : AllNamed(PopVar(var), g)
         /\ AllNamed(Todo("if_test"), g) /\ AllNamed(Todo("if_end"), g) /\ AllNamed(Todo("leave"), g)
         /\ \A jump \in LabelCommands : AllNamed(<< [do |-> "cond_end", jump |-> jump] >>, g)
<1>1. ASSUME NEW lines, Placed(lines) PROVE AllNamed(Write(lines), g)
  <2> DEFINE c == [do |-> "write", lines |-> lines]
  <2>1. CallNamed(c, g)
    BY <1>1 DEF CallNamed
  <2> HIDE DEF c
  <2>2. AllNamed(<< c >>, g)
    BY <2>1, OneNamed
  <2> QED
    BY <2>2 DEF Write, c
<1>2. ASSUME NEW var \in VarName PROVE AllNamed(PopVar(var), g)
  <2> DEFINE c == [do |-> "pop_var", var |-> var]
  <2>1. CallNamed(c, g)
    BY DEF CallNamed
  <2> HIDE DEF c
  <2>2. AllNamed(<< c >>, g)
    BY <2>1, OneNamed
  <2> QED
    BY <2>2 DEF PopVar, c
<1>3. ASSUME NEW what \in {"if_test", "if_end", "leave"} PROVE AllNamed(Todo(what), g)
  <2> DEFINE c == [do |-> what]
  <2>1. CallNamed(c, g)
    BY DEF CallNamed
  <2> HIDE DEF c
  <2>2. AllNamed(<< c >>, g)
    BY <2>1, OneNamed
  <2> QED
    BY <2>2 DEF Todo, c
<1>4. ASSUME NEW jump \in LabelCommands
      PROVE  AllNamed(<< [do |-> "cond_end", jump |-> jump] >>, g)
  <2> DEFINE c == [do |-> "cond_end", jump |-> jump]
  <2>1. CallNamed(c, g)
    BY DEF CallNamed
  <2> HIDE DEF c
  <2>2. AllNamed(<< c >>, g)
    BY <2>1, OneNamed
  <2> QED
    BY <2>2 DEF c
<1> QED
  BY <1>1, <1>2, <1>3, <1>4

LEMMA ArgumentsNamed ==
  ASSUME NEW g, NEW func, func.value \in VarName,
         NEW comma \in g.nodes \cup {NoNode}, NEW counter \in Nat
  PROVE  AllNamed(Arguments(func, comma, counter), g)
<1> DEFINE c == [do |-> "arguments", func |-> func, comma |-> comma, counter |-> counter]
<1>1. CallNamed(c, g)
  BY DEF CallNamed
<1> HIDE DEF c
<1>2. AllNamed(<< c >>, g)
  BY <1>1, OneNamed
<1> QED
  BY <1>2 DEF Arguments, c

LEMMA ParametersNamed ==
  ASSUME NEW g, NEW func, func.right \in g.nodes \cup {NoNode}, func.value \in VarName,
         NEW comma \in g.commas \cup {NoNode}, NEW counter \in Nat
  PROVE  AllNamed(Parameters(func, comma, counter), g)
<1> DEFINE c == [do |-> "parameters", func |-> func, comma |-> comma, counter |-> counter]
<1>1. CallNamed(c, g)
  BY DEF CallNamed
<1> HIDE DEF c
<1>2. AllNamed(<< c >>, g)
  BY <1>1, OneNamed
<1> QED
  BY <1>2 DEF Parameters, c

LEMMA HeadNamed ==
  ASSUME NEW g, AllNamed(work, g), work # << >>
  PROVE  CallNamed(Head(work), g) /\ AllNamed(Tail(work), g)
<1>1. IsSeq(work)
  BY DEF AllNamed
<1> QED
  BY <1>1, Beheaded DEF AllNamed

LEMMA VisitedNamed ==
  ASSUME NEW g, NamedBy(root, g), TypeInvWith(g), Now("asmbl")
  PROVE  /\ work # << >> /\ Visited \in g.nodes /\ NodeNamed(Visited, g)
         /\ AllNamed(Asmbl(Visited.left), g) /\ AllNamed(Asmbl(Visited.right), g)
<1>1. work # << >> /\ Head(work).do = "asmbl"
  BY DEF Now
<1>2. Visited \in g.nodes
  BY <1>1, HeadNamed DEF CallNamed, TypeInvWith, Visited
<1>3. NodeNamed(Visited, g)
  BY <1>2 DEF NamedBy
<1> QED
  BY <1>1, <1>2, <1>3, NodeIsNamed DEF NodeNamed

(* A handler that goes on with calls and writes lines.                     *)
LEMMA TypedOn ==
  ASSUME NEW g, TypeInvWith(g), work # << >>,
         NEW calls, AllNamed(calls, g), work' = calls \o Tail(work),
         NEW lines, Placed(lines), asm_file' = asm_file \o lines \/ asm_file' = asm_file,
         mngrs' \in Seq(Managers(CellType)),
         label_ct' = label_ct \/ label_ct' = NextLabel(label_ct), bstage' = bstage
  PROVE  TypeInvWith(g)'
<1>1. AllNamed(work', g)
  BY HeadNamed, NamedJoined DEF TypeInvWith
<1>2. Placed(asm_file')
  BY PlacedJoined DEF TypeInvWith
<1>3. label_ct' \in Nat
  BY DEF TypeInvWith, NextLabel
<1> QED
  BY <1>1, <1>2, <1>3 DEF TypeInvWith

(* ... that leaves the managers alone.                                     *)
LEMMA WritesOn ==
  ASSUME NEW g, TypeInvWith(g), work # << >>, mngrs' = mngrs,
         NEW calls, AllNamed(calls, g), work' = calls \o Tail(work),
         NEW lines, Placed(lines), asm_file' = asm_file \o lines,
         label_ct' = label_ct \/ label_ct' = NextLabel(label_ct), bstage' = bstage
  PROVE  TypeInvWith(g)'
<1>1. mngrs' \in Seq(Managers(CellType))
  BY DEF TypeInvWith
<1> QED
  BY <1>1, TypedOn

(* ... that only goes on with calls.                                       *)
LEMMA SilentlyOn ==
  ASSUME NEW g, TypeInvWith(g), work # << >>, mngrs' \in Seq(Managers(CellType)),
         NEW calls, AllNamed(calls, g), work' = calls \o Tail(work),
         asm_file' = asm_file, label_ct' = label_ct, bstage' = bstage
  PROVE  TypeInvWith(g)'
<1> DEFINE lines == << >>
<1>1. Placed(lines)
  BY PlacedNone
<1> HIDE DEF lines
<1> QED
  BY <1>1, TypedOn

LEMMA SemicolonTyped == ASSUME NEW g, NamedBy(root, g), TypeInvWith(g), Semicolon
                        PROVE  TypeInvWith(g)'
<1> DEFINE calls == Asmbl(Visited.left) \o Asmbl(Visited.right)
<1>1. /\ Now("asmbl") /\ mngrs' = mngrs /\ work' = calls \o Tail(work)
      /\ asm_file' = asm_file /\ label_ct' = label_ct /\ bstage' = bstage
  BY DEF Semicolon, Visiting, GoOn, Children
<1>2. work # << >> /\ AllNamed(calls, g)
  BY <1>1, VisitedNamed, NamedJoined
<1>3. mngrs' \in Seq(Managers(CellType))
  BY <1>1 DEF TypeInvWith
<1> HIDE DEF calls
<1> QED
  BY <1>1, <1>2, <1>3, SilentlyOn

LEMMA WriteOpTyped == ASSUME NEW g, NamedBy(root, g), TypeInvWith(g), WriteOp
                      PROVE  TypeInvWith(g)'
<1> DEFINE p == PopVar(Visited.left.value)
           w == Write(<< OpLine(Visited.value) >>)
           left == Asmbl(Visited.left)
           right == Asmbl(Visited.right)
           a == right \o p
           o == left \o right \o w
<1>1. /\ Now("asmbl") /\ Visited.type \in {"OP", "UNR_OP"} /\ mngrs' = mngrs
      /\ IF Visited.value = "ASS" THEN work' = a \o Tail(work) ELSE work' = o \o Tail(work)
      /\ asm_file' = asm_file /\ label_ct' = label_ct /\ bstage' = bstage
  BY DEF WriteOp, Visiting, GoOn, Children, Visited
<1>2. work # << >> /\ AllNamed(left, g) /\ AllNamed(right, g) /\ NodeNamed(Visited, g)
  BY <1>1, VisitedNamed
<1>3. Visited.value = "ASS" => AllNamed(p, g)
  BY <1>1, <1>2, OtherNamed DEF NodeNamed
<1>4. AllNamed(w, g)
  <2>1. GoodLine(OpLine(Visited.value))
    BY NoPlace DEF OpLine, PlainCommands, TypeInvWith
  <2> QED
    BY <2>1, PlacedOne, OtherNamed
<1>5. mngrs' \in Seq(Managers(CellType))
  BY <1>1 DEF TypeInvWith
<1> HIDE DEF p, w, left, right
<1>6. (Visited.value = "ASS" => AllNamed(a, g)) /\ AllNamed(o, g)
  BY <1>2, <1>3, <1>4, NamedJoined
<1> HIDE DEF a, o
<1> QED
  BY <1>1, <1>2, <1>5, <1>6, SilentlyOn

LEMMA WriteGetvarTyped == ASSUME NEW g, NamedBy(root, g), TypeInvWith(g), WriteGetvar
                          PROVE  TypeInvWith(g)'
<1> DEFINE calls == PopVar(Visited.right.value)
           lines == << NoArg("IN") >>
<1>1. /\ Now("asmbl") /\ Visited.type = "STD_FUNC" /\ Visited.value = "GETVAR" /\ mngrs' = mngrs
      /\ work' = calls \o Tail(work) /\ asm_file' = asm_file \o lines
      /\ label_ct' = label_ct /\ bstage' = bstage
  BY DEF WriteGetvar, Visiting, GoOn, Emit, Visited
<1>2. work # << >> /\ NodeNamed(Visited, g)
  BY <1>1, VisitedNamed
<1>3. AllNamed(calls, g)
  BY <1>1, <1>2, OtherNamed DEF NodeNamed
<1>4. Placed(lines)
  BY PlacedOne, NoPlace DEF PlainCommands, TypeInvWith
<1> HIDE DEF calls, lines
<1> QED
  BY <1>1, <1>2, <1>3, <1>4, WritesOn

LEMMA WritePutexprTyped == ASSUME NEW g, NamedBy(root, g), TypeInvWith(g), WritePutexpr
                           PROVE  TypeInvWith(g)'
<1> DEFINE w == Write(<< NoArg("OUT") >>)
           calls == Asmbl(Visited.right) \o w
<1>1. /\ Now("asmbl") /\ mngrs' = mngrs /\ work' = calls \o Tail(work)
      /\ asm_file' = asm_file /\ label_ct' = label_ct /\ bstage' = bstage
  BY DEF WritePutexpr, Visiting, GoOn
<1>2. AllNamed(w, g)
  <2>1. GoodLine(NoArg("OUT"))
    BY NoPlace DEF PlainCommands, TypeInvWith
  <2> QED
    BY <2>1, PlacedOne, OtherNamed
<1> HIDE DEF w
<1>3. work # << >> /\ AllNamed(calls, g)
  BY <1>1, <1>2, VisitedNamed, NamedJoined
<1>4. mngrs' \in Seq(Managers(CellType))
  BY <1>1 DEF TypeInvWith
<1> HIDE DEF calls
<1> QED
  BY <1>1, <1>3, <1>4, SilentlyOn

LEMMA WriteReturnTyped == ASSUME NEW g, NamedBy(root, g), TypeInvWith(g), WriteReturn
                          PROVE  TypeInvWith(g)'
<1> DEFINE x == PopInto(Place(0))
           y == NoArg("RET")
           w == Write(<< x, y >>)
           calls == Asmbl(Visited.right) \o w
<1>1. /\ Now("asmbl") /\ mngrs' = mngrs /\ work' = calls \o Tail(work)
      /\ asm_file' = asm_file /\ label_ct' = label_ct /\ bstage' = bstage
  BY DEF WriteReturn, Visiting, GoOn
<1>2. AllNamed(w, g)
  <2>1. GoodLine(x) /\ GoodLine(y)
    BY Places, NoPlace DEF GoodPlaceOf, PlainCommands, TypeInvWith
  <2> HIDE DEF x, y
  <2> QED
    BY <2>1, PlacedTwo, OtherNamed
<1> HIDE DEF w
<1>3. work # << >> /\ AllNamed(calls, g)
  BY <1>1, <1>2, VisitedNamed, NamedJoined
<1>4. mngrs' \in Seq(Managers(CellType))
  BY <1>1 DEF TypeInvWith
<1> HIDE DEF calls
<1> QED
  BY <1>1, <1>3, <1>4, SilentlyOn

LEMMA WriteCondExprTyped == ASSUME NEW g, NamedBy(root, g), TypeInvWith(g), WriteCondExpr
                            PROVE  TypeInvWith(g)'
<1> DEFINE e == << [do |-> "cond_end", jump |-> CondJump[Visited.type]] >>
           calls == Asmbl(Visited.right) \o Asmbl(Visited.left) \o e
           lines == << Literal(0) >>
<1>1. /\ Now("asmbl") /\ mngrs' = mngrs /\ Visited.type \in Conditions
      /\ work' = calls \o Tail(work) /\ asm_file' = asm_file \o lines
      /\ label_ct' = label_ct /\ bstage' = bstage
  BY DEF WriteCondExpr, Visiting, GoOn, Emit, Visited
<1>2. AllNamed(e, g)
  <2>1. CondJump[Visited.type] \in LabelCommands
    BY <1>1 DEF CondJump, Conditions, LabelCommands
  <2> QED
    BY <2>1, OtherNamed
<1> HIDE DEF e
<1>3. work # << >> /\ AllNamed(calls, g)
  BY <1>1, <1>2, VisitedNamed, NamedJoined
<1>4. Placed(lines)
  BY PlacedOne, NoPlace DEF TypeInvWith
<1> HIDE DEF calls, lines
<1> QED
  BY <1>1, <1>3, <1>4, WritesOn

LEMMA WriteWhileTyped == ASSUME NEW g, NamedBy(root, g), TypeInvWith(g), WriteWhile
                         PROVE  TypeInvWith(g)'
<1> DEFINE x == Literal(0)
           y == Jump("JE", BreakLabel(label_ct))
           z == Jump("JMP", WhileLabel(label_ct))
           u == LabelLine(BreakLabel(label_ct))
           test == Write(<< x, y >>)
           back == Write(<< z, u >>)
           left == Asmbl(Visited.left)
           right == Asmbl(Visited.right)
           calls == left \o test \o right \o back
           lines == << LabelLine(WhileLabel(label_ct)) >>
<1>1. /\ Now("asmbl") /\ mngrs' = mngrs
      /\ work' = calls \o Tail(work) /\ asm_file' = asm_file \o lines
      /\ label_ct' = NextLabel(label_ct) /\ bstage' = bstage
  BY DEF WriteWhile, Visiting, GoOn, Emit
<1>2. AllNamed(test, g) /\ AllNamed(back, g)
  <2>1. GoodLine(x) /\ GoodLine(y) /\ GoodLine(z) /\ GoodLine(u)
    BY NoPlace, OwnAreNames DEF LabelCommands, TypeInvWith
  <2> HIDE DEF x, y, z, u
  <2>2. Placed(<< x, y >>) /\ Placed(<< z, u >>)
    BY <2>1, PlacedTwo
  <2> QED
    BY <2>2, OtherNamed
<1>3. work # << >> /\ AllNamed(left, g) /\ AllNamed(right, g)
  BY <1>1, VisitedNamed
<1> HIDE DEF test, back, left, right
<1>4. AllNamed(calls, g)
  BY <1>2, <1>3, NamedJoined
<1>5. Placed(lines)
  BY PlacedOne, NoPlace, OwnAreNames DEF TypeInvWith
<1> HIDE DEF calls, lines
<1> QED
  BY <1>1, <1>3, <1>4, <1>5, WritesOn

LEMMA WriteIfTyped == ASSUME NEW g, NamedBy(root, g), TypeInvWith(g), WriteIf
                      PROVE  TypeInvWith(g)'
<1> DEFINE test == Todo("if_test")
           end == Todo("if_end")
           left == Asmbl(Visited.left)
           right == Asmbl(Visited.right)
           calls == left \o test \o right \o end
<1>1. /\ Now("asmbl") /\ mngrs' = mngrs /\ work' = calls \o Tail(work)
      /\ asm_file' = asm_file /\ label_ct' = label_ct /\ bstage' = bstage
  BY DEF WriteIf, Visiting, GoOn
<1>2. AllNamed(test, g) /\ AllNamed(end, g)
  BY OtherNamed
<1>3. work # << >> /\ AllNamed(left, g) /\ AllNamed(right, g)
  BY <1>1, VisitedNamed
<1> HIDE DEF test, end, left, right
<1>4. AllNamed(calls, g)
  BY <1>2, <1>3, NamedJoined
<1>5. mngrs' \in Seq(Managers(CellType))
  BY <1>1 DEF TypeInvWith
<1> HIDE DEF calls
<1> QED
  BY <1>1, <1>3, <1>4, <1>5, SilentlyOn

LEMMA WriteArgumentTyped == ASSUME NEW g, NamedBy(root, g), TypeInvWith(g), WriteArgument
                            PROVE  TypeInvWith(g)'
<1> DEFINE x == Head(work)
           rest == Arguments(x.func, x.comma.right, x.counter + 1)
           calls == Asmbl(x.comma.left) \o rest
<1>1. /\ work # << >> /\ x.do = "arguments" /\ x.comma # NoNode /\ mngrs' = mngrs
      /\ work' = calls \o Tail(work)
      /\ asm_file' = asm_file /\ label_ct' = label_ct /\ bstage' = bstage
  BY DEF WriteArgument, Now, GoOn
<1>2. x.comma \in g.nodes /\ x.counter \in Nat /\ x.func.value \in VarName
  BY <1>1, HeadNamed DEF CallNamed, TypeInvWith
<1>3. x.comma.left \in g.nodes \cup {NoNode} /\ x.comma.right \in g.nodes \cup {NoNode}
        /\ x.counter + 1 \in Nat
  BY <1>2 DEF NamedBy, NodeNamed
<1>4. AllNamed(Asmbl(x.comma.left), g) /\ AllNamed(rest, g)
  BY <1>2, <1>3, NodeIsNamed, ArgumentsNamed
<1>5. AllNamed(calls, g)
  BY <1>4, NamedJoined
<1>6. mngrs' \in Seq(Managers(CellType))
  BY <1>1 DEF TypeInvWith
<1> HIDE DEF calls
<1> QED
  BY <1>1, <1>5, <1>6, SilentlyOn

(* Handlers that only end.                                                 *)
LEMMA EndsTyped ==
  ASSUME NEW g, NamedBy(root, g), TypeInvWith(g),
         WriteLines \/ WriteNum \/ WriteCondEnd \/ WriteIfTest \/ WriteIfEnd
  PROVE  TypeInvWith(g)'
<1> DEFINE calls == << >>
           break == LabelLine(BreakLabel(label_ct))
           num == << Literal(Visited.value) >>
           cond == << Jump(Head(work).jump, BreakLabel(label_ct)), Literal(1), NoArg("ADD"),
                      break, Literal(0), NoArg("ADD") >>
           test == << Literal(0), Jump("JE", BreakLabel(label_ct)) >>
           end == << break >>
           same == label_ct' = label_ct \/ label_ct' = NextLabel(label_ct)
<1>1. AllNamed(calls, g)
  BY NoneNamed
<1>2. /\ work # << >> /\ mngrs' = mngrs /\ work' = calls \o Tail(work) /\ bstage' = bstage /\ same
  BY DEF WriteLines, WriteNum, WriteCondEnd, WriteIfTest, WriteIfEnd, Now, Visiting, GoOn
<1> HIDE DEF calls
<1>3. CASE WriteLines
  <2>1. Head(work).do = "write" /\ asm_file' = asm_file \o Head(work).lines
    BY <1>3 DEF WriteLines, Now, Emit
  <2>2. Placed(Head(work).lines)
    BY <1>2, <2>1, HeadNamed DEF CallNamed, TypeInvWith
  <2> QED
    BY <1>1, <1>2, <2>1, <2>2, WritesOn
<1>4. CASE WriteNum
  <2>1. asm_file' = asm_file \o num
    BY <1>4 DEF WriteNum, Emit
  <2>2. Placed(num)
    <3>1. Now("asmbl") /\ Visited.type = "NUM"
      BY <1>4 DEF WriteNum, Visiting, Visited
    <3>2. Visited.value \in Int
      BY <3>1, VisitedNamed DEF NodeNamed
    <3>3. GoodLine(Literal(Visited.value))
      BY <3>2, NoPlace DEF TypeInvWith
    <3> QED
      BY <3>3, PlacedOne
  <2> HIDE DEF num
  <2> QED
    BY <1>1, <1>2, <2>1, <2>2, WritesOn
<1>5. CASE WriteCondEnd
  <2>1. asm_file' = asm_file \o cond
    BY <1>5 DEF WriteCondEnd, Emit
  <2>2. Placed(cond)
    <3> DEFINE a == Jump(Head(work).jump, BreakLabel(label_ct))
               b == Literal(1)
               c == NoArg("ADD")
               d == Literal(0)
               S == {a, b, c, break, d}
    <3>0. Head(work).jump \in LabelCommands
      BY <1>2, <1>5, HeadNamed DEF WriteCondEnd, Now, CallNamed, TypeInvWith
    <3>1. \A x \in S : GoodLine(x)
      <4>1. GoodLine(a) /\ GoodLine(break)
        BY <3>0, NoPlace, OwnAreNames DEF TypeInvWith
      <4>2. GoodLine(b) /\ GoodLine(c) /\ GoodLine(d)
        BY NoPlace DEF PlainCommands, TypeInvWith
      <4> HIDE DEF a, b, c, break, d
      <4> QED BY <4>1, <4>2
    <3>2. cond = << a, b, c, break, d, c >>
      OBVIOUS
    <3> HIDE DEF a, b, c, break, d, cond
    <3>3. cond \in Seq(S)
      BY <3>2
    <3> HIDE DEF S
    <3> QED
      BY <3>1, <3>3, PlacedAll
  <2> HIDE DEF cond
  <2> QED
    BY <1>1, <1>2, <2>1, <2>2, WritesOn
<1>6. CASE WriteIfTest
  <2>1. asm_file' = asm_file \o test
    BY <1>6 DEF WriteIfTest, Emit
  <2>2. Placed(test)
    <3>1. GoodLine(Literal(0)) /\ GoodLine(Jump("JE", BreakLabel(label_ct)))
      BY NoPlace, OwnAreNames DEF LabelCommands, TypeInvWith
    <3> QED
      BY <3>1, PlacedTwo
  <2> HIDE DEF test
  <2> QED
    BY <1>1, <1>2, <2>1, <2>2, WritesOn
<1>7. CASE WriteIfEnd
  <2>1. asm_file' = asm_file \o end
    BY <1>7 DEF WriteIfEnd, Emit
  <2>2. Placed(end)
    <3>1. GoodLine(break)
      BY NoPlace, OwnAreNames DEF TypeInvWith
    <3> QED
      BY <3>1, PlacedOne
  <2> HIDE DEF end
  <2> QED
    BY <1>1, <1>2, <2>1, <2>2, WritesOn
<1> QED
  BY <1>3, <1>4, <1>5, <1>6, <1>7

(* The tables of the current function, and the places in them.             *)
LEMMA TypedTables ==
  ASSUME NEW g, TypeInvWith(g), BInv, work # << >>
  PROVE  /\ mngrs[1] \in Managers(CellType) /\ Tables \in Seq(Seq(CellType))
         /\ Tables = mngrs[1].tables /\ Numbered(Tables) /\ mngrs # << >>
<1>1. mngrs \in Seq(Managers(CellType)) /\ mngrs # << >>
  BY SomeManager DEF TypeInvWith
<1>2. Good(mngrs[1], CellType) /\ Tables \in Seq(Seq(CellType))
  BY <1>1, FirstManager DEF BInv
<1> QED
  BY <1>1, <1>2 DEF Good, Tables

LEMMA TypedCell ==
  ASSUME NEW ts \in Seq(Seq(CellType)), NEW p \in CellsOf(ts)
  PROVE  CellAt(ts, p) \in CellType /\ CellAt(ts, p).loc \in Nat
<1>1. PICK k \in 1..Len(ts) : \E c \in 1..Len(ts[k]) : p = <<k, c>>
  BY CellIn DEF CellsOf
<1>2. PICK c \in 1..Len(ts[k]) : p = <<k, c>>
  BY <1>1
<1>3. ts[k] \in Seq(CellType)
  BY ElementOfSeq
<1>4. ts[k][c] \in CellType
  BY <1>3, ElementOfSeq
<1>5. CellAt(ts, p) \in CellType
  BY <1>2, <1>4 DEF CellAt
<1> QED
  BY <1>5 DEF CellType

LEMMA SizeIsNumber ==
  ASSUME NEW ts \in Seq(Seq(CellType)), ts # << >>, Numbered(ts)
  PROVE  OverallSize(ts) \in Nat /\ Len(ts) \in 1..Len(ts)
<1>1. Len(ts) \in 1..Len(ts)
  BY EmptySeq
<1>2. IsFiniteSet(CellsOf(ts))
  BY <1>1 DEF Numbered, NumberedUpTo, CellsOf
<1> QED
  BY <1>1, <1>2, FS_CardinalityType DEF OverallSize

LEMMA TypedPlaces ==
  ASSUME OwnNames, NEW ts \in Seq(Seq(CellType)), ts # << >>, Numbered(ts), NEW var
  PROVE  GoodPlaceOf(PlaceOf(ts, var)) /\ GoodPlaceOf(PlaceWith(ts, var))
<1>1. CASE Named(ts, var) = {}
  <2>1. OverallSize(ts) \in Nat
    BY SizeIsNumber
  <2> QED
    BY <1>1, <2>1, Places DEF PlaceOf, PlaceWith
<1>2. CASE Named(ts, var) # {}
  <2>1. PICK p \in CellsOf(ts) : Nearest(ts, var) = CellAt(ts, p)
    BY <1>2, NearestIsNamed
  <2>2. Nearest(ts, var).loc \in Nat
    BY <2>1, TypedCell
  <2> QED
    BY <1>2, <2>2, Places DEF PlaceOf, PlaceWith
<1> QED
  BY <1>1, <1>2

LEMMA FirstTyped ==
  ASSUME NEW g, TypeInvWith(g), BInv, work # << >>, NEW m \in Managers(CellType),
         mngrs' = [mngrs EXCEPT ![1] = m]
  PROVE  mngrs' \in Seq(Managers(CellType))
<1>1. mngrs \in Seq(Managers(CellType)) /\ mngrs # << >> /\ Len(mngrs) \in Nat \ {0}
  BY SomeManager DEF TypeInvWith
<1>2. 1 \in 1..Len(mngrs)
  BY <1>1
<1> QED
  BY <1>1, <1>2, ExceptSeq

LEMMA VariableTyped ==
  ASSUME NEW g, TypeInvWith(g), BInv, work # << >>, HasTables, NEW var \in VarName,
         mngrs' = WithTables(TablesWith(Tables, var))
  PROVE  mngrs' \in Seq(Managers(CellType))
<1> DEFINE ts == Tables
           us == TablesWith(ts, var)
           m == [mngrs[1] EXCEPT !.tables = us]
<1>1. /\ mngrs[1] \in Managers(CellType) /\ ts \in Seq(Seq(CellType)) /\ Numbered(ts)
      /\ ts # << >> /\ mngrs' = [mngrs EXCEPT ![1] = m]
  BY TypedTables DEF HasTables, WithTables
<1>2. us \in Seq(Seq(CellType))
  <2>1. CASE Named(ts, var) = {}
    <3> DEFINE c == Cell(var, OverallSize(ts))
               v == Append(ts[Len(ts)], c)
    <3>1. OverallSize(ts) \in Nat /\ Len(ts) \in 1..Len(ts)
      BY <1>1, SizeIsNumber
    <3>2. c \in CellType
      BY <3>1 DEF Cell, CellType, VarName
    <3>3. ts[Len(ts)] \in Seq(CellType)
      BY <1>1, <3>1, ElementOfSeq
    <3>4. us = [ts EXCEPT ![Len(ts)] = v]
      BY <2>1 DEF TablesWith, InitVar
    <3> HIDE DEF c, us, ts
    <3>5. v \in Seq(CellType)
      BY <3>2, <3>3, AppendProperties
    <3> HIDE DEF v
    <3> QED
      BY <1>1, <3>1, <3>4, <3>5, ExceptSeq
  <2>2. CASE Named(ts, var) # {}
    BY <1>1, <2>2 DEF TablesWith
  <2> QED
    BY <2>1, <2>2
<1> HIDE DEF us
<1>3. m \in Managers(CellType)
  BY <1>1, <1>2 DEF Managers
<1> HIDE DEF m
<1> QED
  BY <1>1, <1>3, FirstTyped

LEMMA WriteVarTyped == ASSUME NEW g, NamedBy(root, g), TypeInvWith(g), BInv, WriteVar
                       PROVE  TypeInvWith(g)'
<1> DEFINE calls == << >>
           x == PushFrom(PlaceOf(Tables, Visited.value))
           lines == << x >>
<1>1. /\ work # << >> /\ Tables # << >> /\ mngrs' = mngrs /\ work' = calls \o Tail(work)
      /\ asm_file' = asm_file \o lines /\ label_ct' = label_ct /\ bstage' = bstage
  BY DEF WriteVar, Visiting, Now, GoOn, Emit, HasTables
<1>2. GoodLine(x)
  BY <1>1, TypedTables, TypedPlaces DEF GoodPlaceOf, TypeInvWith
<1>3. AllNamed(calls, g)
  BY NoneNamed
<1> HIDE DEF x, calls
<1>4. Placed(lines)
  BY <1>2, PlacedOne
<1> HIDE DEF lines
<1> QED
  BY <1>1, <1>3, <1>4, WritesOn

LEMMA WritePopVarTyped == ASSUME NEW g, TypeInvWith(g), BInv, WritePopVar
                          PROVE  TypeInvWith(g)'
<1> DEFINE calls == << >>
           var == Head(work).var
           x == PopInto(PlaceWith(Tables, var))
           lines == << x >>
<1>1. /\ work # << >> /\ Head(work).do = "pop_var" /\ HasTables /\ Tables # << >>
      /\ mngrs' = WithTables(TablesWith(Tables, var)) /\ work' = calls \o Tail(work)
      /\ asm_file' = asm_file \o lines /\ label_ct' = label_ct /\ bstage' = bstage
  BY DEF WritePopVar, Now, GoOn, Emit, HasTables
<1>2. var \in VarName
  BY <1>1, HeadNamed DEF CallNamed, TypeInvWith
<1>3. GoodLine(x)
  BY <1>1, TypedTables, TypedPlaces DEF GoodPlaceOf, TypeInvWith
<1>4. mngrs' \in Seq(Managers(CellType))
  BY <1>1, <1>2, VariableTyped
<1>5. AllNamed(calls, g)
  BY NoneNamed
<1> HIDE DEF x, calls
<1>6. Placed(lines)
  BY <1>3, PlacedOne
<1> HIDE DEF lines
<1> QED
  BY <1>1, <1>4, <1>5, <1>6, TypedOn

LEMMA VariablesPlaced ==
  ASSUME OwnNames, NEW ts \in Seq(Seq(CellType))
  PROVE  Placed(PushAll(ts)) /\ Placed(PopAll(ts))
<1>1. PushAll(ts) \in Seq(Pushes(ts)) /\ PopAll(ts) \in Seq(Pops(ts))
  BY AllPushed, AllPopped
<1>2. \A x \in Pushes(ts) : GoodLine(x)
  BY TypedCell, Places DEF Pushes, GoodPlaceOf
<1>3. \A x \in Pops(ts) : GoodLine(x)
  BY TypedCell, Places DEF Pops, GoodPlaceOf
<1> QED
  BY <1>1, <1>2, <1>3, PlacedAll

LEMMA WriteFuncTyped == ASSUME NEW g, NamedBy(root, g), TypeInvWith(g), BInv, WriteFunc
                        PROVE  TypeInvWith(g)'
<1> DEFINE calls == Arguments(Visited, Visited.left, 0)
           lines == PushAll(Tables)
<1>1. /\ Now("asmbl") /\ Visited.type \in {"FUNC", "CMD_FUNC"} /\ mngrs' = mngrs /\ work' = calls \o Tail(work)
      /\ asm_file' = asm_file \o lines /\ label_ct' = label_ct /\ bstage' = bstage
  BY DEF WriteFunc, Visiting, GoOn, Emit, Visited
<1>2. work # << >> /\ NodeNamed(Visited, g)
  BY <1>1, VisitedNamed
<1>3. AllNamed(calls, g)
  BY <1>1, <1>2, ArgumentsNamed DEF NodeNamed
<1>4. Placed(lines)
  BY <1>2, TypedTables, VariablesPlaced DEF TypeInvWith
<1> HIDE DEF calls, lines
<1> QED
  BY <1>1, <1>2, <1>3, <1>4, WritesOn

LEMMA WriteCallTyped == ASSUME NEW g, TypeInvWith(g), BInv, WriteCall
                        PROVE  TypeInvWith(g)'
<1> DEFINE func == Head(work).func
           args == Head(work).counter
           exch == PlaceWith(Tables, TempExch)
           a == PopInto(exch)
           b == PushFrom(Place(0))
           c == PushFrom(exch)
           d == PopInto(Place(0))
           saved == IF func.type = "FUNC" THEN << a, b, c, d >> ELSE << d >>
           direct == IF func.type = "FUNC" THEN << b >> ELSE << >>
           end == IF Tables = << << >> >> THEN direct ELSE saved
           pops == [i \in 1..args |-> PopInto(Place(args + 1 - i))]
           call == << Jump("CALL", func.value) >>
           popall == PopAll(Tables)
           lines == pops \o call \o popall \o end
           calls == << >>
<1>1. /\ work # << >> /\ Head(work).do = "arguments" /\ HasTables /\ Tables # << >>
      /\ mngrs' = WithTables(TablesWith(Tables, TempExch)) \/ mngrs' = mngrs
      /\ work' = calls \o Tail(work) /\ asm_file' = asm_file \o lines
      /\ label_ct' = label_ct /\ bstage' = bstage
  BY DEF WriteCall, Now, GoOn, Emit, HasTables
<1>2. args \in Nat /\ func.value \in VarName
  BY <1>1, HeadNamed DEF CallNamed, TypeInvWith
<1>3. Tables \in Seq(Seq(CellType)) /\ Numbered(Tables)
  BY <1>1, TypedTables
<1>4. Placed(end)
  <2>1. GoodLine(a) /\ GoodLine(b) /\ GoodLine(c) /\ GoodLine(d)
    <3>1. GoodPlaceOf(exch) /\ GoodPlaceOf(Place(0))
      BY <1>1, <1>3, TypedPlaces, Places DEF TypeInvWith
    <3> QED
      BY <3>1 DEF GoodPlaceOf
  <2> HIDE DEF a, b, c, d
  <2>2. Placed(<< a, b, c, d >>)
    <3> DEFINE s == << a, b, c, d >>
               S == {a, b, c, d}
    <3>1. s \in Seq(S) /\ \A x \in S : GoodLine(x)
      BY <2>1
    <3> HIDE DEF s, S
    <3>2. Placed(s)
      BY <3>1, PlacedAll
    <3> QED
      BY <3>2 DEF s
  <2>3. Placed(<< b >>) /\ Placed(<< d >>) /\ Placed(<< >>)
    BY <2>1, PlacedOne, PlacedNone
  <2> QED
    BY <2>2, <2>3
<1>5. Placed(pops)
  <2> DEFINE S == {PopInto(Place(args + 1 - i)) : i \in 1..args}
             e(i) == PopInto(Place(args + 1 - i))
  <2>1. \A x \in S : GoodLine(x)
    <3> SUFFICES ASSUME NEW i \in 1..args PROVE GoodLine(PopInto(Place(args + 1 - i)))
      OBVIOUS
    <3>1. args + 1 - i \in Nat
      BY <1>2
    <3> QED
      BY <3>1, Places DEF GoodPlaceOf, TypeInvWith
  <2>2. pops \in Seq(S)
    <3>1. \A i \in 1..args : PopInto(Place(args + 1 - i)) \in S
      OBVIOUS
    <3> HIDE DEF S, args
    <3> QED
      BY <1>2, <3>1, IsASeq
  <2> HIDE DEF S, pops
  <2> QED
    BY <2>1, <2>2, PlacedAll
<1>6. Placed(call)
  <2>1. GoodLine(Jump("CALL", func.value))
    BY <1>2, NoPlace DEF LabelCommands, TypeInvWith
  <2> QED
    BY <2>1, PlacedOne
<1>7. Placed(popall)
  BY <1>3, VariablesPlaced DEF TypeInvWith
<1> HIDE DEF end, pops, call, popall
<1>8. Placed(lines)
  BY <1>4, <1>5, <1>6, <1>7, PlacedJoined
<1>9. AllNamed(calls, g)
  BY NoneNamed
<1>10. mngrs' \in Seq(Managers(CellType))
  <2>1. CASE mngrs' = WithTables(TablesWith(Tables, TempExch))
    BY <1>1, <2>1, OwnAreNames, VariableTyped DEF TypeInvWith
  <2>2. CASE mngrs' = mngrs
    BY <2>2 DEF TypeInvWith
  <2> QED
    BY <1>1, <2>1, <2>2
<1> HIDE DEF lines, calls
<1> QED
  BY <1>1, <1>8, <1>9, <1>10, TypedOn

LEMMA ScopeStartTyped == ASSUME NEW g, NamedBy(root, g), TypeInvWith(g), BInv, ScopeStart
                         PROVE  TypeInvWith(g)'
<1> DEFINE calls == Asmbl(Visited.left) \o Asmbl(Visited.right)
           m == Upgraded(mngrs[1])
<1>1. /\ Now("asmbl") /\ Tables # << >> /\ mngrs' = [mngrs EXCEPT ![1] = m]
      /\ work' = calls \o Tail(work)
      /\ asm_file' = asm_file /\ label_ct' = label_ct /\ bstage' = bstage
  BY DEF ScopeStart, Visiting, GoOn, Children, HasTables
<1>2. work # << >> /\ AllNamed(calls, g)
  BY <1>1, VisitedNamed, NamedJoined
<1>3. mngrs[1] \in Managers(CellType) /\ Tables \in Seq(Seq(CellType)) /\ Tables = mngrs[1].tables
  BY <1>2, TypedTables
<1>4. m \in Managers(CellType)
  <2>1. CASE mngrs[1].in_func_start
    <3>1. m = [mngrs[1] EXCEPT !.in_func_start = FALSE]
      BY <2>1 DEF Upgraded
    <3> HIDE DEF m
    <3> QED
      BY <1>3, <3>1 DEF Managers
  <2>2. CASE ~mngrs[1].in_func_start
    <3> DEFINE ts == Append(Tables, << >>)
    <3>1. m = [mngrs[1] EXCEPT !.tables = ts]
      BY <1>3, <2>2 DEF Upgraded
    <3>2. ts \in Seq(Seq(CellType))
      BY <1>3, EmptySeq, AppendProperties
    <3> HIDE DEF m, ts
    <3> QED
      BY <1>3, <3>1, <3>2 DEF Managers
  <2> QED
    BY <2>1, <2>2
<1> HIDE DEF m
<1>5. mngrs' \in Seq(Managers(CellType))
  BY <1>1, <1>2, <1>4, FirstTyped
<1> HIDE DEF calls
<1> QED
  BY <1>1, <1>2, <1>5, SilentlyOn

LEMMA ScopeEndTyped == ASSUME NEW g, NamedBy(root, g), TypeInvWith(g), BInv, ScopeEnd
                       PROVE  TypeInvWith(g)'
<1> DEFINE calls == Asmbl(Visited.left) \o Asmbl(Visited.right)
           m == Downgraded(mngrs[1])
<1>1. /\ Now("asmbl") /\ mngrs' = [mngrs EXCEPT ![1] = m]
      /\ work' = calls \o Tail(work)
      /\ asm_file' = asm_file /\ label_ct' = label_ct /\ bstage' = bstage
  BY DEF ScopeEnd, Visiting, GoOn, Children
<1>2. work # << >> /\ AllNamed(calls, g)
  BY <1>1, VisitedNamed, NamedJoined
<1>3. /\ mngrs[1] \in Managers(CellType) /\ Tables \in Seq(Seq(CellType)) /\ Tables = mngrs[1].tables
      /\ Numbered(Tables) /\ Len(Tables) \in Nat
  BY <1>2, TypedTables, LenProperties
<1>4. m \in Managers(CellType)
  <2> DEFINE ts == IF Len(Tables) <= 1 THEN << >> ELSE SubSeq(Tables, 1, Len(Tables) - 1)
  <2>1. m = [mngrs[1] EXCEPT !.tables = ts]
    BY <1>3 DEF Downgraded
  <2>2. ts \in Seq(Seq(CellType))
    <3>1. CASE Len(Tables) <= 1
      BY <3>1, EmptySeq
    <3>2. CASE Len(Tables) > 1
      BY <1>3, <3>2, ScopeClosed
    <3> QED
      BY <1>3, <3>1, <3>2
  <2> HIDE DEF m, ts
  <2> QED
    BY <1>3, <2>1, <2>2 DEF Managers
<1> HIDE DEF m
<1>5. mngrs' \in Seq(Managers(CellType))
  BY <1>1, <1>2, <1>4, FirstTyped
<1> HIDE DEF calls
<1> QED
  BY <1>1, <1>2, <1>5, SilentlyOn

(* A manager of a function or of main comes first, or goes.                *)
LEMMA AddedTyped ==
  ASSUME NEW g, TypeInvWith(g), NEW m \in Managers(CellType), mngrs' = << m >> \o mngrs
  PROVE  mngrs' \in Seq(Managers(CellType))
<1>1. << m >> \in Seq(Managers(CellType)) /\ mngrs \in Seq(Managers(CellType))
  BY DEF TypeInvWith
<1> QED
  BY <1>1, ConcatProperties

LEMMA LeaveTyped == ASSUME NEW g, TypeInvWith(g), Leave PROVE TypeInvWith(g)'
<1> DEFINE calls == << >>
<1>1. /\ work # << >> /\ mngrs' = SubSeq(mngrs, 2, Len(mngrs)) /\ work' = calls \o Tail(work)
      /\ asm_file' = asm_file /\ label_ct' = label_ct /\ bstage' = bstage
  BY DEF Leave, Now, GoOn
<1>2. AllNamed(calls, g)
  BY NoneNamed
<1> HIDE DEF calls
<1>3. mngrs' \in Seq(Managers(CellType))
  <2>1. mngrs \in Seq(Managers(CellType)) /\ Len(mngrs) \in Nat
    BY LenProperties DEF TypeInvWith
  <2>2. \A i \in 2..Len(mngrs) : i \in 1..Len(mngrs) /\ mngrs[i] \in Managers(CellType)
    BY <2>1, ElementOfSeq
  <2> QED
    BY <1>1, <2>1, <2>2, SubSeqProperties
<1> QED
  BY <1>1, <1>2, <1>3, SilentlyOn

LEMMA WriteFuncDeclTyped == ASSUME NEW g, NamedBy(root, g), TypeInvWith(g), WriteFuncDecl
                            PROVE  TypeInvWith(g)'
<1> DEFINE c == Cell(RetVar, 0)
           m == Manager(<< << c >> >>, TRUE)
           calls == Parameters(Visited, Visited.left, 1)
<1>1. /\ Now("asmbl") /\ Visited.type = "FUNC_DECL" /\ mngrs' = << m >> \o mngrs
      /\ work' = calls \o Tail(work)
      /\ asm_file' = asm_file /\ label_ct' = label_ct /\ bstage' = bstage
  BY DEF WriteFuncDecl, Visiting, GoOn, Visited
<1>2. work # << >> /\ NodeNamed(Visited, g)
  BY <1>1, VisitedNamed
<1>3. AllNamed(calls, g)
  BY <1>1, <1>2, ParametersNamed DEF NodeNamed
<1>4. c \in CellType
  BY OwnAreNames DEF Cell, CellType, VarName, TypeInvWith
<1> HIDE DEF c
<1>5. m \in Managers(CellType)
  BY <1>4 DEF Manager, Managers
<1> HIDE DEF m, calls
<1>6. mngrs' \in Seq(Managers(CellType))
  BY <1>1, <1>5, AddedTyped
<1> QED
  BY <1>1, <1>2, <1>3, <1>6, SilentlyOn

LEMMA WriteMainTyped == ASSUME NEW g, NamedBy(root, g), TypeInvWith(g), WriteMain
                        PROVE  TypeInvWith(g)'
<1> DEFINE m == Manager(<< << >> >>, TRUE)
           body == Asmbl(Visited.right)
           leave == Todo("leave")
           calls == body \o leave
           lines == << LabelLine(MainLabel) >>
<1>1. /\ Now("asmbl") /\ mngrs' = << m >> \o mngrs
      /\ work' = calls \o Tail(work) /\ asm_file' = asm_file \o lines
      /\ label_ct' = label_ct /\ bstage' = bstage
  BY DEF WriteMain, Visiting, GoOn, Emit
<1>2. work # << >> /\ AllNamed(body, g) /\ AllNamed(leave, g)
  BY <1>1, VisitedNamed, OtherNamed
<1>3. AllNamed(calls, g)
  BY <1>2, NamedJoined
<1>4. Placed(lines)
  <2>1. GoodLine(LabelLine(MainLabel))
    <3>1. OwnNames /\ MainLabel \in VarName
      BY DEF OwnNames, TypeInvWith
    <3> QED
      BY <3>1, NoPlace
  <2> QED
    BY <2>1, PlacedOne
<1>5. << << >> >> \in Seq(Seq(CellType))
  BY EmptySeq
<1>6. m \in Managers(CellType)
  BY <1>5 DEF Manager, Managers
<1> HIDE DEF m, calls, lines
<1>7. mngrs' \in Seq(Managers(CellType))
  BY <1>1, <1>6, AddedTyped
<1> QED
  BY <1>1, <1>2, <1>3, <1>4, <1>7, TypedOn

LEMMA WriteBodyTyped == ASSUME NEW g, TypeInvWith(g), WriteBody
                        PROVE  TypeInvWith(g)'
<1> DEFINE func == Head(work).func
           body == Asmbl(func.right)
           ret == Write(<< NoArg("RET") >>)
           leave == Todo("leave")
           calls == body \o ret \o leave
           lines == << LabelLine(func.value) >>
<1>1. /\ work # << >> /\ Head(work).do = "parameters" /\ mngrs' = mngrs
      /\ work' = calls \o Tail(work) /\ asm_file' = asm_file \o lines
      /\ label_ct' = label_ct /\ bstage' = bstage
  BY DEF WriteBody, Now, GoOn, Emit
<1>2. func.right \in g.nodes \cup {NoNode} /\ func.value \in VarName
  BY <1>1, HeadNamed DEF CallNamed, TypeInvWith
<1>3. AllNamed(body, g) /\ AllNamed(leave, g)
  BY <1>2, NodeIsNamed, OtherNamed
<1>4. AllNamed(ret, g)
  <2>1. GoodLine(NoArg("RET"))
    BY NoPlace DEF PlainCommands, TypeInvWith
  <2> QED
    BY <2>1, PlacedOne, OtherNamed
<1>5. Placed(lines)
  <2>1. GoodLine(LabelLine(func.value))
    BY <1>2, NoPlace DEF TypeInvWith
  <2> QED
    BY <2>1, PlacedOne
<1> HIDE DEF body, ret, leave, lines
<1>6. AllNamed(calls, g)
  BY <1>3, <1>4, NamedJoined
<1> HIDE DEF calls
<1> QED
  BY <1>1, <1>5, <1>6, WritesOn

LEMMA WriteParameterTyped == ASSUME NEW g, NamedBy(root, g), TypeInvWith(g), BInv, WriteParameter
                             PROVE  TypeInvWith(g)'
<1> DEFINE x == Head(work)
           c == Cell(x.comma.left.value, x.counter)
           calls == Parameters(x.func, x.comma.right, x.counter + 1)
           ts == Tables
           v == Append(ts[1], c)
           us == [ts EXCEPT ![1] = v]
           m == [mngrs[1] EXCEPT !.tables = us]
<1>1. /\ work # << >> /\ x.do = "parameters" /\ x.comma # NoNode
      /\ mngrs' = [mngrs EXCEPT ![1] = m] /\ work' = calls \o Tail(work)
      /\ asm_file' = asm_file /\ label_ct' = label_ct /\ bstage' = bstage
  BY DEF WriteParameter, Now, GoOn, WithTables
<1>2. /\ x.comma \in g.commas /\ x.counter \in Nat /\ x.counter + 1 \in Nat
      /\ x.func.right \in g.nodes \cup {NoNode} /\ x.func.value \in VarName
  BY <1>1, HeadNamed DEF CallNamed, TypeInvWith
<1>3. x.comma.left.value \in VarName /\ x.comma.right \in g.commas \cup {NoNode}
  BY <1>2 DEF NamedBy
<1>4. AllNamed(calls, g)
  BY <1>2, <1>3, ParametersNamed
<1>5. mngrs[1] \in Managers(CellType) /\ ts \in Seq(Seq(CellType)) /\ ts = mngrs[1].tables
  BY <1>1, TypedTables
<1>6. Len(ts) = 1
  BY <1>1 DEF BInv, WorkInv, CountsParameters, Tables
<1>7. 1 \in 1..Len(ts)
  BY <1>6
<1>8. c \in CellType
  BY <1>2, <1>3 DEF Cell, CellType, VarName
<1> HIDE DEF c, calls, ts
<1>9. v \in Seq(CellType)
  BY <1>5, <1>7, <1>8, ElementOfSeq, AppendProperties
<1> HIDE DEF v
<1>10. us \in Seq(Seq(CellType))
  BY <1>5, <1>7, <1>9, ExceptSeq
<1> HIDE DEF us
<1>11. m \in Managers(CellType)
  BY <1>5, <1>10 DEF Managers
<1> HIDE DEF m
<1>12. mngrs' \in Seq(Managers(CellType))
  BY <1>1, <1>11, FirstTyped
<1> QED
  BY <1>1, <1>4, <1>12, SilentlyOn

LEMMA AssembledTyped == ASSUME NEW g, TypeInvWith(g), Assembled PROVE TypeInvWith(g)'
<1> DEFINE lines == << NoArg("HLT") >>
<1>1. /\ work' = work /\ mngrs' = mngrs /\ label_ct' = label_ct
      /\ asm_file' = asm_file \o lines /\ bstage' = "written"
  BY DEF Assembled, Emit
<1>2. Placed(lines)
  <2>1. GoodLine(NoArg("HLT"))
    BY NoPlace DEF PlainCommands, TypeInvWith
  <2> QED
    BY <2>1, PlacedOne
<1> HIDE DEF lines
<1>3. Placed(asm_file')
  BY <1>1, <1>2, PlacedJoined DEF TypeInvWith
<1> QED
  BY <1>1, <1>3 DEF TypeInvWith

-------------------------------------------------------------------------------
LEMMA TypesStart == ASSUME OwnNames, NEW tree, WellNamed(tree), Begin(tree) PROVE TypeInv
<1> DEFINE g == Naming(tree)
           calls == Asmbl(tree)
<1>1. NamedBy(tree, g)
  BY DEF WellNamed, Naming
<1> HIDE DEF g
<1>2. AllNamed(calls, g)
  BY <1>1, NodeIsNamed DEF NamedBy
<1>3. Placed(<< >>)
  BY PlacedNone
<1>4. << NoTables >> \in Seq(Managers(CellType))
  <2>1. << >> \in Seq(Seq(CellType))
    BY EmptySeq
  <2>2. NoTables \in Managers(CellType)
    BY <2>1 DEF NoTables, Manager, Managers
  <2> QED
    BY <2>2
<1> HIDE DEF calls
<1>5. root = tree /\ work = calls /\ mngrs = << NoTables >> /\ label_ct = 0 /\ asm_file = << >>
      /\ bstage = "asmbl"
  BY DEF Begin, calls
<1>6. TypeInvWith(g)
  BY <1>2, <1>3, <1>4, <1>5 DEF TypeInvWith
<1> QED
  BY <1>1, <1>5, <1>6 DEF TypeInv, g

(* Every step keeps the types.                                             *)
LEMMA TypesStep ==
  ASSUME NEW g, NamedBy(root, g), TypeInvWith(g), BInv, [BNext]_bvars
  PROVE  TypeInvWith(g)' /\ root' = root
<1>1. root' = root
  BY DEF BNext, ScopeStart, ScopeEnd, Semicolon, WriteLines, WriteNum, WriteVar, WritePopVar,
         WriteOp, WriteGetvar, WritePutexpr, WriteCondExpr, WriteCondEnd, WriteWhile, WriteIf,
         WriteIfTest, WriteIfEnd, WriteFunc, WriteArgument, WriteCall, WriteFuncDecl,
         WriteParameter, WriteBody, WriteMain, Leave, WriteReturn, UseWithoutTables,
         Assembled, bvars
<1>2. CASE ScopeStart
  BY <1>1, <1>2, ScopeStartTyped
<1>3. CASE ScopeEnd
  BY <1>1, <1>3, ScopeEndTyped
<1>4. CASE Semicolon
  BY <1>1, <1>4, SemicolonTyped
<1>5. CASE WriteLines \/ WriteNum \/ WriteCondEnd \/ WriteIfTest \/ WriteIfEnd
  BY <1>1, <1>5, EndsTyped
<1>6. CASE WriteVar
  BY <1>1, <1>6, WriteVarTyped
<1>7. CASE WritePopVar
  BY <1>1, <1>7, WritePopVarTyped
<1>8. CASE WriteOp
  BY <1>1, <1>8, WriteOpTyped
<1>9. CASE WriteGetvar
  BY <1>1, <1>9, WriteGetvarTyped
<1>10. CASE WritePutexpr
  BY <1>1, <1>10, WritePutexprTyped
<1>11. CASE WriteCondExpr
  BY <1>1, <1>11, WriteCondExprTyped
<1>12. CASE WriteWhile
  BY <1>1, <1>12, WriteWhileTyped
<1>13. CASE WriteIf
  BY <1>1, <1>13, WriteIfTyped
<1>14. CASE WriteFunc
  BY <1>1, <1>14, WriteFuncTyped
<1>15. CASE WriteArgument
  BY <1>1, <1>15, WriteArgumentTyped
<1>16. CASE WriteCall
  BY <1>1, <1>16, WriteCallTyped
<1>17. CASE WriteFuncDecl
  BY <1>1, <1>17, WriteFuncDeclTyped
<1>18. CASE WriteParameter
  BY <1>1, <1>18, WriteParameterTyped
<1>19. CASE WriteBody
  BY <1>1, <1>19, WriteBodyTyped
<1>20. CASE WriteMain
  BY <1>1, <1>20, WriteMainTyped
<1>21. CASE Leave
  BY <1>1, <1>21, LeaveTyped
<1>22. CASE WriteReturn
  BY <1>1, <1>22, WriteReturnTyped
<1>23. CASE Assembled
  BY <1>1, <1>23, AssembledTyped
<1>24. CASE UseWithoutTables \/ UNCHANGED bvars
  BY <1>1, <1>24 DEF UseWithoutTables, bvars, TypeInvWith
<1> QED
  BY <1>1, <1>2, <1>3, <1>4, <1>5, <1>6, <1>7, <1>8, <1>9,
     <1>10, <1>11, <1>12, <1>13, <1>14, <1>15, <1>16, <1>17, <1>18,
     <1>19, <1>20, <1>21, <1>22, <1>23, <1>24 DEF BNext

LEMMA TypesStay ==
  TypeInv /\ BInv /\ [BNext]_bvars => TypeInv'
<1> SUFFICES ASSUME TypeInv, BInv, [BNext]_bvars PROVE TypeInv'
  OBVIOUS
<1> DEFINE g == Naming(root)
<1>1. NamedBy(root, g) /\ TypeInvWith(g)
  BY DEF TypeInv
<1>2. root' = root
  BY <1>1, TypesStep
<1>3. PICK h : h = g
  OBVIOUS
<1>4. TypeInvWith(h)' /\ h = Naming(root')
  BY <1>1, <1>2, <1>3, TypesStep
<1> QED
  BY <1>1, <1>2, <1>3, <1>4 DEF TypeInv

LEMMA TypesHold == TypeInv /\ BInv => BackendTypeOK
<1> SUFFICES ASSUME TypeInv, BInv PROVE BackendTypeOK
  OBVIOUS
<1>1. /\ mngrs \in Seq(Managers(CellType)) /\ label_ct \in Nat /\ Placed(asm_file)
      /\ bstage \in {"wait", "asmbl", "written", "undefined"}
  BY DEF TypeInv, TypeInvWith
<1>2. mngrs # << >>
  BY AManager
<1>3. \A k \in 1..Len(mngrs) : mngrs[k] \in Managers(CellType)
  BY <1>1, ElementOfSeq
<1>4. ASSUME NEW k \in DOMAIN mngrs
      PROVE  /\ mngrs[k].in_func_start \in BOOLEAN
             /\ \A l \in DOMAIN mngrs[k].tables : \A c \in DOMAIN mngrs[k].tables[l] :
                  mngrs[k].tables[l][c] \in CellType
  <2> DEFINE ts == mngrs[k].tables
  <2>1. mngrs[k] \in Managers(CellType)
    BY <1>1, <1>3
  <2>2. ts \in Seq(Seq(CellType)) /\ mngrs[k].in_func_start \in BOOLEAN
    BY <2>1 DEF Managers
  <2> HIDE DEF ts
  <2>3. ASSUME NEW l \in DOMAIN ts, NEW c \in DOMAIN ts[l] PROVE ts[l][c] \in CellType
    <3>1. ts[l] \in Seq(CellType)
      BY <2>2, ElementOfSeq
    <3> QED
      BY <3>1, ElementOfSeq
  <2> QED
    BY <2>2, <2>3 DEF ts
<1>5. \A i \in DOMAIN asm_file : GoodLine(asm_file[i])
  <2>1. PICK W : asm_file \in Seq(W)
    BY <1>1 DEF Placed, IsSeq
  <2> QED
    BY <1>1, <2>1 DEF Placed
<1> QED
  BY <1>1, <1>2, <1>4, <1>5 DEF BackendTypeOK

(* The tables hold cells, named after what the program or the backend      *)
(* names and numbered from 0, and everything that is written is a line the *)
(* assembler reads, which names a register, a RAM cell or the place        *)
(* "(null)" is taken for, if any (get_loc, push_all, pop_all, write_func), *)
(* in every program whose variables, parameters and functions have names   *)
(* and whose numbers are whole, as all numbers of the models are.  The     *)
(* backend's own names are a premise because the prover knows of no string *)
(* literal that it is a STRING.                                            *)
THEOREM BackendTypes ==
  ASSUME \A tree \in Trees : WellNamed(tree), OwnNames
  PROVE  BSpec => []BackendTypeOK
<1>1. BInit => BInv /\ TypeInv
  <2> SUFFICES ASSUME BInit PROVE BInv /\ TypeInv
    OBVIOUS
  <2>1. PICK tree \in Trees : Begin(tree)
    BY DEF BInit
  <2> QED
    BY <2>1, TypesStart, BackendStarts
<1>2. BInv /\ TypeInv /\ [BNext]_bvars => (BInv /\ TypeInv)'
  BY BackendStep, TypesStay
<1>3. BInv /\ TypeInv => BackendTypeOK
  BY TypesHold
<1> QED
  BY <1>1, <1>2, <1>3, PTL DEF BSpec
===============================================================================
