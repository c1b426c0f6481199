--------------------------- MODULE NativeTurnProofs ---------------------------
(***************************************************************************)
(* What NativeTurn promises, for any number of turns, events, messages and *)
(* tokens: commands are settled before the next is sent, an answer is      *)
(* complete, and the recorded usage adds up.                               *)
(***************************************************************************)
EXTENDS NativeTurn, Integers, WellFoundedInduction, TLAPS

-----------------------------------------------------------------------------
(* Induction, from the well-foundedness of < alone, and what a fold over a *)
(* sequence computes                                                       *)

(* A nonempty set of numbers has a least one.                              *)
LEMMA LeastNumber ==
    ASSUME NEW T \in SUBSET Nat, T # {}
    PROVE  \E m \in T : \A k \in T : m <= k
<1> DEFINE Less == {p \in Nat \X Nat : p[1] < p[2]}
<1>1. IsWellFoundedOn(Less, Nat)
  BY NatLessThanWellFounded DEF OpToRel
<1>2. \A x, y \in T : y < x => <<y, x>> \in Less
  OBVIOUS
<1> HIDE DEF Less
<1>3. \E x \in T : \A y \in T : ~(<<y, x>> \in Less)
  BY <1>1, WFMin
<1>4. PICK m \in T : \A y \in T : ~(y < m)
  BY <1>2, <1>3
<1> QED
  BY <1>4

(* Induction up to n, over the set of the numbers that have the property.  *)
LEMMA CountingUp ==
    ASSUME NEW n \in Nat, NEW G \in SUBSET Nat, 0 \in G,
           \A k \in 0..(n - 1) : k \in G => k + 1 \in G
    PROVE  n \in G
<1>1. SUFFICES ASSUME n \notin G PROVE FALSE
  OBVIOUS
<1> DEFINE T == {k \in Nat : k \notin G}
<1>2. T \in SUBSET Nat /\ T # {} /\ n \in T
  BY <1>1
<1> HIDE DEF T
<1>3. PICK m \in T : \A k \in T : m <= k
  BY <1>2, LeastNumber
<1>4. m \in Nat /\ m \notin G
  BY <1>3 DEF T
<1>5. m # 0 /\ m <= n
  BY <1>2, <1>3, <1>4
<1>6. m - 1 \in 0..(n - 1) /\ m - 1 \notin T
  BY <1>3, <1>4, <1>5
<1> QED
  BY <1>4, <1>6 DEF T

(* The largest element of a set, if it has one, is what Max chooses.       *)
LEMMA MaxIsLargest ==
    ASSUME NEW s \in SUBSET Nat, NEW k \in s, \A y \in s : k >= y
    PROVE  Max(s) = k
<1>1. Max(s) \in s /\ \A y \in s : Max(s) >= y
  BY DEF Max
<1>2. Max(s) \in Nat /\ k \in Nat /\ Max(s) >= k /\ k >= Max(s)
  BY <1>1
<1> QED
  BY <1>2

(* Every nonempty set of indices has a largest element.                    *)
LEMMA MaxInside ==
    ASSUME NEW n \in Nat, NEW s \in SUBSET (1..n), s # {}
    PROVE  Max(s) \in s
<1> DEFINE T == {k \in Nat : n - k \in s}
<1>1. \A y \in s : n - y \in Nat /\ n - (n - y) = y
  OBVIOUS
<1>2. \A y \in s : n - y \in T
  BY <1>1
<1>3. T \in SUBSET Nat /\ T # {}
  BY <1>2
<1>4. PICK m \in T : \A k \in T : m <= k
  BY <1>3, LeastNumber
<1>5. n - m \in s /\ \A y \in s : n - m >= y
  BY <1>2, <1>4
<1>6. s \in SUBSET Nat
  OBVIOUS
<1> QED
  BY <1>5, <1>6, MaxIsLargest

(* The table that FoldLeft tabulates over the sets of indices up to k:     *)
(* step[i] is what the element at i does to the accumulator.               *)
IsTable(table, k, base, step) ==
    \A s \in SUBSET (1..k) :
        table[s] = IF s = {} THEN base ELSE step[Max(s)][table[s \ {Max(s)}]]

(* Such a table exists.                                                    *)
LEMMA TableExists ==
    ASSUME NEW C, NEW base \in C, NEW n \in Nat, NEW step \in [1..n -> [C -> C]]
    PROVE  \E table \in [SUBSET (1..n) -> C] : IsTable(table, n, base, step)
<1> DEFINE Good(k) == \E table \in [SUBSET (1..k) -> C] : IsTable(table, k, base, step)
           G == {k \in Nat : Good(k)}
<1>1. Good(0)
  <2> DEFINE t == [s \in SUBSET (1..0) |-> base]
  <2>1. t \in [SUBSET (1..0) -> C]
    OBVIOUS
  <2>2. \A s \in SUBSET (1..0) : s = {} /\ t[s] = base
    OBVIOUS
  <2> HIDE DEF t
  <2>3. IsTable(t, 0, base, step)
    BY <2>2 DEF IsTable
  <2> QED
    BY <2>1, <2>3
<1>2. ASSUME NEW k \in 0..(n - 1), Good(k)
      PROVE  Good(k + 1)
  <2>1. PICK t \in [SUBSET (1..k) -> C] : IsTable(t, k, base, step)
    BY <1>2
  <2> DEFINE u == [s \in SUBSET (1..(k + 1)) |->
                      IF k + 1 \in s THEN step[k + 1][t[s \ {k + 1}]] ELSE t[s]]
  <2>2. \A s \in SUBSET (1..(k + 1)) :
           s \ {k + 1} \in SUBSET (1..k) /\ (k + 1 \notin s => s \in SUBSET (1..k))
    OBVIOUS
  <2>3. step[k + 1] \in [C -> C]
    OBVIOUS
  <2>4. u \in [SUBSET (1..(k + 1)) -> C]
    BY <2>2, <2>3
  <2>5. ASSUME NEW s \in SUBSET (1..(k + 1))
        PROVE  u[s] = IF s = {} THEN base ELSE step[Max(s)][u[s \ {Max(s)}]]
    <3>1. CASE k + 1 \in s
      <4>1. s \in SUBSET Nat /\ \A y \in s : k + 1 >= y
        OBVIOUS
      <4>2. Max(s) = k + 1
        BY <3>1, <4>1, MaxIsLargest
      <4>3. s \ {k + 1} \in SUBSET (1..(k + 1)) /\ u[s \ {k + 1}] = t[s \ {k + 1}]
        BY <2>2
      <4> QED
        BY <3>1, <4>2, <4>3
    <3>2. CASE k + 1 \notin s
      <4>1. s \in SUBSET (1..k)
        BY <3>2, <2>2
      <4>2. u[s] = t[s]
        BY <3>2
      <4>3. s \ {Max(s)} \in SUBSET (1..(k + 1)) /\ k + 1 \notin s \ {Max(s)}
        BY <3>2
      <4>4. u[s \ {Max(s)}] = t[s \ {Max(s)}]
        BY <4>3
      <4> HIDE DEF u
      <4> QED
        BY <4>1, <4>2, <4>4, <2>1 DEF IsTable
    <3> QED
      BY <3>1, <3>2
  <2> HIDE DEF u
  <2>6. IsTable(u, k + 1, base, step)
    BY <2>5 DEF IsTable
  <2> QED
    BY <2>4, <2>6
<1> HIDE DEF Good
<1>3. 0 \in G /\ \A k \in 0..(n - 1) : k \in G => k + 1 \in G
  BY <1>1, <1>2
<1> HIDE DEF G
<1>4. n \in G
  BY <1>3, CountingUp DEF G
<1> QED
  BY <1>4 DEF Good, G

(* The index sets that a fold passes through from left to right.           *)
LEMMA PrefixIndices ==
    ASSUME NEW n \in Nat, NEW i \in 1..n
    PROVE  /\ 1..i \in SUBSET (1..n) /\ 1..i # {} /\ 1..(i - 1) \in SUBSET (1..n)
           /\ Max(1..i) = i /\ (1..i) \ {i} = 1..(i - 1)
<1>1. /\ 1..i \in SUBSET (1..n) /\ 1..i # {} /\ 1..(i - 1) \in SUBSET (1..n)
      /\ (1..i) \ {i} = 1..(i - 1)
  OBVIOUS
<1>2. 1..i \in SUBSET Nat /\ i \in 1..i /\ \A y \in 1..i : i >= y
  OBVIOUS
<1> QED
  BY <1>1, <1>2, MaxIsLargest

IntDeltas(q, S) == \A u \in S : Delta(q, u) \in Int

(* Counted adds up the deltas from left to right.                          *)
LEMMA CountedRun ==
    ASSUME NEW q, NEW S, IntDeltas(q, S), NEW usages \in Seq(S)
    PROVE  \E a \in [0..Len(usages) -> Int] :
               /\ a[0] = 0
               /\ \A i \in 1..Len(usages) : a[i] = a[i - 1] + Delta(q, usages[i])
               /\ Counted(q, usages) = a[Len(usages)]
<1> DEFINE n == Len(usages)
           step == [i \in 1..n |-> [c \in Int |-> c + Delta(q, usages[i])]]
<1>1. n \in Nat /\ DOMAIN usages = 1..n /\ \A i \in 1..n : Delta(q, usages[i]) \in Int
  BY DEF IntDeltas
<1>2. step \in [1..n -> [Int -> Int]] /\ 0 \in Int
  BY <1>1
<1>3. \A i \in 1..n, c \in Int : step[i][c] = c + Delta(q, usages[i])
  OBVIOUS
<1> HIDE DEF step, n
<1>4. PICK t \in [SUBSET (1..n) -> Int] : IsTable(t, n, 0, step)
  BY <1>1, <1>2, TableExists
<1>5. \A s \in SUBSET (1..n) : s # {} => Max(s) \in s
  BY <1>1, MaxInside
<1>6. t = [s \in SUBSET (1..n) |->
              IF s = {} THEN 0 ELSE t[s \ {Max(s)}] + Delta(q, usages[Max(s)])]
  BY <1>3, <1>4, <1>5 DEF IsTable
<1> DEFINE h == CHOOSE h : h = [s \in SUBSET (1..n) |->
                     IF s = {} THEN 0 ELSE h[s \ {Max(s)}] + Delta(q, usages[Max(s)])]
<1>7. h = [s \in SUBSET (1..n) |->
              IF s = {} THEN 0 ELSE h[s \ {Max(s)}] + Delta(q, usages[Max(s)])]
  BY <1>6
<1>8. Counted(q, usages) = h[1..n]
  BY <1>1 DEF Counted, FoldLeft, MapThenFoldSet
<1> HIDE DEF h
<1>9. h[1..0] = 0
  BY <1>7
<1>10. ASSUME NEW i \in 1..n
       PROVE  h[1..i] = h[1..(i - 1)] + Delta(q, usages[i])
  <2>1. /\ 1..i \in SUBSET (1..n) /\ 1..i # {}
        /\ Max(1..i) = i /\ (1..i) \ {i} = 1..(i - 1)
    BY <1>1, PrefixIndices
  <2> QED
    BY <1>7, <2>1
<1> DEFINE G == {k \in Nat : k <= n => h[1..k] \in Int}
           a == [i \in 0..n |-> h[1..i]]
<1>11. 0 \in G /\ \A k \in 0..(n - 1) : k \in G => k + 1 \in G
  <2>1. 0 \in G
    BY <1>9
  <2>2. ASSUME NEW k \in 0..(n - 1), k \in G PROVE k + 1 \in G
    <3>1. k + 1 \in 1..n /\ (k + 1) - 1 = k /\ h[1..k] \in Int
      BY <2>2, <1>1
    <3>2. h[1..(k + 1)] = h[1..k] + Delta(q, usages[k + 1])
      BY <3>1, <1>10
    <3> QED
      BY <3>1, <3>2, <1>1
  <2> QED
    BY <2>1, <2>2
<1>12. \A k \in 0..n : h[1..k] \in Int
  <2>1. ASSUME NEW k \in 0..n PROVE k \in G
    <3> HIDE DEF G
    <3>1. k \in Nat /\ G \in SUBSET Nat /\ \A j \in 0..(k - 1) : j \in G => j + 1 \in G
      BY <1>1, <1>11 DEF G
    <3> QED
      BY <3>1, <1>11, CountingUp
  <2> QED
    BY <2>1, <1>1
<1>13. a \in [0..n -> Int] /\ a[0] = 0 /\ a[n] = h[1..n]
  BY <1>1, <1>9, <1>12
<1>14. \A i \in 1..n : a[i] = a[i - 1] + Delta(q, usages[i])
  BY <1>1, <1>10
<1> HIDE DEF a
<1> QED
  BY <1>8, <1>13, <1>14 DEF n

(* One more row adds its delta.                                            *)
LEMMA CountedAppend ==
    ASSUME NEW q, NEW S, IntDeltas(q, S), NEW usages \in Seq(S), NEW w \in S
    PROVE  Counted(q, Append(usages, w)) = Counted(q, usages) + Delta(q, w) /\ Counted(q, usages) \in Int
<1> DEFINE n == Len(usages)
           more == Append(usages, w)
<1>1. n \in Nat /\ more \in Seq(S) /\ Len(more) = n + 1 /\ more[n + 1] = w
      /\ \A i \in 1..n : more[i] = usages[i]
  OBVIOUS
<1> HIDE DEF n, more
<1>2. PICK a \in [0..n -> Int] :
         /\ a[0] = 0 /\ \A i \in 1..n : a[i] = a[i - 1] + Delta(q, usages[i])
         /\ Counted(q, usages) = a[n]
  BY CountedRun DEF n
<1>3. PICK b \in [0..(n + 1) -> Int] :
         /\ b[0] = 0 /\ \A i \in 1..(n + 1) : b[i] = b[i - 1] + Delta(q, more[i])
         /\ Counted(q, more) = b[n + 1]
  <2>1. \E b \in [0..Len(more) -> Int] :
           /\ b[0] = 0 /\ \A i \in 1..Len(more) : b[i] = b[i - 1] + Delta(q, more[i])
           /\ Counted(q, more) = b[Len(more)]
    BY <1>1, CountedRun
  <2> QED
    BY <1>1, <2>1
<1> DEFINE G == {k \in Nat : k <= n => a[k] = b[k]}
<1>4. 0 \in G /\ \A k \in 0..(n - 1) : k \in G => k + 1 \in G
  <2>1. 0 \in G
    BY <1>2, <1>3
  <2>2. ASSUME NEW k \in 0..(n - 1), k \in G PROVE k + 1 \in G
    <3>1. k + 1 \in 1..n /\ k + 1 \in 1..(n + 1) /\ (k + 1) - 1 = k /\ a[k] = b[k]
      BY <2>2, <1>1
    <3>2. a[k + 1] = a[k] + Delta(q, usages[k + 1]) /\ b[k + 1] = b[k] + Delta(q, more[k + 1])
      BY <3>1, <1>2, <1>3
    <3>3. a[k + 1] = b[k + 1]
      BY <3>1, <3>2, <1>1
    <3> QED
      BY <3>3
  <2> QED
    BY <2>1, <2>2
<1> HIDE DEF G
<1>5. n \in G
  BY <1>1, <1>4, CountingUp DEF G
<1>6. a[n] = b[n] /\ n + 1 \in 1..(n + 1) /\ (n + 1) - 1 = n
  BY <1>1, <1>5 DEF G
<1>7. b[n + 1] = b[n] + Delta(q, more[n + 1])
  BY <1>3, <1>6
<1> QED
  BY <1>1, <1>2, <1>3, <1>6, <1>7 DEF more

-----------------------------------------------------------------------------
(* The rows of a conversation: counters, totals and what is counted of them *)

Totals == UNION {[S -> Nat] : S \in SUBSET Counters}
Usages == [turn : Nat \ {0}, cumulative : Totals, delta : UNION {[S -> Int] : S \in SUBSET Counters}]

CountedTo(rs, q, n) == Counted(q, SubSeq(rs, 1, n))
HasAt(rs, q, n) == IF n = 0 THEN rs[1].turn = 1 ELSE q \in DOMAIN rs[n].cumulative
TotalAt(rs, q, n) == IF n = 0 THEN 0 ELSE rs[n].cumulative[q]

(* What a row counts: the difference to the row before if both report.     *)
StepAt(rs, q, i) ==
    Delta(q, rs[i]) =
        IF HasAt(rs, q, i - 1) /\ HasAt(rs, q, i) THEN TotalAt(rs, q, i) - TotalAt(rs, q, i - 1) ELSE 0

(* The rows count no more of a conversation that used sp than that.        *)
AddsUp(rs, sp, q) ==
    /\ \A i \in 1..Len(rs) : StepAt(rs, q, i)
    /\ CountedTo(rs, q, Len(rs)) <= sp[q]
    /\ rs # <<>> /\ HasAt(rs, q, Len(rs)) => CountedTo(rs, q, Len(rs)) <= TotalAt(rs, q, Len(rs))

(* A usage continues the rows: it is counted from the last of them.        *)
Extends(rs, sp, u, q) ==
    LET reported == q \in DOMAIN u.cumulative
        based == IF rs = <<>> THEN u.turn = 1 ELSE HasAt(rs, q, Len(rs))
        base == IF rs = <<>> THEN 0 ELSE TotalAt(rs, q, Len(rs))
    IN /\ Delta(q, u) = IF based /\ reported THEN u.cumulative[q] - base ELSE 0
       /\ reported => CountedTo(rs, q, Len(rs)) <= u.cumulative[q] /\ u.cumulative[q] <= sp[q]

RowsAddUp(rs, sp) == \A q \in Counters : AddsUp(rs, sp, q)
Continues(rs, sp, u) == \A q \in Counters : Extends(rs, sp, u, q)

LEMMA UsageFields ==
    \A u \in Usages : /\ u.turn \in Nat \ {0} /\ u # NoUsage
                      /\ \A q : Delta(q, u) \in Int
                      /\ \A q \in DOMAIN u.cumulative : u.cumulative[q] \in Nat
<1> SUFFICES ASSUME NEW u \in Usages
             PROVE  /\ u.turn \in Nat \ {0} /\ u # NoUsage
                    /\ \A q : Delta(q, u) \in Int
                    /\ \A q \in DOMAIN u.cumulative : u.cumulative[q] \in Nat
  OBVIOUS
<1>1. u.turn \in Nat \ {0} /\ u # NoUsage
  BY DEF Usages, NoUsage
<1>2. PICK S \in SUBSET Counters : u.cumulative \in [S -> Nat]
  BY DEF Usages, Totals
<1>3. PICK T \in SUBSET Counters : u.delta \in [T -> Int]
  BY DEF Usages
<1> QED
  BY <1>1, <1>2, <1>3 DEF Delta

(* A prefix counts what the shorter one counts and its last row's delta.   *)
LEMMA CountedPrefix ==
    ASSUME NEW rs \in Seq(Usages), NEW q, NEW i \in 1..Len(rs)
    PROVE  /\ CountedTo(rs, q, i) = CountedTo(rs, q, i - 1) + Delta(q, rs[i])
           /\ CountedTo(rs, q, i - 1) \in Int /\ CountedTo(rs, q, i) \in Int
<1> DEFINE p == SubSeq(rs, 1, i - 1)
<1>1. p \in Seq(Usages) /\ rs[i] \in Usages /\ SubSeq(rs, 1, i) \in Seq(Usages)
  OBVIOUS
<1>2. SubSeq(rs, 1, i) = Append(p, rs[i])
  <2>1. Len(p) = i - 1 /\ Len(SubSeq(rs, 1, i)) = i
    OBVIOUS
  <2>2. \A j \in 1..i : SubSeq(rs, 1, i)[j] = Append(p, rs[i])[j]
    OBVIOUS
  <2> QED
    BY <1>1, <2>1, <2>2
<1>3. IntDeltas(q, Usages)
  BY UsageFields DEF IntDeltas
<1> HIDE DEF p
<1>4. Counted(q, Append(p, rs[i])) = Counted(q, p) + Delta(q, rs[i]) /\ Counted(q, p) \in Int
  BY <1>1, <1>3, CountedAppend
<1>5. Delta(q, rs[i]) \in Int
  BY <1>1, UsageFields
<1>6. CountedTo(rs, q, i) = Counted(q, Append(p, rs[i])) /\ CountedTo(rs, q, i - 1) = Counted(q, p)
  BY <1>2 DEF CountedTo, p
<1> QED
  BY <1>4, <1>5, <1>6

LEMMA CountedNone ==
    ASSUME NEW rs \in Seq(Usages), NEW q
    PROVE  CountedTo(rs, q, 0) = 0
<1>1. SubSeq(rs, 1, 0) = <<>> /\ <<>> \in Seq(Usages) /\ Len(<<>>) = 0
  OBVIOUS
<1>2. IntDeltas(q, Usages)
  BY UsageFields DEF IntDeltas
<1>3. Counted(q, <<>>) = 0
  BY <1>1, <1>2, CountedRun
<1> QED
  BY <1>1, <1>3 DEF CountedTo

(* One more row that continues the rows keeps their sums.                  *)
LEMMA AddsUpAppend ==
    ASSUME NEW rs \in Seq(Usages), NEW u \in Usages, NEW sp \in [Counters -> Nat],
           RowsAddUp(rs, sp), Continues(rs, sp, u)
    PROVE  RowsAddUp(Append(rs, u), sp)
<1> DEFINE more == Append(rs, u)
           n == Len(rs)
<1>1. /\ n \in Nat /\ more \in Seq(Usages) /\ Len(more) = n + 1 /\ more[n + 1] = u
      /\ \A i \in 1..n : more[i] = rs[i]
      /\ rs = <<>> <=> n = 0
      /\ more # <<>>
  OBVIOUS
<1>2. SubSeq(more, 1, n) = SubSeq(rs, 1, n)
  OBVIOUS
<1> SUFFICES ASSUME NEW q \in Counters PROVE AddsUp(more, sp, q)
  BY DEF RowsAddUp
<1>3. AddsUp(rs, sp, q) /\ Extends(rs, sp, u, q)
  BY DEF RowsAddUp, Continues
<1>4. CountedTo(more, q, n) = CountedTo(rs, q, n)
  BY <1>2 DEF CountedTo
<1> HIDE DEF more, n
<1>5. /\ CountedTo(more, q, n + 1) = CountedTo(rs, q, n) + Delta(q, u)
      /\ CountedTo(rs, q, n) \in Int
  <2>1. n + 1 \in 1..Len(more) /\ (n + 1) - 1 = n
    BY <1>1
  <2> QED
    <3>1. /\ CountedTo(more, q, n + 1) = CountedTo(more, q, (n + 1) - 1) + Delta(q, more[n + 1])
          /\ CountedTo(more, q, (n + 1) - 1) \in Int
      BY <1>1, <2>1, CountedPrefix
    <3> QED
      BY <1>1, <1>4, <2>1, <3>1
<1>6. ASSUME NEW i \in 1..n PROVE StepAt(more, q, i)
  <2>1. StepAt(rs, q, i) /\ 1 \in 1..n /\ i # 0 /\ (i - 1 = 0 \/ i - 1 \in 1..n)
    BY <1>1, <1>3 DEF AddsUp, n
  <2>2. HasAt(more, q, i) = HasAt(rs, q, i) /\ HasAt(more, q, i - 1) = HasAt(rs, q, i - 1)
    BY <1>1, <2>1 DEF HasAt
  <2>3. TotalAt(more, q, i) = TotalAt(rs, q, i) /\ TotalAt(more, q, i - 1) = TotalAt(rs, q, i - 1)
    BY <1>1, <2>1 DEF TotalAt
  <2> QED
    BY <1>1, <2>1, <2>2, <2>3 DEF StepAt
<1> DEFINE reported == q \in DOMAIN u.cumulative
           based == IF rs = <<>> THEN u.turn = 1 ELSE HasAt(rs, q, n)
           base == IF rs = <<>> THEN 0 ELSE TotalAt(rs, q, n)
<1>7. /\ Delta(q, u) = IF based /\ reported THEN u.cumulative[q] - base ELSE 0
      /\ reported => CountedTo(rs, q, n) <= u.cumulative[q] /\ u.cumulative[q] <= sp[q]
  BY <1>3 DEF Extends, n
<1>8. /\ HasAt(more, q, n + 1) <=> reported
      /\ reported => TotalAt(more, q, n + 1) = u.cumulative[q]
      /\ HasAt(more, q, n) <=> based
      /\ TotalAt(more, q, n) = base
  <2>1. n + 1 # 0 /\ (n = 0 => more[1] = u) /\ (n # 0 => n \in 1..n)
    BY <1>1
  <2> QED
    BY <1>1, <2>1 DEF HasAt, TotalAt
<1>9. StepAt(more, q, n + 1)
  <2>1. (n + 1) - 1 = n
    BY <1>1
  <2> QED
    BY <1>1, <1>7, <1>8, <2>1 DEF StepAt
<1>10. rs = <<>> => CountedTo(rs, q, n) = 0
  BY <1>1, CountedNone
<1>11. based => CountedTo(rs, q, n) <= base
  BY <1>1, <1>3, <1>10 DEF AddsUp, n
<1>12. (reported => u.cumulative[q] \in Nat) /\ Delta(q, u) \in Int /\ sp[q] \in Nat
  BY UsageFields
<1>13. based => base \in Int
  <2>1. CASE rs = <<>>
    BY <2>1
  <2>2. CASE rs # <<>>
    <3>1. n \in 1..n /\ n # 0 /\ rs[n] \in Usages
      BY <1>1, <2>2 DEF n
    <3> QED
      BY <2>2, <3>1, UsageFields DEF HasAt, TotalAt
  <2> QED
    BY <2>1, <2>2
<1> HIDE DEF reported, based, base
<1>14. CountedTo(more, q, n + 1) <= sp[q] /\ (reported => CountedTo(more, q, n + 1) <= u.cumulative[q])
  <2>1. CASE based /\ reported
    BY <2>1, <1>5, <1>7, <1>11, <1>12, <1>13
  <2>2. CASE ~(based /\ reported)
    <3>1. CountedTo(rs, q, n) <= sp[q]
      BY <1>3 DEF AddsUp, n
    <3>2. CountedTo(more, q, n + 1) = CountedTo(rs, q, n)
      BY <2>2, <1>5, <1>7
    <3> QED
      BY <3>1, <3>2, <1>7
  <2> QED
    BY <2>1, <2>2
<1>15. \A i \in 1..(n + 1) : StepAt(more, q, i)
  BY <1>1, <1>6, <1>9
<1> QED
  BY <1>1, <1>8, <1>14, <1>15 DEF AddsUp

(* They hold when more is used, too.                                       *)
LEMMA AddsUpMore ==
    ASSUME NEW rs \in Seq(Usages), NEW sp \in [Counters -> Nat], NEW sq \in [Counters -> Nat],
           \A q \in Counters : sp[q] <= sq[q]
    PROVE  /\ RowsAddUp(rs, sp) => RowsAddUp(rs, sq)
           /\ \A u \in Usages : Continues(rs, sp, u) => Continues(rs, sq, u)
<1>1. ASSUME NEW q \in Counters PROVE CountedTo(rs, q, Len(rs)) \in Int
  <2>1. CASE Len(rs) = 0
    <3>1. CountedTo(rs, q, 0) = 0
      BY CountedNone
    <3> QED
      BY <2>1, <3>1
  <2>2. CASE Len(rs) # 0
    <3>1. Len(rs) \in 1..Len(rs)
      BY <2>2
    <3> QED
      BY <3>1, CountedPrefix
  <2> QED
    BY <2>1, <2>2
<1>2. RowsAddUp(rs, sp) => RowsAddUp(rs, sq)
  BY <1>1 DEF RowsAddUp, AddsUp
<1>3. ASSUME NEW u \in Usages, Continues(rs, sp, u) PROVE Continues(rs, sq, u)
  <2>1. ASSUME NEW q \in Counters PROVE Extends(rs, sq, u, q)
    <3>1. Extends(rs, sp, u, q) /\ (q \in DOMAIN u.cumulative => u.cumulative[q] \in Nat)
      BY <1>3, UsageFields DEF Continues
    <3>2. q \in DOMAIN u.cumulative => u.cumulative[q] <= sq[q]
      BY <3>1 DEF Extends
    <3> QED
      BY <3>1, <3>2 DEF Extends
  <2> QED
    BY <2>1 DEF Continues
<1> QED
  BY <1>2, <1>3

(* Such rows add up over every run of rows that report a counter.          *)
LEMMA AddsUpRuns ==
    ASSUME NEW rs \in Seq(Usages), NEW q, rs # <<>>, \A i \in 1..Len(rs) : StepAt(rs, q, i)
    PROVE  /\ \A i, j \in 0..Len(rs) :
                 (i <= j /\ \A n \in i..j : HasAt(rs, q, n)) =>
                     CountedTo(rs, q, j) = CountedTo(rs, q, i) + TotalAt(rs, q, j) - TotalAt(rs, q, i)
           /\ \A i \in DOMAIN rs : ~HasAt(rs, q, i - 1) => CountedTo(rs, q, i) = CountedTo(rs, q, i - 1)
<1>1. ASSUME NEW i \in 0..Len(rs), NEW j \in 0..Len(rs), i <= j, \A n \in i..j : HasAt(rs, q, n)
      PROVE  CountedTo(rs, q, j) = CountedTo(rs, q, i) + TotalAt(rs, q, j) - TotalAt(rs, q, i)
  <2> DEFINE d == j - i
             G == {k \in Nat : k <= d =>
                     CountedTo(rs, q, i + k) = CountedTo(rs, q, i) + TotalAt(rs, q, i + k) - TotalAt(rs, q, i)}
  <2>1. d \in Nat /\ i \in Nat /\ j \in Nat /\ Len(rs) \in Nat /\ i + d = j /\ i + 0 = i
    BY <1>1
  <2>2. \A k \in i..j : CountedTo(rs, q, k) \in Int /\ TotalAt(rs, q, k) \in Int
    <3> SUFFICES ASSUME NEW k \in i..j PROVE CountedTo(rs, q, k) \in Int /\ TotalAt(rs, q, k) \in Int
      OBVIOUS
    <3>1. CASE k = 0
      BY <3>1, CountedNone DEF TotalAt
    <3>2. CASE k # 0
      <4>1. k \in 1..Len(rs) /\ rs[k] \in Usages /\ HasAt(rs, q, k)
        BY <3>2, <1>1
      <4>2. q \in DOMAIN rs[k].cumulative
        BY <3>2, <4>1 DEF HasAt
      <4> QED
        BY <3>2, <4>1, <4>2, CountedPrefix, UsageFields DEF TotalAt
    <3> QED
      BY <3>1, <3>2
  <2> HIDE DEF d
  <2>3. 0 \in G
    <3>1. i \in i..j
      BY <1>1
    <3>2. CountedTo(rs, q, i) = CountedTo(rs, q, i) + TotalAt(rs, q, i) - TotalAt(rs, q, i)
      BY <3>1, <2>2
    <3> QED
      BY <2>1, <3>2
  <2>4. ASSUME NEW k \in 0..(d - 1), k \in G PROVE k + 1 \in G
    <3> DEFINE m == i + k + 1
    <3>1. /\ m \in 1..Len(rs) /\ m - 1 = i + k /\ i + (k + 1) = m /\ m \in i..j /\ i + k \in i..j
          /\ k + 1 \in Nat /\ k \in Nat /\ k <= d /\ i \in i..j
      BY <2>1, <1>1 DEF d
    <3>2. CountedTo(rs, q, i + k) = CountedTo(rs, q, i) + TotalAt(rs, q, i + k) - TotalAt(rs, q, i)
      BY <2>4, <3>1
    <3> HIDE DEF m, G
    <3>3. CountedTo(rs, q, m) = CountedTo(rs, q, m - 1) + Delta(q, rs[m])
      BY <3>1, CountedPrefix
    <3>4. HasAt(rs, q, m) /\ HasAt(rs, q, m - 1) /\ StepAt(rs, q, m)
      BY <3>1, <1>1
    <3>5. Delta(q, rs[m]) = TotalAt(rs, q, m) - TotalAt(rs, q, m - 1)
      BY <3>4 DEF StepAt
    <3>6. CountedTo(rs, q, i) \in Int /\ TotalAt(rs, q, i) \in Int /\ TotalAt(rs, q, m) \in Int
          /\ TotalAt(rs, q, i + k) \in Int /\ CountedTo(rs, q, i + k) \in Int
      BY <3>1, <2>2
    <3>7. CountedTo(rs, q, m) = CountedTo(rs, q, i) + TotalAt(rs, q, m) - TotalAt(rs, q, i)
      <4>1. CountedTo(rs, q, m) = CountedTo(rs, q, i + k) + (TotalAt(rs, q, m) - TotalAt(rs, q, i + k))
        BY <3>1, <3>3, <3>5
      <4> QED
        BY <4>1, <3>2, <3>6
    <3> QED
      BY <3>1, <3>7 DEF G
  <2> HIDE DEF G
  <2>5. G \in SUBSET Nat
    BY DEF G
  <2>6. d \in G
    BY <2>1, <2>3, <2>4, <2>5, CountingUp
  <2> QED
    BY <2>1, <2>6 DEF G
<1>2. ASSUME NEW i \in DOMAIN rs, ~HasAt(rs, q, i - 1)
      PROVE  CountedTo(rs, q, i) = CountedTo(rs, q, i - 1)
  <2>1. i \in 1..Len(rs) /\ StepAt(rs, q, i)
    OBVIOUS
  <2>2. Delta(q, rs[i]) = 0
    BY <1>2, <2>1 DEF StepAt
  <2> QED
    BY <2>1, <2>2, CountedPrefix
<1> QED
  BY <1>1, <1>2

-----------------------------------------------------------------------------
(* The worker and the task's state *)

Active == {"RUNNING", "CANCELLING"}
Waiting == {"QUEUED", "RESUMING"}

(* A worker that has not settled works for a task that is active.          *)
Working ==
    /\ family \in {"muse", "agy"} /\ turn \in Nat \ {0}
    /\ family = "muse" => turn \in Commands
    /\ worker \notin {"none", "settled"} => state \in Active

LEMMA WorkingInit == Init => Working
BY BoundsAssumption DEF Init, Working, Commands

LEMMA WorkingTask ==
    ASSUME Working, TaskStep
    PROVE  Working'
<1>1. CASE StartWorker
  BY <1>1 DEF StartWorker, Working, Active, Commands
<1>2. CASE ContinueTask
  BY <1>2, BoundsAssumption DEF ContinueTask, Working, Active, Commands
<1>3. CASE CancelTask
  BY <1>3 DEF CancelTask, Working, Active, Commands
<1>4. CASE CompleteTurn
  BY <1>4 DEF CompleteTurn, Working, Active, Commands
<1>5. CASE WorkerDies
  BY <1>5 DEF WorkerDies, taskVars, Working, Active, Commands
<1>6. CASE Reconcile
  BY <1>6 DEF Reconcile, Working, Active, Commands
<1> QED
  BY <1>1, <1>2, <1>3, <1>4, <1>5, <1>6 DEF TaskStep

LEMMA WorkingMuse ==
    ASSUME Working, MuseStep
    PROVE  Working'
<1>1. ASSUME UNCHANGED <<family, turn>>, UNCHANGED state \/ worker' \in {"none", "settled"},
             worker \notin {"none", "settled"}
      PROVE  Working'
  BY <1>1 DEF Working, Commands
<1> USE DEF Muse, Elsewhere
<1>2. CASE MuseRefused \/ MuseOpens \/ MuseSavesSession \/ MuseSessionStarts \/ MuseSessionResumes
  BY <1>1, <1>2 DEF MuseRefused, MuseOpens, MuseSavesSession, MuseSessionStarts, MuseSessionResumes, Settle
<1>3. CASE MuseCannotPrompt \/ MuseIntent \/ MuseSubmit
  BY <1>1, <1>3 DEF MuseCannotPrompt, MuseIntent, MuseSubmit, Return
<1>4. CASE MuseReads \/ MuseAcked \/ MuseInterrupts
  BY <1>1, <1>4 DEF MuseReads, MuseAcked, MuseInterrupts, Continue
<1>5. CASE MuseRejected \/ MuseAnswered \/ MuseBreaks \/ MuseTimedOut
  BY <1>1, <1>5 DEF MuseRejected, MuseAnswered, MuseBreaks, MuseTimedOut, Return
<1>6. CASE MuseStopped \/ MuseJournals \/ MuseSettles
  BY <1>1, <1>6 DEF MuseStopped, MuseJournals, MuseSettles, Settle
<1> QED
  BY <1>2, <1>3, <1>4, <1>5, <1>6 DEF MuseStep

LEMMA WorkingAgy ==
    ASSUME Working, AgyStep
    PROVE  Working'
<1>1. ASSUME UNCHANGED <<family, turn>>, UNCHANGED state \/ worker' \in {"none", "settled"},
             worker \notin {"none", "settled"}
      PROVE  Working'
  BY <1>1 DEF Working, Commands
<1> USE DEF Agy, AgyOnly, AgyStops, Settle
<1>2. CASE AgyPrepares \/ AgyCatalog \/ AgyStarts \/ AgyInit \/ AgySpends
  BY <1>1, <1>2 DEF AgyPrepares, AgyCatalog, AgyStarts, AgyInit, AgySpends
<1>3. CASE AgyToolRefused \/ AgyFails \/ AgyExits \/ AgyCancelled
  BY <1>1, <1>3 DEF AgyToolRefused, AgyFails, AgyExits, AgyCancelled
<1>4. CASE \E status \in {"SUCCESS", "CANCELED", "ERROR"} : AgyResult(status)
  BY <1>1, <1>4 DEF AgyResult
<1> QED
  BY <1>2, <1>3, <1>4 DEF AgyStep

LEMMA HostLeaves ==
    HostStep => UNCHANGED <<taskVars, worker, started, client, agyVars>>
BY DEF HostStep, HostAdmits, HostEmits, HostDies, HostReplies, HostEnds, HostOnly

LEMMA WorkingStep == Working /\ [Next]_vars => Working'
<1> SUFFICES ASSUME Working, [Next]_vars PROVE Working'
  OBVIOUS
<1>1. CASE TaskStep
  BY <1>1, WorkingTask
<1>2. CASE MuseStep
  BY <1>2, WorkingMuse
<1>3. CASE HostStep
  BY <1>3, HostLeaves DEF taskVars, Working, Commands
<1>4. CASE AgyStep
  BY <1>4, WorkingAgy
<1>5. CASE UNCHANGED vars
  BY <1>5 DEF vars, taskVars, Working, Commands
<1> QED
  BY <1>1, <1>2, <1>3, <1>4, <1>5 DEF Next

-----------------------------------------------------------------------------
(* Antigravity: usage *)

AgyRecords ==
    [baseline : Usages \cup {NoUsage}, initialized : BOOLEAN, requested : BOOLEAN,
     terminal : {"none", "SUCCESS", "CANCELED", "ERROR"}, usage : Usages \cup {NoUsage}]

UsageTypes ==
    /\ rows \in Seq(Usages) /\ spent \in [Counters -> Nat]
    /\ agy \in AgyRecords
    /\ session \in BOOLEAN

RowsBefore(t) == \A i \in 1..Len(rows) : rows[i].turn < t

(* A task has a session from the first turn that saw one, and no earlier;  *)
(* a continuation asks for it.                                             *)
Sessions ==
    /\ session \in BOOLEAN
    /\ family = "agy" =>
         /\ state = "QUEUED" => turn = 1 /\ ~session /\ worker = "none"
         /\ state = "RESUMING" => turn # 1
         /\ state = "COMPLETED" \/ turn # 1 => session
         /\ worker \in {"none", "ready"} => agy = NoAgy
         /\ worker \in {"prepared", "selected"} => ~agy.initialized /\ agy.terminal = "none"
         /\ worker \in {"ready", "prepared", "selected"} => (session <=> turn # 1)
         /\ worker = "prompting" =>
              /\ agy.requested <=> turn # 1
              /\ agy.initialized \/ agy.terminal = "SUCCESS" => session

(* A worker's baseline is the last row until the worker writes its own;    *)
(* the rows are of earlier turns, whatever turn was started meanwhile.     *)
UsageHeld ==
    /\ UsageTypes
    /\ family = "muse" => rows = <<>> /\ agy = NoAgy
    /\ worker \in {"none", "ready"} => agy = NoAgy
    /\ worker \in {"prepared", "selected", "prompting"} => agy.baseline = PriorUsage
    /\ RowsBefore(turn + 1)
    /\ worker \notin {"none", "settled"} \/ state \in Waiting => RowsBefore(turn)
    /\ agy.usage # NoUsage =>
         /\ worker \in {"prompting", "settled"}
         /\ agy.usage.turn <= turn /\ (state \in Waiting => agy.usage.turn < turn)
         /\ RowsBefore(agy.usage.turn)
         /\ Continues(rows, spent, agy.usage)
    /\ RowsAddUp(rows, spent)

LEMMA NoAgyType ==
    NoAgy \in AgyRecords /\ NoAgy.usage = NoUsage /\ NoAgy.baseline = NoUsage
BY DEF NoAgy, AgyRecords

LEMMA AgyFields ==
    ASSUME NEW a \in AgyRecords
    PROVE  /\ a.usage \in Usages \cup {NoUsage} /\ a.baseline \in Usages \cup {NoUsage}
           /\ a.terminal \in {"none", "SUCCESS", "CANCELED", "ERROR"} /\ a.requested \in BOOLEAN
BY DEF AgyRecords

LEMMA AgyFlags ==
    ASSUME NEW a \in AgyRecords, NEW b \in BOOLEAN, NEW c,
           c = [a EXCEPT !.requested = b] \/ c = [a EXCEPT !.initialized = b]
    PROVE  c \in AgyRecords /\ c.usage = a.usage /\ c.baseline = a.baseline
BY DEF AgyRecords

LEMMA AgyBaseline ==
    ASSUME NEW a \in AgyRecords, NEW u \in Usages \cup {NoUsage}, NEW c, c = [a EXCEPT !.baseline = u]
    PROVE  c \in AgyRecords /\ c.usage = a.usage /\ c.baseline = u
BY DEF AgyRecords

LEMMA AgyUsage ==
    ASSUME NEW a \in AgyRecords, NEW u \in Usages \cup {NoUsage},
           NEW t \in {"SUCCESS", "CANCELED", "ERROR"}, NEW c, c = [a EXCEPT !.terminal = t, !.usage = u]
    PROVE  c \in AgyRecords /\ c.usage = u /\ c.baseline = a.baseline
BY DEF AgyRecords

LEMMA SessionsInit == Init => Sessions
BY DEF Init, Sessions

LEMMA SessionsTask ==
    ASSUME Working, Sessions, TaskStep
    PROVE  Sessions'
<1> USE DEF Sessions, Working, Active
<1>1. CASE StartWorker
  BY <1>1 DEF StartWorker, agyVars
<1>2. CASE ContinueTask
  BY <1>2 DEF ContinueTask, agyVars
<1>3. CASE CancelTask
  BY <1>3 DEF CancelTask, agyVars
<1>4. CASE CompleteTurn
  BY <1>4 DEF CompleteTurn
<1>5. CASE WorkerDies
  BY <1>5 DEF WorkerDies, taskVars
<1>6. CASE Reconcile
  BY <1>6 DEF Reconcile, SettleAs, agyVars
<1> QED
  BY <1>1, <1>2, <1>3, <1>4, <1>5, <1>6 DEF TaskStep

LEMMA SessionsAgy ==
    ASSUME Working, Sessions, agy \in AgyRecords, AgyStep
    PROVE  Sessions'
<1> USE DEF Agy, AgyOnly
<1>1. ASSUME UNCHANGED <<family, turn, session, agy>>, worker' = "settled", state' \notin {"QUEUED", "RESUMING"},
             state' = "COMPLETED" => session
      PROVE  Sessions'
  BY <1>1 DEF Sessions
<1>2. CASE AgyPrepares
  BY <1>2 DEF AgyPrepares, Sessions, Working, Active, NoAgy
<1>3. CASE AgyCatalog
  BY <1>3 DEF AgyCatalog, Settle, SettleAs, Sessions, Working, Active
<1>4. CASE AgyStarts
  <2>1. /\ UNCHANGED <<family, turn, session, state>> /\ worker = "selected" /\ worker' = "prompting"
        /\ agy' = [agy EXCEPT !.requested = session] /\ family = "agy"
    BY <1>4 DEF AgyStarts
  <2>2. agy'.requested = session /\ agy'.initialized = agy.initialized /\ agy'.terminal = agy.terminal
    BY <2>1 DEF AgyRecords
  <2> QED
    BY <2>1, <2>2 DEF Sessions, Working, Active
<1>5. CASE AgyInit
  <2>1. CASE AgyStops("INTERRUPTED") /\ UNCHANGED <<session, agy>>
    BY <1>5, <2>1, <1>1 DEF AgyInit, AgyStops, Settle, SettleAs
  <2>2. CASE agy' = [agy EXCEPT !.initialized = TRUE] /\ session' = TRUE /\ UNCHANGED <<state, worker>>
    <3>1. agy'.requested = agy.requested
      BY <2>2 DEF AgyRecords
    <3> QED
      BY <1>5, <2>2, <3>1 DEF AgyInit, Sessions, Working, Active
  <2> QED
    BY <1>5, <2>1, <2>2 DEF AgyInit
<1>6. CASE AgySpends
  BY <1>6 DEF AgySpends, Sessions
<1>7. CASE AgyToolRefused \/ AgyFails \/ AgyCancelled
  BY <1>7, <1>1 DEF AgyToolRefused, AgyFails, AgyCancelled, AgyStops, Settle, SettleAs
<1>8. CASE AgyExits
  <2>1. PICK target \in AgyTargets[agy.terminal] : AgyStops(target)
    BY <1>8 DEF AgyExits
  <2>2. agy.terminal \in {"none", "SUCCESS", "CANCELED", "ERROR"}
    BY AgyFields
  <2>3. /\ target \in {"COMPLETED", "FAILED", "CANCELLED", "INTERRUPTED"}
        /\ target = "COMPLETED" => agy.terminal = "SUCCESS"
    BY <2>1, <2>2 DEF AgyTargets
  <2>4. target = "COMPLETED" => session
    BY <1>8, <2>3 DEF AgyExits, Sessions
  <2> QED
    BY <1>8, <2>1, <2>3, <2>4, <1>1 DEF AgyExits, AgyStops, Settle, SettleAs
<1>9. CASE \E status \in {"SUCCESS", "CANCELED", "ERROR"} : AgyResult(status)
  <2>1. PICK status \in {"SUCCESS", "CANCELED", "ERROR"} : AgyResult(status)
    BY <1>9
  <2>2. PICK usage : agy' = [agy EXCEPT !.terminal = status, !.usage = usage]
    BY <2>1 DEF AgyResult
  <2>3. /\ agy'.requested = agy.requested /\ agy'.initialized = agy.initialized
        /\ agy'.terminal = status
    BY <2>2 DEF AgyRecords
  <2>4. status = "SUCCESS" => agy.initialized
    BY <2>1 DEF AgyResult
  <2> QED
    BY <2>1, <2>3, <2>4 DEF AgyResult, Sessions, Working, Active
<1> QED
  BY <1>2, <1>3, <1>4, <1>5, <1>6, <1>7, <1>8, <1>9 DEF AgyStep

LEMMA SessionsStep == Working /\ Sessions /\ UsageHeld /\ [Next]_vars => Sessions'
<1> SUFFICES ASSUME Working, Sessions, UsageHeld, [Next]_vars PROVE Sessions'
  OBVIOUS
<1>1. CASE TaskStep
  BY <1>1, SessionsTask
<1>2. CASE MuseStep
  <2>1. family = "muse" /\ family' = "muse" /\ session' \in BOOLEAN
    <3> USE DEF Muse, Elsewhere, Sessions
    <3>1. CASE MuseRefused \/ MuseOpens \/ MuseSavesSession \/ MuseSessionStarts \/ MuseSessionResumes
      BY <3>1 DEF MuseRefused, MuseOpens, MuseSavesSession, MuseSessionStarts, MuseSessionResumes
    <3>2. CASE MuseCannotPrompt \/ MuseIntent \/ MuseSubmit
      BY <3>2 DEF MuseCannotPrompt, MuseIntent, MuseSubmit, Return
    <3>3. CASE MuseReads \/ MuseAcked \/ MuseInterrupts
      BY <3>3 DEF MuseReads, MuseAcked, MuseInterrupts, Continue
    <3>4. CASE MuseRejected \/ MuseAnswered \/ MuseBreaks \/ MuseTimedOut
      BY <3>4 DEF MuseRejected, MuseAnswered, MuseBreaks, MuseTimedOut, Return
    <3>5. CASE MuseStopped \/ MuseJournals \/ MuseSettles
      BY <3>5 DEF MuseStopped, MuseJournals, MuseSettles
    <3> QED
      BY <1>2, <3>1, <3>2, <3>3, <3>4, <3>5 DEF MuseStep
  <2> QED
    BY <2>1 DEF Sessions
<1>3. CASE HostStep
  BY <1>3, HostLeaves DEF taskVars, agyVars, Sessions
<1>4. CASE AgyStep
  BY <1>4, SessionsAgy DEF UsageHeld, UsageTypes
<1>5. CASE UNCHANGED vars
  BY <1>5 DEF vars, taskVars, agyVars, Sessions
<1> QED
  BY <1>1, <1>2, <1>3, <1>4, <1>5 DEF Next

LEMMA UsageInit == Init => UsageHeld
<1> SUFFICES ASSUME Init PROVE UsageHeld
  OBVIOUS
<1>1. /\ rows = <<>> /\ agy = NoAgy /\ spent = [q \in Counters |-> 0] /\ session = FALSE
      /\ state = "QUEUED" /\ turn = 1 /\ worker = "none"
  BY DEF Init
<1>2. rows \in Seq(Usages) /\ Len(rows) = 0
  BY <1>1
<1>3. UsageTypes
  BY <1>1, <1>2, NoAgyType DEF UsageTypes
<1>4. RowsBefore(turn + 1) /\ RowsBefore(turn) /\ RowsAddUp(rows, spent)
  <2>1. \A q \in Counters : CountedTo(rows, q, 0) = 0
    BY <1>2, CountedNone
  <2> QED
    BY <1>1, <1>2, <2>1 DEF RowsBefore, RowsAddUp, AddsUp
<1>5. agy.usage = NoUsage
  BY <1>1, NoAgyType
<1> QED
  BY <1>1, <1>3, <1>4, <1>5 DEF UsageHeld

(* The step of a Muse task writes no usage.                                *)
LEMMA UsageOfMuse ==
    ASSUME UsageHeld, family = "muse", UNCHANGED <<family, turn, rows, agy, spent>>, session' \in BOOLEAN
    PROVE  UsageHeld'
BY NoAgyType DEF UsageHeld, UsageTypes, RowsBefore, PriorUsage

(* A worker that only moves on keeps what holds of the rows.               *)
LEMMA UsageKept ==
    ASSUME UsageHeld, UNCHANGED <<family, turn, rows, agy>>, session' \in BOOLEAN,
           spent' \in [Counters -> Nat], \A q \in Counters : spent[q] <= spent'[q],
           worker' \in {"none", "ready"} => agy = NoAgy,
           worker' \in {"prepared", "selected", "prompting"} => worker \in {"prepared", "selected", "prompting"},
           worker' \notin {"none", "settled"} => worker \notin {"none", "settled"} \/ state \in Waiting,
           state' \in Waiting => state \in Waiting,
           agy.usage # NoUsage => worker' \in {"prompting", "settled"}
    PROVE  UsageHeld'
<1>1. rows \in Seq(Usages) /\ spent \in [Counters -> Nat] /\ agy \in AgyRecords
  BY DEF UsageHeld, UsageTypes
<1>2. RowsAddUp(rows, spent)'
  BY <1>1, AddsUpMore DEF UsageHeld
<1>3. agy.usage # NoUsage => Continues(rows, spent, agy.usage)'
  BY <1>1, AddsUpMore, AgyFields DEF UsageHeld
<1> QED
  BY <1>2, <1>3 DEF UsageHeld, UsageTypes, RowsBefore, PriorUsage

(* CompleteTurn appends what follows the rows.                             *)
LEMMA UsageWritten ==
    ASSUME Working, UsageHeld, CompleteTurn
    PROVE  UsageHeld'
<1> USE DEF UsageHeld, UsageTypes
<1>1. CASE agy.usage = NoUsage
  <2>1. UNCHANGED <<family, turn, rows, state, session, spent>> /\ agy' = NoAgy /\ worker' = "none"
    BY <1>1 DEF CompleteTurn
  <2> QED
    BY <2>1, NoAgyType DEF RowsBefore, PriorUsage
<1>2. CASE agy.usage # NoUsage
  <2> DEFINE u == agy.usage
             n == Len(rows)
  <2>1. u \in Usages /\ n \in Nat /\ DOMAIN rows = 1..n /\ rows \in Seq(Usages)
    <3>1. agy \in AgyRecords /\ rows \in Seq(Usages)
      OBVIOUS
    <3> QED
      BY <1>2, <3>1, AgyFields
  <2>2. \A i \in 1..n : rows[i].turn # u.turn /\ rows[i].turn < u.turn
    BY <1>2, <2>1 DEF RowsBefore, Usages
  <2>3. rows' = Append(rows, u)
    BY <1>2, <2>1, <2>2 DEF CompleteTurn, insert_turn_usage
  <2>4. UNCHANGED <<family, turn, state, session, spent>> /\ agy' = NoAgy /\ worker' = "none"
    BY DEF CompleteTurn
  <2>5. u.turn \in Nat /\ u.turn <= turn /\ (state \in Waiting => u.turn < turn) /\ turn \in Nat
    BY <1>2, <2>1 DEF Usages, Working
  <2>6. Len(rows') = n + 1 /\ rows'[n + 1] = u /\ (\A i \in 1..n : rows'[i] = rows[i]) /\ rows' \in Seq(Usages)
    BY <2>1, <2>3
  <2>7. \A i \in 1..n : rows[i].turn \in Nat
    BY <2>1, UsageFields
  <2>8. RowsBefore(turn + 1)' /\ (state \in Waiting => RowsBefore(turn)')
    BY <2>1, <2>2, <2>4, <2>5, <2>6, <2>7 DEF RowsBefore
  <2>9. RowsAddUp(rows', spent')
    <3>1. RowsAddUp(rows, spent) /\ Continues(rows, spent, u) /\ spent \in [Counters -> Nat]
      BY <1>2
    <3> QED
      BY <2>1, <2>3, <2>4, <3>1, AddsUpAppend
  <2>10. family # "muse"
    BY <1>2, NoAgyType
  <2> QED
    BY <2>4, <2>6, <2>8, <2>9, <2>10, NoAgyType
<1> QED
  BY <1>1, <1>2

LEMMA UsageTask ==
    ASSUME Working, UsageHeld, TaskStep
    PROVE  UsageHeld'
<1> USE DEF UsageHeld, UsageTypes
<1>1. CASE StartWorker
  BY <1>1, UsageKept DEF StartWorker, agyVars, Waiting
<1>2. CASE ContinueTask
  <2>1. UNCHANGED <<family, rows, worker, session, agy, spent>> /\ turn' = turn + 1 /\ state' = "RESUMING"
    BY <1>2 DEF ContinueTask, agyVars
  <2>2. worker \in {"none", "settled"}
    BY <1>2 DEF ContinueTask, Working, Active
  <2>3. turn \in Nat /\ \A i \in 1..Len(rows) : rows[i].turn \in Nat
    <3>1. \A i \in 1..Len(rows) : rows[i] \in Usages
      OBVIOUS
    <3> QED
      BY <3>1, UsageFields DEF Working
  <2>4. RowsBefore(turn + 1)' /\ RowsBefore(turn)'
    BY <2>1, <2>3 DEF RowsBefore
  <2>5. agy.usage # NoUsage =>
          agy.usage.turn \in Nat /\ agy.usage.turn <= turn' /\ agy.usage.turn < turn'
    <3>1. agy \in AgyRecords /\ (agy.usage # NoUsage => agy.usage.turn <= turn)
      OBVIOUS
    <3>2. agy.usage # NoUsage => agy.usage.turn \in Nat
      BY <3>1, AgyFields, UsageFields
    <3> QED
      BY <2>1, <2>3, <3>1, <3>2
  <2> QED
    BY <2>1, <2>2, <2>4, <2>5 DEF RowsBefore, PriorUsage
<1>3. CASE CancelTask
  BY <1>3, UsageKept DEF CancelTask, agyVars, Waiting
<1>4. CASE CompleteTurn
  BY <1>4, UsageWritten
<1>5. CASE WorkerDies
  BY <1>5, NoAgyType DEF WorkerDies, taskVars, RowsBefore, PriorUsage
<1>6. CASE Reconcile
  <2>1. state' \notin Waiting
    BY <1>6 DEF Reconcile, SettleAs, Waiting
  <2> QED
    BY <1>6, <2>1, UsageKept DEF Reconcile, agyVars
<1> QED
  BY <1>1, <1>2, <1>3, <1>4, <1>5, <1>6 DEF TaskStep

(* The result is counted from the baseline that the worker read.           *)
LEMMA UsageResult ==
    ASSUME Working, Sessions, UsageHeld, NEW status \in {"SUCCESS", "CANCELED", "ERROR"}, AgyResult(status)
    PROVE  UsageHeld'
<1> USE DEF UsageHeld, UsageTypes
<1>1. /\ UNCHANGED <<family, turn, rows, state, session, worker, spent>>
      /\ worker = "prompting" /\ state \in Active /\ family = "agy"
  BY DEF AgyResult, Agy, AgyOnly, Working
<1>2. PICK usage \in {NoUsage} \cup {record_usage([k \in S |-> spent[k]]) : S \in SUBSET Counters} :
         agy' = [agy EXCEPT !.terminal = status, !.usage = usage]
  BY DEF AgyResult
<1>3. agy'.usage = usage /\ agy'.baseline = agy.baseline /\ agy.baseline = PriorUsage
  BY <1>1, <1>2 DEF AgyRecords
<1>4. CASE usage # NoUsage
  <2>1. PICK S \in SUBSET Counters : usage = record_usage([k \in S |-> spent[k]])
    BY <1>2, <1>4
  <2> DEFINE total == [k \in S |-> spent[k]]
             counted == {k \in S : agy.requested => k \in DOMAIN PriorUsage.cumulative}
             base == [k \in counted |-> IF agy.requested THEN PriorUsage.cumulative[k] ELSE 0]
  <2>2. /\ usage = [turn |-> turn, cumulative |-> total, delta |-> [k \in counted |-> spent[k] - base[k]]]
        /\ total \in [S -> Nat] /\ turn \in Nat \ {0}
    BY <1>3, <2>1 DEF record_usage, Working
  <2>3. agy.requested <=> turn # 1
    BY <1>1 DEF Sessions
  <2>4. rows # <<>> => /\ turn # 1 /\ PriorUsage = rows[Len(rows)] /\ PriorUsage \in Usages
                       /\ Len(rows) # 0
    <3>1. ASSUME rows # <<>>
          PROVE  1 \in 1..Len(rows) /\ Len(rows) # 0 /\ rows[1] \in Usages /\ rows[Len(rows)] \in Usages
      BY <3>1
    <3>2. rows # <<>> => rows[1].turn \in Nat \ {0} /\ rows[1].turn < turn
      BY <1>1, <3>1, UsageFields DEF RowsBefore, Active
    <3> QED
      BY <3>1, <3>2, <2>2 DEF PriorUsage, Last
  <2>5. rows = <<>> => DOMAIN PriorUsage.cumulative = {}
    BY DEF PriorUsage, NoUsage
  <2>6. \A k \in counted : base[k] \in Int
    <3>1. ASSUME NEW k \in counted, agy.requested PROVE PriorUsage.cumulative[k] \in Nat
      BY <2>4, <2>5, <3>1, UsageFields
    <3> QED
      BY <3>1
  <2>7. usage \in Usages
    <3>1. [k \in counted |-> spent[k] - base[k]] \in [counted -> Int] /\ counted \in SUBSET Counters
      BY <2>6
    <3>2. total \in Totals
      BY <2>2 DEF Totals
    <3> HIDE DEF total, counted, base
    <3>3. [k \in counted |-> spent[k] - base[k]] \in UNION {[R -> Int] : R \in SUBSET Counters}
      BY <3>1
    <3> QED
      BY <2>2, <3>2, <3>3 DEF Usages
  <2>8. ASSUME NEW q \in Counters PROVE Extends(rows, spent, usage, q)
    <3> DEFINE based == IF rows = <<>> THEN usage.turn = 1 ELSE HasAt(rows, q, Len(rows))
               from == IF rows = <<>> THEN 0 ELSE TotalAt(rows, q, Len(rows))
    <3>1. /\ q \in DOMAIN usage.cumulative <=> q \in S
          /\ q \in S => usage.cumulative[q] = spent[q]
          /\ usage.turn = turn
      BY <2>2
    <3>2. Delta(q, usage) = IF q \in counted THEN spent[q] - base[q] ELSE 0
      BY <2>2 DEF Delta
    <3>3. q \in S => (q \in counted <=> based)
      BY <2>3, <2>4, <2>5, <3>1 DEF HasAt
    <3>4. q \in counted => q \in S /\ base[q] = from
      BY <2>3, <2>4, <2>5 DEF TotalAt
    <3> HIDE DEF counted, base, based, from
    <3>5. Delta(q, usage) = IF based /\ q \in S THEN spent[q] - from ELSE 0
      BY <3>2, <3>3, <3>4
    <3>6. CountedTo(rows, q, Len(rows)) <= spent[q] /\ spent[q] \in Nat
      BY DEF RowsAddUp, AddsUp
    <3>7. spent[q] <= spent[q]
      BY <3>6
    <3> QED
      BY <3>1, <3>5, <3>6, <3>7 DEF Extends, based, from
  <2>9. Continues(rows, spent, usage)
    BY <2>8 DEF Continues
  <2>10. agy' \in AgyRecords
    BY <1>2, <2>7, AgyUsage
  <2>11. usage.turn = turn
    BY <2>2
  <2> HIDE DEF total, counted, base
  <2> QED
    <3>1. RowsBefore(turn) /\ turn \in Nat /\ state \notin Waiting
      BY <1>1, <2>2 DEF Active, Waiting
    <3>2. RowsBefore(usage.turn) /\ usage.turn <= turn
      BY <2>11, <3>1
    <3> QED
      BY <1>1, <1>3, <2>9, <2>10, <3>1, <3>2 DEF RowsBefore, PriorUsage
<1>5. CASE usage = NoUsage
  <2>1. agy' \in AgyRecords
    BY <1>2, <1>5, AgyUsage
  <2> QED
    BY <1>1, <1>3, <1>5, <2>1 DEF RowsBefore, PriorUsage
<1> QED
  BY <1>4, <1>5

LEMMA UsageAgy ==
    ASSUME Working, Sessions, UsageHeld, AgyStep
    PROVE  UsageHeld'
<1> USE DEF UsageHeld, UsageTypes
<1>1. CASE AgyPrepares
  <2>1. /\ UNCHANGED <<family, turn, rows, session, spent>> /\ worker = "ready" /\ agy = NoAgy
        /\ family = "agy" /\ state \in Active
    BY <1>1 DEF AgyPrepares, Agy, AgyOnly, Working
  <2>2. CASE worker' = "prepared" /\ agy' = [NoAgy EXCEPT !.baseline = PriorUsage] /\ UNCHANGED state
    <3>1. PriorUsage \in Usages \cup {NoUsage}
      BY DEF PriorUsage, Last
    <3>2. agy' \in AgyRecords
          /\ agy'.usage = NoUsage /\ agy'.baseline = PriorUsage
      BY <2>2, <3>1, NoAgyType, AgyBaseline
    <3> QED
      BY <2>1, <2>2, <3>2 DEF RowsBefore, PriorUsage
  <2>3. CASE state' = "FAILED" /\ worker' = "settled" /\ UNCHANGED agy
    BY <2>1, <2>3, UsageKept, NoAgyType DEF Waiting
  <2> QED
    BY <1>1, <2>2, <2>3 DEF AgyPrepares
<1>2. CASE AgyCatalog
  BY <1>2, UsageKept DEF AgyCatalog, Agy, AgyOnly, Settle, SettleAs, Waiting
<1>3. CASE AgyStarts \/ AgyInit
  <2>1. /\ UNCHANGED <<family, turn, rows, spent>> /\ worker \in {"selected", "prompting"}
        /\ family = "agy" /\ session' \in BOOLEAN
    BY <1>3 DEF AgyStarts, AgyInit, Agy, AgyOnly
  <2>2. CASE agy' = agy /\ AgyStops("INTERRUPTED")
    BY <2>1, <2>2, UsageKept DEF AgyStops, Settle, SettleAs, Waiting
  <2>3. CASE /\ agy' = [agy EXCEPT !.requested = session] \/ agy' = [agy EXCEPT !.initialized = TRUE]
             /\ worker' = "prompting" /\ UNCHANGED state
    <3>1. agy' \in AgyRecords
          /\ agy'.usage = agy.usage /\ agy'.baseline = agy.baseline
      <4>1. agy \in AgyRecords /\ session \in BOOLEAN /\ TRUE \in BOOLEAN
        OBVIOUS
      <4> QED
        BY <2>3, <4>1, AgyFlags
    <3> QED
      BY <2>1, <2>3, <3>1 DEF RowsBefore, PriorUsage
  <2> QED
    BY <1>3, <2>2, <2>3 DEF AgyStarts, AgyInit, Agy
<1>4. CASE AgySpends
  <2>1. PICK k \in Counters : spent' = [spent EXCEPT ![k] = @ + 1]
    BY <1>4 DEF AgySpends
  <2>2. spent' \in [Counters -> Nat] /\ \A q \in Counters : spent[q] <= spent'[q]
    BY <2>1
  <2> QED
    BY <1>4, <2>2, UsageKept DEF AgySpends, Agy, AgyOnly
<1>5. CASE AgyToolRefused \/ AgyFails \/ AgyCancelled
  BY <1>5, UsageKept DEF AgyToolRefused, AgyFails, AgyCancelled, Agy, AgyOnly, AgyStops, Settle, SettleAs, Waiting
<1>6. CASE AgyExits
  <2>1. PICK target \in AgyTargets[agy.terminal] : AgyStops(target)
    BY <1>6 DEF AgyExits
  <2>2. target \in {"COMPLETED", "FAILED", "CANCELLED", "INTERRUPTED"}
    <3>1. agy.terminal \in {"none", "SUCCESS", "CANCELED", "ERROR"}
      BY AgyFields
    <3> QED
      BY <2>1, <3>1 DEF AgyTargets
  <2>3. worker' = "settled" /\ state' \notin Waiting
    BY <2>1, <2>2 DEF AgyStops, Settle, SettleAs, Waiting
  <2> QED
    BY <1>6, <2>3, UsageKept DEF AgyExits, Agy, AgyOnly
<1>7. CASE \E status \in {"SUCCESS", "CANCELED", "ERROR"} : AgyResult(status)
  BY <1>7, UsageResult
<1> QED
  BY <1>1, <1>2, <1>3, <1>4, <1>5, <1>6, <1>7 DEF AgyStep

LEMMA UsageMuse ==
    ASSUME UsageHeld, MuseStep
    PROVE  UsageHeld'
<1> USE DEF Muse, Elsewhere, agyVars
<1>1. ASSUME family = "muse", UNCHANGED <<family, turn, rows, agy, spent>>, session' = session \/ session' = TRUE
      PROVE  UsageHeld'
  BY <1>1, UsageOfMuse DEF UsageHeld, UsageTypes
<1>2. CASE MuseRefused \/ MuseOpens \/ MuseSavesSession \/ MuseSessionStarts \/ MuseSessionResumes
  BY <1>1, <1>2 DEF MuseRefused, MuseOpens, MuseSavesSession, MuseSessionStarts, MuseSessionResumes
<1>3. CASE MuseCannotPrompt \/ MuseIntent \/ MuseSubmit
  BY <1>1, <1>3 DEF MuseCannotPrompt, MuseIntent, MuseSubmit, Return
<1>4. CASE MuseReads \/ MuseAcked \/ MuseInterrupts
  BY <1>1, <1>4 DEF MuseReads, MuseAcked, MuseInterrupts, Continue
<1>5. CASE MuseRejected \/ MuseAnswered \/ MuseBreaks \/ MuseTimedOut
  BY <1>1, <1>5 DEF MuseRejected, MuseAnswered, MuseBreaks, MuseTimedOut, Return
<1>6. CASE MuseStopped \/ MuseJournals \/ MuseSettles
  BY <1>1, <1>6 DEF MuseStopped, MuseJournals, MuseSettles
<1> QED
  BY <1>2, <1>3, <1>4, <1>5, <1>6 DEF MuseStep

LEMMA UsageStep == Working /\ Sessions /\ UsageHeld /\ [Next]_vars => UsageHeld'
<1> SUFFICES ASSUME Working, Sessions, UsageHeld, [Next]_vars PROVE UsageHeld'
  OBVIOUS
<1>1. CASE TaskStep
  BY <1>1, UsageTask
<1>2. CASE MuseStep
  BY <1>2, UsageMuse
<1>3. CASE HostStep
  <2>1. UNCHANGED <<family, turn, rows, agy, spent, session, worker, state>>
    BY <1>3, HostLeaves DEF taskVars, agyVars
  <2> QED
    BY <2>1 DEF UsageHeld, UsageTypes, RowsBefore, PriorUsage
<1>4. CASE AgyStep
  BY <1>4, UsageAgy
<1>5. CASE UNCHANGED vars
  BY <1>5 DEF vars, taskVars, agyVars, UsageHeld, UsageTypes, RowsBefore, PriorUsage
<1> QED
  BY <1>1, <1>2, <1>3, <1>4, <1>5 DEF Next

LEMMA UsageHeldAddsUp == UsageHeld => UsageAddsUp
<1> SUFFICES ASSUME UsageHeld, rows # <<>>, NEW k \in Counters
             PROVE  /\ CountedBy(k, Len(rows)) <= spent[k]
                    /\ \A i, j \in 0..Len(rows) :
                          (i <= j /\ \A n \in i..j : Reported(k, n)) =>
                              CountedBy(k, j) = CountedBy(k, i) + Total(k, j) - Total(k, i)
                    /\ \A i \in DOMAIN rows : ~Reported(k, i - 1) => CountedBy(k, i) = CountedBy(k, i - 1)
  BY DEF UsageAddsUp
<1>1. rows \in Seq(Usages) /\ AddsUp(rows, spent, k)
  BY DEF UsageHeld, UsageTypes, RowsAddUp
<1>2. \A n : /\ CountedBy(k, n) = CountedTo(rows, k, n)
             /\ Reported(k, n) = HasAt(rows, k, n)
             /\ Total(k, n) = TotalAt(rows, k, n)
  BY DEF CountedBy, CountedTo, Reported, HasAt, Total, TotalAt
<1>3. CountedTo(rows, k, Len(rows)) <= spent[k] /\ \A i \in 1..Len(rows) : StepAt(rows, k, i)
  BY <1>1 DEF AddsUp
<1>4. /\ \A i, j \in 0..Len(rows) :
            (i <= j /\ \A n \in i..j : HasAt(rows, k, n)) =>
                CountedTo(rows, k, j) = CountedTo(rows, k, i) + TotalAt(rows, k, j) - TotalAt(rows, k, i)
      /\ \A i \in DOMAIN rows : ~HasAt(rows, k, i - 1) => CountedTo(rows, k, i) = CountedTo(rows, k, i - 1)
  BY <1>1, <1>3, AddsUpRuns
<1> QED
  BY <1>2, <1>3, <1>4

(* The counted usage of a conversation always adds up to what consecutive  *)
(* reports differ by, counter for counter, whichever turns lost theirs     *)
(* (_native_agy_worker, _record_usage, insert_turn_usage).                 *)
THEOREM UsageIsAccounted == Spec => []UsageAddsUp
<1>1. Init => Working /\ Sessions /\ UsageHeld
  BY WorkingInit, SessionsInit, UsageInit
<1>2. Working /\ Sessions /\ UsageHeld /\ [Next]_vars => Working' /\ Sessions' /\ UsageHeld'
  BY WorkingStep, SessionsStep, UsageStep
<1>3. UsageHeld => UsageAddsUp
  BY UsageHeldAddsUp
<1> QED
  BY <1>1, <1>2, <1>3, PTL DEF Spec

-----------------------------------------------------------------------------
(* Muse: what the client makes of the stream *)

Over == {"settled", "rejected"}
Terminals == KnownTerminals \cup {"other"}
Replies == {"ok", "definitive", "internal", "unexpected"}
Targets == {"none", "COMPLETED", "CANCELLED", "FAILED", "RECOVERY_AMBIGUOUS"}

Heard ==
    [kind : {"event"}, n : 1..MaxEvents, v : {"item"}]
        \cup [kind : {"violation"}, n : {0}, v : {"none"}]
        \cup [kind : {"terminal"}, n : {0}, v : Terminals]

Messages ==
    Heard \cup [kind : {"reply"}, n : {0}, v : Replies]
          \cup [kind : {"ask", "eof"}, n : {0}, v : {"none"}]

Clients ==
    [acked : BOOLEAN, reply : Replies \cup {"none"}, before : Seq(Heard), seen : SUBSET (1..MaxEvents),
     captured : [1..MaxEvents -> Nat], terminal : Terminals \cup {"none"}, fatal : BOOLEAN,
     settled : BOOLEAN, target : Targets]

(* What client c has taken from the stream, and what the rest of b after k *)
(* and then q will tell it, is what became of the command, s.              *)
Truthful(c, b, k, q, s) ==
    /\ \A i \in 1..Len(q) : q[i].kind = "terminal" => s = "settled"
    /\ \A i \in 1..Len(q) : q[i].kind = "reply" /\ q[i].v = "definitive" => s = "rejected"
    /\ \A i \in (k + 1)..Len(b) : b[i].kind = "terminal" => s = "settled"
    /\ c.terminal # "none" => s = "settled"
    /\ c.reply = "definitive" => s = "rejected"
    /\ c.settled => s \in Over

(* No event follows the terminal; of the e events that were sent, those    *)
(* that c has not seen are in the rest of b and in q, unless c gave up.    *)
InOrder(c, b, k, q, e) ==
    /\ \A i, j \in 1..Len(q) : i < j /\ q[i].kind = "terminal" => q[j].kind # "event"
    /\ \A i, j \in (k + 1)..Len(b) : i < j /\ b[i].kind = "terminal" => b[j].kind # "event"
    /\ \A i \in (k + 1)..Len(b), j \in 1..Len(q) : b[i].kind = "terminal" => q[j].kind # "event"
    /\ ~c.fatal => \A n \in 1..e :
          \/ n \in c.seen
          \/ \E i \in (k + 1)..Len(b) : b[i].kind = "event" /\ b[i].n = n
          \/ \E i \in 1..Len(q) : q[i].kind = "event" /\ q[i].n = n
    /\ c.terminal # "none" => \A n \in 1..e : n \in c.seen

(* An event is captured once.                                              *)
CapturedOnce(c) == \A n \in 1..MaxEvents : c.captured[n] = IF n \in c.seen THEN 1 ELSE 0

LEMMA CountOne ==
    ASSUME NEW S, NEW f \in [S -> Nat], NEW x \in S
    PROVE  /\ [f EXCEPT ![x] = f[x] + 1] \in [S -> Nat]
           /\ \A n \in S : [f EXCEPT ![x] = f[x] + 1][n] = IF n = x THEN f[x] + 1 ELSE f[n]
OBVIOUS

(* What _event does to each field.                                         *)
LEMMA EventFields ==
    ASSUME NEW c \in Clients, NEW m \in Heard
    PROVE  /\ Event(c, m) \in Clients
           /\ Event(c, m).acked = c.acked /\ Event(c, m).reply = c.reply
           /\ Event(c, m).before = c.before /\ Event(c, m).target = c.target
           /\ c.fatal => Event(c, m) = c
           /\ ~c.fatal /\ m.kind = "event" =>
                 /\ Event(c, m).seen = c.seen \cup {m.n} /\ Event(c, m).fatal = FALSE
                 /\ Event(c, m).terminal = c.terminal /\ Event(c, m).settled = c.settled
           /\ ~c.fatal /\ m.kind = "violation" =>
                 /\ Event(c, m).seen = c.seen /\ Event(c, m).fatal = TRUE
                 /\ Event(c, m).terminal = c.terminal /\ Event(c, m).settled = c.settled
           /\ ~c.fatal /\ m.kind = "terminal" =>
                 /\ Event(c, m).seen = c.seen /\ Event(c, m).fatal = FALSE
                 /\ c.terminal # "none" => Event(c, m) = c
                 /\ Event(c, m).terminal \in Terminals
           /\ m.kind \in {"event", "violation", "terminal"}
           /\ CapturedOnce(c) => CapturedOnce(Event(c, m))
<1>1. m.kind \in {"event", "violation", "terminal"}
  BY DEF Heard
<1>2. CASE c.fatal
  BY <1>1, <1>2 DEF Event
<1>3. CASE ~c.fatal /\ m.kind = "event"
  <2>1. Event(c, m) = Capture(c, m) /\ m.n \in 1..MaxEvents
    BY <1>3 DEF Event, Heard
  <2>2. CASE m.n \in c.seen
    <3>1. Event(c, m) = c /\ c.seen \cup {m.n} = c.seen
      BY <2>1, <2>2 DEF Capture
    <3> QED
      BY <1>1, <1>3, <3>1 DEF Clients
  <2>3. CASE m.n \notin c.seen
    <3>1. Event(c, m) = [c EXCEPT !.seen = c.seen \cup {m.n},
                                  !.captured = [c.captured EXCEPT ![m.n] = c.captured[m.n] + 1]]
      BY <2>1, <2>3 DEF Capture, Clients
    <3> DEFINE captured == [c.captured EXCEPT ![m.n] = c.captured[m.n] + 1]
    <3>9. c.captured \in [1..MaxEvents -> Nat] /\ c.seen \in SUBSET (1..MaxEvents)
      BY DEF Clients
    <3>2. captured \in [1..MaxEvents -> Nat] /\ c.seen \cup {m.n} \in SUBSET (1..MaxEvents)
      BY <2>1, <3>9, CountOne
    <3>8. \A n \in 1..MaxEvents : captured[n] = IF n = m.n THEN c.captured[m.n] + 1 ELSE c.captured[n]
      BY <2>1, <3>9, CountOne
    <3> HIDE DEF captured
    <3>3. CapturedOnce(c) => \A n \in 1..MaxEvents : captured[n] = IF n \in c.seen \cup {m.n} THEN 1 ELSE 0
      BY <2>1, <2>3, <3>8 DEF CapturedOnce
    <3>4. Event(c, m) = [c EXCEPT !.seen = c.seen \cup {m.n}, !.captured = captured]
      BY <3>1 DEF captured
    <3>5. Event(c, m) \in Clients
      BY <3>2, <3>4 DEF Clients
    <3>6. Event(c, m).captured = captured /\ Event(c, m).seen = c.seen \cup {m.n}
      BY <3>4 DEF Clients
    <3>7. CapturedOnce(c) => CapturedOnce(Event(c, m))
      BY <3>3, <3>6 DEF CapturedOnce
    <3> QED
      BY <1>1, <1>3, <3>4, <3>5, <3>6, <3>7 DEF Clients
  <2> QED
    BY <2>2, <2>3
<1>4. CASE ~c.fatal /\ m.kind = "violation"
  <2>1. Event(c, m) = [c EXCEPT !.fatal = TRUE]
    BY <1>4 DEF Event
  <2> QED
    BY <1>1, <1>4, <2>1 DEF Clients, CapturedOnce
<1>5. CASE ~c.fatal /\ m.kind = "terminal"
  <2>1. m.v \in Terminals /\ "none" \notin Terminals
    BY <1>5 DEF Heard, Terminals, KnownTerminals
  <2>2. CASE c.terminal = "none"
    <3> DEFINE known == m.v \in KnownTerminals
    <3>1. known \in BOOLEAN
      OBVIOUS
    <3> HIDE DEF known
    <3>2. Event(c, m) = [c EXCEPT !.terminal = m.v, !.settled = known]
      BY <1>5, <2>2 DEF Event, known
    <3> QED
      BY <1>1, <1>5, <2>1, <2>2, <3>1, <3>2 DEF Clients, CapturedOnce
  <2>3. CASE c.terminal # "none"
    <3>1. Event(c, m) = c
      BY <1>5, <2>3 DEF Event
    <3> QED
      BY <1>1, <1>5, <2>3, <3>1 DEF Clients
  <2> QED
    BY <2>2, <2>3
<1> QED
  BY <1>1, <1>2, <1>3, <1>4, <1>5 DEF Clients

(* One message of b is processed.                                          *)
LEMMA EventStep ==
    ASSUME NEW c \in Clients, NEW b \in Seq(Heard), NEW k \in Nat, k < Len(b),
           NEW q \in Seq(Messages), NEW s, NEW e \in Nat,
           Truthful(c, b, k, q, s), InOrder(c, b, k, q, e)
    PROVE  /\ Truthful(Event(c, b[k + 1]), b, k + 1, q, s)
           /\ InOrder(Event(c, b[k + 1]), b, k + 1, q, e)
<1> DEFINE m == b[k + 1]
           d == Event(c, m)
<1>1. m \in Heard /\ k + 1 \in (k + 1)..Len(b) /\ \A i \in ((k + 1) + 1)..Len(b) : i \in (k + 1)..Len(b) /\ i > k + 1
  OBVIOUS
<1>2. \A i \in (k + 1)..Len(b) : i = k + 1 \/ i \in ((k + 1) + 1)..Len(b)
  OBVIOUS
<1>3. d.reply = c.reply /\ m.kind \in {"event", "violation", "terminal"}
  BY <1>1, EventFields
<1>4. c.fatal => d = c
  BY <1>1, EventFields
<1>5. ~c.fatal /\ m.kind = "event" =>
         d.seen = c.seen \cup {m.n} /\ d.fatal = FALSE /\ d.terminal = c.terminal /\ d.settled = c.settled
  BY <1>1, EventFields
<1>6. ~c.fatal /\ m.kind = "violation" =>
         d.seen = c.seen /\ d.fatal = TRUE /\ d.terminal = c.terminal /\ d.settled = c.settled
  BY <1>1, EventFields
<1>7. ~c.fatal /\ m.kind = "terminal" =>
         d.seen = c.seen /\ d.fatal = FALSE /\ (c.terminal # "none" => d = c)
  BY <1>1, EventFields
<1> HIDE DEF m, d
<1>8. m.kind = "terminal" => s = "settled"
  BY <1>1 DEF Truthful, m
<1>9. Truthful(d, b, k + 1, q, s)
  BY <1>1, <1>3, <1>4, <1>5, <1>6, <1>7, <1>8 DEF Truthful, Over
<1>10. InOrder(d, b, k + 1, q, e)
  <2>1. /\ \A i, j \in 1..Len(q) : i < j /\ q[i].kind = "terminal" => q[j].kind # "event"
        /\ \A i, j \in ((k + 1) + 1)..Len(b) : i < j /\ b[i].kind = "terminal" => b[j].kind # "event"
        /\ \A i \in ((k + 1) + 1)..Len(b), j \in 1..Len(q) : b[i].kind = "terminal" => q[j].kind # "event"
    BY <1>1 DEF InOrder
  <2>2. m.kind = "terminal" =>
          /\ \A i \in ((k + 1) + 1)..Len(b) : b[i].kind # "event"
          /\ \A i \in 1..Len(q) : q[i].kind # "event"
    BY <1>1 DEF InOrder, m
  <2>3. ASSUME ~d.fatal, NEW n \in 1..e
        PROVE  \/ n \in d.seen
               \/ \E i \in ((k + 1) + 1)..Len(b) : b[i].kind = "event" /\ b[i].n = n
               \/ \E i \in 1..Len(q) : q[i].kind = "event" /\ q[i].n = n
    <3>1. ~c.fatal /\ m.kind \in {"event", "terminal"}
      BY <2>3, <1>3, <1>4, <1>6
    <3>2. \/ n \in c.seen
          \/ \E i \in (k + 1)..Len(b) : b[i].kind = "event" /\ b[i].n = n
          \/ \E i \in 1..Len(q) : q[i].kind = "event" /\ q[i].n = n
      BY <3>1, <2>3 DEF InOrder
    <3>3. (m.kind = "event" /\ m.n = n) => n \in d.seen
      BY <3>1, <1>5
    <3>4. n \in c.seen => n \in d.seen
      BY <3>1, <1>5, <1>7
    <3> QED
      BY <3>2, <3>3, <3>4, <1>2 DEF m
  <2>4. ASSUME d.terminal # "none", NEW n \in 1..e PROVE n \in d.seen
    <3>1. CASE c.terminal # "none"
      <4>1. n \in c.seen
        BY <3>1 DEF InOrder
      <4> QED
        BY <4>1, <1>3, <1>4, <1>5, <1>6, <1>7
    <3>2. CASE c.terminal = "none"
      <4>1. ~c.fatal /\ m.kind = "terminal"
        BY <2>4, <3>2, <1>3, <1>4, <1>5, <1>6
      <4>2. \/ n \in c.seen
            \/ \E i \in (k + 1)..Len(b) : b[i].kind = "event" /\ b[i].n = n
            \/ \E i \in 1..Len(q) : q[i].kind = "event" /\ q[i].n = n
        BY <4>1 DEF InOrder
      <4>3. n \in c.seen
        BY <4>1, <4>2, <2>2, <1>2 DEF m
      <4> QED
        BY <4>1, <4>3, <1>7
    <3> QED
      BY <3>1, <3>2
  <2> QED
    BY <2>1, <2>3, <2>4 DEF InOrder
<1> QED
  BY <1>9, <1>10 DEF d, m

(* The next message of the stream is kept back.                            *)
LEMMA KeptBack ==
    ASSUME NEW c, NEW b \in Seq(Heard), NEW q \in Seq(Messages), q # <<>>, NEW s, NEW e \in Nat,
           Truthful(c, b, 0, q, s), InOrder(c, b, 0, q, e)
    PROVE  /\ Truthful(c, Append(b, Head(q)), 0, Tail(q), s)
           /\ InOrder(c, Append(b, Head(q)), 0, Tail(q), e)
<1> DEFINE d == Append(b, Head(q))
           r == Tail(q)
           l == Len(b)
<1>1. /\ l \in Nat /\ Len(d) = l + 1 /\ d[l + 1] = q[1] /\ \A i \in 1..l : d[i] = b[i]
      /\ Len(q) \in Nat /\ Len(r) = Len(q) - 1 /\ 1 \in 1..Len(q)
      /\ \A i \in 1..Len(r) : i + 1 \in 1..Len(q) /\ r[i] = q[i + 1]
  OBVIOUS
<1>2. \A i \in 1..Len(q) : i = 1 \/ (i - 1 \in 1..Len(r) /\ q[i] = r[i - 1])
  BY <1>1
<1>3. \A i \in (0 + 1)..Len(d) : i = l + 1 \/ i \in 1..l
  BY <1>1
<1>4. (0 + 1)..Len(b) = 1..l /\ l + 1 \in (0 + 1)..Len(d) /\ \A i \in 1..l : i \in (0 + 1)..Len(d)
  BY <1>1
<1> HIDE DEF d, r, l
<1>5. Truthful(c, d, 0, r, s)
  BY <1>1, <1>3, <1>4 DEF Truthful
<1>6. ASSUME NEW i \in 1..Len(r), NEW j \in 1..Len(r), i < j, r[i].kind = "terminal"
      PROVE  r[j].kind # "event"
  <2>1. /\ i + 1 \in 1..Len(q) /\ j + 1 \in 1..Len(q) /\ i + 1 < j + 1
        /\ r[i] = q[i + 1] /\ r[j] = q[j + 1]
    BY <1>1, <1>6
  <2> QED
    BY <1>6, <2>1 DEF InOrder
<1>7. ASSUME NEW i \in (0 + 1)..Len(d), NEW j \in (0 + 1)..Len(d), i < j, d[i].kind = "terminal"
      PROVE  d[j].kind # "event"
  <2>1. i \in 1..l /\ d[i] = b[i]
    BY <1>1, <1>3, <1>7
  <2>2. CASE j = l + 1
    <3>1. i \in (0 + 1)..Len(b) /\ b[i].kind = "terminal"
      BY <1>4, <1>7, <2>1
    <3>2. q[1].kind # "event"
      BY <1>1, <3>1 DEF InOrder
    <3>3. d[j] = q[1]
      BY <1>1, <2>2
    <3> QED
      BY <3>2, <3>3
  <2>3. CASE j \in 1..l
    <3>1. /\ i \in (0 + 1)..Len(b) /\ j \in (0 + 1)..Len(b) /\ b[i].kind = "terminal"
          /\ d[j] = b[j]
      BY <1>1, <1>4, <1>7, <2>1, <2>3
    <3>2. b[j].kind # "event"
      BY <1>7, <3>1 DEF InOrder
    <3> QED
      BY <3>1, <3>2
  <2> QED
    BY <1>3, <2>2, <2>3
<1>8. ASSUME NEW i \in (0 + 1)..Len(d), NEW j \in 1..Len(r), d[i].kind = "terminal"
      PROVE  r[j].kind # "event"
  <2>1. j + 1 \in 1..Len(q) /\ r[j] = q[j + 1] /\ 1 < j + 1
    BY <1>1
  <2>2. CASE i = l + 1
    <3>1. q[1].kind = "terminal"
      BY <1>1, <1>8, <2>2
    <3>2. q[j + 1].kind # "event"
      BY <1>1, <2>1, <3>1 DEF InOrder
    <3> QED
      BY <2>1, <3>2
  <2>3. CASE i \in 1..l
    <3>1. i \in (0 + 1)..Len(b) /\ b[i].kind = "terminal"
      BY <1>1, <1>4, <1>8, <2>3
    <3>2. q[j + 1].kind # "event"
      BY <2>1, <3>1 DEF InOrder
    <3> QED
      BY <2>1, <3>2
  <2> QED
    BY <1>3, <2>2, <2>3
<1>9. ASSUME ~c.fatal, NEW n \in 1..e
      PROVE  \/ n \in c.seen
             \/ \E i \in (0 + 1)..Len(d) : d[i].kind = "event" /\ d[i].n = n
             \/ \E i \in 1..Len(r) : r[i].kind = "event" /\ r[i].n = n
  <2>1. \/ n \in c.seen
        \/ \E i \in 1..l : b[i].kind = "event" /\ b[i].n = n
        \/ \E i \in 1..Len(q) : q[i].kind = "event" /\ q[i].n = n
    BY <1>4, <1>9 DEF InOrder
  <2>2. ASSUME NEW i \in 1..Len(q), q[i].kind = "event", q[i].n = n
        PROVE  \/ d[l + 1].kind = "event" /\ d[l + 1].n = n
               \/ \E j \in 1..Len(r) : r[j].kind = "event" /\ r[j].n = n
    <3>1. CASE i = 1
      BY <1>1, <2>2, <3>1
    <3>2. CASE i # 1
      <4>1. i - 1 \in 1..Len(r) /\ q[i] = r[i - 1]
        BY <1>2, <3>2
      <4> QED
        BY <2>2, <4>1
    <3> QED
      BY <3>1, <3>2
  <2> QED
    BY <1>1, <1>4, <2>1, <2>2
<1>10. c.terminal # "none" => \A n \in 1..e : n \in c.seen
  BY DEF InOrder
<1>11. InOrder(c, d, 0, r, e)
  BY <1>6, <1>7, <1>8, <1>9, <1>10 DEF InOrder
<1> QED
  BY <1>5, <1>11 DEF d, r

(* The next message of the stream is processed at once: it is the first of *)
(* those kept back, and the only one.                                      *)
LEMMA EventRead ==
    ASSUME NEW c \in Clients, NEW q \in Seq(Messages), q # <<>>, Head(q) \in Heard, NEW s, NEW e \in Nat,
           Truthful(c, <<>>, 0, q, s), InOrder(c, <<>>, 0, q, e)
    PROVE  /\ Truthful(Event(c, Head(q)), <<>>, 0, Tail(q), s)
           /\ InOrder(Event(c, Head(q)), <<>>, 0, Tail(q), e)
<1> DEFINE b == Append(<<>>, Head(q))
           r == Tail(q)
           d == Event(c, Head(q))
<1>1. /\ b \in Seq(Heard) /\ Len(b) = 1 /\ b[0 + 1] = Head(q) /\ r \in Seq(Messages)
      /\ <<>> \in Seq(Heard) /\ 0 \in Nat /\ 0 < Len(b)
      /\ ((0 + 1) + 1)..Len(b) = {} /\ (0 + 1)..Len(<<>>) = {}
  OBVIOUS
<1>2. Truthful(c, b, 0, r, s) /\ InOrder(c, b, 0, r, e)
  BY <1>1, KeptBack
<1> HIDE DEF b, r, d
<1>3. Truthful(Event(c, b[0 + 1]), b, 0 + 1, r, s) /\ InOrder(Event(c, b[0 + 1]), b, 0 + 1, r, e)
  BY <1>1, <1>2, EventStep, Zenon
<1>4. Truthful(d, b, 0 + 1, r, s) /\ InOrder(d, b, 0 + 1, r, e)
  BY <1>1, <1>3 DEF d
<1>5. Truthful(d, <<>>, 0, r, s)
  BY <1>1, <1>4 DEF Truthful
<1>6. InOrder(d, <<>>, 0, r, e)
  BY <1>1, <1>4 DEF InOrder
<1> QED
  BY <1>5, <1>6 DEF d, r

(* Replay hands the messages that were kept back to _event, in order.      *)
LEMMA ReplayRun ==
    ASSUME NEW c \in Clients
    PROVE  \E a \in [0..Len(c.before) -> Clients] :
               /\ a[0] = [c EXCEPT !.acked = TRUE, !.before = <<>>]
               /\ \A i \in 1..Len(c.before) : a[i] = Event(a[i - 1], c.before[i])
               /\ Replay(c) = a[Len(c.before)]
<1> DEFINE b == c.before
           n == Len(b)
           base == [c EXCEPT !.acked = TRUE, !.before = <<>>]
           step == [i \in 1..n |-> [d \in Clients |-> Event(d, b[i])]]
<1>1. b \in Seq(Heard)
  BY DEF Clients
<1>2. n \in Nat /\ DOMAIN b = 1..n /\ \A i \in 1..n : b[i] \in Heard
  BY <1>1
<1>3. base \in Clients
  <2>1. <<>> \in Seq(Heard) /\ TRUE \in BOOLEAN
    OBVIOUS
  <2> QED
    BY <2>1 DEF Clients
<1>4. \A i \in 1..n, d \in Clients : Event(d, b[i]) \in Clients
  BY <1>2, EventFields
<1> HIDE DEF base, n, b
<1>5. step \in [1..n -> [Clients -> Clients]]
  BY <1>4
<1>6. \A i \in 1..n, d \in Clients : step[i][d] = Event(d, b[i])
  OBVIOUS
<1> HIDE DEF step
<1>7. PICK t \in [SUBSET (1..n) -> Clients] : IsTable(t, n, base, step)
  BY <1>2, <1>3, <1>5, TableExists
<1>8. \A s \in SUBSET (1..n) : s # {} => Max(s) \in s
  BY <1>2, MaxInside
<1>9. t = [s \in SUBSET (1..n) |->
              IF s = {} THEN base ELSE Event(t[s \ {Max(s)}], b[Max(s)])]
  BY <1>6, <1>7, <1>8 DEF IsTable
<1> DEFINE h == CHOOSE h : h = [s \in SUBSET (1..n) |->
                     IF s = {} THEN base ELSE Event(h[s \ {Max(s)}], b[Max(s)])]
<1>10. h = [s \in SUBSET (1..n) |->
               IF s = {} THEN base ELSE Event(h[s \ {Max(s)}], b[Max(s)])]
  BY <1>9
<1>11. Replay(c) = h[1..n]
  BY <1>2 DEF Replay, FoldLeft, MapThenFoldSet, base, b
<1> HIDE DEF h
<1>12. h[1..0] = base
  BY <1>10
<1>13. ASSUME NEW i \in 1..n
       PROVE  h[1..i] = Event(h[1..(i - 1)], b[i])
  <2>1. /\ 1..i \in SUBSET (1..n) /\ 1..i # {}
        /\ Max(1..i) = i /\ (1..i) \ {i} = 1..(i - 1)
    BY <1>2, PrefixIndices
  <2> QED
    BY <1>10, <2>1
<1> DEFINE G == {k \in Nat : k <= n => h[1..k] \in Clients}
           a == [i \in 0..n |-> h[1..i]]
<1>14. 0 \in G /\ \A k \in 0..(n - 1) : k \in G => k + 1 \in G
  <2>1. 0 \in G
    BY <1>3, <1>12
  <2>2. ASSUME NEW k \in 0..(n - 1), k \in G PROVE k + 1 \in G
    <3>1. k + 1 \in 1..n /\ (k + 1) - 1 = k /\ h[1..k] \in Clients
      BY <2>2, <1>2
    <3>2. h[1..(k + 1)] = Event(h[1..k], b[k + 1])
      BY <3>1, <1>13
    <3> QED
      BY <3>1, <3>2, <1>4
  <2> QED
    BY <2>1, <2>2
<1>15. \A k \in 0..n : h[1..k] \in Clients
  <2>1. ASSUME NEW k \in 0..n PROVE k \in G
    <3> HIDE DEF G
    <3>1. k \in Nat /\ G \in SUBSET Nat /\ \A j \in 0..(k - 1) : j \in G => j + 1 \in G
      BY <1>2, <1>14 DEF G
    <3> QED
      BY <3>1, <1>14, CountingUp
  <2> QED
    BY <2>1, <1>2
<1>16. a \in [0..n -> Clients] /\ a[0] = base /\ a[n] = h[1..n]
  BY <1>2, <1>12, <1>15
<1>17. \A i \in 1..n : a[i] = Event(a[i - 1], b[i])
  BY <1>2, <1>13
<1> HIDE DEF a
<1> QED
  BY <1>11, <1>16, <1>17 DEF base, n, b

(* What was consistent with the messages kept back is so without them.     *)
LEMMA ReplayConsistent ==
    ASSUME NEW c \in Clients, NEW q \in Seq(Messages), NEW s, NEW e \in Nat,
           Truthful(c, c.before, 0, q, s), InOrder(c, c.before, 0, q, e), CapturedOnce(c)
    PROVE  /\ Replay(c) \in Clients /\ Replay(c).before = <<>> /\ Replay(c).target = c.target
           /\ Truthful(Replay(c), <<>>, 0, q, s) /\ InOrder(Replay(c), <<>>, 0, q, e)
           /\ CapturedOnce(Replay(c))
<1> DEFINE b == c.before
           n == Len(b)
           base == [c EXCEPT !.acked = TRUE, !.before = <<>>]
<1>1. b \in Seq(Heard)
  BY DEF Clients
<1>2. n \in Nat /\ \A i \in 1..n : b[i] \in Heard
  BY <1>1
<1>3. PICK a \in [0..n -> Clients] :
         /\ a[0] = base
         /\ \A i \in 1..n : a[i] = Event(a[i - 1], b[i])
         /\ Replay(c) = a[n]
  BY ReplayRun
<1>4. /\ base.before = <<>> /\ base.target = c.target /\ base.terminal = c.terminal /\ base.reply = c.reply
      /\ base.settled = c.settled /\ base.seen = c.seen /\ base.fatal = c.fatal /\ base.captured = c.captured
  BY DEF Clients
<1> HIDE DEF base
<1>5. Truthful(base, b, 0, q, s) /\ InOrder(base, b, 0, q, e) /\ CapturedOnce(base)
  BY <1>4 DEF Truthful, InOrder, CapturedOnce
<1> DEFINE Fine(k) == /\ Truthful(a[k], b, k, q, s) /\ InOrder(a[k], b, k, q, e) /\ CapturedOnce(a[k])
                      /\ a[k].before = <<>> /\ a[k].target = c.target
           G == {k \in Nat : k <= n => Fine(k)}
<1> HIDE DEF n, b
<1>6. Fine(0)
  BY <1>3, <1>4, <1>5
<1>7. ASSUME NEW k \in 0..(n - 1), Fine(k)
      PROVE  Fine(k + 1)
  <2>1. k \in Nat /\ k < n /\ k + 1 \in 1..n /\ (k + 1) - 1 = k /\ a[k] \in Clients /\ b[k + 1] \in Heard
    BY <1>2
  <2>2. a[k + 1] = Event(a[k], b[k + 1])
    BY <1>3, <2>1
  <2>3. Truthful(a[k + 1], b, k + 1, q, s) /\ InOrder(a[k + 1], b, k + 1, q, e)
    <3>1. k < Len(b) /\ Truthful(a[k], b, k, q, s) /\ InOrder(a[k], b, k, q, e)
      BY <1>7, <2>1 DEF n
    <3>2. Truthful(Event(a[k], b[k + 1]), b, k + 1, q, s) /\ InOrder(Event(a[k], b[k + 1]), b, k + 1, q, e)
      BY <1>1, <2>1, <3>1, EventStep, ZenonT(30)
    <3> QED
      BY <2>2, <3>2
  <2>4. CapturedOnce(a[k + 1]) /\ a[k + 1].before = <<>> /\ a[k + 1].target = c.target
    <3>1. CapturedOnce(a[k]) /\ a[k].before = <<>> /\ a[k].target = c.target
      BY <1>7
    <3> DEFINE d == a[k]
               m == b[k + 1]
    <3>2. d \in Clients /\ m \in Heard
      BY <2>1
    <3> HIDE DEF d, m
    <3>3. /\ Event(d, m).before = d.before /\ Event(d, m).target = d.target
          /\ CapturedOnce(d) => CapturedOnce(Event(d, m))
      BY <3>2, EventFields
    <3> QED
      BY <2>2, <3>1, <3>3 DEF d, m
  <2> QED
    BY <2>3, <2>4
<1> HIDE DEF Fine
<1>8. 0 \in G /\ \A k \in 0..(n - 1) : k \in G => k + 1 \in G
  BY <1>2, <1>6, <1>7
<1> HIDE DEF G
<1>9. n \in G
  BY <1>2, <1>8, CountingUp DEF G
<1>10. Fine(n)
  BY <1>2, <1>9 DEF G
<1>11. (n + 1)..Len(b) = {} /\ (0 + 1)..Len(<<>>) = {}
  BY <1>2 DEF n
<1>12. Truthful(a[n], <<>>, 0, q, s)
  BY <1>10, <1>11 DEF Fine, Truthful
<1>13. InOrder(a[n], <<>>, 0, q, e)
  BY <1>10, <1>11 DEF Fine, InOrder
<1>14. a[n] \in Clients
  BY <1>2, <1>3
<1> QED
  BY <1>3, <1>10, <1>12, <1>13, <1>14 DEF Fine

-----------------------------------------------------------------------------
(* Muse: commands and answers *)

Early == {"none", "ready", "open", "starting"}
Listening == {"idle", "intent", "prompting", "timedout", "cancelling"}
Fates == {"none", "sent", "running", "settled", "rejected", "stranded"}

MuseTypes ==
    /\ host \in {"up", "down"}
    /\ command \in [Commands -> Fates]
    /\ pipe \in Seq(Messages) /\ client \in Clients
    /\ said \in [messages : Nat, events : 0..MaxEvents, reply : BOOLEAN]

(* A command that was sent has an intent; the intents of earlier turns     *)
(* have outcomes; an outcome is the truth about its command.               *)
JournalTrue ==
    /\ intents \subseteq 1..turn /\ outcomes \subseteq intents
    /\ family = "agy" => intents = {}
    /\ \A c \in intents : c < turn => c \in outcomes
    /\ \A c \in Commands : command[c] # "none" => c \in intents
    /\ \A c \in Commands : c \in outcomes => command[c] \in Over

(* Where the worker stands tells whether the turn's command was sent, and  *)
(* whether Muse runs.                                                      *)
PlacesFit ==
    /\ family = "muse" /\ worker \in {"none", "ready", "returned", "journaled", "settled"} => host = "down"
    /\ state \in Waiting \/ worker \in {"ready", "open", "starting", "idle"} => turn \notin intents
    /\ family = "muse" /\ worker = "intent" => turn \in intents /\ command[turn] = "none"
    /\ family = "agy" => client.target = "none"

(* While the client listens, it and the stream are consistent with what    *)
(* became of the command; what it returned with is.                        *)
TalkFits ==
    family = "muse" =>
        /\ worker \in Early => client = Fresh /\ pipe = <<>> /\ said = Silent
        /\ CapturedOnce(client)
        /\ client.acked => client.before = <<>>
        /\ worker \in Listening =>
              /\ Truthful(client, client.before, 0, pipe, command[turn])
              /\ InOrder(client, client.before, 0, pipe, said.events)
        /\ worker = "returned" /\ client.settled => command[turn] \in Over
        /\ AnswerComplete

MuseHeld == MuseTypes /\ JournalTrue /\ PlacesFit /\ TalkFits

LEMMA FreshType ==
    /\ Fresh \in Clients /\ Silent \in [messages : Nat, events : 0..MaxEvents, reply : BOOLEAN]
    /\ CapturedOnce(Fresh) /\ Fresh.before = <<>> /\ Silent.events = 0
    /\ Fresh.terminal = "none" /\ Fresh.reply = "none" /\ Fresh.settled = FALSE /\ Fresh.fatal = FALSE
    /\ Fresh.target = "none"
<1>1. <<>> \in Seq(Heard) /\ [n \in 1..MaxEvents |-> 0] \in [1..MaxEvents -> Nat] /\ MaxEvents \in Nat
  BY BoundsAssumption
<1>2. Fresh \in Clients
  BY <1>1 DEF Fresh, Clients, Targets
<1>3. Silent \in [messages : Nat, events : 0..MaxEvents, reply : BOOLEAN] /\ Silent.events = 0
  BY <1>1 DEF Silent
<1> QED
  BY <1>2, <1>3 DEF Fresh, CapturedOnce

(* An untouched client and an empty stream are consistent with anything.   *)
LEMMA FreshFits ==
    ASSUME NEW s
    PROVE  Truthful(Fresh, Fresh.before, 0, <<>>, s) /\ InOrder(Fresh, Fresh.before, 0, <<>>, Silent.events)
<1>1. Len(<<>>) = 0 /\ 1..0 = {} /\ (0 + 1)..0 = {}
  OBVIOUS
<1> QED
  BY <1>1, FreshType DEF Truthful, InOrder

LEMMA MuseInit == Init => MuseHeld
<1> SUFFICES ASSUME Init PROVE MuseHeld
  OBVIOUS
<1>1. /\ family \in {"muse", "agy"} /\ state = "QUEUED" /\ turn = 1 /\ worker = "none"
      /\ intents = {} /\ outcomes = {} /\ host = "down"
      /\ command = [c \in Commands |-> "none"] /\ pipe = <<>> /\ said = Silent /\ client = Fresh
  BY DEF Init
<1>2. pipe \in Seq(Messages)
  BY <1>1
<1>3. MuseTypes
  BY <1>1, <1>2, FreshType DEF MuseTypes, Fates
<1>4. JournalTrue
  BY <1>1 DEF JournalTrue
<1>5. PlacesFit
  BY <1>1, FreshType DEF PlacesFit
<1>6. TalkFits
  BY <1>1, FreshType DEF TalkFits, Listening, AnswerComplete
<1> QED
  BY <1>3, <1>4, <1>5, <1>6 DEF MuseHeld

(* A fate that is not yet decided may become any other.                    *)
LEMMA FateOpen ==
    ASSUME NEW c, NEW b, NEW k, NEW q, NEW s, NEW t, Truthful(c, b, k, q, s), s \notin Over
    PROVE  Truthful(c, b, k, q, t)
BY DEF Truthful, Over

(* Killing the agent decides nothing.                                      *)
LEMMA KillKeeps ==
    ASSUME MuseTypes, JournalTrue, Kill, UNCHANGED <<family, turn, intents, outcomes>>
    PROVE  /\ host' = "down" /\ command' \in [Commands -> Fates]
           /\ JournalTrue'
           /\ \A c \in Commands : /\ command[c] \in Over => command'[c] = command[c]
                                  /\ command[c] = "none" => command'[c] = "none"
                                  /\ command'[c] # command[c] => command[c] \notin Over
<1>1. /\ \A c \in Commands : /\ command[c] \in Over => command'[c] = command[c]
                             /\ command[c] = "none" => command'[c] = "none"
                             /\ command'[c] # command[c] => command[c] \notin Over
      /\ host' = "down" /\ command' \in [Commands -> Fates]
  BY DEF Kill, MuseTypes, Fates, Over
<1>2. Commands' = Commands
  BY DEF Commands
<1>3. JournalTrue'
  BY <1>1, <1>2 DEF JournalTrue
<1> QED
  BY <1>1, <1>3

(* So the client and the stream stay consistent.                           *)
LEMMA KillTalk ==
    ASSUME Working, MuseTypes, JournalTrue, Kill, family = "muse", UNCHANGED <<family, turn, intents, outcomes>>,
           NEW c, NEW q, Truthful(c, c.before, 0, q, command[turn])
    PROVE  Truthful(c, c.before, 0, q, command'[turn])
<1>1. turn \in Commands
  BY DEF Working
<1>2. command'[turn] = command[turn] \/ command[turn] \notin Over
  BY <1>1, KillKeeps
<1> QED
  BY <1>2, FateOpen

LEMMA MuseHeldTask ==
    ASSUME Working, MuseHeld, TaskStep
    PROVE  MuseHeld'
<1> USE DEF MuseHeld, MuseTypes
<1>0. Commands' = Commands /\ turn \in Nat
  BY DEF Commands, Working
<1>1. CASE StartWorker
  <2>1. UNCHANGED <<family, turn, intents, outcomes, host, command, pipe, said, client>>
        /\ state \in Waiting /\ worker = "none" /\ worker' = "ready" /\ state' = "RUNNING"
    BY <1>1 DEF StartWorker, museVars, Waiting
  <2>2. JournalTrue'
    BY <2>1, <1>0 DEF JournalTrue
  <2>3. PlacesFit'
    BY <2>1 DEF PlacesFit, Waiting
  <2>4. TalkFits'
    BY <2>1 DEF TalkFits, Early, Listening, AnswerComplete
  <2> QED
    BY <2>1, <2>2, <2>3, <2>4, <1>0
<1>2. CASE ContinueTask
  <2>1. UNCHANGED <<family, intents, outcomes, host, command, pipe, said, client, worker>>
        /\ turn' = turn + 1 /\ state' = "RESUMING" /\ ~unresolved_commands
    BY <1>2 DEF ContinueTask, museVars
  <2>2. worker \in {"none", "settled"}
    BY <1>2 DEF ContinueTask, Working, Active
  <2>3. intents \subseteq 1..turn /\ outcomes \subseteq intents
    BY DEF JournalTrue
  <2>4. \A c \in intents : c \in outcomes
    BY <2>1 DEF unresolved_commands, JournalTrue, Working
  <2>5. intents \subseteq 1..(turn + 1) /\ turn + 1 \notin intents
    BY <2>3, <1>0
  <2>6. JournalTrue'
    BY <2>1, <2>3, <2>4, <2>5, <1>0 DEF JournalTrue
  <2>7. PlacesFit'
    BY <2>1, <2>2, <2>5 DEF PlacesFit
  <2>8. TalkFits'
    BY <2>1, <2>2 DEF TalkFits, Early, Listening, AnswerComplete
  <2> QED
    BY <2>1, <2>6, <2>7, <2>8, <1>0
<1>3. CASE CancelTask \/ Reconcile
  <2>1. UNCHANGED <<family, turn, intents, outcomes, host, command, pipe, said, client, worker>>
        /\ state' \notin Waiting
    BY <1>3 DEF CancelTask, Reconcile, museVars, Waiting, SettleAs
  <2>2. JournalTrue'
    BY <2>1, <1>0 DEF JournalTrue
  <2>3. PlacesFit'
    BY <2>1 DEF PlacesFit
  <2>4. TalkFits'
    BY <2>1 DEF TalkFits, AnswerComplete
  <2> QED
    BY <2>1, <2>2, <2>3, <2>4, <1>0
<1>4. CASE CompleteTurn
  <2>1. UNCHANGED <<family, turn, state, intents, outcomes, host, command>>
        /\ worker = "settled" /\ worker' = "none" /\ client' = Fresh /\ pipe' = <<>> /\ said' = Silent
    BY <1>4 DEF CompleteTurn
  <2>2. JournalTrue'
    BY <2>1, <1>0 DEF JournalTrue
  <2>3. PlacesFit'
    BY <2>1, FreshType DEF PlacesFit
  <2>4. TalkFits'
    BY <2>1, FreshType DEF TalkFits, Early, Listening, AnswerComplete
  <2>5. pipe' \in Seq(Messages)
    BY <2>1
  <2> QED
    BY <2>1, <2>2, <2>3, <2>4, <2>5, <1>0, FreshType
<1>5. CASE WorkerDies
  <2>1. UNCHANGED <<family, turn, state, intents, outcomes>> /\ Kill
        /\ worker' = "none" /\ client' = Fresh /\ pipe' = <<>> /\ said' = Silent
    BY <1>5 DEF WorkerDies, taskVars
  <2>2. JournalTrue' /\ host' = "down" /\ command' \in [Commands -> Fates]
    BY <2>1, KillKeeps
  <2>3. PlacesFit'
    BY <2>1, <2>2, FreshType DEF PlacesFit
  <2>4. TalkFits'
    BY <2>1, FreshType DEF TalkFits, Early, Listening, AnswerComplete
  <2>5. pipe' \in Seq(Messages)
    BY <2>1
  <2> QED
    BY <2>1, <2>2, <2>3, <2>4, <2>5, <1>0, FreshType
<1> QED
  BY <1>1, <1>2, <1>3, <1>4, <1>5 DEF TaskStep

LEMMA MuseHeldAgy ==
    ASSUME Working, MuseHeld, AgyStep
    PROVE  MuseHeld'
<1>1. family = "agy" /\ UNCHANGED <<family, turn, intents, outcomes, command, pipe, said, client>>
      /\ host' \in {host, "up", "down"}
  BY DEF AgyStep, AgyPrepares, AgyCatalog, AgyStarts, AgyInit, AgySpends, AgyToolRefused, AgyFails,
         AgyExits, AgyCancelled, AgyResult, Agy, AgyOnly, AgyStops, museVars
<1>2. Commands' = Commands
  BY DEF Commands
<1>3. MuseTypes'
  BY <1>1, <1>2 DEF MuseHeld, MuseTypes
<1>4. JournalTrue'
  BY <1>1, <1>2 DEF MuseHeld, JournalTrue
<1>5. PlacesFit'
  BY <1>1 DEF MuseHeld, PlacesFit, JournalTrue
<1>6. TalkFits'
  BY <1>1 DEF TalkFits
<1> QED
  BY <1>3, <1>4, <1>5, <1>6 DEF MuseHeld


(* Muse sends one more message.                                            *)
LEMMA AppendKeeps ==
    ASSUME NEW c, NEW b \in Seq(Heard), NEW q \in Seq(Messages), NEW s, NEW t, NEW e \in Nat, NEW f \in Nat,
           NEW m \in Messages, Truthful(c, b, 0, q, s), InOrder(c, b, 0, q, e),
           t = s \/ s \notin Over,
           m.kind = "terminal" => t = "settled",
           m.kind = "reply" /\ m.v = "definitive" => t = "rejected",
           m.kind = "event" => s # "settled",
           f = e \/ (m.kind = "event" /\ m.n = f /\ f = e + 1)
    PROVE  Truthful(c, b, 0, Append(q, m), t) /\ InOrder(c, b, 0, Append(q, m), f)
<1> DEFINE r == Append(q, m)
           l == Len(q)
<1>1. /\ l \in Nat /\ Len(r) = l + 1 /\ r[l + 1] = m /\ \A i \in 1..l : r[i] = q[i] /\ i \in 1..Len(r)
      /\ l + 1 \in 1..Len(r) /\ \A i \in 1..Len(r) : i = l + 1 \/ i \in 1..l
  OBVIOUS
<1>2. Truthful(c, b, 0, q, t)
  BY FateOpen
<1> HIDE DEF r, l
<1>3. Truthful(c, b, 0, r, t)
  BY <1>1, <1>2 DEF Truthful, l
<1>4. m.kind = "event" =>
        /\ c.terminal = "none"
        /\ \A i \in (0 + 1)..Len(b) : b[i].kind # "terminal"
        /\ \A i \in 1..l : q[i].kind # "terminal"
  BY DEF Truthful, l
<1>5. ASSUME NEW i \in 1..Len(r), NEW j \in 1..Len(r), i < j, r[i].kind = "terminal"
      PROVE  r[j].kind # "event"
  <2>1. i \in 1..l /\ r[i] = q[i]
    BY <1>1, <1>5
  <2>2. CASE j = l + 1
    BY <1>1, <1>4, <1>5, <2>1, <2>2
  <2>3. CASE j \in 1..l
    <3>1. q[j].kind # "event"
      BY <1>5, <2>1, <2>3 DEF InOrder, l
    <3> QED
      BY <1>1, <2>3, <3>1
  <2> QED
    BY <1>1, <2>2, <2>3
<1>6. ASSUME NEW i \in (0 + 1)..Len(b), NEW j \in 1..Len(r), b[i].kind = "terminal"
      PROVE  r[j].kind # "event"
  <2>1. CASE j = l + 1
    BY <1>1, <1>4, <1>6, <2>1
  <2>2. CASE j \in 1..l
    <3>1. q[j].kind # "event"
      BY <1>6, <2>2 DEF InOrder, l
    <3> QED
      BY <1>1, <2>2, <3>1
  <2> QED
    BY <1>1, <2>1, <2>2
<1>7. ASSUME NEW n \in 1..f
      PROVE  n \in 1..e \/ (r[l + 1].kind = "event" /\ r[l + 1].n = n)
  BY <1>1
<1>8. ASSUME ~c.fatal, NEW n \in 1..f
      PROVE  \/ n \in c.seen
             \/ \E i \in (0 + 1)..Len(b) : b[i].kind = "event" /\ b[i].n = n
             \/ \E i \in 1..Len(r) : r[i].kind = "event" /\ r[i].n = n
  <2>1. CASE n \in 1..e
    <3>1. \/ n \in c.seen
          \/ \E i \in (0 + 1)..Len(b) : b[i].kind = "event" /\ b[i].n = n
          \/ \E i \in 1..l : q[i].kind = "event" /\ q[i].n = n
      BY <1>8, <2>1 DEF InOrder, l
    <3> QED
      BY <1>1, <3>1
  <2> QED
    BY <1>1, <1>7, <2>1
<1>9. ASSUME c.terminal # "none", NEW n \in 1..f
      PROVE  n \in c.seen
  <2>1. f = e
    BY <1>4, <1>9
  <2> QED
    BY <1>9, <2>1 DEF InOrder
<1>10. \A i, j \in (0 + 1)..Len(b) : i < j /\ b[i].kind = "terminal" => b[j].kind # "event"
  BY DEF InOrder
<1>11. InOrder(c, b, 0, r, f)
  BY <1>5, <1>6, <1>8, <1>9, <1>10 DEF InOrder
<1> QED
  BY <1>3, <1>11 DEF r

(* Muse acts upon a command only while the client listens.                 *)
LEMMA HostNear ==
    ASSUME Working, MuseHeld, MuseUp, command[turn] # "none" \/ worker \in Listening
    PROVE  /\ family = "muse" /\ turn \in Commands /\ turn \in Nat
           /\ worker \notin Early /\ worker # "returned"
           /\ command[turn] # "none" => turn \in intents /\ worker # "intent"
<1>1. family = "muse" /\ host = "up" /\ turn \in Commands /\ turn \in Nat
  BY DEF MuseUp, Working
<1>2. worker \notin {"none", "ready", "returned", "journaled", "settled"}
  BY <1>1 DEF MuseHeld, PlacesFit
<1>3. command[turn] # "none" => turn \in intents /\ worker \notin {"intent", "open", "starting"}
  BY <1>1 DEF MuseHeld, PlacesFit, JournalTrue
<1> QED
  BY <1>1, <1>2, <1>3 DEF Early, Listening

(* A step of Muse that decides, or leaves open, what becomes of the turn's *)
(* command.                                                                *)
LEMMA HostDecides ==
    ASSUME Working, MuseHeld, MuseUp, HostOnly, host' = host, command[turn] # "none",
           NEW t \in Fates \ {"none"}, command' = [command EXCEPT ![turn] = t],
           t = command[turn] \/ command[turn] \notin Over
    PROVE  command' \in [Commands -> Fates] /\ command'[turn] = t /\ JournalTrue' /\ PlacesFit'
<1>1. /\ UNCHANGED <<family, state, turn, worker, intents, outcomes, client>> /\ Commands' = Commands
      /\ command \in [Commands -> Fates]
  BY DEF HostOnly, taskVars, Commands, MuseHeld, MuseTypes
<1>2. turn \in Commands /\ turn \in intents /\ worker # "intent"
  BY HostNear
<1>3. /\ command' \in [Commands -> Fates] /\ command'[turn] = t
      /\ \A c \in Commands : c # turn => command'[c] = command[c]
  BY <1>1, <1>2
<1>4. JournalTrue'
  BY <1>1, <1>2, <1>3 DEF MuseHeld, JournalTrue
<1>5. PlacesFit'
  BY <1>1, <1>2 DEF MuseHeld, PlacesFit
<1> QED
  BY <1>3, <1>4, <1>5

(* What Muse says fits what became of the command.                         *)
LEMMA HostSays ==
    ASSUME Working, MuseHeld, MuseUp, HostOnly, command[turn] # "none" \/ worker \in Listening,
           NEW kind, NEW n, NEW v, Say(kind, n, v), [kind |-> kind, n |-> n, v |-> v] \in Messages,
           command'[turn] = command[turn] \/ command[turn] \notin Over,
           kind = "terminal" => command'[turn] = "settled",
           kind = "reply" /\ v = "definitive" => command'[turn] = "rejected",
           kind = "event" => command[turn] # "settled" /\ n \in {said.events, said.events + 1}
    PROVE  TalkFits' /\ pipe' \in Seq(Messages) /\ said' \in [messages : Nat, events : 0..MaxEvents, reply : BOOLEAN]
<1> DEFINE m == [kind |-> kind, n |-> n, v |-> v]
<1>1. /\ UNCHANGED <<family, turn, worker, client>> /\ pipe' = Append(pipe, m)
      /\ said' = [messages |-> said.messages + 1,
                  events |-> IF kind = "event" /\ n > said.events THEN n ELSE said.events,
                  reply |-> said.reply \/ kind = "reply"]
  BY DEF HostOnly, taskVars, Say
<1>2. /\ family = "muse" /\ worker \notin Early /\ worker # "returned"
      /\ pipe \in Seq(Messages) /\ client \in Clients /\ m \in Messages
      /\ said \in [messages : Nat, events : 0..MaxEvents, reply : BOOLEAN]
      /\ m.kind = kind /\ m.n = n /\ m.v = v
  BY HostNear DEF MuseHeld, MuseTypes
<1>3. kind = "event" => n \in 1..MaxEvents
  BY <1>2 DEF Messages, Heard
<1>4. MaxEvents \in Nat
  BY BoundsAssumption
<1> HIDE DEF m
<1>5. /\ said'.events \in 0..MaxEvents /\ said.events \in Nat /\ said'.events \in Nat
      /\ said'.events = said.events \/ (kind = "event" /\ n = said'.events /\ said'.events = said.events + 1)
  BY <1>1, <1>2, <1>3, <1>4
<1>6. said' \in [messages : Nat, events : 0..MaxEvents, reply : BOOLEAN]
  <2>1. (said.reply \/ kind = "reply") \in BOOLEAN /\ said.messages + 1 \in Nat
    BY <1>2
  <2>2. (IF kind = "event" /\ n > said.events THEN n ELSE said.events) \in 0..MaxEvents
    BY <1>1, <1>5
  <2> QED
    BY <1>1, <2>1, <2>2
<1>7. pipe' \in Seq(Messages)
  BY <1>1, <1>2
<1>8. CASE worker \in Listening
  <2>1. /\ Truthful(client, client.before, 0, pipe, command[turn])
        /\ InOrder(client, client.before, 0, pipe, said.events)
        /\ client.before \in Seq(Heard)
    BY <1>2, <1>8 DEF MuseHeld, TalkFits, Clients
  <2>2. /\ Truthful(client, client.before, 0, Append(pipe, m), command'[turn])
        /\ InOrder(client, client.before, 0, Append(pipe, m), said'.events)
    BY <1>2, <1>5, <2>1, AppendKeeps
  <2> QED
    BY <1>1, <1>2, <1>6, <1>7, <2>2 DEF MuseHeld, TalkFits, AnswerComplete
<1>9. CASE worker \notin Listening
  BY <1>1, <1>2, <1>6, <1>7, <1>9 DEF MuseHeld, TalkFits, AnswerComplete
<1> QED
  BY <1>8, <1>9

LEMMA MuseHeldHost ==
    ASSUME Working, MuseHeld, HostStep
    PROVE  MuseHeld'
<1>0. /\ command \in [Commands -> Fates] /\ client \in Clients /\ host \in {"up", "down"}
      /\ pipe \in Seq(Messages) /\ Commands' = Commands
      /\ said \in [messages : Nat, events : 0..MaxEvents, reply : BOOLEAN]
  BY DEF MuseHeld, MuseTypes, Commands
<1>1. HostOnly /\ UNCHANGED <<family, state, turn, worker, intents, outcomes, client>>
  BY DEF HostStep, HostAdmits, HostEmits, HostDies, HostReplies, HostEnds, HostOnly, taskVars
<1>2. CASE HostAdmits
  <2>1. MuseUp /\ command[turn] = "sent" /\ command' = [command EXCEPT ![turn] = "running"]
        /\ UNCHANGED <<host, pipe, said>>
    BY <1>2 DEF HostAdmits
  <2>2. command' \in [Commands -> Fates] /\ JournalTrue' /\ PlacesFit'
    BY <1>1, <2>1, HostDecides DEF Fates, Over
  <2>3. worker \notin Early /\ worker # "returned" /\ family = "muse"
    BY <2>1, HostNear
  <2>4. CapturedOnce(client) /\ (client.acked => client.before = <<>>)
    BY <2>3 DEF MuseHeld, TalkFits
  <2>5. worker \in Listening =>
           /\ Truthful(client, client.before, 0, pipe, command'[turn])
           /\ InOrder(client, client.before, 0, pipe, said.events)
    BY <2>1, <2>3, FateOpen DEF MuseHeld, TalkFits, Over
  <2>6. TalkFits'
    BY <1>1, <2>1, <2>3, <2>4, <2>5 DEF TalkFits, AnswerComplete
  <2>7. MuseTypes'
    BY <1>0, <1>1, <2>1, <2>2 DEF MuseTypes
  <2> QED
    BY <2>2, <2>6, <2>7 DEF MuseHeld
<1>3. ASSUME NEW v \in {"ok", "definitive", "internal", "unexpected"}, HostReplies(v)
      PROVE  MuseHeld'
  <2> DEFINE t == IF v = "definitive" THEN "rejected" ELSE command[turn]
  <2>1. MuseUp /\ command[turn] \in {"sent", "running", "settled"} /\ Say("reply", 0, v)
        /\ UNCHANGED host /\ (v = "definitive" => command[turn] = "sent")
        /\ command' = IF v = "definitive" THEN [command EXCEPT ![turn] = "rejected"] ELSE command
    BY <1>3 DEF HostReplies
  <2>2. turn \in Commands
    BY <2>1 DEF Working, MuseUp
  <2>3. command' = [command EXCEPT ![turn] = t]
    BY <1>0, <2>1, <2>2
  <2>4. t \in Fates \ {"none"} /\ (t = command[turn] \/ command[turn] \notin Over)
        /\ (v = "definitive" => t = "rejected")
    BY <2>1 DEF Fates, Over
  <2> HIDE DEF t
  <2>5. command' \in [Commands -> Fates] /\ command'[turn] = t /\ JournalTrue' /\ PlacesFit'
    BY <1>1, <2>1, <2>3, <2>4, HostDecides
  <2>6. [kind |-> "reply", n |-> 0, v |-> v] \in Messages
    BY <1>3 DEF Messages, Replies
  <2>7. TalkFits' /\ pipe' \in Seq(Messages) /\ said' \in [messages : Nat, events : 0..MaxEvents, reply : BOOLEAN]
    BY <1>1, <2>1, <2>4, <2>5, <2>6, HostSays
  <2> QED
    BY <1>0, <1>1, <2>1, <2>5, <2>7 DEF MuseHeld, MuseTypes
<1>4. CASE HostEmits
  <2>1. MuseUp /\ command[turn] = "running" /\ UNCHANGED <<host, command>>
    BY <1>4 DEF HostEmits
  <2>2. turn \in Commands
    BY <2>1 DEF Working, MuseUp
  <2>3. JournalTrue' /\ PlacesFit'
    BY <1>0, <1>1, <2>1 DEF MuseHeld, JournalTrue, PlacesFit
  <2>4. ASSUME NEW n \in {said.events, said.events + 1} \cap (1..MaxEvents), Say("event", n, "item")
        PROVE  TalkFits' /\ pipe' \in Seq(Messages) /\ said' \in [messages : Nat, events : 0..MaxEvents, reply : BOOLEAN]
    <3>1. [kind |-> "event", n |-> n, v |-> "item"] \in Messages
      BY DEF Messages, Heard
    <3> QED
      BY <1>1, <2>1, <2>4, <3>1, HostSays DEF Over
  <2>5. ASSUME NEW kind \in {"ask", "violation"}, Say(kind, 0, "none")
        PROVE  TalkFits' /\ pipe' \in Seq(Messages) /\ said' \in [messages : Nat, events : 0..MaxEvents, reply : BOOLEAN]
    <3>1. [kind |-> kind, n |-> 0, v |-> "none"] \in Messages
      BY DEF Messages, Heard
    <3> QED
      BY <1>1, <2>1, <2>5, <3>1, HostSays DEF Over
  <2>6. TalkFits' /\ pipe' \in Seq(Messages) /\ said' \in [messages : Nat, events : 0..MaxEvents, reply : BOOLEAN]
    BY <1>4, <2>4, <2>5 DEF HostEmits
  <2> QED
    BY <1>0, <1>1, <2>1, <2>3, <2>6 DEF MuseHeld, MuseTypes
<1>5. ASSUME NEW v \in KnownTerminals \cup {"other"}, HostEnds(v)
      PROVE  MuseHeld'
  <2>1. MuseUp /\ command[turn] = "running" /\ Say("terminal", 0, v) /\ UNCHANGED host
        /\ command' = [command EXCEPT ![turn] = "settled"]
    BY <1>5 DEF HostEnds
  <2>2. command' \in [Commands -> Fates] /\ command'[turn] = "settled" /\ JournalTrue' /\ PlacesFit'
    BY <1>1, <2>1, HostDecides DEF Fates, Over
  <2>3. [kind |-> "terminal", n |-> 0, v |-> v] \in Messages
    BY <1>5 DEF Messages, Heard, Terminals
  <2>4. TalkFits' /\ pipe' \in Seq(Messages) /\ said' \in [messages : Nat, events : 0..MaxEvents, reply : BOOLEAN]
    BY <1>1, <2>1, <2>2, <2>3, HostSays DEF Over
  <2> QED
    BY <1>0, <1>1, <2>1, <2>2, <2>4 DEF MuseHeld, MuseTypes
<1>6. CASE HostDies
  <2>1. MuseUp /\ worker \in Listening /\ Kill /\ Say("eof", 0, "none")
    BY <1>6 DEF HostDies, Listening
  <2>2. turn \in Commands
    BY <2>1 DEF Working, MuseUp
  <2>3. /\ host' = "down" /\ command' \in [Commands -> Fates] /\ JournalTrue'
        /\ command[turn] = "none" => command'[turn] = "none"
        /\ command'[turn] = command[turn] \/ command[turn] \notin Over
    BY <1>1, <2>1, <2>2, KillKeeps DEF MuseHeld
  <2>4. PlacesFit'
    BY <1>1, <2>3 DEF MuseHeld, PlacesFit
  <2>5. [kind |-> "eof", n |-> 0, v |-> "none"] \in Messages
    BY DEF Messages
  <2>6. TalkFits' /\ pipe' \in Seq(Messages) /\ said' \in [messages : Nat, events : 0..MaxEvents, reply : BOOLEAN]
    BY <1>1, <2>1, <2>3, <2>5, HostSays
  <2> QED
    BY <1>0, <1>1, <2>3, <2>4, <2>6 DEF MuseHeld, MuseTypes
<1> QED
  BY <1>2, <1>3, <1>4, <1>5, <1>6 DEF HostStep

(* The client reads a message other than an event.                         *)
LEMMA TailKeeps ==
    ASSUME NEW c, NEW b \in Seq(Heard), NEW q \in Seq(Messages), q # <<>>, Head(q).kind # "event",
           NEW s, NEW e \in Nat, Truthful(c, b, 0, q, s), InOrder(c, b, 0, q, e)
    PROVE  Truthful(c, b, 0, Tail(q), s) /\ InOrder(c, b, 0, Tail(q), e)
<1> DEFINE r == Tail(q)
<1>1. /\ \A i \in 1..Len(r) : i + 1 \in 1..Len(q) /\ r[i] = q[i + 1]
      /\ \A i \in 1..Len(q) : i = 1 \/ (i - 1 \in 1..Len(r) /\ q[i] = r[i - 1])
      /\ Head(q) = q[1] /\ Len(q) \in Nat /\ Len(r) = Len(q) - 1
  OBVIOUS
<1> HIDE DEF r
<1>2. Truthful(c, b, 0, r, s)
  BY <1>1 DEF Truthful
<1>3. ASSUME NEW i \in 1..Len(r), NEW j \in 1..Len(r), i < j, r[i].kind = "terminal"
      PROVE  r[j].kind # "event"
  <2>1. /\ i + 1 \in 1..Len(q) /\ j + 1 \in 1..Len(q) /\ i + 1 < j + 1
        /\ r[i] = q[i + 1] /\ r[j] = q[j + 1]
    BY <1>1, <1>3
  <2> QED
    BY <1>3, <2>1 DEF InOrder
<1>4. ASSUME NEW i \in (0 + 1)..Len(b), NEW j \in 1..Len(r), b[i].kind = "terminal"
      PROVE  r[j].kind # "event"
  <2>1. j + 1 \in 1..Len(q) /\ r[j] = q[j + 1]
    BY <1>1
  <2> QED
    BY <1>4, <2>1 DEF InOrder
<1>5. ASSUME ~c.fatal, NEW n \in 1..e
      PROVE  \/ n \in c.seen
             \/ \E i \in (0 + 1)..Len(b) : b[i].kind = "event" /\ b[i].n = n
             \/ \E i \in 1..Len(r) : r[i].kind = "event" /\ r[i].n = n
  <2>1. \/ n \in c.seen
        \/ \E i \in (0 + 1)..Len(b) : b[i].kind = "event" /\ b[i].n = n
        \/ \E i \in 1..Len(q) : q[i].kind = "event" /\ q[i].n = n
    BY <1>5 DEF InOrder
  <2>2. ASSUME NEW i \in 1..Len(q), q[i].kind = "event", q[i].n = n
        PROVE  \E j \in 1..Len(r) : r[j].kind = "event" /\ r[j].n = n
    <3>1. i - 1 \in 1..Len(r) /\ q[i] = r[i - 1]
      BY <1>1, <2>2
    <3> QED
      BY <2>2, <3>1
  <2> QED
    BY <2>1, <2>2
<1>6. /\ \A i, j \in (0 + 1)..Len(b) : i < j /\ b[i].kind = "terminal" => b[j].kind # "event"
      /\ c.terminal # "none" => \A n \in 1..e : n \in c.seen
  BY DEF InOrder
<1>7. InOrder(c, b, 0, r, e)
  BY <1>3, <1>4, <1>5, <1>6 DEF InOrder
<1> QED
  BY <1>2, <1>7 DEF r

(* The client goes on listening.                                           *)
LEMMA MuseContinues ==
    ASSUME Working, MuseHeld, family = "muse", worker \in Listening, NEW stage \in Listening,
           stage = worker \/ (worker = "prompting" /\ stage \in {"timedout", "cancelling"}),
           NEW c \in Clients, Continue(stage, c), pipe' \in Seq(Messages),
           CapturedOnce(c), c.acked => c.before = <<>>,
           Truthful(c, c.before, 0, pipe', command[turn]), InOrder(c, c.before, 0, pipe', said.events)
    PROVE  MuseHeld'
<1>1. /\ UNCHANGED <<family, turn, intents, outcomes, state, host, command, said>>
      /\ worker' = stage /\ client' = c /\ Commands' = Commands
  BY DEF Continue, NoJournal, Elsewhere, Commands
<1>2. MuseTypes'
  BY <1>1 DEF MuseHeld, MuseTypes
<1>3. JournalTrue'
  BY <1>1 DEF MuseHeld, JournalTrue
<1>4. PlacesFit'
  BY <1>1 DEF MuseHeld, PlacesFit, Listening
<1>5. TalkFits'
  BY <1>1 DEF TalkFits, Listening, Early, AnswerComplete
<1> QED
  BY <1>2, <1>3, <1>4, <1>5 DEF MuseHeld

(* The prompt is left.                                                     *)
LEMMA MuseReturns ==
    ASSUME Working, MuseHeld, family = "muse", worker \in Listening,
           NEW c \in Clients, NEW target \in Targets, Return(c, target),
           CapturedOnce(c), c.acked => c.before = <<>>,
           c.settled => command[turn] \in Over,
           target = "COMPLETED" => \A n \in 1..said.events : n \in c.seen
    PROVE  MuseHeld'
<1> DEFINE d == [c EXCEPT !.target = target]
<1>1. /\ UNCHANGED <<family, turn, intents, outcomes, state, said>> /\ Kill /\ pipe' = <<>>
      /\ worker' = "returned" /\ client' = d /\ Commands' = Commands
  BY DEF Return, NoJournal, Elsewhere, Commands
<1>2. /\ d \in Clients /\ d.captured = c.captured /\ d.seen = c.seen /\ d.acked = c.acked
      /\ d.before = c.before /\ d.settled = c.settled /\ d.target = target
  BY DEF Clients
<1> HIDE DEF d
<1>3. /\ host' = "down" /\ command' \in [Commands -> Fates] /\ JournalTrue'
      /\ \A x \in Commands : command[x] \in Over => command'[x] = command[x]
  BY <1>1, KillKeeps DEF MuseHeld
<1>4. turn \in Commands /\ state \in Active /\ worker \notin {"none", "settled"}
  BY DEF Working, Listening
<1>5. said \in [messages : Nat, events : 0..MaxEvents, reply : BOOLEAN] /\ MaxEvents \in Nat
  BY BoundsAssumption DEF MuseHeld, MuseTypes
<1>6. pipe' \in Seq(Messages)
  BY <1>1
<1>7. MuseTypes'
  BY <1>1, <1>2, <1>3, <1>5, <1>6 DEF MuseTypes
<1>8. PlacesFit'
  BY <1>1, <1>3, <1>4 DEF PlacesFit, Active, Waiting
<1>9. target = "COMPLETED" => \A n \in 1..said.events : d.captured[n] = 1
  <2>1. \A n \in 1..said.events : n \in 1..MaxEvents
    BY <1>5
  <2> QED
    BY <1>2, <2>1 DEF CapturedOnce
<1>10. TalkFits'
  BY <1>1, <1>2, <1>3, <1>4, <1>9 DEF TalkFits, Early, Listening, AnswerComplete, CapturedOnce
<1> QED
  BY <1>3, <1>7, <1>8, <1>10 DEF MuseHeld

(* Nothing of the session is known before it is idle.                      *)
LEMMA MuseHeldOpening ==
    ASSUME Working, MuseHeld, MuseRefused \/ MuseOpens \/ MuseSavesSession \/ MuseSessionStarts \/ MuseSessionResumes
    PROVE  MuseHeld'
<1>1. /\ family = "muse" /\ worker \in {"ready", "open", "starting"}
      /\ UNCHANGED <<family, turn, intents, outcomes, pipe, said, client>>
      /\ worker' \in {"open", "starting", "idle", "settled"}
  BY DEF MuseRefused, MuseOpens, MuseSavesSession, MuseSessionStarts, MuseSessionResumes,
         Muse, Elsewhere, NoJournal, Settle, museVars
<1>2. Kill \/ (command' = command /\ host' \in {host, "up"})
  BY DEF MuseRefused, MuseOpens, MuseSavesSession, MuseSessionStarts, MuseSessionResumes, museVars
<1>3. worker' = "settled" => host' = "down"
  <2>1. worker = "ready" => host = "down"
    BY <1>1 DEF MuseHeld, PlacesFit
  <2> QED
    BY <2>1 DEF MuseRefused, MuseOpens, MuseSavesSession, MuseSessionStarts, MuseSessionResumes, Muse, Kill
<1>4. turn \notin intents /\ client = Fresh /\ pipe = <<>> /\ said = Silent
  BY <1>1 DEF MuseHeld, PlacesFit, TalkFits, Early
<1>5. Commands' = Commands /\ turn \in Commands
  BY <1>1 DEF Commands, Working
<1>6. JournalTrue' /\ command' \in [Commands -> Fates] /\ host' \in {"up", "down"}
  <2>1. CASE Kill
    BY <1>1, <2>1, KillKeeps DEF MuseHeld
  <2>2. CASE command' = command /\ host' \in {host, "up"}
    BY <1>1, <1>5, <2>2 DEF MuseHeld, MuseTypes, JournalTrue
  <2> QED
    BY <1>2, <2>1, <2>2
<1>7. MuseTypes'
  BY <1>1, <1>5, <1>6 DEF MuseHeld, MuseTypes
<1>8. PlacesFit'
  BY <1>1, <1>3, <1>4 DEF PlacesFit
<1>9. TalkFits'
  <2>1. /\ Truthful(Fresh, Fresh.before, 0, <<>>, command'[turn])
        /\ InOrder(Fresh, Fresh.before, 0, <<>>, Silent.events)
    BY FreshFits
  <2> QED
    BY <1>1, <1>4, <2>1, FreshType DEF TalkFits, Early, Listening, AnswerComplete
<1> QED
  BY <1>6, <1>7, <1>8, <1>9 DEF MuseHeld

(* What a client that listens has in common.                               *)
LEMMA MuseListens ==
    ASSUME Working, MuseHeld, family = "muse", worker \in Listening
    PROVE  /\ turn \in Commands /\ turn \in Nat /\ state \in Active
           /\ client \in Clients /\ client.before \in Seq(Heard) /\ pipe \in Seq(Messages)
           /\ said.events \in Nat /\ command \in [Commands -> Fates] /\ host \in {"up", "down"}
           /\ CapturedOnce(client) /\ (client.acked => client.before = <<>>)
           /\ Truthful(client, client.before, 0, pipe, command[turn])
           /\ InOrder(client, client.before, 0, pipe, said.events)
           /\ client.settled => command[turn] \in Over
           /\ client.reply = "definitive" => command[turn] \in Over
<1>1. MaxEvents \in Nat
  BY BoundsAssumption
<1>2. /\ turn \in Commands /\ turn \in Nat /\ state \in Active
      /\ client \in Clients /\ client.before \in Seq(Heard) /\ pipe \in Seq(Messages)
      /\ said.events \in Nat /\ command \in [Commands -> Fates] /\ host \in {"up", "down"}
  BY <1>1 DEF Working, Listening, MuseHeld, MuseTypes, Clients
<1>3. /\ CapturedOnce(client) /\ (client.acked => client.before = <<>>)
      /\ Truthful(client, client.before, 0, pipe, command[turn])
      /\ InOrder(client, client.before, 0, pipe, said.events)
  BY DEF MuseHeld, TalkFits
<1>4. /\ client.settled => command[turn] \in Over
      /\ client.reply = "definitive" => command[turn] \in Over
  BY <1>3 DEF Truthful, Over
<1> QED
  BY <1>2, <1>3, <1>4

LEMMA MuseHeldReads ==
    ASSUME Working, MuseHeld, MuseReads
    PROVE  MuseHeld'
<1> DEFINE m == Head(pipe)
           s == command[turn]
           e == said.events
<1>1. family = "muse" /\ worker \in Listening /\ pipe # <<>> /\ client.fatal = FALSE /\ pipe' = Tail(pipe)
  <2>1. client.fatal \in BOOLEAN
    BY DEF MuseHeld, MuseTypes, Clients
  <2> QED
    BY <2>1 DEF MuseReads, Listening
<1>2. /\ client \in Clients /\ client.before \in Seq(Heard) /\ pipe \in Seq(Messages) /\ e \in Nat
      /\ CapturedOnce(client) /\ (client.acked => client.before = <<>>)
      /\ Truthful(client, client.before, 0, pipe, s) /\ InOrder(client, client.before, 0, pipe, e)
  BY <1>1, MuseListens
<1>3. m \in Messages /\ Tail(pipe) \in Seq(Messages) /\ m = pipe[1] /\ 1 \in 1..Len(pipe)
  BY <1>1, <1>2
<1> HIDE DEF m, s, e
<1>4. m.kind # "event" => /\ Truthful(client, client.before, 0, Tail(pipe), s)
                          /\ InOrder(client, client.before, 0, Tail(pipe), e)
  BY <1>1, <1>2, TailKeeps DEF m
<1>5. ASSUME NEW c \in Clients, Continue(worker, c), CapturedOnce(c), c.acked => c.before = <<>>,
             Truthful(c, c.before, 0, Tail(pipe), s), InOrder(c, c.before, 0, Tail(pipe), e)
      PROVE  MuseHeld'
  BY <1>1, <1>3, <1>5, MuseContinues DEF s, e
<1>6. ASSUME m.kind = "reply", Continue(worker, [client EXCEPT !.reply = m.v])
      PROVE  MuseHeld'
  <2> DEFINE c == [client EXCEPT !.reply = m.v]
  <2>1. m.v \in Replies /\ (m.v = "definitive" => s = "rejected")
    <3>1. m.v \in Replies
      BY <1>3, <1>6 DEF Messages, Heard
    <3>2. m.v = "definitive" => s = "rejected"
      BY <1>2, <1>3, <1>6 DEF Truthful
    <3> QED
      BY <3>1, <3>2
  <2>2. /\ c \in Clients /\ c.before = client.before /\ c.acked = client.acked /\ c.reply = m.v
        /\ c.terminal = client.terminal /\ c.settled = client.settled /\ c.fatal = client.fatal
        /\ c.seen = client.seen /\ c.captured = client.captured
    BY <1>2, <2>1 DEF Clients
  <2> HIDE DEF c
  <2>3. CapturedOnce(c) /\ (c.acked => c.before = <<>>)
    BY <1>2, <2>2 DEF CapturedOnce
  <2>4. Truthful(c, c.before, 0, Tail(pipe), s)
    BY <1>4, <1>6, <2>1, <2>2 DEF Truthful
  <2>5. InOrder(c, c.before, 0, Tail(pipe), e)
    BY <1>4, <1>6, <2>2 DEF InOrder
  <2>6. Continue(worker, c)
    BY <1>6 DEF c
  <2> QED
    BY <1>5, <2>2, <2>3, <2>4, <2>5, <2>6
<1>7. ASSUME m.kind \in {"ask", "eof"}, NEW f \in BOOLEAN, Continue(worker, [client EXCEPT !.fatal = f])
      PROVE  MuseHeld'
  <2> DEFINE c == [client EXCEPT !.fatal = f]
  <2>1. /\ c \in Clients /\ c.before = client.before /\ c.acked = client.acked /\ c.reply = client.reply
        /\ c.terminal = client.terminal /\ c.settled = client.settled /\ c.fatal = f
        /\ c.seen = client.seen /\ c.captured = client.captured
    BY <1>2 DEF Clients
  <2> HIDE DEF c
  <2>2. CapturedOnce(c) /\ (c.acked => c.before = <<>>)
    BY <1>2, <2>1 DEF CapturedOnce
  <2>3. Truthful(c, c.before, 0, Tail(pipe), s)
    BY <1>4, <1>7, <2>1 DEF Truthful
  <2>4. InOrder(c, c.before, 0, Tail(pipe), e)
    BY <1>1, <1>4, <1>7, <2>1 DEF InOrder
  <2>5. Continue(worker, c)
    BY <1>7 DEF c
  <2> QED
    BY <1>5, <2>1, <2>2, <2>3, <2>4, <2>5
<1>8. ASSUME m.kind \in {"event", "violation", "terminal"}, client.acked, Continue(worker, Event(client, m))
      PROVE  MuseHeld'
  <2>1. m \in Heard
    BY <1>3, <1>8 DEF Messages
  <2>2. client.before = <<>>
    BY <1>2, <1>8
  <2>3. /\ Event(client, m) \in Clients /\ Event(client, m).before = client.before
        /\ CapturedOnce(Event(client, m))
    BY <1>2, <2>1, EventFields
  <2>4. Truthful(client, <<>>, 0, pipe, s) /\ InOrder(client, <<>>, 0, pipe, e)
    BY <1>2, <2>2
  <2>5. /\ Truthful(Event(client, m), <<>>, 0, Tail(pipe), s)
        /\ InOrder(Event(client, m), <<>>, 0, Tail(pipe), e)
    BY <1>1, <1>2, <2>1, <2>4, EventRead DEF m
  <2> QED
    BY <1>5, <1>8, <2>2, <2>3, <2>5
<1>9. ASSUME m.kind \in {"event", "violation", "terminal"}, ~client.acked,
             Continue(worker, [client EXCEPT !.before = Append(client.before, m)])
      PROVE  MuseHeld'
  <2> DEFINE b == Append(client.before, m)
             c == [client EXCEPT !.before = b]
  <2>1. m \in Heard
    BY <1>3, <1>9 DEF Messages
  <2>2. b \in Seq(Heard)
    BY <1>2, <2>1
  <2>3. Truthful(client, b, 0, Tail(pipe), s) /\ InOrder(client, b, 0, Tail(pipe), e)
    BY <1>1, <1>2, <2>1, KeptBack DEF m
  <2> HIDE DEF b
  <2>4. /\ c \in Clients /\ c.before = b /\ c.acked = client.acked /\ c.reply = client.reply
        /\ c.terminal = client.terminal /\ c.settled = client.settled /\ c.fatal = client.fatal
        /\ c.seen = client.seen /\ c.captured = client.captured
    BY <1>2, <2>2 DEF Clients
  <2>5. Continue(worker, c)
    BY <1>9 DEF b
  <2> HIDE DEF c
  <2>6. CapturedOnce(c)
    BY <1>2, <2>4 DEF CapturedOnce
  <2>7. Truthful(c, c.before, 0, Tail(pipe), s)
    BY <2>3, <2>4 DEF Truthful
  <2>8. InOrder(c, c.before, 0, Tail(pipe), e)
    BY <2>3, <2>4 DEF InOrder
  <2> QED
    BY <1>5, <1>9, <2>4, <2>5, <2>6, <2>7, <2>8
<1> QED
  BY <1>6, <1>7, <1>8, <1>9 DEF MuseReads, m

LEMMA MuseHeldCommand ==
    ASSUME Working, MuseHeld, MuseIntent \/ MuseSubmit \/ MuseStopped
    PROVE  MuseHeld'
<1>1. family = "muse" /\ worker \in Listening
  BY DEF MuseIntent, MuseSubmit, MuseStopped, Muse, Listening
<1>2. /\ turn \in Commands /\ turn \in Nat /\ state \in Active
      /\ client \in Clients /\ client.before \in Seq(Heard) /\ pipe \in Seq(Messages)
      /\ command \in [Commands -> Fates] /\ host \in {"up", "down"}
      /\ CapturedOnce(client) /\ (client.acked => client.before = <<>>)
      /\ Truthful(client, client.before, 0, pipe, command[turn])
      /\ InOrder(client, client.before, 0, pipe, said.events)
      /\ client.settled => command[turn] \in Over
  BY <1>1, MuseListens
<1>3. Commands' = Commands
  BY DEF Commands
<1>4. CASE MuseIntent
  <2>1. /\ worker = "idle" /\ worker' = "intent" /\ intents' = intents \cup {turn}
        /\ UNCHANGED <<family, turn, outcomes, state, host, command, pipe, said, client>>
    BY <1>4 DEF MuseIntent, Muse, museVars, Elsewhere
  <2>2. turn \notin intents
    BY <2>1 DEF MuseHeld, PlacesFit
  <2>3. command[turn] = "none" /\ turn \in 1..turn
    BY <1>2, <2>2 DEF MuseHeld, JournalTrue
  <2>4. JournalTrue'
    BY <1>1, <1>2, <1>3, <2>1, <2>3 DEF MuseHeld, JournalTrue
  <2>5. PlacesFit'
    BY <1>1, <1>2, <2>1, <2>3 DEF PlacesFit, Active, Waiting
  <2>6. TalkFits'
    BY <1>1, <1>2, <2>1 DEF TalkFits, Early, Listening, AnswerComplete
  <2>7. MuseTypes'
    BY <1>3, <2>1 DEF MuseHeld, MuseTypes
  <2> QED
    BY <2>4, <2>5, <2>6, <2>7 DEF MuseHeld
<1>5. CASE MuseSubmit
  <2>1. ASSUME Return(client, "RECOVERY_AMBIGUOUS") PROVE MuseHeld'
    BY <1>1, <1>2, <2>1, MuseReturns DEF Targets
  <2>2. ASSUME command' = [command EXCEPT ![turn] = IF host = "up" THEN "sent" ELSE "none"],
               worker = "intent", worker' = "prompting",
               UNCHANGED <<family, turn, intents, outcomes, state, host, pipe, said, client>>
        PROVE  MuseHeld'
    <3> DEFINE t == IF host = "up" THEN "sent" ELSE "none"
    <3>1. t \in Fates
      BY DEF Fates
    <3> HIDE DEF t
    <3>2. /\ command' \in [Commands -> Fates] /\ command'[turn] = t
          /\ \A c \in Commands : c # turn => command'[c] = command[c]
      BY <1>2, <2>2, <3>1 DEF t
    <3>3. turn \in intents /\ command[turn] = "none"
      BY <1>1, <2>2 DEF MuseHeld, PlacesFit
    <3>4. turn \notin outcomes
      BY <1>2, <3>3 DEF MuseHeld, JournalTrue, Over
    <3>5. JournalTrue'
      BY <1>2, <1>3, <2>2, <3>2, <3>3, <3>4 DEF MuseHeld, JournalTrue
    <3>6. PlacesFit'
      BY <1>1, <1>2, <2>2 DEF PlacesFit, Active, Waiting
    <3>7. Truthful(client, client.before, 0, pipe, command'[turn])
      BY <1>2, <3>3, FateOpen DEF Over
    <3>8. TalkFits'
      BY <1>1, <1>2, <2>2, <3>7 DEF TalkFits, Early, Listening, AnswerComplete
    <3>9. MuseTypes'
      BY <1>3, <2>2, <3>2 DEF MuseHeld, MuseTypes
    <3> QED
      BY <3>5, <3>6, <3>8, <3>9 DEF MuseHeld
  <2> QED
    BY <1>5, <2>1, <2>2 DEF MuseSubmit, Muse, NoJournal, Elsewhere
<1>6. CASE MuseStopped
  <2> DEFINE c == [client EXCEPT !.fatal = TRUE]
  <2>1. /\ worker = "cancelling" /\ worker' = "prompting" /\ client' = c /\ Kill
        /\ UNCHANGED <<family, turn, intents, outcomes, state, pipe, said>>
    BY <1>6 DEF MuseStopped, Muse, NoJournal, Elsewhere
  <2>2. /\ c \in Clients /\ c.before = client.before /\ c.acked = client.acked /\ c.reply = client.reply
        /\ c.terminal = client.terminal /\ c.settled = client.settled /\ c.fatal = TRUE
        /\ c.seen = client.seen /\ c.captured = client.captured
    BY <1>2 DEF Clients
  <2> HIDE DEF c
  <2>3. /\ host' = "down" /\ command' \in [Commands -> Fates] /\ JournalTrue'
    BY <2>1, KillKeeps DEF MuseHeld
  <2>4. Truthful(client, client.before, 0, pipe, command'[turn])
    BY <1>1, <1>2, <2>1, KillTalk DEF MuseHeld
  <2>5. /\ Truthful(c, c.before, 0, pipe, command'[turn]) /\ CapturedOnce(c) /\ (c.acked => c.before = <<>>)
    BY <1>2, <2>2, <2>4 DEF Truthful, CapturedOnce
  <2>6. InOrder(c, c.before, 0, pipe, said.events)
    BY <1>2, <2>2 DEF InOrder
  <2>7. PlacesFit'
    BY <1>1, <1>2, <2>1, <2>3 DEF PlacesFit, Active, Waiting
  <2>8. TalkFits'
    BY <1>1, <2>1, <2>5, <2>6 DEF TalkFits, Early, Listening, AnswerComplete
  <2>9. MuseTypes'
    BY <1>3, <2>1, <2>2, <2>3 DEF MuseHeld, MuseTypes
  <2> QED
    BY <2>3, <2>7, <2>8, <2>9 DEF MuseHeld
<1> QED
  BY <1>4, <1>5, <1>6

LEMMA MuseHeldPrompt ==
    ASSUME Working, MuseHeld,
           \/ MuseCannotPrompt \/ MuseAcked \/ MuseRejected \/ MuseAnswered \/ MuseBreaks
           \/ MuseInterrupts \/ MuseTimedOut
    PROVE  MuseHeld'
<1>1. family = "muse" /\ worker \in Listening
  BY DEF MuseCannotPrompt, MuseAcked, MuseRejected, MuseAnswered, MuseBreaks, MuseInterrupts, MuseTimedOut,
         Muse, Listening
<1>2. /\ client \in Clients /\ pipe \in Seq(Messages) /\ said.events \in Nat
      /\ CapturedOnce(client) /\ (client.acked => client.before = <<>>)
      /\ Truthful(client, client.before, 0, pipe, command[turn])
      /\ InOrder(client, client.before, 0, pipe, said.events)
      /\ client.settled => command[turn] \in Over
      /\ client.reply = "definitive" => command[turn] \in Over
  BY <1>1, MuseListens
<1>3. ASSUME Return(client, "RECOVERY_AMBIGUOUS") PROVE MuseHeld'
  BY <1>1, <1>2, <1>3, MuseReturns DEF Targets
<1>4. CASE MuseCannotPrompt \/ MuseBreaks
  BY <1>3, <1>4 DEF MuseCannotPrompt, MuseBreaks
<1>5. CASE MuseTimedOut
  <2>1. ASSUME Return(client, "FAILED") PROVE MuseHeld'
    BY <1>1, <1>2, <2>1, MuseReturns DEF Targets
  <2> QED
    BY <1>3, <1>5, <2>1 DEF MuseTimedOut
<1>6. CASE MuseRejected
  <2> DEFINE known == Definitive(client.reply)
             c == [client EXCEPT !.settled = known]
             target == IF known THEN "FAILED" ELSE "RECOVERY_AMBIGUOUS"
  <2>1. Return(c, target)
    BY <1>6 DEF MuseRejected
  <2>2. known \in BOOLEAN /\ (known => client.reply = "definitive")
    BY DEF Definitive
  <2> HIDE DEF known
  <2>3. /\ c \in Clients /\ c.before = client.before /\ c.acked = client.acked /\ c.settled = known
        /\ c.seen = client.seen /\ c.captured = client.captured
        /\ target \in Targets /\ target # "COMPLETED"
    BY <1>2, <2>2 DEF Clients, Targets
  <2> HIDE DEF c, target
  <2>4. CapturedOnce(c) /\ (c.acked => c.before = <<>>) /\ (c.settled => command[turn] \in Over)
    BY <1>2, <2>2, <2>3 DEF CapturedOnce
  <2> QED
    BY <1>1, <2>1, <2>3, <2>4, MuseReturns
<1>7. CASE MuseAnswered
  <2> DEFINE target == TerminalTargets[client.terminal]
  <2>1. Return(client, target) /\ client.terminal # "none"
    BY <1>7 DEF MuseAnswered
  <2>2. client.terminal \in {"completed", "cancelled", "failed", "other"}
    BY <1>2, <2>1 DEF Clients, Terminals, KnownTerminals
  <2>3. target \in Targets
    BY <2>2 DEF TerminalTargets, Targets
  <2> HIDE DEF target
  <2>4. \A n \in 1..said.events : n \in client.seen
    BY <1>2, <2>1 DEF InOrder
  <2> QED
    BY <1>1, <1>2, <2>1, <2>3, <2>4, MuseReturns
<1>8. CASE MuseInterrupts
  <2>1. /\ worker = "prompting" /\ pipe' = pipe
        /\ \E stage \in {"timedout", "cancelling"} : Continue(stage, client)
    BY <1>8 DEF MuseInterrupts, Muse
  <2>2. PICK stage \in {"timedout", "cancelling"} : Continue(stage, client)
    BY <2>1
  <2>3. stage \in Listening
    BY DEF Listening
  <2> QED
    BY <1>1, <1>2, <2>1, <2>2, <2>3, MuseContinues
<1>9. CASE MuseAcked
  <2>1. Continue(worker, Replay(client)) /\ pipe' = pipe
    BY <1>9 DEF MuseAcked
  <2> DEFINE c == Replay(client)
  <2>2. /\ c \in Clients /\ c.before = <<>> /\ CapturedOnce(c)
        /\ Truthful(c, <<>>, 0, pipe, command[turn]) /\ InOrder(c, <<>>, 0, pipe, said.events)
    BY <1>2, ReplayConsistent
  <2> HIDE DEF c
  <2>3. Continue(worker, c)
    BY <2>1 DEF c
  <2>4. Truthful(c, c.before, 0, pipe', command[turn]) /\ InOrder(c, c.before, 0, pipe', said.events)
        /\ pipe' \in Seq(Messages)
    BY <1>2, <2>1, <2>2
  <2> QED
    BY <1>1, <2>2, <2>3, <2>4, MuseContinues
<1> QED
  BY <1>4, <1>5, <1>6, <1>7, <1>8, <1>9

LEMMA MuseHeldEnd ==
    ASSUME Working, MuseHeld, MuseJournals \/ MuseSettles
    PROVE  MuseHeld'
<1>1. /\ family = "muse" /\ UNCHANGED <<family, turn, intents, host, command, pipe, said, client>>
      /\ Commands' = Commands
  BY DEF MuseJournals, MuseSettles, Muse, museVars, Elsewhere, NoJournal, Commands
<1>2. turn \in Commands /\ client \in Clients /\ host \in {"up", "down"}
  BY <1>1 DEF Working, MuseHeld, MuseTypes
<1>3. MuseTypes'
  BY <1>1 DEF MuseHeld, MuseTypes
<1>4. CASE MuseJournals
  <2>1. /\ worker = "returned" /\ worker' = "journaled" /\ UNCHANGED state
        /\ outcomes' = IF client.settled THEN outcomes \cup {turn} ELSE outcomes
    BY <1>4 DEF MuseJournals, Muse
  <2>2. state \in Active /\ host = "down"
    BY <1>1, <2>1 DEF Working, MuseHeld, PlacesFit
  <2>3. client.settled => command[turn] \in Over /\ turn \in intents
    BY <1>1, <1>2, <2>1 DEF MuseHeld, TalkFits, JournalTrue, Over
  <2>4. JournalTrue'
    BY <1>1, <1>2, <2>1, <2>3 DEF MuseHeld, JournalTrue
  <2>5. PlacesFit'
    BY <1>1, <2>1, <2>2 DEF PlacesFit, Active, Waiting
  <2>6. TalkFits'
    BY <1>1, <2>1 DEF MuseHeld, TalkFits, Early, Listening, AnswerComplete
  <2> QED
    BY <1>3, <2>4, <2>5, <2>6 DEF MuseHeld
<1>5. CASE MuseSettles
  <2>1. /\ worker = "journaled" /\ worker' = "settled" /\ UNCHANGED outcomes
        /\ state' = SettleAs(state, client.target)
    BY <1>5 DEF MuseSettles, Muse, Settle, NoJournal
  <2>2. state' \notin Waiting /\ host = "down"
    <3>1. client.target \in Targets
      BY <1>2 DEF Clients
    <3>2. host = "down"
      BY <1>1, <2>1 DEF MuseHeld, PlacesFit
    <3> QED
      BY <2>1, <3>1, <3>2 DEF SettleAs, Targets, Waiting
  <2>3. JournalTrue'
    BY <1>1, <2>1 DEF MuseHeld, JournalTrue
  <2>4. PlacesFit'
    BY <1>1, <2>1, <2>2 DEF PlacesFit
  <2>5. TalkFits'
    BY <1>1, <2>1 DEF MuseHeld, TalkFits, Early, Listening, AnswerComplete
  <2> QED
    BY <1>3, <2>3, <2>4, <2>5 DEF MuseHeld
<1> QED
  BY <1>4, <1>5

LEMMA MuseHeldStep == Working /\ MuseHeld /\ [Next]_vars => MuseHeld'
<1> SUFFICES ASSUME Working, MuseHeld, [Next]_vars PROVE MuseHeld'
  OBVIOUS
<1>1. CASE TaskStep
  BY <1>1, MuseHeldTask
<1>2. CASE MuseStep
  BY <1>2, MuseHeldOpening, MuseHeldReads, MuseHeldCommand, MuseHeldPrompt, MuseHeldEnd DEF MuseStep
<1>3. CASE HostStep
  BY <1>3, MuseHeldHost
<1>4. CASE AgyStep
  BY <1>4, MuseHeldAgy
<1>5. CASE UNCHANGED vars
  BY <1>5 DEF vars, taskVars, museVars, MuseHeld, MuseTypes, JournalTrue, PlacesFit, TalkFits, AnswerComplete, Commands
<1> QED
  BY <1>1, <1>2, <1>3, <1>4, <1>5 DEF Next

LEMMA MuseIsHeld == Spec => [](Working /\ MuseHeld)
<1>1. Init => Working /\ MuseHeld
  BY WorkingInit, MuseInit
<1>2. (Working /\ MuseHeld) /\ [Next]_vars => (Working /\ MuseHeld)'
  BY WorkingStep, MuseHeldStep
<1> QED
  BY <1>1, <1>2, PTL DEF Spec

(* A command is sent only when none of the session's earlier commands can  *)
(* still be carried out, whatever crashed, timed out or was cancelled      *)
(* (unresolved_commands, on_command, prompt).                              *)
THEOREM CommandsAreSettled == Spec => []CommandsSettled
<1>1. Working /\ MuseHeld => CommandsSettled
  <2> SUFFICES ASSUME Working, MuseHeld, NEW c \in Commands, NEW d \in Commands, c < d, command[d] # "none"
               PROVE  command[c] \in {"none", "settled", "rejected"}
    BY DEF CommandsSettled
  <2>1. d \in intents /\ intents \subseteq 1..turn /\ turn \in Nat
    BY DEF MuseHeld, JournalTrue, Working
  <2>2. c < turn
    <3>1. c \in Nat /\ d \in Nat
      BY DEF Commands
    <3> QED
      BY <2>1, <3>1
  <2>3. command[c] # "none" => command[c] \in Over
    BY <2>2 DEF MuseHeld, JournalTrue
  <2> QED
    BY <2>3 DEF Over
<1> QED
  BY <1>1, MuseIsHeld, PTL

(* A completed turn's answer holds every event of the turn exactly once,   *)
(* whatever arrived before the acknowledgment or was repeated (_read,      *)
(* _event, prompt).                                                        *)
THEOREM AnswersAreComplete == Spec => []AnswerComplete
<1>1. Working /\ MuseHeld => AnswerComplete
  <2> SUFFICES ASSUME Working, MuseHeld PROVE AnswerComplete
    OBVIOUS
  <2>1. CASE family = "muse"
    BY <2>1 DEF MuseHeld, TalkFits
  <2>2. CASE family = "agy"
    BY <2>2 DEF MuseHeld, PlacesFit, AnswerComplete
  <2> QED
    BY <2>1, <2>2 DEF Working
<1> QED
  BY <1>1, MuseIsHeld, PTL
=============================================================================
