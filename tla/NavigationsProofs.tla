------------------------- MODULE NavigationsProofs -------------------------
(***************************************************************************)
(* Theorems about Navigations.                                             *)
(***************************************************************************)
EXTENDS Navigations, NaturalLemmas, SequenceTheorems, TLAPS

(***************************************************************************)
(* Sequences.                                                              *)
(***************************************************************************)
IsSeq(s) == s \in Seq(Range(s))

LEMMA NatInduct ==
  ASSUME NEW S, 0 \in S, \A n \in Nat : n \in S => n + 1 \in S
  PROVE  \A n \in Nat : n \in S
<1> DEFINE R == {n \in Nat : n \notin S}
<1> SUFFICES ASSUME R # {} PROVE FALSE OBVIOUS
<1>1. PICK x \in R : \A y \in R : x <= y
  <2>1. R \in SUBSET Nat /\ R # {} OBVIOUS
  <2> HIDE DEF R
  <2> QED BY <2>1, LeastNat
<1>2. x \in Nat /\ x # 0 /\ x \notin S OBVIOUS
<1>3. x - 1 \in Nat BY <1>2
<1>4. x - 1 \in S
  <2> SUFFICES ASSUME x - 1 \notin S PROVE FALSE OBVIOUS
  <2>1. x <= x - 1 BY <1>1, <1>3
  <2> QED BY <2>1, <1>2
<1>5. (x - 1) + 1 \in S BY <1>3, <1>4
<1>6. (x - 1) + 1 = x BY <1>2
<1> QED BY <1>2, <1>5, <1>6

LEMMA SeqFacts ==
  ASSUME NEW s, IsSeq(s)
  PROVE  /\ Len(s) \in Nat /\ DOMAIN s = 1..Len(s)
         /\ s = [k \in 1..Len(s) |-> s[k]]
         /\ \A k \in 1..Len(s) : s[k] \in Range(s)
<1>1. s \in Seq(Range(s)) BY DEF IsSeq
<1>2. Len(s) \in Nat /\ s \in [1..Len(s) -> Range(s)] /\ DOMAIN s = 1..Len(s)
  BY <1>1, LenProperties
<1> QED BY <1>2

LEMMA SeqIntro ==
  ASSUME NEW n \in Nat, NEW f, f = [k \in 1..n |-> f[k]]
  PROVE  IsSeq(f) /\ Len(f) = n /\ DOMAIN f = 1..n
<1>1. DOMAIN f = 1..n OBVIOUS
<1>2. \A k \in 1..n : f[k] \in Range(f) BY <1>1 DEF Range
<1>3. f \in [1..n -> Range(f)] BY <1>2
<1>4. f \in Seq(Range(f)) BY <1>3, SeqDef
<1>5. Len(f) \in Nat /\ 1..Len(f) = 1..n BY <1>4, <1>1, LenProperties
<1>6. Len(f) = n
  <2>1. CASE Len(f) < n
    <3>1. n \in 1..n /\ n \notin 1..Len(f) BY <2>1, <1>5
    <3> QED BY <3>1, <1>5
  <2>2. CASE n < Len(f)
    <3>1. Len(f) \in 1..Len(f) /\ Len(f) \notin 1..n BY <2>2, <1>5
    <3> QED BY <3>1, <1>5
  <2> QED BY <2>1, <2>2, <1>5
<1> QED BY <1>1, <1>4, <1>6 DEF IsSeq

LEMMA ConcatFacts ==
  ASSUME NEW s, NEW t, IsSeq(s), IsSeq(t)
  PROVE  /\ IsSeq(s \o t) /\ Len(s \o t) = Len(s) + Len(t)
         /\ DOMAIN (s \o t) = 1..(Len(s) + Len(t))
         /\ \A k \in 1..Len(s) : (s \o t)[k] = s[k]
         /\ \A k \in 1..Len(t) : (s \o t)[Len(s) + k] = t[k]
<1> DEFINE A == Range(s) \cup Range(t)
<1>1. s \in Seq(A) /\ t \in Seq(A) BY SeqMonotonic DEF IsSeq
<1>2. Len(s) \in Nat /\ Len(t) \in Nat BY SeqFacts
<1> HIDE DEF A
<1>3. /\ s \o t \in Seq(A)
      /\ Len(s \o t) = Len(s) + Len(t)
      /\ \A i \in 1 .. Len(s) + Len(t) :
            (s \o t)[i] = IF i <= Len(s) THEN s[i] ELSE t[i - Len(s)]
  BY <1>1, ConcatProperties
<1>4. s \o t \in Seq(Range(s \o t)) BY <1>3, SeqOfRange
<1>5. DOMAIN (s \o t) = 1..(Len(s) + Len(t)) BY <1>3, LenProperties
<1>6. ASSUME NEW k \in 1..Len(s) PROVE (s \o t)[k] = s[k]
  <2>1. k \in 1 .. Len(s) + Len(t) /\ k <= Len(s) BY <1>2
  <2> QED BY <2>1, <1>3
<1>7. ASSUME NEW k \in 1..Len(t) PROVE (s \o t)[Len(s) + k] = t[k]
  <2>1. Len(s) + k \in 1 .. Len(s) + Len(t) /\ ~(Len(s) + k <= Len(s)) /\ Len(s) + k - Len(s) = k
    BY <1>2
  <2> QED BY <2>1, <1>3
<1> QED BY <1>3, <1>4, <1>5, <1>6, <1>7 DEF IsSeq

\* Sequences of sequences, and the sums of their lengths.
AllSeqs(ls) == IsSeq(ls) /\ \A k \in DOMAIN ls : IsSeq(ls[k])

Counts(ls) == [k \in DOMAIN ls |-> Len(ls[k])]

IsNatSeq(counts) == IsSeq(counts) /\ \A k \in DOMAIN counts : counts[k] \in Nat

SumsUp(f, counts, m) == f = [n \in 0..m |-> IF n = 0 THEN 0 ELSE f[n - 1] + counts[n]]

LEMMA SumExists ==
  ASSUME NEW counts
  PROVE  \A m \in Nat : \E f : SumsUp(f, counts, m)
<1> DEFINE S == {m \in Nat : \E f : SumsUp(f, counts, m)}
<1>1. 0 \in S
  <2>1. SumsUp([n \in 0..0 |-> 0], counts, 0) BY DEF SumsUp
  <2> QED BY <2>1
<1>2. ASSUME NEW m \in Nat, m \in S PROVE m + 1 \in S
  <2>1. PICK f : SumsUp(f, counts, m) BY <1>2
  <2> DEFINE g == [n \in 0..(m + 1) |-> IF n = m + 1 THEN f[m] + counts[m + 1] ELSE f[n]]
  <2>2. \A n \in 0..m : g[n] = f[n] OBVIOUS
  <2>3. ASSUME NEW n \in 0..(m + 1)
        PROVE  g[n] = IF n = 0 THEN 0 ELSE g[n - 1] + counts[n]
    <3>1. CASE n = m + 1
      <4>1. g[n] = f[m] + counts[n] BY <3>1
      <4>2. n # 0 /\ n - 1 = m /\ g[m] = f[m] BY <3>1, <2>2
      <4> QED BY <4>1, <4>2
    <3>2. CASE n \in 0..m
      <4>1. f[n] = IF n = 0 THEN 0 ELSE f[n - 1] + counts[n] BY <2>1, <3>2 DEF SumsUp
      <4>2. n # 0 => n - 1 \in 0..m BY <3>2
      <4> QED BY <4>1, <4>2, <2>2, <3>2
    <3> QED BY <3>1, <3>2
  <2>4. g = [n \in 0..(m + 1) |-> g[n]] OBVIOUS
  <2>5. SumsUp(g, counts, m + 1)
    <3> HIDE DEF g
    <3> QED BY <2>3, <2>4 DEF SumsUp
  <2> QED BY <2>5
<1> HIDE DEF S
<1>3. \A m \in Nat : m \in S BY <1>1, <1>2, NatInduct
<1> QED BY <1>3 DEF S

\* The items of the objects before the first are none, and each object adds its
\* own.
LEMMA BeforeAdds ==
  ASSUME NEW counts, IsNatSeq(counts)
  PROVE  /\ Before(counts, 1) = 0
         /\ \A k \in 1..(Len(counts) + 1) : Before(counts, k) \in Nat
         /\ \A k \in DOMAIN counts : Before(counts, k + 1) = Before(counts, k) + counts[k]
<1> DEFINE n == Len(counts)
           sum == CHOOSE f : SumsUp(f, counts, n)
<1>1. n \in Nat /\ DOMAIN counts = 1..n BY SeqFacts DEF IsNatSeq
<1>2. SumsUp(sum, counts, n) BY <1>1, SumExists
<1>3. \A k : Before(counts, k) = sum[k - 1] BY DEF Before, SumsUp
<1> HIDE DEF sum, n
<1>4. \A k \in 0..n : sum[k] = IF k = 0 THEN 0 ELSE sum[k - 1] + counts[k]
  BY <1>2 DEF SumsUp
<1>5. \A k \in 1..n : counts[k] \in Nat BY <1>1 DEF IsNatSeq
<1> DEFINE S == {k \in Nat : k \in 0..n => sum[k] \in Nat}
<1>6. 0 \in S BY <1>1, <1>4
<1>7. ASSUME NEW k \in Nat, k \in S PROVE k + 1 \in S
  <2> SUFFICES ASSUME k + 1 \in 0..n PROVE sum[k + 1] \in Nat OBVIOUS
  <2>1. k \in 0..n /\ k + 1 \in 1..n /\ k + 1 # 0 /\ (k + 1) - 1 = k BY <1>1
  <2>2. sum[k + 1] = sum[k] + counts[k + 1] BY <2>1, <1>4
  <2> QED BY <2>1, <2>2, <1>5, <1>7
<1>8. \A k \in Nat : k \in S
  <2> HIDE DEF S
  <2> QED BY <1>6, <1>7, NatInduct
<1>9. \A k \in 1..(n + 1) : k - 1 \in 0..n /\ k - 1 \in Nat BY <1>1
<1>10. \A k \in 1..n : k \in 0..n /\ k # 0 /\ (k + 1) - 1 = k BY <1>1
<1>11. 1 - 1 = 0 /\ 0 \in 0..n BY <1>1
<1>12. Before(counts, 1) = 0 BY <1>3, <1>4, <1>11
<1>13. \A k \in 1..(n + 1) : Before(counts, k) \in Nat BY <1>3, <1>8, <1>9
<1>14. \A k \in 1..n : Before(counts, k + 1) = Before(counts, k) + counts[k]
  BY <1>3, <1>4, <1>10
<1> QED BY <1>1, <1>12, <1>13, <1>14 DEF n

\* s is the first i of ls, one after the other.
FlatOf(s, ls, i) ==
    /\ IsSeq(s) /\ Len(s) = Before(Counts(ls), i + 1)
    /\ \A k \in 1..i : \A j \in 1..Len(ls[k]) :
          /\ Before(Counts(ls), k) + j \in 1..Len(s)
          /\ s[Before(Counts(ls), k) + j] = ls[k][j]
    /\ \A m \in 1..Len(s) : \E k \in 1..i : \E j \in 1..Len(ls[k]) :
          m = Before(Counts(ls), k) + j

LEMMA CountsAreNat ==
  ASSUME NEW ls, AllSeqs(ls)
  PROVE  /\ IsNatSeq(Counts(ls)) /\ Len(Counts(ls)) = Len(ls)
         /\ DOMAIN Counts(ls) = 1..Len(ls)
         /\ \A k \in DOMAIN ls : Counts(ls)[k] = Len(ls[k])
<1>1. Len(ls) \in Nat /\ DOMAIN ls = 1..Len(ls) BY SeqFacts DEF AllSeqs
<1>2. Counts(ls) = [k \in 1..Len(ls) |-> Counts(ls)[k]] BY <1>1 DEF Counts
<1>3. IsSeq(Counts(ls)) /\ Len(Counts(ls)) = Len(ls) BY <1>1, <1>2, SeqIntro
<1>4. \A k \in 1..Len(ls) : Counts(ls)[k] = Len(ls[k]) BY <1>1 DEF Counts
<1>5. \A k \in 1..Len(ls) : Len(ls[k]) \in Nat BY <1>1, SeqFacts DEF AllSeqs
<1>6. DOMAIN Counts(ls) = 1..Len(ls) BY <1>1 DEF Counts
<1>7. \A k \in DOMAIN Counts(ls) : Counts(ls)[k] \in Nat BY <1>4, <1>5, <1>6
<1> QED BY <1>1, <1>3, <1>4, <1>6, <1>7 DEF IsNatSeq

LEMMA FlatStep ==
  ASSUME NEW ls, AllSeqs(ls), NEW i \in Nat, i + 1 \in DOMAIN ls, NEW s, FlatOf(s, ls, i)
  PROVE  FlatOf(s \o ls[i + 1], ls, i + 1)
<1> DEFINE l == ls[i + 1]
           B(k) == Before(Counts(ls), k)
           r == s \o l
<1>1. IsSeq(l) /\ IsSeq(s) /\ Len(l) \in Nat /\ Len(s) \in Nat BY SeqFacts DEF AllSeqs, FlatOf
<1>2. Len(ls) \in Nat /\ DOMAIN ls = 1..Len(ls) BY SeqFacts DEF AllSeqs
<1>3. B(i + 1) \in Nat /\ B((i + 1) + 1) = B(i + 1) + Len(l)
  <2>1. i + 1 \in 1..(Len(Counts(ls)) + 1) /\ i + 1 \in DOMAIN Counts(ls)
    BY <1>2, CountsAreNat
  <2>2. Counts(ls)[i + 1] = Len(l) BY CountsAreNat
  <2> QED BY <2>1, <2>2, CountsAreNat, BeforeAdds
<1>4. Len(s) = B(i + 1) BY DEF FlatOf
<1>5. /\ \A k \in 1..i : \A j \in 1..Len(ls[k]) :
            B(k) + j \in 1..Len(s) /\ s[B(k) + j] = ls[k][j]
      /\ \A m \in 1..Len(s) : \E k \in 1..i : \E j \in 1..Len(ls[k]) : m = B(k) + j
  BY DEF FlatOf
<1> HIDE DEF B
<1>6. /\ IsSeq(r) /\ Len(r) = Len(s) + Len(l)
      /\ \A k \in 1..Len(s) : r[k] = s[k]
      /\ \A k \in 1..Len(l) : r[Len(s) + k] = l[k]
  BY <1>1, ConcatFacts
<1> HIDE DEF r
<1>7. ASSUME NEW k \in 1..(i + 1), NEW j \in 1..Len(ls[k])
      PROVE  B(k) + j \in 1..Len(r) /\ r[B(k) + j] = ls[k][j]
  <2>1. CASE k = i + 1
    <3>1. B(k) + j = Len(s) + j /\ j \in 1..Len(l) BY <2>1, <1>4
    <3>2. Len(s) + j \in 1..(Len(s) + Len(l)) BY <3>1, <1>1
    <3> QED BY <3>1, <3>2, <1>6, <2>1
  <2>2. CASE k \in 1..i
    <3>1. B(k) + j \in 1..Len(s) /\ s[B(k) + j] = ls[k][j] BY <2>2, <1>5
    <3>2. B(k) + j \in 1..(Len(s) + Len(l)) BY <3>1, <1>1
    <3> QED BY <3>1, <3>2, <1>6
  <2> QED BY <2>1, <2>2
<1>8. ASSUME NEW m \in 1..Len(r)
      PROVE  \E k \in 1..(i + 1) : \E j \in 1..Len(ls[k]) : m = B(k) + j
  <2>1. CASE m \in 1..Len(s)
    <3>1. PICK k \in 1..i : \E j \in 1..Len(ls[k]) : m = B(k) + j BY <2>1, <1>5
    <3>2. k \in 1..(i + 1) OBVIOUS
    <3> QED BY <3>1, <3>2
  <2>2. CASE m \notin 1..Len(s)
    <3>1. m - Len(s) \in 1..Len(l) /\ m = B(i + 1) + (m - Len(s)) BY <2>2, <1>1, <1>4, <1>6
    <3>2. i + 1 \in 1..(i + 1) OBVIOUS
    <3> QED BY <3>1, <3>2
  <2> QED BY <2>1, <2>2
<1>9. Len(r) = B((i + 1) + 1) BY <1>3, <1>4, <1>6
<1> QED BY <1>6, <1>7, <1>8, <1>9 DEF FlatOf, B, r

Flattens(f, ls, m) == f = [n \in 1..m |-> IF n = 1 THEN ls[n] ELSE f[n - 1] \o ls[n]]

LEMMA FlattenExists ==
  ASSUME NEW ls
  PROVE  \A m \in Nat : \E f : Flattens(f, ls, m)
<1> DEFINE S == {m \in Nat : \E f : Flattens(f, ls, m)}
<1>1. 0 \in S
  <2>1. Flattens([n \in 1..0 |-> 0], ls, 0) BY DEF Flattens
  <2> QED BY <2>1
<1>2. ASSUME NEW m \in Nat, m \in S PROVE m + 1 \in S
  <2>1. PICK f : Flattens(f, ls, m) BY <1>2
  <2> DEFINE g == [n \in 1..(m + 1) |-> IF n = m + 1
                                        THEN IF n = 1 THEN ls[n] ELSE f[m] \o ls[n] ELSE f[n]]
  <2>2. \A n \in 1..m : g[n] = f[n] OBVIOUS
  <2>3. ASSUME NEW n \in 1..(m + 1)
        PROVE  g[n] = IF n = 1 THEN ls[n] ELSE g[n - 1] \o ls[n]
    <3>1. CASE n = m + 1
      <4>1. g[n] = IF n = 1 THEN ls[n] ELSE f[m] \o ls[n] BY <3>1
      <4>2. n # 1 => n - 1 = m /\ m \in 1..m BY <3>1
      <4>3. n # 1 => g[n - 1] = f[m] BY <4>2, <2>2
      <4> QED BY <4>1, <4>3
    <3>2. CASE n \in 1..m
      <4>1. f[n] = IF n = 1 THEN ls[n] ELSE f[n - 1] \o ls[n] BY <2>1, <3>2 DEF Flattens
      <4>2. n # 1 => n - 1 \in 1..m BY <3>2
      <4> QED BY <4>1, <4>2, <2>2, <3>2
    <3> QED BY <3>1, <3>2
  <2>4. g = [n \in 1..(m + 1) |-> g[n]] OBVIOUS
  <2>5. Flattens(g, ls, m + 1)
    <3> HIDE DEF g
    <3> QED BY <2>3, <2>4 DEF Flattens
  <2> QED BY <2>5
<1> HIDE DEF S
<1>3. \A m \in Nat : m \in S BY <1>1, <1>2, NatInduct
<1> QED BY <1>3 DEF S

LEMMA FlattenIsFlat ==
  ASSUME NEW ls, AllSeqs(ls)
  PROVE  FlatOf(FlattenSeq(ls), ls, Len(ls))
<1>1. Len(ls) \in Nat /\ DOMAIN ls = 1..Len(ls) /\ IsSeq(ls) BY SeqFacts DEF AllSeqs
<1>2. CASE Len(ls) = 0
  <2>1. FlattenSeq(ls) = ls BY <1>2 DEF FlattenSeq
  <2>2. Before(Counts(ls), 0 + 1) = 0 BY CountsAreNat, BeforeAdds
  <2>3. FlatOf(ls, ls, 0) BY <1>1, <1>2, <2>2 DEF FlatOf
  <2> QED BY <1>2, <2>1, <2>3
<1>3. CASE Len(ls) # 0
  <2> DEFINE f == CHOOSE f : Flattens(f, ls, Len(ls))
  <2>1. FlattenSeq(ls) = f[Len(ls)] BY <1>3 DEF FlattenSeq, Flattens
  <2>2. Flattens(f, ls, Len(ls)) BY <1>1, FlattenExists
  <2> HIDE DEF f
  <2>3. \A n \in 1..Len(ls) : f[n] = IF n = 1 THEN ls[n] ELSE f[n - 1] \o ls[n]
    BY <2>2 DEF Flattens
  <2>4. FlatOf(f[1], ls, 1)
    <3> DEFINE e == [k \in 1..0 |-> 0]
    <3>1. IsSeq(e) /\ Len(e) = 0 BY SeqIntro
    <3>2. Before(Counts(ls), 0 + 1) = 0 BY CountsAreNat, BeforeAdds
    <3> HIDE DEF e
    <3>3. FlatOf(e, ls, 0) BY <3>1, <3>2 DEF FlatOf
    <3>4. 0 + 1 \in DOMAIN ls BY <1>1, <1>3
    <3>5. FlatOf(e \o ls[0 + 1], ls, 0 + 1) BY <3>3, <3>4, FlatStep
    <3>6. IsSeq(ls[1]) /\ Len(ls[1]) \in Nat BY <1>1, <1>3, SeqFacts DEF AllSeqs
    <3>7. e \o ls[1] = ls[1]
      <4>1. e = <<>> BY DEF e
      <4> QED BY <4>1, <3>6, ConcatEmptySeq DEF IsSeq
    <3>8. f[1] = ls[1] BY <2>3, <1>1, <1>3
    <3>9. 0 + 1 = 1 OBVIOUS
    <3> QED BY <3>5, <3>7, <3>8, <3>9
  <2> DEFINE S == {n \in Nat : n + 1 \in 1..Len(ls) => FlatOf(f[n + 1], ls, n + 1)}
  <2>5. 0 \in S BY <2>4
  <2>6. ASSUME NEW n \in Nat, n \in S PROVE n + 1 \in S
    <3> SUFFICES ASSUME (n + 1) + 1 \in 1..Len(ls) PROVE FlatOf(f[(n + 1) + 1], ls, (n + 1) + 1)
      OBVIOUS
    <3>1. n + 1 \in 1..Len(ls) BY <1>1
    <3>2. FlatOf(f[n + 1], ls, n + 1) BY <3>1, <2>6
    <3>3. n + 1 \in Nat /\ (n + 1) + 1 \in DOMAIN ls BY <1>1
    <3> HIDE DEF S
    <3>4. FlatOf(f[n + 1] \o ls[(n + 1) + 1], ls, (n + 1) + 1) BY <3>2, <3>3, FlatStep
    <3>5. (n + 1) + 1 # 1 /\ ((n + 1) + 1) - 1 = n + 1 OBVIOUS
    <3> QED BY <3>4, <3>5, <2>3
  <2>7. \A n \in Nat : n \in S
    <3> HIDE DEF S
    <3> QED BY <2>5, <2>6, NatInduct
  <2>8. Len(ls) - 1 \in Nat /\ (Len(ls) - 1) + 1 = Len(ls) /\ Len(ls) \in 1..Len(ls) BY <1>1, <1>3
  <2>9. Len(ls) - 1 \in S BY <2>7, <2>8
  <2>10. FlatOf(f[Len(ls)], ls, Len(ls)) BY <2>8, <2>9
  <2> QED BY <2>1, <2>10
<1> QED BY <1>2, <1>3

\* A sequence of at most one element for each position.
LEMMA PickedFacts ==
  ASSUME NEW s, IsSeq(s), NEW at
  PROVE  /\ IsSeq(Picked(s, at))
         /\ \A m \in DOMAIN Picked(s, at) : \E k \in DOMAIN s : k \in at /\ Picked(s, at)[m] = s[k]
         /\ \A k \in DOMAIN s : k \in at => \E m \in DOMAIN Picked(s, at) : Picked(s, at)[m] = s[k]
<1> DEFINE ls == [k \in DOMAIN s |-> IF k \in at THEN <<s[k]>> ELSE <<>>]
           B(k) == Before(Counts(ls), k)
           r == FlattenSeq(ls)
<1>1. Len(s) \in Nat /\ DOMAIN s = 1..Len(s) BY SeqFacts
<1>2. ASSUME NEW k \in DOMAIN s
      PROVE  /\ IsSeq(ls[k])
             /\ k \in at => Len(ls[k]) = 1 /\ ls[k][1] = s[k]
             /\ k \notin at => Len(ls[k]) = 0
  <2>1. CASE k \in at
    <3>1. ls[k] = <<s[k]>> BY <2>1
    <3>2. IsSeq(<<s[k]>>) BY DEF IsSeq, Range
    <3> QED BY <3>1, <3>2, <2>1
  <2>2. CASE k \notin at
    <3>1. ls[k] = <<>> BY <2>2
    <3>2. IsSeq(<<>>) BY DEF IsSeq, Range
    <3> QED BY <3>1, <3>2, <2>2
  <2> QED BY <2>1, <2>2
<1>3. IsSeq(ls) /\ Len(ls) = Len(s) /\ DOMAIN ls = 1..Len(s)
  <2>1. ls = [k \in 1..Len(s) |-> ls[k]] BY <1>1
  <2> HIDE DEF ls
  <2> QED BY <1>1, <2>1, SeqIntro
<1>4. Picked(s, at) = r BY DEF Picked
<1> HIDE DEF ls
<1>5. AllSeqs(ls) BY <1>1, <1>2, <1>3 DEF AllSeqs
<1>6. FlatOf(r, ls, Len(s)) BY <1>3, <1>5, FlattenIsFlat
<1> HIDE DEF r
<1>7. /\ IsSeq(r) /\ DOMAIN r = 1..Len(r)
      /\ \A k \in 1..Len(s) : \A j \in 1..Len(ls[k]) : B(k) + j \in 1..Len(r) /\ r[B(k) + j] = ls[k][j]
      /\ \A m \in 1..Len(r) : \E k \in 1..Len(s) : \E j \in 1..Len(ls[k]) : m = B(k) + j
  BY <1>6, SeqFacts DEF FlatOf
<1> HIDE DEF B
<1>8. ASSUME NEW m \in DOMAIN r PROVE \E k \in DOMAIN s : k \in at /\ r[m] = s[k]
  <2>1. PICK k \in 1..Len(s) : \E j \in 1..Len(ls[k]) : m = B(k) + j BY <1>7
  <2>2. PICK j \in 1..Len(ls[k]) : m = B(k) + j BY <2>1
  <2>3. r[m] = ls[k][j] BY <1>7, <2>2
  <2>4. k \in DOMAIN s BY <1>1
  <2>5. k \in at BY <2>2, <2>4, <1>2
  <2>6. j = 1
    <3>1. Len(ls[k]) = 1 BY <2>4, <2>5, <1>2
    <3>2. j \in 1..1 BY <2>2, <3>1
    <3> QED BY <3>2
  <2> QED BY <2>3, <2>4, <2>5, <2>6, <1>2
<1>9. ASSUME NEW k \in DOMAIN s, k \in at PROVE \E m \in DOMAIN r : r[m] = s[k]
  <2>1. Len(ls[k]) = 1 /\ ls[k][1] = s[k] BY <1>2, <1>9
  <2>2. 1 \in 1..Len(ls[k]) BY <2>1
  <2> QED BY <2>1, <2>2, <1>1, <1>7
<1> QED BY <1>4, <1>7, <1>8, <1>9

LEMMA PlaceFacts ==
  ASSUME NEW objs, IsSeq(objs), NEW o
  PROVE  \/ Place(objs, o) = 0 /\ \A k \in DOMAIN objs : objs[k] # o
         \/ /\ Place(objs, o) \in DOMAIN objs /\ Place(objs, o) # 0
            /\ objs[Place(objs, o)] = o
<1> DEFINE I == {k \in 1..Len(objs) : objs[k] = o}
<1>1. Len(objs) \in Nat /\ DOMAIN objs = 1..Len(objs) BY SeqFacts
<1>2. Place(objs, o) = IF I # {} THEN Min(I) ELSE 0 BY DEF Place, SelectInSeq
<1>3. CASE I # {}
  <2>1. I \in SUBSET Nat BY <1>1
  <2>2. \E x \in I : \A y \in I : x <= y
    <3> HIDE DEF I
    <3> QED BY <2>1, <1>3, LeastNat
  <2>3. Min(I) \in I BY <2>2 DEF Min
  <2> QED BY <1>1, <1>2, <1>3, <2>3
<1>4. CASE I = {} BY <1>1, <1>2, <1>4
<1> QED BY <1>3, <1>4

(***************************************************************************)
(* The shape of the heap and of what a call has still to do.               *)
(***************************************************************************)
TypeNames(s) == DOMAIN Scenarios[s].model

Navs(s, T) == NavNames(Scenarios[s].model[T])

Related(s, T, nav) == Metas[s][T][nav].type

ContainerOk(c) ==
    /\ c = [items |-> c.items, loaded |-> c.loaded, ctx |-> c.ctx, of |-> c.of]
    /\ IsSeq(c.items) /\ c.loaded \in BOOLEAN

EntityOk(s, e) ==
    /\ e = [type |-> e.type, values |-> e.values, read |-> e.read, mine |-> e.mine, navs |-> e.navs]
    /\ e.type \in TypeNames(s) /\ e.mine \in BOOLEAN
    /\ e.navs = [nav \in Navs(s, e.type) |-> e.navs[nav]]
    /\ \A nav \in Navs(s, e.type) : ContainerOk(e.navs[nav])

\* The items are entities of type T.
Typed(h, T, items) == \A k \in DOMAIN items : items[k] \in DOMAIN h /\ h[items[k]].type = T

OkIn(s, h, o) ==
    /\ EntityOk(s, h[o])
    /\ \A nav \in Navs(s, h[o].type) : Typed(h, Related(s, h[o].type, nav), h[o].navs[nav].items)

HeapOk(s, h) == IsSeq(h) /\ \A o \in DOMAIN h : OkIn(s, h, o)

\* Entities keep their place and their type.
Grows(h, g) ==
    /\ IsSeq(g) /\ DOMAIN h \subseteq DOMAIN g
    /\ \A o \in DOMAIN h : g[o].type = h[o].type

\* An entity no one has filled yet.
Fresh(s, e) == EntityOk(s, e) /\ \A nav \in Navs(s, e.type) : e.navs[nav].items = <<>>

Put(e, nav, c) == [e EXCEPT !.navs[nav] = c]

LEMMA EmptyIsSeq == IsSeq(<<>>) /\ Len(<<>>) = 0 /\ DOMAIN <<>> = {}
<1>1. IsSeq(<<>>) BY DEF IsSeq, Range
<1> QED BY <1>1

LEMMA PutFacts ==
  ASSUME NEW s, NEW e, EntityOk(s, e), NEW nav \in Navs(s, e.type), NEW c, ContainerOk(c)
  PROVE  /\ EntityOk(s, Put(e, nav, c))
         /\ Put(e, nav, c).type = e.type /\ Put(e, nav, c).values = e.values
         /\ Put(e, nav, c).read = e.read /\ Put(e, nav, c).mine = e.mine
         /\ DOMAIN Put(e, nav, c).navs = Navs(s, e.type)
         /\ Put(e, nav, c).navs[nav] = c
         /\ \A x \in Navs(s, e.type) : x # nav => Put(e, nav, c).navs[x] = e.navs[x]
<1> DEFINE f == Put(e, nav, c)
<1>1. e = [type |-> e.type, values |-> e.values, read |-> e.read, mine |-> e.mine, navs |-> e.navs]
  BY DEF EntityOk
<1>2. e.navs = [x \in Navs(s, e.type) |-> e.navs[x]] BY DEF EntityOk
<1>3. f = [type |-> e.type, values |-> e.values, read |-> e.read, mine |-> e.mine,
           navs |-> [e.navs EXCEPT ![nav] = c]]
  BY <1>1 DEF Put
<1>4. /\ f.type = e.type /\ f.values = e.values /\ f.read = e.read /\ f.mine = e.mine
      /\ f.navs = [e.navs EXCEPT ![nav] = c]
  BY <1>3
<1>5. /\ f.navs = [x \in Navs(s, e.type) |-> IF x = nav THEN c ELSE e.navs[x]]
  BY <1>2, <1>4
<1>6. f = [type |-> f.type, values |-> f.values, read |-> f.read, mine |-> f.mine, navs |-> f.navs]
  BY <1>3, <1>4
<1> HIDE DEF f
<1>7. /\ f.navs = [x \in Navs(s, e.type) |-> f.navs[x]] /\ f.navs[nav] = c
      /\ \A x \in Navs(s, e.type) : x # nav => f.navs[x] = e.navs[x]
      /\ DOMAIN f.navs = Navs(s, e.type)
  BY <1>5
<1>8. \A x \in Navs(s, e.type) : ContainerOk(f.navs[x]) BY <1>7 DEF EntityOk
<1>9. EntityOk(s, f) BY <1>4, <1>6, <1>7, <1>8 DEF EntityOk
<1> QED BY <1>4, <1>7, <1>9 DEF f

LEMMA TypedGrows ==
  ASSUME NEW h, NEW g, Grows(h, g), NEW T, NEW items, Typed(h, T, items)
  PROVE  Typed(g, T, items)
BY DEF Grows, Typed

\* What was in the heap stays well-formed when it is unchanged or a container
\* is replaced.
LEMMA OldOk ==
  ASSUME NEW s, NEW h, HeapOk(s, h), NEW g, Grows(h, g), NEW o \in DOMAIN h,
         g[o] = h[o] \/ \E nav \in Navs(s, h[o].type) : \E c :
                           /\ ContainerOk(c) /\ g[o] = Put(h[o], nav, c)
                           /\ Typed(g, Related(s, h[o].type, nav), c.items)
  PROVE  OkIn(s, g, o)
<1>1. OkIn(s, h, o) BY DEF HeapOk
<1>2. EntityOk(s, h[o]) BY <1>1 DEF OkIn
<1>3. \A nav \in Navs(s, h[o].type) :
         Typed(g, Related(s, h[o].type, nav), h[o].navs[nav].items)
  <2>1. \A nav \in Navs(s, h[o].type) :
           Typed(h, Related(s, h[o].type, nav), h[o].navs[nav].items)
    BY <1>1 DEF OkIn
  <2> QED BY <2>1, TypedGrows
<1>4. CASE g[o] = h[o] BY <1>2, <1>3, <1>4 DEF OkIn
<1>5. ASSUME NEW nav \in Navs(s, h[o].type), NEW c, ContainerOk(c), g[o] = Put(h[o], nav, c),
             Typed(g, Related(s, h[o].type, nav), c.items)
      PROVE  OkIn(s, g, o)
  <2>1. /\ EntityOk(s, g[o]) /\ g[o].type = h[o].type /\ g[o].navs[nav] = c
        /\ \A x \in Navs(s, h[o].type) : x # nav => g[o].navs[x] = h[o].navs[x]
    BY <1>2, <1>5, PutFacts
  <2>2. ASSUME NEW x \in Navs(s, h[o].type)
        PROVE  Typed(g, Related(s, h[o].type, x), g[o].navs[x].items)
    <3>1. CASE x = nav BY <3>1, <2>1, <1>5
    <3>2. CASE x # nav BY <3>2, <2>1, <1>3
    <3> QED BY <3>1, <3>2
  <2> QED BY <2>1, <2>2 DEF OkIn
<1> QED BY <1>4, <1>5

LEMMA FreshOk ==
  ASSUME NEW s, NEW g, NEW o, Fresh(s, g[o])
  PROVE  OkIn(s, g, o)
<1>1. \A nav \in Navs(s, g[o].type) : g[o].navs[nav].items = <<>> BY DEF Fresh
<1>2. \A nav \in Navs(s, g[o].type) : Typed(g, Related(s, g[o].type, nav), g[o].navs[nav].items)
  BY <1>1, EmptyIsSeq DEF Typed
<1> QED BY <1>2 DEF Fresh, OkIn

\* g is the heap h with containers replaced and new entities behind it.
StepsTo(s, h, g) ==
    /\ IsSeq(g) /\ DOMAIN h \subseteq DOMAIN g
    /\ \A o \in DOMAIN h :
          \/ g[o] = h[o]
          \/ \E nav \in Navs(s, h[o].type) : \E c :
                /\ ContainerOk(c) /\ g[o] = Put(h[o], nav, c)
                /\ Typed(g, Related(s, h[o].type, nav), c.items)
    /\ \A o \in DOMAIN g \ DOMAIN h : Fresh(s, g[o])

LEMMA HeapStep ==
  ASSUME NEW s, NEW h, HeapOk(s, h), NEW g, StepsTo(s, h, g)
  PROVE  HeapOk(s, g) /\ Grows(h, g)
<1>1. IsSeq(g) /\ DOMAIN h \subseteq DOMAIN g BY DEF StepsTo
<1>2. \A o \in DOMAIN h : EntityOk(s, h[o]) BY DEF HeapOk, OkIn
<1>3. ASSUME NEW o \in DOMAIN h PROVE g[o].type = h[o].type
  <2>1. CASE g[o] = h[o] BY <2>1
  <2>2. ASSUME NEW nav \in Navs(s, h[o].type), NEW c, ContainerOk(c), g[o] = Put(h[o], nav, c)
        PROVE  g[o].type = h[o].type
    BY <1>2, <2>2, PutFacts
  <2> QED BY <2>1, <2>2 DEF StepsTo
<1>4. Grows(h, g) BY <1>1, <1>3 DEF Grows
<1>5. ASSUME NEW o \in DOMAIN h PROVE OkIn(s, g, o)
  <2>1. g[o] = h[o] \/ \E nav \in Navs(s, h[o].type) : \E c :
                           /\ ContainerOk(c) /\ g[o] = Put(h[o], nav, c)
                           /\ Typed(g, Related(s, h[o].type, nav), c.items)
    BY DEF StepsTo
  <2> QED BY <1>4, <2>1, OldOk
<1>6. ASSUME NEW o \in DOMAIN g \ DOMAIN h PROVE OkIn(s, g, o)
  <2>1. Fresh(s, g[o]) BY DEF StepsTo
  <2> QED BY <2>1, FreshOk
<1>7. \A o \in DOMAIN g : OkIn(s, g, o) BY <1>5, <1>6
<1> QED BY <1>1, <1>4, <1>7 DEF HeapOk

(***************************************************************************)
(* Statements and the entities made of their rows.                         *)
(***************************************************************************)
TablesOk(s, tb) == DOMAIN tb = TypeNames(s) /\ \A T \in TypeNames(s) : IsSeq(tb[T])

LEMMA EntityFacts ==
  ASSUME NEW T \in TypeNames(setup), NEW values
  PROVE  /\ Fresh(setup, Entity(T, values))
         /\ Entity(T, values).type = T /\ Entity(T, values).read = values
         /\ Entity(T, values).values = values /\ ~Entity(T, values).mine
         /\ Entity(T, values).navs = [nav \in Navs(setup, T) |-> NoContainer]
<1> DEFINE e == Entity(T, values)
<1>1. /\ e = [type |-> e.type, values |-> e.values, read |-> e.read, mine |-> e.mine, navs |-> e.navs]
      /\ e.type = T /\ e.read = values /\ e.values = values /\ ~e.mine /\ e.mine \in BOOLEAN
      /\ e.navs = [nav \in Navs(setup, T) |-> NoContainer]
  BY DEF Entity, Struct, Given, Navs
<1> HIDE DEF e
<1>2. /\ e.navs = [nav \in Navs(setup, T) |-> e.navs[nav]]
      /\ \A nav \in Navs(setup, T) : e.navs[nav] = NoContainer
  BY <1>1
<1>3. ContainerOk(NoContainer) /\ NoContainer.items = <<>>
  BY EmptyIsSeq DEF ContainerOk, NoContainer
<1>4. Fresh(setup, e) BY <1>1, <1>2, <1>3 DEF Fresh, EntityOk
<1> QED BY <1>1, <1>2, <1>4 DEF e

LEMMA EntityIs ==
  ASSUME NEW T \in TypeNames(setup), NEW values
  PROVE  /\ Entity(T, values).type = T /\ Entity(T, values).read = values
         /\ Entity(T, values).values = values /\ ~Entity(T, values).mine
BY DEF Entity

\* Contexts change nothing else.
LEMMA AttachedFacts ==
  ASSUME NEW s, NEW e, Fresh(s, e), NEW d
  PROVE  /\ Fresh(s, Attached(e, d))
         /\ Attached(e, d).type = e.type /\ Attached(e, d).read = e.read
         /\ Attached(e, d).values = e.values /\ Attached(e, d).mine = e.mine
         /\ \A nav \in Navs(s, e.type) :
               /\ Attached(e, d).navs[nav].ctx = <<[snapshot |-> e.values, depth |-> d]>>
               /\ Attached(e, d).navs[nav].of = e.navs[nav].of
               /\ Attached(e, d).navs[nav].loaded = e.navs[nav].loaded
<1> DEFINE f == Attached(e, d)
           x == <<[snapshot |-> e.values, depth |-> d]>>
<1>1. e = [type |-> e.type, values |-> e.values, read |-> e.read, mine |-> e.mine, navs |-> e.navs]
  BY DEF Fresh, EntityOk
<1>2. e.navs = [nav \in Navs(s, e.type) |-> e.navs[nav]] BY DEF Fresh, EntityOk
<1>3. \A nav \in Navs(s, e.type) : ContainerOk(e.navs[nav]) /\ e.navs[nav].items = <<>>
  BY DEF Fresh, EntityOk
<1>4. f = [e EXCEPT !.navs = [nav \in DOMAIN e.navs |-> [e.navs[nav] EXCEPT !.ctx = x]]]
  BY DEF Attached, snapshot
<1>5. DOMAIN e.navs = Navs(s, e.type) BY <1>2
<1> HIDE DEF f
<1>6. /\ f = [type |-> f.type, values |-> f.values, read |-> f.read, mine |-> f.mine, navs |-> f.navs]
      /\ f.type = e.type /\ f.values = e.values /\ f.read = e.read /\ f.mine = e.mine
      /\ f.navs = [nav \in Navs(s, e.type) |-> [e.navs[nav] EXCEPT !.ctx = x]]
  BY <1>1, <1>4, <1>5
<1> HIDE DEF x
<1>7. /\ f.navs = [nav \in Navs(s, f.type) |-> f.navs[nav]]
      /\ \A nav \in Navs(s, f.type) : f.navs[nav] = [e.navs[nav] EXCEPT !.ctx = x]
  BY <1>6
<1>8. ASSUME NEW nav \in Navs(s, f.type)
      PROVE  /\ ContainerOk(f.navs[nav]) /\ f.navs[nav].items = <<>> /\ f.navs[nav].ctx = x
             /\ f.navs[nav].of = e.navs[nav].of /\ f.navs[nav].loaded = e.navs[nav].loaded
  <2>1. nav \in Navs(s, e.type) BY <1>6
  <2> DEFINE c == e.navs[nav]
             b == f.navs[nav]
  <2>2. ContainerOk(c) /\ c.items = <<>> /\ b = [c EXCEPT !.ctx = x] BY <1>3, <1>7, <2>1
  <2> HIDE DEF c, b
  <2>3. c = [items |-> c.items, loaded |-> c.loaded, ctx |-> c.ctx, of |-> c.of]
    BY <2>2 DEF ContainerOk
  <2>4. b = [items |-> c.items, loaded |-> c.loaded, ctx |-> x, of |-> c.of] BY <2>2, <2>3
  <2>5. /\ b.items = <<>> /\ b.ctx = x /\ b.of = c.of /\ b.loaded = c.loaded
        /\ b = [items |-> b.items, loaded |-> b.loaded, ctx |-> b.ctx, of |-> b.of]
    BY <2>2, <2>4
  <2>6. ContainerOk(b) BY <2>2, <2>5, EmptyIsSeq DEF ContainerOk
  <2> QED BY <2>5, <2>6 DEF b, c
<1>9. f.type \in TypeNames(s) /\ f.mine \in BOOLEAN BY <1>6 DEF Fresh, EntityOk
<1>10. Fresh(s, f) BY <1>6, <1>7, <1>8, <1>9 DEF Fresh, EntityOk
<1> QED BY <1>6, <1>8, <1>10 DEF f, x

LEMMA AttachedIs ==
  ASSUME NEW s, NEW e, Fresh(s, e), NEW d
  PROVE  /\ Fresh(s, Attached(e, d)) /\ Attached(e, d).type = e.type
         /\ Attached(e, d).read = e.read /\ Attached(e, d).mine = e.mine
<1>1. Fresh(s, Attached(e, d)) BY AttachedFacts
<1>2. e = [type |-> e.type, values |-> e.values, read |-> e.read, mine |-> e.mine,
           navs |-> e.navs]
  BY DEF Fresh, EntityOk
<1>3. \E w : Attached(e, d) = [e EXCEPT !.navs = w] BY DEF Attached
<1>4. PICK w : Attached(e, d) = [e EXCEPT !.navs = w] BY <1>3
<1>5. /\ Attached(e, d).type = e.type /\ Attached(e, d).read = e.read
      /\ Attached(e, d).mine = e.mine
  BY <1>2, <1>4
<1> QED BY <1>1, <1>5

LEMMA MaterialisedFacts ==
  ASSUME NEW T, NEW rows, IsSeq(rows)
  PROVE  /\ IsSeq(Materialised(T, rows)) /\ Len(Materialised(T, rows)) = Len(rows)
         /\ DOMAIN Materialised(T, rows) = 1..Len(rows)
         /\ \A k \in 1..Len(rows) :
               Materialised(T, rows)[k] = Entity(T, from_row(Struct(T), rows[k]))
<1> DEFINE f == Materialised(T, rows)
<1>1. Len(rows) \in Nat /\ DOMAIN rows = 1..Len(rows) BY SeqFacts
<1>2. \A k \in 1..Len(rows) : f[k] = Entity(T, from_row(Struct(T), rows[k]))
  BY <1>1 DEF Materialised
<1>3. f = [k \in 1..Len(rows) |-> f[k]] BY <1>1 DEF Materialised
<1>4. IsSeq(f) /\ Len(f) = Len(rows) /\ DOMAIN f = 1..Len(rows)
  <2> HIDE DEF f
  <2> QED BY <1>1, <1>3, SeqIntro
<1> QED BY <1>2, <1>4

\* The values of the rows at some positions of a table.
ValuesAt(T, at) ==
    [k \in DOMAIN Picked(tables[T], at) |-> Values(T, Picked(tables[T], at)[k])]

\* Statements with the filter and without it.
Shown(T, column, keys) == Select(T, column, keys, TRUE)

All(T, column, keys) == Select(T, column, keys, FALSE)

LEMMA ValuesOfPicked ==
  ASSUME NEW T, IsSeq(tables[T]), NEW at, NEW f, f = ValuesAt(T, at)
  PROVE  /\ IsSeq(f)
         /\ \A m \in DOMAIN f : \E k \in DOMAIN tables[T] :
               k \in at /\ f[m] = Values(T, tables[T][k])
<1> DEFINE rows == Picked(tables[T], at)
<1>1. /\ IsSeq(rows)
      /\ \A m \in DOMAIN rows : \E k \in DOMAIN tables[T] : k \in at /\ rows[m] = tables[T][k]
  BY PickedFacts
<1>2. f = [k \in DOMAIN rows |-> Values(T, rows[k])] BY DEF ValuesAt
<1> HIDE DEF rows
<1>3. Len(rows) \in Nat /\ DOMAIN rows = 1..Len(rows) BY <1>1, SeqFacts
<1>4. f = [k \in 1..Len(rows) |-> f[k]] BY <1>2, <1>3
<1>5. DOMAIN f = DOMAIN rows /\ \A m \in DOMAIN f : f[m] = Values(T, rows[m]) BY <1>2
<1>6. IsSeq(f) BY <1>3, <1>4, SeqIntro
<1>7. ASSUME NEW m \in DOMAIN f
      PROVE  \E k \in DOMAIN tables[T] : k \in at /\ f[m] = Values(T, tables[T][k])
  <2>1. PICK k \in DOMAIN tables[T] : k \in at /\ rows[m] = tables[T][k] BY <1>1, <1>5
  <2> QED BY <2>1, <1>5
<1> QED BY <1>6, <1>7

\* A statement finds rows of the table that have one of the keys; with the
\* filter, rows that the filter shows.
LEMMA SelectShown ==
  ASSUME NEW T, IsSeq(tables[T]), NEW column, NEW keys
  PROVE  /\ IsSeq(Shown(T, column, keys))
         /\ \A m \in DOMAIN Shown(T, column, keys) : \E k \in DOMAIN tables[T] :
               /\ Shown(T, column, keys)[m] = Values(T, tables[T][k])
               /\ tables[T][k][column] \in keys /\ Visible(T, tables[T][k])
<1> DEFINE f == Shown(T, column, keys)
           at == {k \in DOMAIN tables[T] : /\ tables[T][k][column] \in keys \ {Null}
                                           /\ TRUE => Visible(T, tables[T][k])}
<1>1. f = ValuesAt(T, at) BY DEF Select, Shown, ValuesAt
<1>2. \A k \in at : tables[T][k][column] \in keys /\ Visible(T, tables[T][k]) OBVIOUS
<1> HIDE DEF at, f
<1>3. /\ IsSeq(f)
      /\ \A m \in DOMAIN f : \E k \in DOMAIN tables[T] : k \in at /\ f[m] = Values(T, tables[T][k])
  BY <1>1, ValuesOfPicked
<1>4. \A m \in DOMAIN f : \E k \in DOMAIN tables[T] :
         f[m] = Values(T, tables[T][k]) /\ tables[T][k][column] \in keys /\ Visible(T, tables[T][k])
  BY <1>2, <1>3
<1> QED BY <1>3, <1>4 DEF f

LEMMA SelectAny ==
  ASSUME NEW T, IsSeq(tables[T]), NEW column, NEW keys
  PROVE  /\ IsSeq(All(T, column, keys))
         /\ \A m \in DOMAIN All(T, column, keys) : \E k \in DOMAIN tables[T] :
               /\ All(T, column, keys)[m] = Values(T, tables[T][k])
               /\ tables[T][k][column] \in keys
<1> DEFINE f == All(T, column, keys)
           at == {k \in DOMAIN tables[T] : /\ tables[T][k][column] \in keys \ {Null}
                                           /\ FALSE => Visible(T, tables[T][k])}
<1>1. f = ValuesAt(T, at) BY DEF Select, All, ValuesAt
<1>2. \A k \in at : tables[T][k][column] \in keys OBVIOUS
<1> HIDE DEF at, f
<1>3. /\ IsSeq(f)
      /\ \A m \in DOMAIN f : \E k \in DOMAIN tables[T] : k \in at /\ f[m] = Values(T, tables[T][k])
  BY <1>1, ValuesOfPicked
<1>4. \A m \in DOMAIN f : \E k \in DOMAIN tables[T] :
         f[m] = Values(T, tables[T][k]) /\ tables[T][k][column] \in keys
  BY <1>2, <1>3
<1> QED BY <1>3, <1>4 DEF f

LEMMA SingletonFacts ==
  ASSUME NEW x
  PROVE  IsSeq(<<x>>) /\ Len(<<x>>) = 1 /\ DOMAIN <<x>> = 1..1 /\ <<x>>[1] = x
BY DEF IsSeq, Range

LEMMA LastFacts ==
  ASSUME NEW s, IsSeq(s), s # <<>>
  PROVE  Len(s) \in DOMAIN s /\ Last(s) = s[Len(s)]
<1>1. Len(s) \in Nat /\ DOMAIN s = 1..Len(s) BY SeqFacts
<1>2. Len(s) # 0 BY EmptySeq DEF IsSeq
<1> QED BY <1>1, <1>2 DEF Last

\* The position by which the rows of an entity are told.
ReadAt(n) == IF n.kind = "HasMany" THEN n.fk_row_index ELSE n.pk_row_index

LEMMA RowsOfFacts ==
  ASSUME NEW n, NEW e, NEW found, IsSeq(found)
  PROVE  /\ IsSeq(RowsOf(n, e, found))
         /\ \A j \in DOMAIN RowsOf(n, e, found) : \E k \in DOMAIN found :
               RowsOf(n, e, found)[j] = found[k] /\ <<found[k][ReadAt(n)]>> = SoughtBy(n, e)
<1> DEFINE at == {k \in DOMAIN found : <<found[k][ReadAt(n)]>> = SoughtBy(n, e)}
           rows == Picked(found, at)
           r == RowsOf(n, e, found)
<1>1. r = IF n.kind = "HasMany" \/ rows = <<>> THEN rows ELSE <<Last(rows)>>
  BY DEF RowsOf, ReadAt
<1>2. IsSeq(rows) /\ \A m \in DOMAIN rows : \E k \in DOMAIN found : k \in at /\ rows[m] = found[k]
  <2> HIDE DEF at
  <2> QED BY PickedFacts
<1>3. \A m \in DOMAIN rows : \E k \in DOMAIN found :
         rows[m] = found[k] /\ <<found[k][ReadAt(n)]>> = SoughtBy(n, e)
  BY <1>2
<1> HIDE DEF rows, r
<1>4. CASE r = rows BY <1>2, <1>3, <1>4 DEF r
<1>5. CASE rows # <<>> /\ r = <<Last(rows)>>
  <2>1. Len(rows) \in DOMAIN rows /\ Last(rows) = rows[Len(rows)] BY <1>2, <1>5, LastFacts
  <2>2. IsSeq(r) /\ \A j \in DOMAIN r : r[j] = Last(rows) BY <1>5, SingletonFacts
  <2> QED BY <1>3, <2>1, <2>2 DEF r
<1> QED BY <1>1, <1>4, <1>5

\* The rows of an entity over a join table: each by a join row of its own.
JoinedBy(r, n, e, joins, found) ==
    \A i \in DOMAIN r : \E k \in DOMAIN found, j \in DOMAIN joins :
        /\ r[i] = found[k] /\ joins[j][n.parent_index] = KeyOf(e)
        /\ found[k][n.pk_row_index] = joins[j][n.related_index]

LEMMA JoinedFacts ==
  ASSUME NEW n, NEW e, NEW joins, IsSeq(joins), NEW found, IsSeq(found)
  PROVE  /\ IsSeq(Joined(n, e, joins, found))
         /\ JoinedBy(Joined(n, e, joins, found), n, e, joins, found)
<1> DEFINE at == {k \in DOMAIN joins : joins[k][n.parent_index] = KeyOf(e)}
           own == Picked(joins, at)
           in(j) == {k \in DOMAIN found : found[k][n.pk_row_index] = j[n.related_index]}
           rows(j) == Picked(found, in(j))
           ls == [k \in DOMAIN own |-> IF rows(own[k]) = <<>> THEN <<>> ELSE <<Last(rows(own[k]))>>]
           r == FlattenSeq(ls)
<1>1. Joined(n, e, joins, found) = r BY DEF Joined
<1>2. /\ IsSeq(own)
      /\ \A m \in DOMAIN own : \E k \in DOMAIN joins : k \in at /\ own[m] = joins[k]
  <2> HIDE DEF at
  <2> QED BY PickedFacts
<1> HIDE DEF own
<1>3. ASSUME NEW j
      PROVE  /\ IsSeq(rows(j))
             /\ \A m \in DOMAIN rows(j) : \E k \in DOMAIN found : k \in in(j) /\ rows(j)[m] = found[k]
  <2> HIDE DEF in
  <2> QED BY PickedFacts
<1>4. \A j : \A m \in DOMAIN rows(j) : \E k \in DOMAIN found :
         rows(j)[m] = found[k] /\ found[k][n.pk_row_index] = j[n.related_index]
  BY <1>3
<1>5. Len(own) \in Nat /\ DOMAIN own = 1..Len(own) BY <1>2, SeqFacts
<1> HIDE DEF rows
<1>6. ASSUME NEW k \in DOMAIN own
      PROVE  /\ IsSeq(ls[k])
             /\ \A j \in DOMAIN ls[k] : \E i \in DOMAIN found :
                   ls[k][j] = found[i] /\ found[i][n.pk_row_index] = own[k][n.related_index]
  <2> DEFINE R == rows(own[k])
  <2>1. IsSeq(R) BY <1>3
  <2>2. \A m \in DOMAIN R : \E i \in DOMAIN found :
           R[m] = found[i] /\ found[i][n.pk_row_index] = own[k][n.related_index]
    BY <1>4
  <2>3. ls[k] = IF R = <<>> THEN <<>> ELSE <<Last(R)>> OBVIOUS
  <2> HIDE DEF R, ls
  <2>4. CASE R = <<>> BY <2>3, <2>4, EmptyIsSeq
  <2>5. CASE R # <<>>
    <3>1. Len(R) \in DOMAIN R /\ Last(R) = R[Len(R)] BY <2>1, <2>5, LastFacts
    <3>2. IsSeq(ls[k]) /\ \A j \in DOMAIN ls[k] : ls[k][j] = Last(R)
      BY <2>3, <2>5, SingletonFacts
    <3> QED BY <2>2, <3>1, <3>2
  <2> QED BY <2>4, <2>5
<1>7. ls = [k \in 1..Len(own) |-> ls[k]] BY <1>5
<1> HIDE DEF ls
<1>8. IsSeq(ls) /\ Len(ls) = Len(own) /\ DOMAIN ls = 1..Len(own) BY <1>5, <1>7, SeqIntro
<1>9. AllSeqs(ls) BY <1>5, <1>6, <1>8 DEF AllSeqs
<1>10. FlatOf(r, ls, Len(own)) BY <1>8, <1>9, FlattenIsFlat
<1> HIDE DEF r
<1>11. IsSeq(r) /\ DOMAIN r = 1..Len(r) BY <1>10, SeqFacts DEF FlatOf
<1>12. ASSUME NEW i \in DOMAIN r
       PROVE  \E k \in DOMAIN found, j \in DOMAIN joins :
                 /\ r[i] = found[k] /\ joins[j][n.parent_index] = KeyOf(e)
                 /\ found[k][n.pk_row_index] = joins[j][n.related_index]
  <2>0. PICK m \in 1..Len(own) : \E p \in 1..Len(ls[m]) : i = Before(Counts(ls), m) + p
    BY <1>10, <1>11 DEF FlatOf
  <2>1. PICK p \in 1..Len(ls[m]) : i = Before(Counts(ls), m) + p BY <2>0
  <2>2. r[i] = ls[m][p] BY <1>10, <2>1 DEF FlatOf
  <2>3. m \in DOMAIN own /\ p \in DOMAIN ls[m]
    <3>1. m \in DOMAIN own BY <1>5
    <3>2. DOMAIN ls[m] = 1..Len(ls[m]) BY <3>1, <1>6, SeqFacts
    <3> QED BY <3>1, <3>2
  <2>4. PICK k \in DOMAIN found :
           ls[m][p] = found[k] /\ found[k][n.pk_row_index] = own[m][n.related_index]
    BY <1>6, <2>3
  <2>5. PICK j \in DOMAIN joins : joins[j][n.parent_index] = KeyOf(e) /\ own[m] = joins[j]
    BY <1>2, <2>3
  <2> QED BY <2>2, <2>4, <2>5
<1>13. JoinedBy(r, n, e, joins, found) BY <1>12 DEF JoinedBy
<1> QED BY <1>1, <1>11, <1>13

(***************************************************************************)
(* What a step does to the heap.                                           *)
(***************************************************************************)
\* Rows are read into the containers of the objects: g is h, with new
\* containers where an object has rows, and the entities of the rows behind.
FillsAll(h, g, objs, nav, T, rows) ==
    /\ IsSeq(g) /\ DOMAIN h \subseteq DOMAIN g
    /\ \A o \in DOMAIN h :
          \/ g[o] = h[o]
          \/ \E k \in DOMAIN objs : \E c :
                /\ objs[k] = o /\ g[o] = Put(h[o], nav, c)
                /\ c = [items |-> c.items, loaded |-> TRUE, ctx |-> <<>>, of |-> h[o].values]
                /\ IsSeq(c.items)
                /\ \A i \in DOMAIN c.items : \E j \in DOMAIN rows[k] :
                      /\ c.items[i] \in DOMAIN g \ DOMAIN h
                      /\ g[c.items[i]] = Entity(T, from_row(Struct(T), rows[k][j]))
    /\ \A o \in DOMAIN g \ DOMAIN h : \E k \in DOMAIN rows : \E j \in DOMAIN rows[k] :
          g[o] = Entity(T, from_row(Struct(T), rows[k][j]))

LEMMA AppliedFacts ==
  ASSUME NEW h, IsSeq(h), NEW objs, IsSeq(objs), NEW nav, NEW T, NEW rows, AllSeqs(rows),
         DOMAIN rows = DOMAIN objs
  PROVE  FillsAll(h, Applied(h, objs, nav, T, rows), objs, nav, T, rows)
<1> DEFINE counts == [k \in DOMAIN objs |-> Len(rows[k])]
           items(k) == [j \in 1..counts[k] |-> Len(h) + Before(counts, k) + j]
           fill(o) == LET k == Place(objs, o)
                      IN  IF k = 0 THEN h[o] ELSE IF rows[k] = <<>> THEN h[o]
                          ELSE Put(h[o], nav, [items |-> items(k), loaded |-> TRUE, ctx |-> <<>>,
                                               of |-> h[o].values])
           filled == [o \in DOMAIN h |-> fill(o)]
           flat == FlattenSeq(rows)
           news == Materialised(T, flat)
           g == Applied(h, objs, nav, T, rows)
<1>1. g = filled \o news BY DEF Applied, Put
<1>2. counts = Counts(rows) BY DEF Counts
<1>3. Len(h) \in Nat /\ DOMAIN h = 1..Len(h) BY SeqFacts
<1>4. IsSeq(rows) /\ Len(rows) \in Nat /\ DOMAIN rows = 1..Len(rows) BY SeqFacts DEF AllSeqs
<1>5. /\ IsNatSeq(counts) /\ DOMAIN counts = DOMAIN rows
      /\ \A k \in DOMAIN rows : counts[k] = Len(rows[k])
  BY <1>2, <1>4, CountsAreNat
<1>6. FlatOf(flat, rows, Len(rows)) BY FlattenIsFlat
<1>7. IsSeq(flat) /\ Len(flat) \in Nat BY <1>6, SeqFacts DEF FlatOf
<1>8. \A k \in DOMAIN rows : \A j \in 1..Len(rows[k]) :
         Before(counts, k) + j \in 1..Len(flat) /\ flat[Before(counts, k) + j] = rows[k][j]
  BY <1>2, <1>4, <1>6 DEF FlatOf
<1>9. \A m \in 1..Len(flat) : \E k \in DOMAIN rows : \E j \in 1..Len(rows[k]) :
         m = Before(counts, k) + j
  <2> HIDE DEF counts, flat
  <2> QED BY <1>2, <1>4, <1>6 DEF FlatOf
<1> HIDE DEF counts, flat, g
<1>10. /\ IsSeq(news) /\ Len(news) = Len(flat)
       /\ \A m \in 1..Len(flat) : news[m] = Entity(T, from_row(Struct(T), flat[m]))
  BY <1>7, MaterialisedFacts
<1>11. IsSeq(filled) /\ Len(filled) = Len(h) /\ \A o \in DOMAIN h : filled[o] = fill(o)
  <2>1. \A o \in DOMAIN h : filled[o] = fill(o) OBVIOUS
  <2>2. filled = [o \in 1..Len(h) |-> filled[o]] BY <1>3
  <2> HIDE DEF filled
  <2> QED BY <1>3, <2>1, <2>2, SeqIntro
<1> HIDE DEF filled, news
<1>12. /\ IsSeq(g) /\ DOMAIN g = 1..(Len(h) + Len(flat))
       /\ \A o \in DOMAIN h : g[o] = fill(o)
       /\ \A m \in 1..Len(flat) : g[Len(h) + m] = Entity(T, from_row(Struct(T), flat[m]))
  <2>1. /\ IsSeq(filled \o news) /\ DOMAIN (filled \o news) = 1..(Len(filled) + Len(news))
        /\ \A k \in 1..Len(filled) : (filled \o news)[k] = filled[k]
        /\ \A k \in 1..Len(news) : (filled \o news)[Len(filled) + k] = news[k]
    BY <1>10, <1>11, ConcatFacts
  <2> HIDE DEF fill
  <2> QED BY <1>1, <1>3, <1>10, <1>11, <2>1
<1>13. DOMAIN h \subseteq DOMAIN g BY <1>3, <1>7, <1>12
<1>14. \A k \in DOMAIN rows : IsSeq(rows[k]) /\ DOMAIN rows[k] = 1..Len(rows[k]) /\ Len(rows[k]) \in Nat
  BY SeqFacts DEF AllSeqs
<1>15. \A m \in 1..Len(flat) : \E k \in DOMAIN rows : \E j \in DOMAIN rows[k] :
          g[Len(h) + m] = Entity(T, from_row(Struct(T), rows[k][j]))
  <2> SUFFICES ASSUME NEW m \in 1..Len(flat)
               PROVE  \E k \in DOMAIN rows : \E j \in DOMAIN rows[k] :
                         g[Len(h) + m] = Entity(T, from_row(Struct(T), rows[k][j]))
    OBVIOUS
  <2>0. PICK k \in DOMAIN rows : \E j \in 1..Len(rows[k]) : m = Before(counts, k) + j BY <1>9
  <2>1. PICK j \in 1..Len(rows[k]) : m = Before(counts, k) + j BY <2>0
  <2>2. flat[m] = rows[k][j] BY <1>8, <2>1
  <2> QED BY <1>12, <1>14, <2>2
<1>16. ASSUME NEW o \in DOMAIN g \ DOMAIN h
       PROVE  \E k \in DOMAIN rows : \E j \in DOMAIN rows[k] :
                 g[o] = Entity(T, from_row(Struct(T), rows[k][j]))
  <2> DEFINE m == o - Len(h)
  <2>1. m \in 1..Len(flat) /\ o = Len(h) + m BY <1>3, <1>7, <1>12
  <2> QED BY <1>15, <2>1
<1>17. ASSUME NEW o \in DOMAIN h
       PROVE  \/ g[o] = h[o]
              \/ \E k \in DOMAIN objs : \E c :
                    /\ objs[k] = o /\ g[o] = Put(h[o], nav, c)
                    /\ c = [items |-> c.items, loaded |-> TRUE, ctx |-> <<>>, of |-> h[o].values]
                    /\ IsSeq(c.items)
                    /\ \A i \in DOMAIN c.items : \E j \in DOMAIN rows[k] :
                          /\ c.items[i] \in DOMAIN g \ DOMAIN h
                          /\ g[c.items[i]] = Entity(T, from_row(Struct(T), rows[k][j]))
  <2> SUFFICES ASSUME g[o] # h[o]
               PROVE  \E k \in DOMAIN objs : \E c :
                    /\ objs[k] = o /\ g[o] = Put(h[o], nav, c)
                    /\ c = [items |-> c.items, loaded |-> TRUE, ctx |-> <<>>, of |-> h[o].values]
                    /\ IsSeq(c.items)
                    /\ \A i \in DOMAIN c.items : \E j \in DOMAIN rows[k] :
                          /\ c.items[i] \in DOMAIN g \ DOMAIN h
                          /\ g[c.items[i]] = Entity(T, from_row(Struct(T), rows[k][j]))
    OBVIOUS
  <2> DEFINE k == Place(objs, o)
             c == [items |-> items(k), loaded |-> TRUE, ctx |-> <<>>, of |-> h[o].values]
  <2>1. k # 0 /\ g[o] = Put(h[o], nav, c) BY <1>12
  <2>2. k \in DOMAIN objs /\ objs[k] = o BY <2>1, PlaceFacts
  <2>3. k \in DOMAIN rows /\ counts[k] = Len(rows[k]) BY <1>5, <2>2
  <2>4. c.items = items(k) /\ c = [items |-> c.items, loaded |-> TRUE, ctx |-> <<>>, of |-> h[o].values]
    OBVIOUS
  <2> DEFINE its == items(k)
  <2>5. its = [j \in 1..Len(rows[k]) |-> its[j]] BY <2>3
  <2>6. \A j \in 1..Len(rows[k]) : its[j] = Len(h) + Before(counts, k) + j BY <2>3
  <2> HIDE DEF its, k
  <2>7. IsSeq(its) /\ DOMAIN its = DOMAIN rows[k] BY <1>14, <2>3, <2>5, SeqIntro
  <2>8. Before(counts, k) \in Nat
    <3>1. Len(counts) \in Nat /\ DOMAIN counts = 1..Len(counts) BY <1>5, SeqFacts DEF IsNatSeq
    <3>2. k \in 1..(Len(counts) + 1) BY <1>5, <2>3, <3>1
    <3> QED BY <1>5, <3>2, BeforeAdds
  <2>9. ASSUME NEW j \in 1..Len(rows[k])
        PROVE  /\ its[j] \in DOMAIN g \ DOMAIN h
               /\ g[its[j]] = Entity(T, from_row(Struct(T), rows[k][j]))
    <3> DEFINE m == Before(counts, k) + j
    <3>1. m \in 1..Len(flat) /\ flat[m] = rows[k][j] BY <1>8, <2>3
    <3>2. its[j] = Len(h) + m BY <1>3, <2>6, <2>8
    <3> HIDE DEF m
    <3>3. its[j] \in DOMAIN g \ DOMAIN h BY <1>3, <1>7, <1>12, <3>1, <3>2
    <3> QED BY <1>12, <3>1, <3>2, <3>3
  <2>10. \A i \in DOMAIN its : \E j \in DOMAIN rows[k] :
            /\ its[i] \in DOMAIN g \ DOMAIN h
            /\ g[its[i]] = Entity(T, from_row(Struct(T), rows[k][j]))
    BY <1>14, <2>3, <2>7, <2>9
  <2>11. c.items = its BY <2>4 DEF its, k
  <2> HIDE DEF c
  <2> QED BY <2>1, <2>2, <2>4, <2>7, <2>10, <2>11
<1> HIDE DEF fill
<1>18. /\ IsSeq(g) /\ DOMAIN h \subseteq DOMAIN g
       /\ \A o \in DOMAIN h :
             \/ g[o] = h[o]
             \/ \E k \in DOMAIN objs : \E c :
                   /\ objs[k] = o /\ g[o] = Put(h[o], nav, c)
                   /\ c = [items |-> c.items, loaded |-> TRUE, ctx |-> <<>>, of |-> h[o].values]
                   /\ IsSeq(c.items)
                   /\ \A i \in DOMAIN c.items : \E j \in DOMAIN rows[k] :
                         /\ c.items[i] \in DOMAIN g \ DOMAIN h
                         /\ g[c.items[i]] = Entity(T, from_row(Struct(T), rows[k][j]))
       /\ \A o \in DOMAIN g \ DOMAIN h : \E k \in DOMAIN rows : \E j \in DOMAIN rows[k] :
             g[o] = Entity(T, from_row(Struct(T), rows[k][j]))
  BY <1>12, <1>13, <1>16, <1>17
<1> QED BY <1>18 DEF FillsAll, g

LEMMA ScenarioFacts ==
  ASSUME setup \in DOMAIN Scenarios
  PROVE  /\ ScenarioOk(setup)
         /\ \A T \in TypeNames(setup) : \A nav \in Navs(setup, T) :
               /\ Related(setup, T, nav) = Meta(T, nav).type
               /\ Related(setup, T, nav) \in TypeNames(setup)
               /\ Meta(T, nav).kind = "ManyToMany" => Meta(T, nav).join \in TypeNames(setup)
<1>1. ScenarioOk(setup) BY ScenariosAssumption
<1>2. \A T \in TypeNames(setup) : \A nav \in Navs(setup, T) :
         /\ Metas[setup][T][nav].type \in TypeNames(setup)
         /\ Metas[setup][T][nav].kind = "ManyToMany" => Metas[setup][T][nav].join \in TypeNames(setup)
  BY <1>1 DEF ScenarioOk, TypeNames, Navs
<1> QED BY <1>1, <1>2 DEF Related, Meta

\* The rows of an entity become well-formed entities of the related type.
LEMMA FillsAllSteps ==
  ASSUME setup \in DOMAIN Scenarios, NEW h, HeapOk(setup, h), NEW g, NEW objs, NEW T, NEW nav,
         Typed(h, T, objs), nav \in Navs(setup, T), T \in TypeNames(setup), NEW rows,
         FillsAll(h, g, objs, nav, Related(setup, T, nav), rows)
  PROVE  StepsTo(setup, h, g)
<1> DEFINE R == Related(setup, T, nav)
<1>1. R \in TypeNames(setup) BY ScenarioFacts
<1> HIDE DEF R
<1>2. FillsAll(h, g, objs, nav, R, rows) BY DEF R
<1>3. IsSeq(g) /\ DOMAIN h \subseteq DOMAIN g BY <1>2 DEF FillsAll
<1>4. ASSUME NEW o \in DOMAIN h, g[o] # h[o]
      PROVE  \E x \in Navs(setup, h[o].type) : \E c :
                /\ ContainerOk(c) /\ g[o] = Put(h[o], x, c)
                /\ Typed(g, Related(setup, h[o].type, x), c.items)
  <2>1. PICK k \in DOMAIN objs : \E c :
                /\ objs[k] = o /\ g[o] = Put(h[o], nav, c)
                /\ c = [items |-> c.items, loaded |-> TRUE, ctx |-> <<>>, of |-> h[o].values]
                /\ IsSeq(c.items)
                /\ \A i \in DOMAIN c.items : \E j \in DOMAIN rows[k] :
                      /\ c.items[i] \in DOMAIN g \ DOMAIN h
                      /\ g[c.items[i]] = Entity(R, from_row(Struct(R), rows[k][j]))
    BY <1>2, <1>4 DEF FillsAll
  <2>2. PICK c :
                /\ objs[k] = o /\ g[o] = Put(h[o], nav, c)
                /\ c = [items |-> c.items, loaded |-> TRUE, ctx |-> <<>>, of |-> h[o].values]
                /\ IsSeq(c.items)
                /\ \A i \in DOMAIN c.items : \E j \in DOMAIN rows[k] :
                      /\ c.items[i] \in DOMAIN g \ DOMAIN h
                      /\ g[c.items[i]] = Entity(R, from_row(Struct(R), rows[k][j]))
    BY <2>1
  <2>3. h[o].type = T BY <2>1 DEF Typed
  <2>4. ContainerOk(c)
    <3>1. c.loaded = TRUE /\ c = [items |-> c.items, loaded |-> c.loaded, ctx |-> c.ctx, of |-> c.of]
      BY <2>2
    <3> QED BY <2>2, <3>1 DEF ContainerOk
  <2>5. Typed(g, R, c.items)
    <3>1. \A v : Entity(R, v).type = R BY <1>1, EntityFacts
    <3>2. \A i \in DOMAIN c.items : c.items[i] \in DOMAIN g /\ g[c.items[i]].type = R BY <2>2, <3>1
    <3> QED BY <3>2 DEF Typed
  <2> QED BY <2>2, <2>3, <2>4, <2>5 DEF R
<1>5. \A o \in DOMAIN g \ DOMAIN h : Fresh(setup, g[o])
  <2>1. \A v : Fresh(setup, Entity(R, v)) BY <1>1, EntityFacts
  <2> QED BY <1>2, <2>1 DEF FillsAll
<1> QED BY <1>3, <1>4, <1>5 DEF StepsTo

Moved(e, nav, its, b) == [e EXCEPT !.navs[nav].items = its, !.navs[nav].loaded = b]

\* New items and a new mark are a new container.
LEMMA ItemsAndLoaded ==
  ASSUME NEW s, NEW e, EntityOk(s, e), NEW nav \in Navs(s, e.type), NEW its, IsSeq(its),
         NEW b \in BOOLEAN, NEW c,
         c = [items |-> its, loaded |-> b, ctx |-> e.navs[nav].ctx, of |-> e.navs[nav].of]
  PROVE  /\ ContainerOk(c)
         /\ Moved(e, nav, its, b) = Put(e, nav, c)
         /\ c.items = its /\ c.loaded = b /\ c.ctx = e.navs[nav].ctx /\ c.of = e.navs[nav].of
<1>1. /\ e = [type |-> e.type, values |-> e.values, read |-> e.read, mine |-> e.mine, navs |-> e.navs]
      /\ e.navs = [x \in Navs(s, e.type) |-> e.navs[x]]
      /\ ContainerOk(e.navs[nav])
  BY DEF EntityOk
<1> DEFINE d == e.navs[nav]
<1>2. d = [items |-> d.items, loaded |-> d.loaded, ctx |-> d.ctx, of |-> d.of]
  BY <1>1 DEF ContainerOk
<1>3. [[d EXCEPT !.items = its] EXCEPT !.loaded = b] = c
  <2>1. c = [items |-> its, loaded |-> b, ctx |-> d.ctx, of |-> d.of] OBVIOUS
  <2> HIDE DEF d
  <2>2. PICK i, l, x, y : d = [items |-> i, loaded |-> l, ctx |-> x, of |-> y] BY <1>2
  <2>3. d.ctx = x /\ d.of = y BY <2>2
  <2>4. [d EXCEPT !.items = its] = [items |-> its, loaded |-> l, ctx |-> x, of |-> y] BY <2>2
  <2> DEFINE f == [d EXCEPT !.items = its]
  <2>5. f = [items |-> its, loaded |-> l, ctx |-> x, of |-> y] BY <2>4
  <2> HIDE DEF f
  <2>6. [f EXCEPT !.loaded = b] = [items |-> its, loaded |-> b, ctx |-> x, of |-> y] BY <2>5
  <2> QED BY <2>1, <2>3, <2>6 DEF f
<1>4. [e EXCEPT !.navs[nav].items = its, !.navs[nav].loaded = b]
        = [e EXCEPT !.navs = [e.navs EXCEPT ![nav] = [[d EXCEPT !.items = its] EXCEPT !.loaded = b]]]
  <2> HIDE DEF d
  <2>1. [e.navs EXCEPT ![nav] = [d EXCEPT !.items = its]][nav] = [d EXCEPT !.items = its] BY <1>1
  <2>2. [[e.navs EXCEPT ![nav] = [d EXCEPT !.items = its]] EXCEPT ![nav] =
            [[d EXCEPT !.items = its] EXCEPT !.loaded = b]]
          = [e.navs EXCEPT ![nav] = [[d EXCEPT !.items = its] EXCEPT !.loaded = b]]
    BY <1>1
  <2> QED BY <1>1, <2>1, <2>2 DEF d
<1>5. Moved(e, nav, its, b) = Put(e, nav, c)
  BY <1>3, <1>4 DEF Put, Moved
<1>6. c.items = its /\ c.loaded = b /\ c.ctx = e.navs[nav].ctx /\ c.of = e.navs[nav].of OBVIOUS
<1>7. c = [items |-> c.items, loaded |-> c.loaded, ctx |-> c.ctx, of |-> c.of] OBVIOUS
<1>8. ContainerOk(c) BY <1>6, <1>7 DEF ContainerOk
<1> QED BY <1>5, <1>6, <1>8

\* A container of some object gets other items, and nothing else happens.
Moves(h, g, o, nav, its) ==
    \E b \in BOOLEAN : \E c :
        /\ c = [items |-> its, loaded |-> b, ctx |-> h[o].navs[nav].ctx, of |-> h[o].navs[nav].of]
        /\ b => h[o].navs[nav].loaded \/ its # <<>>
        /\ its # <<>> => b
        /\ ContainerOk(c) /\ g[o] = Put(h[o], nav, c)
        /\ c.items = its /\ c.loaded = b /\ c.ctx = h[o].navs[nav].ctx /\ c.of = h[o].navs[nav].of

LEMMA DrainedFacts ==
  ASSUME NEW s, NEW h, HeapOk(s, h), NEW t, NEW T, Typed(h, T, t.objs), t.nav \in Navs(s, T)
  PROVE  /\ IsSeq(Drained(h, t)) /\ DOMAIN Drained(h, t) = DOMAIN h
         /\ \A o \in DOMAIN h : o \notin Range(t.objs) => Drained(h, t)[o] = h[o]
         /\ \A o \in Range(t.objs) : Moves(h, Drained(h, t), o, t.nav, <<>>)
<1> DEFINE g == Drained(h, t)
           b(o) == h[o].navs[t.nav].loaded /\ Meta(h[o].type, t.nav).kind \in {"HasMany", "ManyToMany"}
<1>1. IsSeq(h) BY DEF HeapOk
<1>2. Len(h) \in Nat /\ DOMAIN h = 1..Len(h) BY <1>1, SeqFacts
<1>3. \A o \in DOMAIN h :
         g[o] = IF o \notin Range(t.objs) THEN h[o]
                ELSE [h[o] EXCEPT !.navs[t.nav].items = <<>>, !.navs[t.nav].loaded = b(o)]
  BY DEF Drained
<1>4. g = [o \in 1..Len(h) |-> g[o]] BY <1>2 DEF Drained
<1>5. \A o \in Range(t.objs) : o \in DOMAIN h /\ h[o].type = T BY DEF Typed, Range
<1> HIDE DEF g
<1>6. ASSUME NEW o \in Range(t.objs) PROVE Moves(h, g, o, t.nav, <<>>)
  <2> DEFINE c == [items |-> <<>>, loaded |-> b(o), ctx |-> h[o].navs[t.nav].ctx,
                   of |-> h[o].navs[t.nav].of]
  <2>1. o \in DOMAIN h /\ h[o].type = T BY <1>5
  <2>2. EntityOk(s, h[o]) BY <2>1 DEF HeapOk, OkIn
  <2>3. t.nav \in Navs(s, h[o].type) BY <2>1
  <2>4. ContainerOk(h[o].navs[t.nav]) BY <2>2, <2>3 DEF EntityOk
  <2>5. b(o) \in BOOLEAN /\ (b(o) => h[o].navs[t.nav].loaded) BY <2>4 DEF ContainerOk
  <2>6. g[o] = [h[o] EXCEPT !.navs[t.nav].items = <<>>, !.navs[t.nav].loaded = b(o)]
    BY <1>3, <2>1
  <2> HIDE DEF b
  <2>7. PICK d \in BOOLEAN : d = b(o) BY <2>5
  <2>8. c = [items |-> <<>>, loaded |-> d, ctx |-> h[o].navs[t.nav].ctx, of |-> h[o].navs[t.nav].of]
    BY <2>7
  <2>9. g[o] = Moved(h[o], t.nav, <<>>, d) BY <2>6, <2>7 DEF Moved
  <2> HIDE DEF c
  <2>10. /\ ContainerOk(c) /\ g[o] = Put(h[o], t.nav, c)
         /\ c.items = <<>> /\ c.loaded = d /\ c.ctx = h[o].navs[t.nav].ctx
         /\ c.of = h[o].navs[t.nav].of
    BY <2>2, <2>3, <2>8, <2>9, EmptyIsSeq, ItemsAndLoaded
  <2>11. d => h[o].navs[t.nav].loaded \/ <<>> # <<>> BY <2>5, <2>7
  <2> QED BY <2>8, <2>10, <2>11 DEF Moves
<1>7. IsSeq(g) /\ DOMAIN g = DOMAIN h BY <1>2, <1>4, SeqIntro
<1> QED BY <1>3, <1>6, <1>7 DEF g

\* What is put back: the next of the items that were taken out.
Segment(t, k) == SubSeq(t.all, Before(t.counts, k) + 1, Before(t.counts, k) + t.counts[k])

RestoreOk(t) ==
    /\ IsNatSeq(t.counts) /\ Len(t.counts) = Len(t.objs)
    /\ IsSeq(t.all) /\ Len(t.all) = Before(t.counts, Len(t.objs) + 1)

\* The sums grow.
LEMMA BeforeGrows ==
  ASSUME NEW counts, IsNatSeq(counts)
  PROVE  \A m \in Nat : m \in 1..(Len(counts) + 1) => \A k \in 1..m : Before(counts, k) <= Before(counts, m)
<1> DEFINE n == Len(counts)
           S == {m \in Nat : m \in 1..(n + 1) => \A k \in 1..m : Before(counts, k) <= Before(counts, m)}
<1>1. n \in Nat /\ DOMAIN counts = 1..n BY SeqFacts DEF IsNatSeq
<1>2. /\ \A k \in 1..(n + 1) : Before(counts, k) \in Nat
      /\ \A k \in 1..n : Before(counts, k + 1) = Before(counts, k) + counts[k]
      /\ \A k \in 1..n : counts[k] \in Nat
  BY <1>1, BeforeAdds DEF IsNatSeq
<1> HIDE DEF n
<1>3. 0 \in S BY <1>1
<1>4. ASSUME NEW m \in Nat, m \in S PROVE m + 1 \in S
  <2> SUFFICES ASSUME m + 1 \in 1..(n + 1), NEW k \in 1..(m + 1)
               PROVE  Before(counts, k) <= Before(counts, m + 1)
    OBVIOUS
  <2>1. CASE k = m + 1
    <3>1. k \in 1..(n + 1) BY <2>1, <1>1
    <3>2. Before(counts, k) \in Nat BY <3>1, <1>2
    <3> QED BY <2>1, <3>2
  <2>2. CASE k \in 1..m
    <3>1. m \in 1..n /\ m \in 1..(n + 1) /\ k \in 1..(n + 1) BY <1>1, <2>2
    <3>2. Before(counts, k) <= Before(counts, m) BY <1>4, <2>2, <3>1
    <3>3. /\ Before(counts, m + 1) = Before(counts, m) + counts[m] /\ counts[m] \in Nat
          /\ Before(counts, m) \in Nat /\ Before(counts, k) \in Nat
      BY <1>2, <3>1
    <3> QED BY <3>2, <3>3
  <2> QED BY <2>1, <2>2
<1>5. \A m \in Nat : m \in S
  <2> HIDE DEF S
  <2> QED BY <1>3, <1>4, NatInduct
<1> QED BY <1>5 DEF n

LEMMA SegmentFacts ==
  ASSUME NEW t, IsSeq(t.objs), RestoreOk(t), NEW k \in DOMAIN t.objs
  PROVE  /\ IsSeq(Segment(t, k)) /\ DOMAIN Segment(t, k) = 1..t.counts[k]
         /\ \A j \in 1..t.counts[k] : /\ Before(t.counts, k) + j \in DOMAIN t.all
                                      /\ Segment(t, k)[j] = t.all[Before(t.counts, k) + j]
<1> DEFINE m == Before(t.counts, k)
           c == t.counts[k]
           n == Len(t.objs)
<1>1. n \in Nat /\ k \in 1..n BY SeqFacts
<1>2. IsNatSeq(t.counts) /\ Len(t.counts) = n BY DEF RestoreOk
<1>3. DOMAIN t.counts = 1..n BY <1>2, SeqFacts DEF IsNatSeq
<1>4. c \in Nat /\ m \in Nat /\ Before(t.counts, k + 1) = m + c
  <2>1. k \in 1..(Len(t.counts) + 1) BY <1>1, <1>2
  <2> QED BY <1>1, <1>2, <1>3, <2>1, BeforeAdds DEF IsNatSeq
<1>5. m + c <= Len(t.all)
  <2>1. n + 1 \in Nat /\ n + 1 \in 1..(Len(t.counts) + 1) /\ k + 1 \in 1..(n + 1) BY <1>1, <1>2
  <2>2. Before(t.counts, k + 1) <= Before(t.counts, n + 1) BY <1>2, <2>1, BeforeGrows
  <2> QED BY <1>4, <2>2 DEF RestoreOk
<1>6. Len(t.all) \in Nat /\ DOMAIN t.all = 1..Len(t.all) /\ t.all \in Seq(Range(t.all))
  BY SeqFacts DEF RestoreOk, IsSeq
<1> HIDE DEF m, c, n
<1>7. \A j \in (m + 1)..(m + c) : t.all[j] \in Range(t.all) BY <1>4, <1>5, <1>6 DEF Range
<1>8. SubSeq(t.all, m + 1, m + c) = [j \in 1..c |-> t.all[m + j]]
  <2> DEFINE r == SubSeq(t.all, m + 1, m + c)
  <2>1. m + 1 \in Int /\ m + c \in Int BY <1>4
  <2>2. /\ r \in Seq(Range(t.all))
        /\ Len(r) = IF m + 1 <= m + c THEN (m + c) - (m + 1) + 1 ELSE 0
        /\ \A i \in 1..((m + c) - (m + 1) + 1) : r[i] = t.all[(m + 1) + i - 1]
    BY <1>7, <2>1, SubSeqProperties
  <2> HIDE DEF r
  <2>3. (m + c) - (m + 1) + 1 = c /\ Len(r) = c BY <1>4, <2>2
  <2>4. \A i \in 1..c : (m + 1) + i - 1 = m + i BY <1>4
  <2>5. r = [i \in 1..Len(r) |-> r[i]] BY <2>2, LenProperties
  <2>6. \A i \in 1..c : r[i] = t.all[m + i] BY <2>2, <2>3, <2>4
  <2> QED BY <2>3, <2>5, <2>6 DEF r
<1>9. Segment(t, k) = [j \in 1..c |-> t.all[m + j]] BY <1>8 DEF Segment, m, c
<1>10. IsSeq(Segment(t, k)) /\ DOMAIN Segment(t, k) = 1..c
  <2>1. Segment(t, k) = [j \in 1..c |-> Segment(t, k)[j]] BY <1>9
  <2> QED BY <1>4, <2>1, SeqIntro
<1>11. \A j \in 1..c : m + j \in DOMAIN t.all BY <1>4, <1>5, <1>6
<1> QED BY <1>9, <1>10, <1>11 DEF m, c

LEMMA ReturnedFacts ==
  ASSUME NEW s, NEW h, HeapOk(s, h), NEW t, NEW T, IsSeq(t.objs), Typed(h, T, t.objs),
         t.nav \in Navs(s, T), RestoreOk(t)
  PROVE  /\ IsSeq(Returned(h, t)) /\ DOMAIN Returned(h, t) = DOMAIN h
         /\ \A o \in DOMAIN h : o \notin Range(t.objs) => Returned(h, t)[o] = h[o]
         /\ \A o \in Range(t.objs) : \E k \in DOMAIN t.objs : \E c :
               /\ t.objs[k] = o /\ c.items = Segment(t, k)
               /\ ContainerOk(c) /\ Returned(h, t)[o] = Put(h[o], t.nav, c)
               /\ c.ctx = h[o].navs[t.nav].ctx /\ c.of = h[o].navs[t.nav].of
<1> DEFINE g == Returned(h, t)
           k(o) == Place(t.objs, o)
           its(o) == Segment(t, k(o))
           b(o) == h[o].navs[t.nav].loaded \/ its(o) # <<>>
<1>1. IsSeq(h) BY DEF HeapOk
<1>2. Len(h) \in Nat /\ DOMAIN h = 1..Len(h) BY <1>1, SeqFacts
<1>3. \A o \in DOMAIN h :
         g[o] = IF o \notin Range(t.objs) THEN h[o]
                ELSE [h[o] EXCEPT !.navs[t.nav].items = its(o), !.navs[t.nav].loaded = b(o)]
  BY DEF Returned, Segment
<1>4. g = [o \in 1..Len(h) |-> g[o]] BY <1>2 DEF Returned
<1>5. \A o \in Range(t.objs) : o \in DOMAIN h /\ h[o].type = T BY DEF Typed, Range
<1> HIDE DEF g
<1>6. ASSUME NEW o \in Range(t.objs)
      PROVE  \E i \in DOMAIN t.objs : \E c :
               /\ t.objs[i] = o /\ c.items = Segment(t, i)
               /\ ContainerOk(c) /\ g[o] = Put(h[o], t.nav, c)
               /\ c.ctx = h[o].navs[t.nav].ctx /\ c.of = h[o].navs[t.nav].of
  <2>1. o \in DOMAIN h /\ h[o].type = T BY <1>5
  <2>2. EntityOk(s, h[o]) BY <2>1 DEF HeapOk, OkIn
  <2>3. t.nav \in Navs(s, h[o].type) BY <2>1
  <2>4. k(o) \in DOMAIN t.objs /\ t.objs[k(o)] = o BY PlaceFacts DEF Range
  <2>5. IsSeq(its(o)) BY <2>4, SegmentFacts
  <2>6. ContainerOk(h[o].navs[t.nav]) BY <2>2, <2>3 DEF EntityOk
  <2>7. b(o) \in BOOLEAN BY <2>6 DEF ContainerOk
  <2>8. PICK d \in BOOLEAN : d = b(o) BY <2>7
  <2>9. PICK i \in DOMAIN t.objs : i = k(o) BY <2>4
  <2> DEFINE c == [items |-> Segment(t, i), loaded |-> d, ctx |-> h[o].navs[t.nav].ctx,
                   of |-> h[o].navs[t.nav].of]
  <2>10. g[o] = Moved(h[o], t.nav, Segment(t, i), d) BY <1>3, <2>1, <2>8, <2>9 DEF Moved
  <2>11. c = [items |-> Segment(t, i), loaded |-> d, ctx |-> h[o].navs[t.nav].ctx,
              of |-> h[o].navs[t.nav].of]
    OBVIOUS
  <2>13. IsSeq(Segment(t, i)) /\ t.objs[i] = o BY <2>4, <2>5, <2>9
  <2> HIDE DEF c, k, b, its
  <2>14. /\ ContainerOk(c) /\ g[o] = Put(h[o], t.nav, c)
         /\ c.items = Segment(t, i) /\ c.loaded = d /\ c.ctx = h[o].navs[t.nav].ctx
         /\ c.of = h[o].navs[t.nav].of
    BY <2>2, <2>3, <2>10, <2>11, <2>13, ItemsAndLoaded
  <2> QED BY <2>13, <2>14
<1>7. IsSeq(g) /\ DOMAIN g = DOMAIN h BY <1>2, <1>4, SeqIntro
<1> HIDE DEF its, b, k
<1> QED BY <1>3, <1>6, <1>7 DEF g

(***************************************************************************)
(* What a call has still to do.                                            *)
(***************************************************************************)
\* A task of to_list is about objects of one type, and what is nested in it is
\* about navigations of the related type.
NestedIn(s, T, nav, nested) ==
    IsSeq(nested) /\ \A k \in DOMAIN nested : nested[k] \in Navs(s, Related(s, T, nav))

About(s, h, t, T) == T \in TypeNames(s) /\ Typed(h, T, t.objs) /\ t.nav \in Navs(s, T)

Kind(s, T, nav) == Metas[s][T][nav].kind

OfType(s, h, t, T) ==
    /\ About(s, h, t, T)
    /\ t.do # "restore" => NestedIn(s, T, t.nav, t.nested)
    /\ t.do = "restore" => Typed(h, Related(s, T, t.nav), t.all)
    /\ t.do = "related" => Kind(s, T, t.nav) = "ManyToMany"

EagerOk(s, h, t) ==
    /\ t.do \in {"load", "related", "restore"}
    /\ IsSeq(t.objs) /\ t.objs # <<>>
    /\ \E T : OfType(s, h, t, T)
    /\ t.do = "related" => IsSeq(t.joins)
    /\ t.do = "restore" => RestoreOk(t)

\* A task of load() is about one container of an entity the caller did not make.
LazyOk(s, h, t) ==
    /\ t.do = "lazy" /\ t.at \in DOMAIN h /\ t.nav \in Navs(s, h[t.at].type) /\ ~h[t.at].mine

AllEager(s, h, tasks) == IsSeq(tasks) /\ \A k \in DOMAIN tasks : EagerOk(s, h, tasks[k])

LEMMA EagerGrows ==
  ASSUME NEW s, NEW h, NEW g, Grows(h, g), NEW tasks, AllEager(s, h, tasks)
  PROVE  AllEager(s, g, tasks)
<1>1. ASSUME NEW t, EagerOk(s, h, t) PROVE EagerOk(s, g, t)
  <2>1. PICK T : OfType(s, h, t, T) BY <1>1 DEF EagerOk
  <2>2. About(s, g, t, T) BY <2>1, TypedGrows DEF OfType, About
  <2>3. t.do = "restore" => Typed(g, Related(s, T, t.nav), t.all) BY <2>1, TypedGrows DEF OfType
  <2>4. OfType(s, g, t, T) BY <2>1, <2>2, <2>3 DEF OfType
  <2> QED BY <1>1, <2>4 DEF EagerOk
<1> QED BY <1>1 DEF AllEager

\* The type of the objects is the type of the first.
LEMMA TypeOfTask ==
  ASSUME NEW s, NEW t, EagerOk(s, heap, t)
  PROVE  OfType(s, heap, t, TypeOf(t))
<1>1. PICK T : OfType(s, heap, t, T) BY DEF EagerOk
<1>2. IsSeq(t.objs) /\ t.objs # <<>> BY DEF EagerOk
<1>3. Head(t.objs) = t.objs[1] /\ 1 \in DOMAIN t.objs
  <2>1. Len(t.objs) \in Nat /\ DOMAIN t.objs = 1..Len(t.objs) BY <1>2, SeqFacts
  <2>2. Len(t.objs) # 0 BY <1>2, EmptySeq DEF IsSeq
  <2> QED BY <2>1, <2>2
<1>4. TypeOf(t) = T BY <1>1, <1>3 DEF TypeOf, OfType, About, Typed
<1> QED BY <1>1, <1>4

\* Each element of a concatenation is one of the two parts.
LEMMA ConcatElements ==
  ASSUME NEW s, NEW t, IsSeq(s), IsSeq(t), NEW k \in DOMAIN (s \o t)
  PROVE  \/ k \in DOMAIN s /\ (s \o t)[k] = s[k]
         \/ \E j \in DOMAIN t : k = Len(s) + j /\ (s \o t)[k] = t[j]
<1>1. /\ DOMAIN (s \o t) = 1..(Len(s) + Len(t))
      /\ \A i \in 1..Len(s) : (s \o t)[i] = s[i]
      /\ \A i \in 1..Len(t) : (s \o t)[Len(s) + i] = t[i]
  BY ConcatFacts
<1>2. Len(s) \in Nat /\ Len(t) \in Nat /\ DOMAIN s = 1..Len(s) /\ DOMAIN t = 1..Len(t) BY SeqFacts
<1>3. CASE k \in 1..Len(s) BY <1>1, <1>2, <1>3
<1>4. CASE k \notin 1..Len(s)
  <2> DEFINE j == k - Len(s)
  <2>1. j \in 1..Len(t) /\ k = Len(s) + j BY <1>1, <1>2, <1>4
  <2> HIDE DEF j
  <2> QED BY <1>1, <1>2, <2>1
<1> QED BY <1>3, <1>4

LEMMA ConcatEager ==
  ASSUME NEW s, NEW h, NEW a, NEW b, AllEager(s, h, a), AllEager(s, h, b)
  PROVE  AllEager(s, h, a \o b)
<1>1. IsSeq(a) /\ IsSeq(b) BY DEF AllEager
<1>2. IsSeq(a \o b) BY <1>1, ConcatFacts
<1>3. ASSUME NEW k \in DOMAIN (a \o b) PROVE EagerOk(s, h, (a \o b)[k])
  BY <1>1, ConcatElements DEF AllEager
<1> QED BY <1>2, <1>3 DEF AllEager

LEMMA TailEager ==
  ASSUME NEW s, NEW h, NEW tasks, AllEager(s, h, tasks), tasks # <<>>
  PROVE  AllEager(s, h, Tail(tasks)) /\ EagerOk(s, h, Head(tasks))
<1>1. IsSeq(tasks) /\ tasks \in Seq(Range(tasks)) BY DEF AllEager, IsSeq
<1>2. Len(tasks) \in Nat /\ DOMAIN tasks = 1..Len(tasks) BY <1>1, SeqFacts
<1>3. Len(tasks) # 0 BY <1>1, EmptySeq DEF IsSeq
<1>4. /\ Head(tasks) = tasks[1] /\ 1 \in DOMAIN tasks
      /\ Tail(tasks) \in Seq(Range(tasks)) /\ Len(Tail(tasks)) = Len(tasks) - 1
      /\ \A i \in 1..Len(Tail(tasks)) : Tail(tasks)[i] = tasks[i + 1]
  BY <1>1, <1>2, <1>3, HeadTailProperties
<1>5. IsSeq(Tail(tasks)) BY <1>4, SeqOfRange DEF IsSeq
<1>6. ASSUME NEW k \in DOMAIN Tail(tasks) PROVE EagerOk(s, h, Tail(tasks)[k])
  <2>1. DOMAIN Tail(tasks) = 1..Len(Tail(tasks)) BY <1>5, SeqFacts
  <2>2. k + 1 \in DOMAIN tasks BY <1>2, <1>4, <2>1
  <2> QED BY <1>4, <2>1, <2>2 DEF AllEager
<1> QED BY <1>4, <1>5, <1>6 DEF AllEager

TakenOut(h, t) == [k \in DOMAIN t.objs |-> h[t.objs[k]].navs[t.nav].items]

RestoreOf(h, t) ==
    [do |-> "restore", objs |-> t.objs, nav |-> t.nav, counts |-> Counts(TakenOut(h, t)),
     all |-> FlattenSeq(TakenOut(h, t))]

\* The items of the containers, one after the other, each at its place in r.all.
TakesAll(h, t, r) ==
    \A k \in DOMAIN t.objs :
        /\ r.counts[k] = Len(h[t.objs[k]].navs[t.nav].items)
        /\ \A j \in 1..r.counts[k] :
              r.all[Before(r.counts, k) + j] = h[t.objs[k]].navs[t.nav].items[j]

LEMMA RestoreOfFacts ==
  ASSUME NEW s, NEW h, HeapOk(s, h), NEW t, IsSeq(t.objs), NEW T, About(s, h, t, T)
  PROVE  /\ RestoreOk(RestoreOf(h, t)) /\ Typed(h, Related(s, T, t.nav), RestoreOf(h, t).all)
         /\ TakesAll(h, t, RestoreOf(h, t))
<1> DEFINE ls == TakenOut(h, t)
           all == FlattenSeq(ls)
<1>1. Len(t.objs) \in Nat /\ DOMAIN t.objs = 1..Len(t.objs) BY SeqFacts
<1>2. ASSUME NEW k \in DOMAIN t.objs
      PROVE  /\ ls[k] = h[t.objs[k]].navs[t.nav].items
             /\ IsSeq(ls[k]) /\ Typed(h, Related(s, T, t.nav), ls[k])
  <2>1. ls[k] = h[t.objs[k]].navs[t.nav].items BY DEF TakenOut
  <2>2. t.objs[k] \in DOMAIN h /\ h[t.objs[k]].type = T /\ t.nav \in Navs(s, T)
    BY DEF About, Typed
  <2>3. OkIn(s, h, t.objs[k]) BY <2>2 DEF HeapOk
  <2>4. ContainerOk(h[t.objs[k]].navs[t.nav]) BY <2>2, <2>3 DEF OkIn, EntityOk
  <2>5. Typed(h, Related(s, T, t.nav), ls[k]) BY <2>1, <2>2, <2>3 DEF OkIn
  <2> QED BY <2>1, <2>4, <2>5 DEF ContainerOk
<1>3. ls = [k \in 1..Len(t.objs) |-> ls[k]] BY <1>1 DEF TakenOut
<1> HIDE DEF ls
<1>4. IsSeq(ls) /\ Len(ls) = Len(t.objs) /\ DOMAIN ls = 1..Len(t.objs) BY <1>1, <1>3, SeqIntro
<1>5. AllSeqs(ls) BY <1>1, <1>2, <1>4 DEF AllSeqs
<1>6. FlatOf(all, ls, Len(t.objs)) BY <1>4, <1>5, FlattenIsFlat
<1> HIDE DEF all
<1>7. /\ IsNatSeq(Counts(ls)) /\ Len(Counts(ls)) = Len(t.objs)
      /\ \A k \in DOMAIN t.objs : Counts(ls)[k] = Len(ls[k])
  BY <1>1, <1>4, <1>5, CountsAreNat
<1> DEFINE r == RestoreOf(h, t)
<1>8. r.objs = t.objs /\ r.counts = Counts(ls) /\ r.all = all BY DEF RestoreOf, ls, all
<1> HIDE DEF r
<1>9. RestoreOk(r) BY <1>6, <1>7, <1>8 DEF RestoreOk, FlatOf
<1>10. ASSUME NEW m \in DOMAIN all
       PROVE  all[m] \in DOMAIN h /\ h[all[m]].type = Related(s, T, t.nav)
  <2>1. DOMAIN all = 1..Len(all) BY <1>6, SeqFacts DEF FlatOf
  <2>2. PICK k \in 1..Len(t.objs) : \E j \in 1..Len(ls[k]) : m = Before(Counts(ls), k) + j
    BY <1>6, <2>1 DEF FlatOf
  <2>3. PICK j \in 1..Len(ls[k]) : m = Before(Counts(ls), k) + j BY <2>2
  <2>4. all[m] = ls[k][j] BY <1>6, <2>3 DEF FlatOf
  <2>5. j \in DOMAIN ls[k] BY <1>1, <1>2, <2>3, SeqFacts
  <2> QED BY <1>1, <1>2, <2>4, <2>5 DEF Typed
<1>11. Typed(h, Related(s, T, t.nav), r.all) BY <1>8, <1>10 DEF Typed
<1>12. ASSUME NEW k \in DOMAIN t.objs
       PROVE  /\ r.counts[k] = Len(h[t.objs[k]].navs[t.nav].items)
              /\ \A j \in 1..r.counts[k] :
                    r.all[Before(r.counts, k) + j] = h[t.objs[k]].navs[t.nav].items[j]
  <2>1. r.counts[k] = Len(ls[k]) BY <1>7, <1>8
  <2>2. \A j \in 1..Len(ls[k]) : all[Before(Counts(ls), k) + j] = ls[k][j] BY <1>1, <1>6 DEF FlatOf
  <2> QED BY <1>2, <1>8, <2>1, <2>2
<1>13. TakesAll(h, t, r) BY <1>12 DEF TakesAll
<1> QED BY <1>9, <1>11, <1>13 DEF r

LEMMA DeeperFacts ==
  ASSUME NEW s, NEW h, HeapOk(s, h), NEW t, IsSeq(t.objs), t.objs # <<>>, NEW T, About(s, h, t, T),
         NestedIn(s, T, t.nav, t.nested), Related(s, T, t.nav) \in TypeNames(s)
  PROVE  /\ AllEager(s, h, Deeper(h, t))
         /\ \A k \in DOMAIN Deeper(h, t) :
               Deeper(h, t)[k].do = "load" \/ Deeper(h, t)[k] = RestoreOf(h, t)
<1> DEFINE r == RestoreOf(h, t)
           all == r.all
           R == Related(s, T, t.nav)
           loads == [k \in DOMAIN t.nested |-> Load(all, [nav |-> t.nested[k], nested |-> <<>>])]
           some == IF all = <<>> THEN <<>> ELSE loads
<1>1. Deeper(h, t) = some \o <<r>> BY DEF Deeper, RestoreOf, TakenOut, Counts
<1>2. r.do = "restore" /\ r.objs = t.objs /\ r.nav = t.nav BY DEF RestoreOf
<1>3. RestoreOk(r) /\ Typed(h, R, all) BY RestoreOfFacts
<1>4. IsSeq(all) BY <1>3 DEF RestoreOk
<1>5. About(s, h, r, T) BY <1>2 DEF About
<1> HIDE DEF r
<1>6. EagerOk(s, h, r)
  <2>1. r.do # "load" /\ r.do # "related" BY <1>2
  <2>2. OfType(s, h, r, T) BY <1>2, <1>3, <1>5, <2>1 DEF OfType
  <2> QED BY <1>2, <1>3, <2>1, <2>2 DEF EagerOk
<1>7. IsSeq(t.nested) BY DEF NestedIn
<1>8. Len(t.nested) \in Nat /\ DOMAIN t.nested = 1..Len(t.nested) BY <1>7, SeqFacts
<1> HIDE DEF all
<1>9. ASSUME NEW k \in DOMAIN t.nested, all # <<>>
      PROVE  EagerOk(s, h, loads[k]) /\ loads[k].do = "load"
  <2> DEFINE u == loads[k]
  <2>1. u.do = "load" /\ u.objs = all /\ u.nav = t.nested[k] /\ u.nested = <<>> BY DEF Load
  <2> HIDE DEF u
  <2>2. t.nested[k] \in Navs(s, R) BY DEF NestedIn
  <2>3. About(s, h, u, R) BY <1>3, <2>1, <2>2 DEF About, all
  <2>4. NestedIn(s, R, u.nav, u.nested) BY <2>1, EmptyIsSeq DEF NestedIn
  <2>5. u.do # "restore" /\ u.do # "related" BY <2>1
  <2>6. OfType(s, h, u, R) BY <2>3, <2>4, <2>5 DEF OfType
  <2>7. EagerOk(s, h, u) BY <1>4, <1>9, <2>1, <2>5, <2>6 DEF EagerOk
  <2> QED BY <2>1, <2>7 DEF u
<1>10. loads = [k \in 1..Len(t.nested) |-> loads[k]] /\ DOMAIN loads = DOMAIN t.nested BY <1>8
<1> HIDE DEF loads
<1>11. IsSeq(loads) BY <1>8, <1>10, SeqIntro
<1>12. AllEager(s, h, some) /\ \A k \in DOMAIN some : some[k].do = "load"
  <2>1. CASE all = <<>> BY <2>1, EmptyIsSeq DEF AllEager
  <2>2. CASE all # <<>> BY <2>2, <1>9, <1>10, <1>11 DEF AllEager
  <2> QED BY <2>1, <2>2
<1>13. AllEager(s, h, <<r>>) /\ \A k \in DOMAIN <<r>> : <<r>>[k] = r
  BY <1>6, SingletonFacts DEF AllEager
<1> HIDE DEF some
<1>14. AllEager(s, h, some \o <<r>>) BY <1>12, <1>13, ConcatEager
<1>15. \A k \in DOMAIN (some \o <<r>>) : (some \o <<r>>)[k].do = "load" \/ (some \o <<r>>)[k] = r
  <2>1. IsSeq(some) /\ IsSeq(<<r>>) BY <1>12, <1>13 DEF AllEager
  <2> QED BY <1>12, <1>13, <2>1, ConcatElements
<1> QED BY <1>1, <1>14, <1>15 DEF r

\* The container of an entity gets rows with contexts.
FillsOne(h, g, o, nav, T, rows, d) ==
    /\ IsSeq(g) /\ DOMAIN h \subseteq DOMAIN g
    /\ \A x \in DOMAIN h : x # o => g[x] = h[x]
    /\ \E c : /\ g[o] = Put(h[o], nav, c) /\ ContainerOk(c)
              /\ c.loaded = TRUE /\ c.ctx = h[o].navs[nav].ctx /\ c.of = h[o].values
              /\ \/ c.items = h[o].navs[nav].items
                 \/ \A i \in DOMAIN c.items : \E j \in DOMAIN rows :
                       /\ c.items[i] \in DOMAIN g \ DOMAIN h
                       /\ g[c.items[i]] = Attached(Entity(T, from_row(Struct(T), rows[j])), d)
    /\ \A x \in DOMAIN g \ DOMAIN h : \E j \in DOMAIN rows :
          g[x] = Attached(Entity(T, from_row(Struct(T), rows[j])), d)

LEMMA FilledFacts ==
  ASSUME setup \in DOMAIN Scenarios, HeapOk(setup, heap), NEW o \in DOMAIN heap,
         NEW nav \in Navs(setup, heap[o].type), NEW rows, IsSeq(rows), Filled(o, nav, rows)
  PROVE  /\ FillsOne(heap, heap', o, nav, Related(setup, heap[o].type, nav), rows,
                     heap[o].navs[nav].ctx[1].depth + 1)
         /\ answer' = [at |-> o, nav |-> nav, ok |-> TRUE]
<1> DEFINE h == heap
           g == heap'
           c0 == heap[o].navs[nav]
           T == Meta(heap[o].type, nav).type
           d == c0.ctx[1].depth + 1
           read == Materialised(T, rows)
           news == [k \in DOMAIN read |-> Attached(read[k], d)]
           keeps == rows = <<>> /\ Meta(heap[o].type, nav).kind \in {"BelongsTo", "HasOne"}
           its == IF keeps THEN c0.items ELSE Extended(heap, news)
           c == [c0 EXCEPT !.items = its, !.loaded = TRUE, !.of = heap[o].values]
           big == heap \o news
<1>1. g = [big EXCEPT ![o].navs[nav] = c] /\ answer' = [at |-> o, nav |-> nav, ok |-> TRUE]
  BY DEF Filled, Answer
<1>2. OkIn(setup, heap, o) /\ EntityOk(setup, heap[o]) BY DEF HeapOk, OkIn
<1>3. heap[o].type \in TypeNames(setup) BY <1>2 DEF EntityOk
<1>4. Related(setup, heap[o].type, nav) = T /\ T \in TypeNames(setup) BY <1>3, ScenarioFacts
<1>5. ContainerOk(c0) BY <1>2 DEF EntityOk
<1>6. IsSeq(heap) /\ Len(heap) \in Nat /\ DOMAIN heap = 1..Len(heap) BY SeqFacts DEF HeapOk
<1>7. /\ IsSeq(read) /\ Len(read) = Len(rows) /\ DOMAIN read = 1..Len(rows) /\ Len(rows) \in Nat
      /\ DOMAIN rows = 1..Len(rows)
      /\ \A k \in 1..Len(rows) : read[k] = Entity(T, from_row(Struct(T), rows[k]))
  BY MaterialisedFacts, SeqFacts
<1> HIDE DEF read, T, d, c0
<1>8. /\ IsSeq(news) /\ Len(news) = Len(rows) /\ DOMAIN news = 1..Len(rows)
      /\ \A k \in 1..Len(rows) : news[k] = Attached(Entity(T, from_row(Struct(T), rows[k])), d)
  <2>1. \A k \in 1..Len(rows) : news[k] = Attached(Entity(T, from_row(Struct(T), rows[k])), d)
    BY <1>7
  <2>2. news = [k \in 1..Len(rows) |-> news[k]] BY <1>7
  <2> HIDE DEF news
  <2> QED BY <1>7, <2>1, <2>2, SeqIntro
<1> HIDE DEF news
<1>9. /\ IsSeq(big) /\ DOMAIN big = 1..(Len(heap) + Len(rows))
      /\ \A x \in 1..Len(heap) : big[x] = heap[x]
      /\ \A k \in 1..Len(rows) : big[Len(heap) + k] = news[k]
  BY <1>6, <1>8, ConcatFacts
<1> HIDE DEF big
<1>10. /\ IsSeq(Extended(heap, news)) /\ DOMAIN Extended(heap, news) = 1..Len(rows)
       /\ \A k \in 1..Len(rows) : Extended(heap, news)[k] = Len(heap) + k
  <2> DEFINE e == Extended(heap, news)
  <2>1. e = [k \in 1..Len(rows) |-> Len(heap) + k] BY <1>8 DEF Extended
  <2>2. e = [k \in 1..Len(rows) |-> e[k]] BY <2>1
  <2> HIDE DEF e
  <2>3. IsSeq(e) /\ DOMAIN e = 1..Len(rows) BY <1>7, <2>2, SeqIntro
  <2> QED BY <2>1, <2>3 DEF e
<1>11. IsSeq(its) BY <1>5, <1>10 DEF ContainerOk
<1> HIDE DEF keeps
<1>12. /\ ContainerOk(c) /\ c.items = its /\ c.loaded = TRUE /\ c.ctx = c0.ctx /\ c.of = heap[o].values
  <2> HIDE DEF its
  <2>1. c0 = [items |-> c0.items, loaded |-> c0.loaded, ctx |-> c0.ctx, of |-> c0.of]
    BY <1>5 DEF ContainerOk
  <2>2. PICK i, l, x, y : c0 = [items |-> i, loaded |-> l, ctx |-> x, of |-> y] BY <2>1
  <2> DEFINE v == heap[o].values
  <2>9. PICK b : b = TRUE OBVIOUS
  <2> DEFINE f1 == [c0 EXCEPT !.items = its]
             f2 == [f1 EXCEPT !.loaded = b]
             f3 == [f2 EXCEPT !.of = v]
  <2> HIDE DEF v
  <2>5. f1 = [items |-> its, loaded |-> l, ctx |-> x, of |-> y] BY <2>2
  <2>6. c = f3 BY <2>9 DEF v
  <2> HIDE DEF f1, c
  <2>7. f2 = [items |-> its, loaded |-> b, ctx |-> x, of |-> y] BY <2>5
  <2> HIDE DEF f2
  <2>8. f3 = [items |-> its, loaded |-> b, ctx |-> x, of |-> v] BY <2>7
  <2>3. c = [items |-> its, loaded |-> TRUE, ctx |-> x, of |-> heap[o].values] /\ c0.ctx = x
    BY <2>2, <2>6, <2>8, <2>9 DEF v
  <2>4. /\ c.items = its /\ c.loaded = TRUE /\ c.ctx = c0.ctx /\ c.of = heap[o].values
        /\ c = [items |-> c.items, loaded |-> c.loaded, ctx |-> c.ctx, of |-> c.of]
    BY <2>3
  <2> QED BY <1>11, <2>4 DEF ContainerOk
<1> HIDE DEF c
<1>13. o \in DOMAIN big BY <1>6, <1>7, <1>9
<1>14. /\ DOMAIN g = DOMAIN big
       /\ g[o] = [big[o] EXCEPT !.navs[nav] = c]
       /\ \A x \in DOMAIN big : x # o => g[x] = big[x]
  <2> DEFINE f == [big[o] EXCEPT !.navs[nav] = c]
  <2>1. Len(big) \in Nat /\ big = [x \in 1..Len(big) |-> big[x]] BY <1>9, SeqFacts
  <2>2. g = [big EXCEPT ![o] = f] BY <1>1
  <2> HIDE DEF f, g
  <2> QED BY <1>13, <2>1, <2>2 DEF f
<1>15. IsSeq(g)
  <2>1. Len(big) \in Nat /\ DOMAIN big = 1..Len(big) /\ big = [x \in 1..Len(big) |-> big[x]]
    BY <1>9, SeqFacts
  <2>2. g = [x \in 1..Len(big) |-> g[x]] BY <1>1, <2>1
  <2> HIDE DEF g
  <2> QED BY <2>1, <2>2, SeqIntro
<1>16. DOMAIN heap \subseteq DOMAIN g BY <1>6, <1>7, <1>9, <1>14
<1>17. g[o] = Put(heap[o], nav, c) BY <1>6, <1>9, <1>14 DEF Put
<1>18. \A x \in DOMAIN heap : x # o => g[x] = heap[x] BY <1>6, <1>9, <1>14, <1>16
<1>19. ASSUME NEW k \in 1..Len(rows)
       PROVE  /\ Len(heap) + k \in DOMAIN g \ DOMAIN heap
              /\ g[Len(heap) + k] = Attached(Entity(T, from_row(Struct(T), rows[k])), d)
  <2>1. Len(heap) + k \in DOMAIN big /\ Len(heap) + k \notin DOMAIN heap BY <1>6, <1>7, <1>9
  <2> QED BY <1>8, <1>9, <1>14, <2>1
<1>20. ASSUME NEW x \in DOMAIN g \ DOMAIN heap
       PROVE  \E j \in DOMAIN rows : g[x] = Attached(Entity(T, from_row(Struct(T), rows[j])), d)
  <2> DEFINE k == x - Len(heap)
  <2>1. k \in 1..Len(rows) /\ x = Len(heap) + k BY <1>6, <1>7, <1>9, <1>14
  <2> HIDE DEF k
  <2> QED BY <1>7, <1>19, <2>1
<1>21. \/ c.items = c0.items
       \/ \A i \in DOMAIN c.items : \E j \in DOMAIN rows :
             /\ c.items[i] \in DOMAIN g \ DOMAIN h
             /\ g[c.items[i]] = Attached(Entity(T, from_row(Struct(T), rows[j])), d)
  <2>1. CASE keeps BY <2>1, <1>12
  <2>2. CASE ~keeps BY <2>2, <1>7, <1>10, <1>12, <1>19
  <2> QED BY <2>1, <2>2
<1> HIDE DEF g
<1>22. FillsOne(heap, g, o, nav, T, rows, d)
  BY <1>12, <1>15, <1>16, <1>17, <1>18, <1>20, <1>21 DEF FillsOne, c0
<1> QED BY <1>1, <1>4, <1>22 DEF g, d, c0

LEMMA NestedFacts ==
  ASSUME setup \in DOMAIN Scenarios, NEW T \in TypeNames(setup), NEW p, p.nav \in Navs(setup, T),
         IsSeq(p.nested)
  PROVE  NestedIn(setup, T, p.nav, Nested(T, p))
<1> DEFINE at == {k \in DOMAIN p.nested : p.nested[k] \in NavNames(Struct(Meta(T, p.nav).type))}
           r == Picked(p.nested, at)
<1>1. Nested(T, p) = r BY DEF Nested
<1>2. /\ IsSeq(r)
      /\ \A m \in DOMAIN r : \E k \in DOMAIN p.nested : k \in at /\ r[m] = p.nested[k]
  <2> HIDE DEF at
  <2> QED BY PickedFacts
<1>3. \A m \in DOMAIN r : r[m] \in NavNames(Struct(Meta(T, p.nav).type)) BY <1>2
<1>4. NavNames(Struct(Meta(T, p.nav).type)) = Navs(setup, Related(setup, T, p.nav))
  BY ScenarioFacts DEF Navs, Struct, Given
<1> QED BY <1>1, <1>2, <1>3, <1>4 DEF NestedIn

\* The entity of a row of the table, as the query reads it.
ReadBy(e, q, row) ==
    LET plain == Entity(q.type, from_row(Struct(q.type), Values(q.type, row)))
    IN  e = IF Given.lazy /\ q.includes = <<>> THEN Attached(plain, 0) ELSE plain

\* The context that to_list gives the containers of an entity.
CtxRead(q, values) ==
    IF Given.lazy /\ q.includes = <<>> THEN <<[snapshot |-> values, depth |-> 0]>> ELSE <<>>

LEMMA ReadByFacts ==
  ASSUME NEW q, q.type \in TypeNames(setup), NEW e, NEW row, ReadBy(e, q, row)
  PROVE  /\ Fresh(setup, e) /\ e.type = q.type /\ ~e.mine /\ e.values = e.read
         /\ e.read = from_row(Struct(q.type), Values(q.type, row))
         /\ \A nav \in Navs(setup, q.type) :
               /\ e.navs[nav].of = Nothing /\ e.navs[nav].loaded = FALSE
               /\ e.navs[nav].ctx = CtxRead(q, e.values)
<1> DEFINE v == from_row(Struct(q.type), Values(q.type, row))
           p == Entity(q.type, v)
<1>1. /\ Fresh(setup, p) /\ p.type = q.type /\ ~p.mine /\ p.values = v /\ p.read = v
      /\ \A nav \in Navs(setup, q.type) : p.navs[nav] = NoContainer
  <2> DEFINE T == q.type
  <2>1. T \in TypeNames(setup) OBVIOUS
  <2> HIDE DEF v, T
  <2>2. /\ Fresh(setup, Entity(T, v)) /\ Entity(T, v).type = T /\ ~Entity(T, v).mine
        /\ Entity(T, v).values = v /\ Entity(T, v).read = v
        /\ Entity(T, v).navs = [nav \in Navs(setup, T) |-> NoContainer]
    BY <2>1, EntityFacts
  <2>3. \A nav \in Navs(setup, T) : Entity(T, v).navs[nav] = NoContainer BY <2>2
  <2> QED BY <2>2, <2>3 DEF T
<1>2. NoContainer.of = Nothing /\ NoContainer.loaded = FALSE /\ NoContainer.ctx = <<>> BY DEF NoContainer
<1>3. e = IF Given.lazy /\ q.includes = <<>> THEN Attached(p, 0) ELSE p BY DEF ReadBy
<1> HIDE DEF p, v
<1>4. CASE Given.lazy /\ q.includes = <<>>
  <2>1. e = Attached(p, 0) BY <1>3, <1>4
  <2>2. /\ Fresh(setup, e) /\ e.type = p.type /\ e.read = p.read /\ e.values = p.values
        /\ e.mine = p.mine
        /\ \A nav \in Navs(setup, p.type) :
              /\ e.navs[nav].ctx = <<[snapshot |-> p.values, depth |-> 0]>>
              /\ e.navs[nav].of = p.navs[nav].of /\ e.navs[nav].loaded = p.navs[nav].loaded
    BY <1>1, <2>1, AttachedFacts
  <2>3. CtxRead(q, e.values) = <<[snapshot |-> p.values, depth |-> 0]>>
    BY <1>4, <2>2 DEF CtxRead
  <2>4. \A nav \in Navs(setup, p.type) : e.navs[nav].ctx = CtxRead(q, e.values) BY <2>2, <2>3
  <2> QED BY <1>1, <1>2, <2>2, <2>4 DEF v
<1>5. CASE ~(Given.lazy /\ q.includes = <<>>)
  <2>1. e = p BY <1>3, <1>5
  <2>2. CtxRead(q, e.values) = <<>> BY <1>5 DEF CtxRead
  <2> QED BY <1>1, <1>2, <2>1, <2>2 DEF v
<1> QED BY <1>4, <1>5

LEMMA ToListFacts ==
  ASSUME setup \in DOMAIN Scenarios, TablesOk(setup, tables), NEW q \in Given.queries, ToList(q)
  PROVE  /\ q.type \in TypeNames(setup)
         /\ HeapOk(setup, heap') /\ AllEager(setup, heap', todo')
         /\ q.includes = <<>> => todo' = <<>>
         /\ \A k \in DOMAIN todo' : todo'[k].do = "load"
         /\ \A o \in DOMAIN heap' : \E k \in DOMAIN tables[q.type] :
               /\ ReadBy(heap'[o], q, tables[q.type][k])
               /\ q.filtered => Visible(q.type, tables[q.type][k])
         /\ DOMAIN result'.objs = DOMAIN heap' /\ \A o \in DOMAIN heap' : result'.objs[o] = o
         /\ result'.query = q
<1> DEFINE T == q.type
           at == {k \in DOMAIN tables[T] : q.filtered => Visible(T, tables[T][k])}
           rows == Picked(tables[T], at)
           vals == [k \in DOMAIN rows |-> Values(T, rows[k])]
           read == Materialised(T, vals)
           objs == [k \in DOMAIN read |-> k]
           g == heap'
           loads == [k \in DOMAIN q.includes |->
                       Load(objs, [q.includes[k] EXCEPT !.nested = Nested(T, q.includes[k])])]
<1>1. ScenarioOk(setup) BY ScenarioFacts
<1>2. /\ T \in TypeNames(setup) /\ IsSeq(q.includes)
      /\ \A p \in Range(q.includes) : /\ p = [nav |-> p.nav, nested |-> p.nested]
                                      /\ p.nav \in Navs(setup, T) /\ IsSeq(p.nested)
  <2>1. /\ q.type \in DOMAIN Given.model /\ q.includes \in Seq(Range(q.includes))
        /\ \A p \in Range(q.includes) : /\ p = [nav |-> p.nav, nested |-> p.nested]
                                        /\ p.nav \in NavNames(Given.model[q.type])
                                        /\ p.nested \in Seq(Range(p.nested))
    BY <1>1 DEF ScenarioOk, Given
  <2>2. TypeNames(setup) = DOMAIN Given.model /\ Navs(setup, T) = NavNames(Given.model[T])
    BY DEF TypeNames, Navs, Given
  <2> QED BY <2>1, <2>2 DEF IsSeq
<1>3. /\ result' = [objs |-> objs, query |-> q]
      /\ g = IF Given.lazy /\ q.includes = <<>>
             THEN [k \in DOMAIN read |-> Attached(read[k], 0)] ELSE read
      /\ todo' = IF read = <<>> THEN <<>> ELSE loads
  BY DEF ToList
<1>4. IsSeq(tables[T]) BY <1>2 DEF TablesOk
<1>5. /\ IsSeq(rows)
      /\ \A m \in DOMAIN rows : \E k \in DOMAIN tables[T] : k \in at /\ rows[m] = tables[T][k]
  <2> HIDE DEF at
  <2> QED BY <1>4, PickedFacts
<1> HIDE DEF rows
<1>6. Len(rows) \in Nat /\ DOMAIN rows = 1..Len(rows) BY <1>5, SeqFacts
<1>7. /\ IsSeq(vals) /\ Len(vals) = Len(rows)
      /\ \A k \in 1..Len(rows) : vals[k] = Values(T, rows[k])
  <2>1. vals = [k \in 1..Len(rows) |-> vals[k]] BY <1>6
  <2>2. \A k \in 1..Len(rows) : vals[k] = Values(T, rows[k]) BY <1>6
  <2> HIDE DEF vals
  <2> QED BY <1>6, <2>1, <2>2, SeqIntro
<1> HIDE DEF vals
<1>8. /\ IsSeq(read) /\ Len(read) = Len(rows) /\ DOMAIN read = 1..Len(rows)
      /\ \A k \in 1..Len(rows) : read[k] = Entity(T, from_row(Struct(T), Values(T, rows[k])))
  BY <1>7, MaterialisedFacts
<1> HIDE DEF read, g
<1>9. /\ g = [k \in 1..Len(rows) |-> g[k]]
      /\ \A k \in 1..Len(rows) :
            g[k] = IF Given.lazy /\ q.includes = <<>> THEN Attached(read[k], 0) ELSE read[k]
  <2>1. read = [k \in 1..Len(rows) |-> read[k]] BY <1>8, SeqFacts
  <2>2. CASE Given.lazy /\ q.includes = <<>> BY <1>3, <1>8, <2>2
  <2>3. CASE ~(Given.lazy /\ q.includes = <<>>) BY <1>3, <1>8, <2>1, <2>3
  <2> QED BY <2>2, <2>3
<1>10. IsSeq(g) /\ Len(g) = Len(rows) /\ DOMAIN g = 1..Len(rows) BY <1>6, <1>9, SeqIntro
<1>11. ASSUME NEW k \in 1..Len(rows) PROVE ReadBy(g[k], q, rows[k]) BY <1>8, <1>9 DEF ReadBy
<1>12. ASSUME NEW o \in DOMAIN g
       PROVE  \E k \in DOMAIN tables[T] : /\ ReadBy(g[o], q, tables[T][k])
                                          /\ q.filtered => Visible(T, tables[T][k])
  <2>1. PICK k \in DOMAIN tables[T] : k \in at /\ rows[o] = tables[T][k] BY <1>5, <1>6, <1>10
  <2>2. ReadBy(g[o], q, tables[T][k]) BY <1>10, <1>11, <2>1
  <2> QED BY <2>1, <2>2
<1>13. \A o \in DOMAIN g : Fresh(setup, g[o]) /\ g[o].type = T BY <1>2, <1>12, ReadByFacts
<1>14. HeapOk(setup, g) BY <1>10, <1>13, FreshOk DEF HeapOk
<1>15. DOMAIN objs = DOMAIN g /\ \A k \in DOMAIN g : objs[k] = k BY <1>8, <1>10
<1>16. IsSeq(objs) /\ Len(objs) = Len(rows)
  <2>1. objs = [k \in 1..Len(rows) |-> objs[k]] BY <1>8
  <2> HIDE DEF objs
  <2> QED BY <1>6, <2>1, SeqIntro
<1>17. Typed(g, T, objs) BY <1>13, <1>15 DEF Typed
<1>18. Len(q.includes) \in Nat /\ DOMAIN q.includes = 1..Len(q.includes) BY <1>2, SeqFacts
<1> HIDE DEF objs
<1>19. ASSUME read # <<>>, NEW k \in DOMAIN q.includes
       PROVE  EagerOk(setup, g, loads[k]) /\ loads[k].do = "load"
  <2> DEFINE p == q.includes[k]
             u == loads[k]
  <2>1. p = [nav |-> p.nav, nested |-> p.nested] /\ p.nav \in Navs(setup, T) /\ IsSeq(p.nested)
    BY <1>2 DEF Range
  <2>2. u = Load(objs, [p EXCEPT !.nested = Nested(T, p)]) OBVIOUS
  <2> HIDE DEF p, u
  <2>3. PICK x, y : p = [nav |-> x, nested |-> y] BY <2>1
  <2>4. p.nav = x /\ [p EXCEPT !.nested = Nested(T, p)] = [nav |-> x, nested |-> Nested(T, p)]
    BY <2>3
  <2>5. u.do = "load" /\ u.objs = objs /\ u.nav = p.nav /\ u.nested = Nested(T, p)
    BY <2>2, <2>4 DEF Load
  <2>6. NestedIn(setup, T, u.nav, u.nested) BY <1>2, <2>1, <2>5, NestedFacts
  <2>7. About(setup, g, u, T) BY <1>2, <1>17, <2>1, <2>5 DEF About
  <2>8. objs # <<>>
    <3>1. Len(read) # 0 BY <1>8, <1>19, EmptySeq DEF IsSeq
    <3>2. Len(objs) # 0 BY <1>8, <1>16, <3>1
    <3> QED BY <3>2, EmptyIsSeq
  <2>9. u.do # "restore" /\ u.do # "related" BY <2>5
  <2>11. OfType(setup, g, u, T) BY <2>6, <2>7, <2>9 DEF OfType
  <2>10. EagerOk(setup, g, u) BY <1>16, <2>5, <2>8, <2>9, <2>11 DEF EagerOk
  <2> QED BY <2>5, <2>10 DEF u
<1>20. IsSeq(loads) /\ Len(loads) = Len(q.includes) /\ DOMAIN loads = DOMAIN q.includes
  <2>1. loads = [k \in 1..Len(q.includes) |-> loads[k]] /\ DOMAIN loads = DOMAIN q.includes
    BY <1>18
  <2> HIDE DEF loads
  <2> QED BY <1>18, <2>1, SeqIntro
<1>21. AllEager(setup, g, todo') /\ \A k \in DOMAIN todo' : todo'[k].do = "load"
  <2>1. CASE read = <<>>
    <3>1. todo' = <<>> BY <2>1, <1>3
    <3> QED BY <3>1, EmptyIsSeq DEF AllEager
  <2>2. CASE read # <<>>
    <3>1. todo' = loads BY <2>2, <1>3
    <3> HIDE DEF loads
    <3> QED BY <2>2, <3>1, <1>19, <1>20 DEF AllEager
  <2> QED BY <2>1, <2>2
<1>22. q.includes = <<>> => todo' = <<>>
  <2>1. ASSUME q.includes = <<>> PROVE loads = <<>>
    <3>1. Len(loads) = 0 BY <2>1, <1>20, EmptyIsSeq
    <3> HIDE DEF loads
    <3> QED BY <3>1, <1>20, EmptySeq DEF IsSeq
  <2> HIDE DEF loads
  <2> QED BY <1>3, <2>1
<1>23. DOMAIN result'.objs = DOMAIN g /\ \A o \in DOMAIN g : result'.objs[o] = o
  BY <1>3, <1>15
<1>24. result'.query = q BY <1>3
<1> QED BY <1>2, <1>12, <1>14, <1>21, <1>22, <1>23, <1>24 DEF g

LEMMA AppendFacts ==
  ASSUME NEW s, IsSeq(s), NEW x
  PROVE  /\ IsSeq(Append(s, x)) /\ Len(Append(s, x)) = Len(s) + 1
         /\ DOMAIN Append(s, x) = 1..(Len(s) + 1)
         /\ \A k \in DOMAIN s : Append(s, x)[k] = s[k]
         /\ Append(s, x)[Len(s) + 1] = x
<1>1. s \o <<x>> = Append(s, x)
  <2>1. s \in Seq(Range(s) \cup {x})
    <3>1. s \in Seq(Range(s)) BY DEF IsSeq
    <3> QED BY <3>1, SeqMonotonic
  <2> QED BY <2>1, AppendIsConcat
<1>2. Len(s) \in Nat /\ DOMAIN s = 1..Len(s) BY SeqFacts
<1>3. IsSeq(<<x>>) /\ Len(<<x>>) = 1 /\ <<x>>[1] = x BY SingletonFacts
<1>4. /\ IsSeq(s \o <<x>>) /\ Len(s \o <<x>>) = Len(s) + 1
      /\ DOMAIN (s \o <<x>>) = 1..(Len(s) + 1)
      /\ \A k \in 1..Len(s) : (s \o <<x>>)[k] = s[k]
      /\ \A k \in 1..1 : (s \o <<x>>)[Len(s) + k] = <<x>>[k]
  BY <1>3, ConcatFacts
<1>5. 1 \in 1..1 OBVIOUS
<1> QED BY <1>1, <1>2, <1>3, <1>4, <1>5

\* The caller puts an entity of its own behind the items of a container.
Adds(h, g, o, nav, e) ==
    /\ IsSeq(g) /\ DOMAIN g = 1..(Len(h) + 1) /\ DOMAIN h = 1..Len(h) /\ Len(h) \in Nat
    /\ \A x \in DOMAIN h : x # o => g[x] = h[x]
    /\ g[Len(h) + 1] = e
    /\ \E c : /\ g[o] = Put(h[o], nav, c) /\ ContainerOk(c)
              /\ c.loaded = h[o].navs[nav].loaded /\ c.ctx = h[o].navs[nav].ctx
              /\ c.of = h[o].navs[nav].of
              /\ c.items = Append(h[o].navs[nav].items, Len(h) + 1)

LEMMA AddFacts ==
  ASSUME setup \in DOMAIN Scenarios, HeapOk(setup, heap), NEW o \in DOMAIN heap,
         NEW nav \in Navs(setup, heap[o].type), Add(o, nav)
  PROVE  \E e : /\ Adds(heap, heap', o, nav, e)
                /\ Fresh(setup, e) /\ e.mine /\ e.type = Related(setup, heap[o].type, nav)
                /\ \A x \in Navs(setup, e.type) : e.navs[x] = NoContainer
<1> DEFINE g == heap'
           T == Meta(heap[o].type, nav).type
           v == [name \in FieldNames(Struct(T)) |-> Null]
           p == Entity(T, v)
           e == [p EXCEPT !.mine = TRUE]
           big == Append(heap, e)
           c0 == heap[o].navs[nav]
           its == Append(c0.items, Len(heap) + 1)
           c == [c0 EXCEPT !.items = its]
<1>1. g = [big EXCEPT ![o].navs[nav].items = Append(big[o].navs[nav].items, Len(heap) + 1)]
  BY DEF Add
<1>2. OkIn(setup, heap, o) /\ EntityOk(setup, heap[o]) BY DEF HeapOk, OkIn
<1>3. Related(setup, heap[o].type, nav) = T /\ T \in TypeNames(setup)
  BY <1>2, ScenarioFacts DEF EntityOk
<1>4. ContainerOk(c0) BY <1>2 DEF EntityOk
<1>5. IsSeq(heap) /\ Len(heap) \in Nat /\ DOMAIN heap = 1..Len(heap) BY SeqFacts DEF HeapOk
<1> HIDE DEF v, T
<1>6. /\ Fresh(setup, p) /\ p.type = T
      /\ p.navs = [x \in Navs(setup, T) |-> NoContainer]
  BY <1>3, EntityFacts
<1> HIDE DEF p
<1>7. /\ Fresh(setup, e) /\ e.mine /\ e.type = T
      /\ \A x \in Navs(setup, e.type) : e.navs[x] = NoContainer
  <2>1. EntityOk(setup, p) BY <1>6 DEF Fresh
  <2>2. p = [type |-> p.type, values |-> p.values, read |-> p.read, mine |-> p.mine, navs |-> p.navs]
    BY <2>1 DEF EntityOk
  <2>3. PICK y1, y2, y3, y4, y5 :
           p = [type |-> y1, values |-> y2, read |-> y3, mine |-> y4, navs |-> y5]
    BY <2>2
  <2>4. PICK b \in BOOLEAN : b = TRUE OBVIOUS
  <2> DEFINE f == [p EXCEPT !.mine = b]
  <2>11. f = [type |-> y1, values |-> y2, read |-> y3, mine |-> b, navs |-> y5] BY <2>3
  <2>12. e = f BY <2>4
  <2> HIDE DEF e, f
  <2>5. e = [type |-> y1, values |-> y2, read |-> y3, mine |-> b, navs |-> y5] BY <2>11, <2>12
  <2>6. p.type = y1 /\ p.navs = y5 BY <2>3
  <2> HIDE DEF e
  <2>7. /\ e.type = p.type /\ e.navs = p.navs /\ e.mine = b
        /\ e = [type |-> e.type, values |-> e.values, read |-> e.read, mine |-> e.mine, navs |-> e.navs]
    BY <2>5, <2>6
  <2>8. e.mine \in BOOLEAN /\ e.mine BY <2>4, <2>7
  <2>9. Fresh(setup, e) BY <1>6, <2>1, <2>7, <2>8 DEF Fresh, EntityOk
  <2>10. \A x \in Navs(setup, e.type) : e.navs[x] = NoContainer BY <1>6, <2>7
  <2> QED BY <1>6, <2>7, <2>8, <2>9, <2>10
<1> HIDE DEF e
<1>8. /\ IsSeq(big) /\ Len(big) = Len(heap) + 1 /\ DOMAIN big = 1..(Len(heap) + 1)
      /\ \A x \in DOMAIN heap : big[x] = heap[x]
      /\ big[Len(heap) + 1] = e
  BY <1>5, AppendFacts
<1> HIDE DEF big
<1>9. IsSeq(its) BY <1>4, AppendFacts DEF ContainerOk
<1>10. big[o] = heap[o] BY <1>8
<1>11. g = [big EXCEPT ![o].navs[nav].items = its] BY <1>1, <1>10
<1> HIDE DEF its, c0
<1>12. /\ ContainerOk(c) /\ c.items = its /\ c.loaded = c0.loaded /\ c.ctx = c0.ctx /\ c.of = c0.of
  <2>1. c0 = [items |-> c0.items, loaded |-> c0.loaded, ctx |-> c0.ctx, of |-> c0.of]
    BY <1>4 DEF ContainerOk
  <2>2. PICK i, l, x, y : c0 = [items |-> i, loaded |-> l, ctx |-> x, of |-> y] BY <2>1
  <2>3. c = [items |-> its, loaded |-> l, ctx |-> x, of |-> y] BY <2>2
  <2>4. c0.loaded = l /\ c0.ctx = x /\ c0.of = y BY <2>2
  <2> HIDE DEF c
  <2>5. /\ c.items = its /\ c.loaded = c0.loaded /\ c.ctx = c0.ctx /\ c.of = c0.of
        /\ c = [items |-> c.items, loaded |-> c.loaded, ctx |-> c.ctx, of |-> c.of]
    BY <2>3, <2>4
  <2>6. c.loaded \in BOOLEAN BY <2>5, <1>4 DEF ContainerOk
  <2> QED BY <1>9, <2>5, <2>6 DEF ContainerOk
<1>13. g = [big EXCEPT ![o] = Put(heap[o], nav, c)]
  <2>1. [big[o] EXCEPT !.navs[nav].items = its] = Put(heap[o], nav, c)
    BY <1>2, <1>10 DEF Put, c0, EntityOk
  <2> DEFINE f == [big[o] EXCEPT !.navs[nav].items = its]
  <2>2. g = [big EXCEPT ![o] = f] BY <1>11
  <2>3. f = Put(heap[o], nav, c) BY <2>1
  <2> HIDE DEF f, g, c
  <2> QED BY <2>2, <2>3
<1> HIDE DEF c, g
<1>14. o \in DOMAIN big /\ o # Len(heap) + 1 BY <1>5, <1>8
<1>15. big = [x \in 1..(Len(heap) + 1) |-> big[x]] BY <1>8, SeqFacts
<1>16. /\ DOMAIN g = 1..(Len(heap) + 1) /\ g = [x \in 1..(Len(heap) + 1) |-> g[x]]
       /\ g[o] = Put(heap[o], nav, c) /\ \A x \in DOMAIN big : x # o => g[x] = big[x]
  BY <1>13, <1>14, <1>15
<1>17. IsSeq(g)
  <2>1. Len(heap) + 1 \in Nat BY <1>5
  <2> QED BY <1>16, <2>1, SeqIntro
<1>18. /\ \A x \in DOMAIN heap : x # o => g[x] = heap[x]
       /\ g[Len(heap) + 1] = e
  <2>1. DOMAIN heap \subseteq DOMAIN big /\ Len(heap) + 1 \in DOMAIN big BY <1>5, <1>8
  <2> QED BY <1>8, <1>14, <1>16, <2>1
<1>19. Adds(heap, g, o, nav, e) BY <1>5, <1>12, <1>16, <1>17, <1>18 DEF Adds, c0, its
<1> QED BY <1>3, <1>7, <1>19 DEF g

LEMMA AddsSteps ==
  ASSUME NEW s, NEW h, HeapOk(s, h), NEW o \in DOMAIN h, NEW nav \in Navs(s, h[o].type), NEW g,
         NEW e, Adds(h, g, o, nav, e), Fresh(s, e), e.type = Related(s, h[o].type, nav)
  PROVE  StepsTo(s, h, g)
<1>1. /\ IsSeq(g) /\ DOMAIN g = 1..(Len(h) + 1) /\ DOMAIN h = 1..Len(h) /\ Len(h) \in Nat
      /\ \A x \in DOMAIN h : x # o => g[x] = h[x]
      /\ g[Len(h) + 1] = e
  BY DEF Adds
<1>2. PICK c : /\ g[o] = Put(h[o], nav, c) /\ ContainerOk(c)
               /\ c.items = Append(h[o].navs[nav].items, Len(h) + 1)
  BY DEF Adds
<1>3. OkIn(s, h, o) /\ EntityOk(s, h[o]) BY DEF HeapOk, OkIn
<1> DEFINE T == Related(s, h[o].type, nav)
           old == h[o].navs[nav].items
<1>4. IsSeq(old) /\ Typed(h, T, old) BY <1>3 DEF OkIn, EntityOk, ContainerOk
<1>5. \A x \in DOMAIN h : g[x].type = h[x].type
  <2>1. Put(h[o], nav, c).type = h[o].type
    <3>1. ContainerOk(c) /\ EntityOk(s, h[o]) BY <1>2, <1>3
    <3> QED BY <3>1, PutFacts
  <2>2. g[o] = Put(h[o], nav, c) BY <1>2
  <2> QED BY <1>1, <2>1, <2>2
<1> HIDE DEF T, old
<1>6. Typed(g, T, c.items)
  <2>1. /\ DOMAIN Append(old, Len(h) + 1) = 1..(Len(old) + 1)
        /\ \A k \in DOMAIN old : Append(old, Len(h) + 1)[k] = old[k]
        /\ Append(old, Len(h) + 1)[Len(old) + 1] = Len(h) + 1
    BY <1>4, AppendFacts
  <2>2. Len(old) \in Nat /\ DOMAIN old = 1..Len(old) BY <1>4, SeqFacts
  <2>3. Len(h) + 1 \in DOMAIN g /\ g[Len(h) + 1].type = T BY <1>1 DEF T
  <2>4. \A k \in DOMAIN old : old[k] \in DOMAIN g /\ g[old[k]].type = T
    BY <1>1, <1>4, <1>5 DEF Typed
  <2>5. ASSUME NEW k \in DOMAIN c.items PROVE c.items[k] \in DOMAIN g /\ g[c.items[k]].type = T
    <3>1. c.items = Append(old, Len(h) + 1) /\ k \in 1..(Len(old) + 1) BY <1>2, <2>1 DEF old
    <3>2. CASE k \in DOMAIN old BY <3>1, <3>2, <2>1, <2>4
    <3>3. CASE k \notin DOMAIN old
      <4>1. k = Len(old) + 1 BY <3>1, <3>3, <2>2
      <4> QED BY <3>1, <4>1, <2>1, <2>3
    <3> QED BY <3>2, <3>3
  <2> QED BY <2>5 DEF Typed
<1>7. ASSUME NEW x \in DOMAIN g \ DOMAIN h PROVE Fresh(s, g[x])
  <2>1. x = Len(h) + 1 BY <1>1
  <2> QED BY <1>1, <2>1
<1>8. DOMAIN h \subseteq DOMAIN g BY <1>1
<1> QED BY <1>1, <1>2, <1>6, <1>7, <1>8 DEF StepsTo, T

\* An edit changes nothing but the values.
LEMMA EditFacts ==
  ASSUME NEW s, HeapOk(s, heap), NEW o \in DOMAIN heap, NEW name, NEW v, Edit(o, name, v)
  PROVE  /\ HeapOk(s, heap') /\ Grows(heap, heap') /\ DOMAIN heap' = DOMAIN heap
         /\ \A x \in DOMAIN heap :
               /\ heap'[x].read = heap[x].read /\ heap'[x].mine = heap[x].mine
               /\ heap'[x].navs = heap[x].navs /\ heap'[x].type = heap[x].type
               /\ x # o => heap'[x] = heap[x]
<1> DEFINE g == heap'
           f == [heap[o] EXCEPT !.values[name] = v]
<1>1. g = [heap EXCEPT ![o] = f] BY DEF Edit
<1>2. IsSeq(heap) /\ Len(heap) \in Nat /\ heap = [x \in 1..Len(heap) |-> heap[x]]
      /\ DOMAIN heap = 1..Len(heap)
  BY SeqFacts DEF HeapOk
<1>3. OkIn(s, heap, o) /\ EntityOk(s, heap[o]) BY DEF HeapOk, OkIn
<1>4. PICK y1, y2, y3, y4, y5 :
         heap[o] = [type |-> y1, values |-> y2, read |-> y3, mine |-> y4, navs |-> y5]
  BY <1>3 DEF EntityOk
<1>5. f = [type |-> y1, values |-> [y2 EXCEPT ![name] = v], read |-> y3, mine |-> y4, navs |-> y5]
  BY <1>4
<1>6. /\ heap[o].type = y1 /\ heap[o].read = y3 /\ heap[o].mine = y4 /\ heap[o].navs = y5
  BY <1>4
<1> HIDE DEF f, g
<1>7. /\ f.type = y1 /\ f.read = y3 /\ f.mine = y4 /\ f.navs = y5
      /\ f = [type |-> f.type, values |-> f.values, read |-> f.read, mine |-> f.mine, navs |-> f.navs]
  BY <1>5
<1>8. EntityOk(s, f) BY <1>3, <1>6, <1>7 DEF EntityOk
<1>9. /\ g = [x \in 1..Len(heap) |-> g[x]] /\ DOMAIN g = DOMAIN heap
      /\ g[o] = f /\ \A x \in DOMAIN heap : x # o => g[x] = heap[x]
  BY <1>1, <1>2
<1>10. IsSeq(g) BY <1>2, <1>9, SeqIntro
<1>11. ASSUME NEW x \in DOMAIN heap
       PROVE  /\ g[x].read = heap[x].read /\ g[x].mine = heap[x].mine
              /\ g[x].navs = heap[x].navs /\ g[x].type = heap[x].type
              /\ EntityOk(s, g[x])
  <2>1. CASE x = o BY <2>1, <1>6, <1>7, <1>8, <1>9
  <2>2. CASE x # o
    <3>1. g[x] = heap[x] BY <2>2, <1>9
    <3>2. EntityOk(s, heap[x]) BY DEF HeapOk, OkIn
    <3> QED BY <3>1, <3>2
  <2> QED BY <2>1, <2>2
<1>12. Grows(heap, g) BY <1>9, <1>10, <1>11 DEF Grows
<1>13. ASSUME NEW x \in DOMAIN g PROVE OkIn(s, g, x)
  <2>1. x \in DOMAIN heap BY <1>9
  <2>2. OkIn(s, heap, x) BY <2>1 DEF HeapOk
  <2>3. \A nav \in Navs(s, heap[x].type) :
           Typed(g, Related(s, heap[x].type, nav), heap[x].navs[nav].items)
    BY <1>12, <2>2, TypedGrows DEF OkIn
  <2>4. g[x].type = heap[x].type /\ g[x].navs = heap[x].navs /\ EntityOk(s, g[x]) BY <2>1, <1>11
  <2> QED BY <2>3, <2>4 DEF OkIn
<1>14. HeapOk(s, g) BY <1>10, <1>13 DEF HeapOk
<1> QED BY <1>9, <1>11, <1>12, <1>14 DEF g

LEMMA ChangedFacts ==
  ASSUME NEW rows, IsSeq(rows), NEW from, NEW to
  PROVE  IsSeq(Changed(rows, from, to))
<1> DEFINE ls == [k \in DOMAIN rows |->
                    IF rows[k] # from THEN <<rows[k]>> ELSE IF to = Nothing THEN <<>> ELSE <<to>>]
<1>1. Len(rows) \in Nat /\ DOMAIN rows = 1..Len(rows) BY SeqFacts
<1>2. \A k \in DOMAIN rows : IsSeq(ls[k])
  <2>1. \A x : IsSeq(<<x>>) BY SingletonFacts
  <2> QED BY <2>1, EmptyIsSeq
<1>3. ls = [k \in 1..Len(rows) |-> ls[k]] BY <1>1
<1>4. Changed(rows, from, to) = FlattenSeq(ls) BY DEF Changed
<1> HIDE DEF ls
<1>5. IsSeq(ls) /\ DOMAIN ls = DOMAIN rows BY <1>1, <1>3, SeqIntro
<1>6. FlatOf(FlattenSeq(ls), ls, Len(ls)) BY <1>2, <1>5, FlattenIsFlat DEF AllSeqs
<1> QED BY <1>4, <1>6 DEF FlatOf

(***************************************************************************)
(* Shape: well-formed tables, entities and tasks.                          *)
(***************************************************************************)
NoneMine(h) == \A o \in DOMAIN h : ~h[o].mine

\* to_list() loads with nothing else going on; load() has one statement left.
TodoOk(s, h, td, rs, an) ==
    \/ td = <<>>
    \/ rs # Nothing /\ \E t : td = <<t>> /\ LazyOk(s, h, t)
    \/ td # <<>> /\ AllEager(s, h, td) /\ NoneMine(h) /\ an = Nothing /\ rs.query.includes # <<>>

EverOk(s, tb, ev) ==
    DOMAIN ev = TypeNames(s) /\ \A T \in TypeNames(s) : Range(tb[T]) \subseteq ev[T]

ShapeOk(s, tb, ev, h, td, rs, an) ==
    /\ s \in DOMAIN Scenarios
    /\ TablesOk(s, tb) /\ EverOk(s, tb, ev)
    /\ HeapOk(s, h)
    /\ TodoOk(s, h, td, rs, an)
    /\ an # Nothing => rs # Nothing

Shape == ShapeOk(setup, tables, ever, heap, todo, result, answer)

\* The tasks of to_list are told from those of load().
LEMMA EagerTodo ==
  ASSUME Shape, NEW t, todo # <<>>, t = Head(todo), t.do # "lazy"
  PROVE  /\ EagerOk(setup, heap, t) /\ AllEager(setup, heap, Tail(todo))
         /\ NoneMine(heap) /\ answer = Nothing /\ result.query.includes # <<>>
<1>1. TodoOk(setup, heap, todo, result, answer) BY DEF Shape, ShapeOk
<1>2. ~\E u : todo = <<u>> /\ LazyOk(setup, heap, u)
  <2> SUFFICES ASSUME NEW u, todo = <<u>>, LazyOk(setup, heap, u) PROVE FALSE OBVIOUS
  <2>1. t = u OBVIOUS
  <2> QED BY <2>1 DEF LazyOk
<1>3. /\ AllEager(setup, heap, todo) /\ NoneMine(heap) /\ answer = Nothing
      /\ result.query.includes # <<>>
  BY <1>1, <1>2 DEF TodoOk
<1> QED BY <1>3, TailEager

LEMMA LazyTodo ==
  ASSUME Shape, NEW t, todo # <<>>, t = Head(todo), t.do = "lazy"
  PROVE  LazyOk(setup, heap, t) /\ result # Nothing /\ todo = <<t>>
<1>1. TodoOk(setup, heap, todo, result, answer) BY DEF Shape, ShapeOk
<1>2. ~AllEager(setup, heap, todo)
  <2> SUFFICES ASSUME AllEager(setup, heap, todo) PROVE FALSE OBVIOUS
  <2>1. EagerOk(setup, heap, t) BY TailEager
  <2>2. t.do # "load" /\ t.do # "related" /\ t.do # "restore" OBVIOUS
  <2> QED BY <2>1, <2>2 DEF EagerOk
<1>3. result # Nothing /\ \E u : todo = <<u>> /\ LazyOk(setup, heap, u) BY <1>1, <1>2 DEF TodoOk
<1>4. PICK u : todo = <<u>> /\ LazyOk(setup, heap, u) BY <1>3
<1>5. t = u BY <1>4
<1> QED BY <1>3, <1>4, <1>5

\* v is a row of the related table that the filters show, and its key is the
\* one that e looks for.
FoundFor(t, n, e, v) ==
    IF t.do = "load" THEN <<v[ReadAt(n)]>> = SoughtBy(n, e)
    ELSE \E j \in DOMAIN t.joins : /\ t.joins[j][n.parent_index] = KeyOf(e)
                                   /\ v[n.pk_row_index] = t.joins[j][n.related_index]

AllFound(t, n, R, rows) ==
    \A k \in DOMAIN rows : \A j \in DOMAIN rows[k] :
        /\ FoundFor(t, n, heap[t.objs[k]], rows[k][j])
        /\ \E i \in DOMAIN tables[R] : rows[k][j] = Values(R, tables[R][i]) /\ Visible(R, tables[R][i])

FoundAmong(t, n, rows, found) ==
    /\ DOMAIN rows = DOMAIN t.objs
    /\ \A k \in DOMAIN t.objs : \A j \in DOMAIN rows[k] :
          /\ FoundFor(t, n, heap[t.objs[k]], rows[k][j])
          /\ \E i \in DOMAIN found : rows[k][j] = found[i]

LEMMA AllFoundFor ==
  ASSUME NEW t, NEW n, NEW R, IsSeq(tables[R]), NEW column, NEW keys, NEW rows,
         FoundAmong(t, n, rows, Shown(R, column, keys))
  PROVE  AllFound(t, n, R, rows)
<1> DEFINE found == Shown(R, column, keys)
<1>1. \A m \in DOMAIN found : \E k \in DOMAIN tables[R] :
         found[m] = Values(R, tables[R][k]) /\ Visible(R, tables[R][k])
  BY SelectShown
<1> HIDE DEF found
<1>2. ASSUME NEW k \in DOMAIN rows, NEW j \in DOMAIN rows[k]
      PROVE  /\ FoundFor(t, n, heap[t.objs[k]], rows[k][j])
             /\ \E i \in DOMAIN tables[R] :
                   rows[k][j] = Values(R, tables[R][i]) /\ Visible(R, tables[R][i])
  <2>1. FoundFor(t, n, heap[t.objs[k]], rows[k][j]) BY DEF FoundAmong
  <2>2. PICK i \in DOMAIN found : rows[k][j] = found[i] BY DEF FoundAmong, found
  <2> QED BY <1>1, <2>1, <2>2
<1> QED BY <1>2 DEF AllFound

\* What LoadScalar and LoadRelated read.
LEMMA LoadFacts ==
  ASSUME Shape, LoadScalar \/ LoadRelated, NEW t, t = Head(todo)
  PROVE  /\ EagerOk(setup, heap, t) /\ t.do \in {"load", "related"}
         /\ \E rows, h :
               /\ AllFound(t, Meta(TypeOf(t), t.nav), Related(setup, TypeOf(t), t.nav), rows)
               /\ FillsAll(heap, h, t.objs, t.nav, Related(setup, TypeOf(t), t.nav), rows)
               /\ t.do = "load" <=> Meta(TypeOf(t), t.nav).kind # "ManyToMany"
               /\ DOMAIN rows = DOMAIN t.objs
               /\ GoOn(h, t)
<1> DEFINE T == TypeOf(t)
           n == Meta(T, t.nav)
           R == Related(setup, T, t.nav)
<1>1. todo # <<>> /\ t.do \in {"load", "related"} BY DEF LoadScalar, LoadRelated, Doing
<1>2. t.do # "lazy" /\ t.do # "restore" BY <1>1
<1>3. EagerOk(setup, heap, t) BY <1>1, <1>2, EagerTodo
<1>4. OfType(setup, heap, t, T) /\ About(setup, heap, t, T) BY <1>3, TypeOfTask DEF OfType
<1>5. setup \in DOMAIN Scenarios /\ TablesOk(setup, tables) /\ HeapOk(setup, heap)
  BY DEF Shape, ShapeOk
<1>6. n.type = R /\ R \in TypeNames(setup) BY <1>4, <1>5, ScenarioFacts DEF About
<1>7. IsSeq(tables[R]) /\ IsSeq(heap) BY <1>5, <1>6 DEF TablesOk, HeapOk
<1>8. IsSeq(t.objs) /\ (t.do = "related" => IsSeq(t.joins)) BY <1>3 DEF EagerOk
<1>9. Len(t.objs) \in Nat /\ DOMAIN t.objs = 1..Len(t.objs) BY <1>8, SeqFacts
<1>10. CASE LoadScalar
  <2> DEFINE sought == UNION {Range(SoughtBy(n, heap[o])) : o \in Range(t.objs)}
             column == IF n.kind = "HasMany" THEN n.fk_column ELSE n.ref_column
             found == Shown(R, column, sought)
             rows == [k \in DOMAIN t.objs |-> RowsOf(n, heap[t.objs[k]], found)]
             h == Applied(heap, t.objs, t.nav, n.type, rows)
  <2>1. t.do = "load" /\ n.kind # "ManyToMany" /\ GoOn(h, t)
    BY <1>6, <1>10 DEF LoadScalar, Doing, Shown
  <2>2. found = Shown(R, column, sought) OBVIOUS
  <2> HIDE DEF column, sought
  <2>3. IsSeq(found) BY <1>7, <2>2, SelectShown
  <2> HIDE DEF found, n, R, T
  <2>4. ASSUME NEW k \in DOMAIN t.objs
        PROVE  /\ IsSeq(rows[k])
               /\ \A j \in DOMAIN rows[k] :
                     /\ FoundFor(t, n, heap[t.objs[k]], rows[k][j])
                     /\ \E i \in DOMAIN found : rows[k][j] = found[i]
    <3> DEFINE r == rows[k]
    <3>1. r = RowsOf(n, heap[t.objs[k]], found) OBVIOUS
    <3> HIDE DEF r
    <3>2. /\ IsSeq(r)
          /\ \A j \in DOMAIN r : \E i \in DOMAIN found :
                r[j] = found[i] /\ <<found[i][ReadAt(n)]>> = SoughtBy(n, heap[t.objs[k]])
      BY <2>3, <3>1, RowsOfFacts
    <3>3. \A j \in DOMAIN r : /\ FoundFor(t, n, heap[t.objs[k]], r[j])
                              /\ \E i \in DOMAIN found : r[j] = found[i]
      BY <2>1, <3>2 DEF FoundFor
    <3> QED BY <3>2, <3>3 DEF r
  <2>5. rows = [k \in 1..Len(t.objs) |-> rows[k]] /\ DOMAIN rows = DOMAIN t.objs BY <1>9
  <2> HIDE DEF rows
  <2>6. AllSeqs(rows) BY <1>9, <2>4, <2>5, SeqIntro DEF AllSeqs
  <2>7. FillsAll(heap, h, t.objs, t.nav, R, rows) BY <1>6, <1>7, <1>8, <2>5, <2>6, AppliedFacts
  <2>8. AllFound(t, n, R, rows)
    <3>1. FoundAmong(t, n, rows, found) BY <2>4, <2>5 DEF FoundAmong
    <3> QED BY <1>7, <2>2, <3>1, AllFoundFor
  <2> HIDE DEF h
  <2> QED BY <1>1, <1>3, <2>1, <2>5, <2>7, <2>8 DEF n, R, T
<1>11. CASE LoadRelated
  <2> DEFINE keys == {j[n.related_index] : j \in Range(t.joins)}
             found == Shown(R, n.ref_column, keys)
             rows == [k \in DOMAIN t.objs |-> Joined(n, heap[t.objs[k]], t.joins, found)]
             h == Applied(heap, t.objs, t.nav, n.type, rows)
  <2>1. t.do = "related" /\ GoOn(h, t) BY <1>6, <1>11 DEF LoadRelated, Doing, Shown
  <2>2. found = Shown(R, n.ref_column, keys) OBVIOUS
  <2>9. n.kind = "ManyToMany" BY <1>4, <2>1 DEF OfType, Kind, Meta
  <2> HIDE DEF keys
  <2>3. IsSeq(found) BY <1>7, <2>2, SelectShown
  <2> HIDE DEF found, n, R, T
  <2>4. ASSUME NEW k \in DOMAIN t.objs
        PROVE  /\ IsSeq(rows[k])
               /\ \A j \in DOMAIN rows[k] :
                     /\ FoundFor(t, n, heap[t.objs[k]], rows[k][j])
                     /\ \E i \in DOMAIN found : rows[k][j] = found[i]
    <3> DEFINE r == rows[k]
    <3>1. r = Joined(n, heap[t.objs[k]], t.joins, found) OBVIOUS
    <3> HIDE DEF r
    <3>2. IsSeq(r) /\ JoinedBy(r, n, heap[t.objs[k]], t.joins, found)
      <4>1. IsSeq(t.joins) BY <1>8, <2>1
      <4> QED BY <2>3, <3>1, <4>1, JoinedFacts
    <3>3. \A j \in DOMAIN r : /\ FoundFor(t, n, heap[t.objs[k]], r[j])
                              /\ \E i \in DOMAIN found : r[j] = found[i]
      <4>1. t.do # "load" BY <2>1
      <4> QED BY <3>2, <4>1 DEF FoundFor, JoinedBy
    <3> QED BY <3>2, <3>3 DEF r
  <2>5. rows = [k \in 1..Len(t.objs) |-> rows[k]] /\ DOMAIN rows = DOMAIN t.objs BY <1>9
  <2> HIDE DEF rows
  <2>6. AllSeqs(rows) BY <1>9, <2>4, <2>5, SeqIntro DEF AllSeqs
  <2>7. FillsAll(heap, h, t.objs, t.nav, R, rows) BY <1>6, <1>7, <1>8, <2>5, <2>6, AppliedFacts
  <2>8. AllFound(t, n, R, rows)
    <3>1. FoundAmong(t, n, rows, found) BY <2>4, <2>5 DEF FoundAmong
    <3> QED BY <1>7, <2>2, <3>1, AllFoundFor
  <2> HIDE DEF h
  <2> QED BY <1>1, <1>3, <2>1, <2>5, <2>7, <2>8, <2>9 DEF n, R, T
<1> QED BY <1>10, <1>11

\* Containers apart, the entities stay what they are.
Keeps(h, g) ==
    \A o \in DOMAIN h : /\ g[o].type = h[o].type /\ g[o].read = h[o].read
                        /\ g[o].values = h[o].values /\ g[o].mine = h[o].mine

LEMMA StepsKeep ==
  ASSUME NEW s, NEW h, HeapOk(s, h), NEW g, StepsTo(s, h, g)
  PROVE  Keeps(h, g)
<1> SUFFICES ASSUME NEW o \in DOMAIN h
             PROVE  /\ g[o].type = h[o].type /\ g[o].read = h[o].read
                    /\ g[o].values = h[o].values /\ g[o].mine = h[o].mine
  BY DEF Keeps
<1>1. EntityOk(s, h[o]) BY DEF HeapOk, OkIn
<1>2. CASE g[o] = h[o] BY <1>2
<1>3. ASSUME NEW nav \in Navs(s, h[o].type), NEW c, ContainerOk(c), g[o] = Put(h[o], nav, c)
      PROVE  /\ g[o].type = h[o].type /\ g[o].read = h[o].read
             /\ g[o].values = h[o].values /\ g[o].mine = h[o].mine
  BY <1>1, <1>3, PutFacts
<1>4. g[o] = h[o] \/ \E nav \in Navs(s, h[o].type) : \E c : ContainerOk(c) /\ g[o] = Put(h[o], nav, c)
  BY DEF StepsTo
<1> QED BY <1>2, <1>3, <1>4

LEMMA DrainedSteps ==
  ASSUME NEW s, NEW h, HeapOk(s, h), NEW t, NEW T, Typed(h, T, t.objs), t.nav \in Navs(s, T)
  PROVE  StepsTo(s, h, Drained(h, t))
<1> DEFINE g == Drained(h, t)
<1>1. /\ IsSeq(g) /\ DOMAIN g = DOMAIN h
      /\ \A o \in DOMAIN h : o \notin Range(t.objs) => g[o] = h[o]
      /\ \A o \in Range(t.objs) : Moves(h, g, o, t.nav, <<>>)
  BY DrainedFacts
<1> HIDE DEF g
<1>2. ASSUME NEW o \in Range(t.objs)
      PROVE  \E c : /\ ContainerOk(c) /\ g[o] = Put(h[o], t.nav, c)
                    /\ Typed(g, Related(s, h[o].type, t.nav), c.items)
  <2>1. PICK c : ContainerOk(c) /\ g[o] = Put(h[o], t.nav, c) /\ c.items = <<>> BY <1>1 DEF Moves
  <2>2. Typed(g, Related(s, h[o].type, t.nav), c.items) BY <2>1, EmptyIsSeq DEF Typed
  <2> QED BY <2>1, <2>2
<1>3. \A o \in Range(t.objs) : t.nav \in Navs(s, h[o].type) BY DEF Typed, Range
<1>4. ASSUME NEW o \in DOMAIN h
      PROVE  g[o] = h[o] \/ \E nav \in Navs(s, h[o].type) : \E c :
                /\ ContainerOk(c) /\ g[o] = Put(h[o], nav, c)
                /\ Typed(g, Related(s, h[o].type, nav), c.items)
  <2>1. CASE o \in Range(t.objs) BY <2>1, <1>2, <1>3
  <2>2. CASE o \notin Range(t.objs) BY <2>2, <1>1
  <2> QED BY <2>1, <2>2
<1> QED BY <1>1, <1>4 DEF StepsTo, g

LEMMA ReturnedSteps ==
  ASSUME NEW s, NEW h, HeapOk(s, h), NEW t, NEW T, IsSeq(t.objs), Typed(h, T, t.objs),
         t.nav \in Navs(s, T), RestoreOk(t), Typed(h, Related(s, T, t.nav), t.all)
  PROVE  StepsTo(s, h, Returned(h, t))
<1> DEFINE g == Returned(h, t)
<1>1. /\ IsSeq(g) /\ DOMAIN g = DOMAIN h
      /\ \A o \in DOMAIN h : o \notin Range(t.objs) => g[o] = h[o]
      /\ \A o \in Range(t.objs) : \E k \in DOMAIN t.objs : \E c :
            ContainerOk(c) /\ g[o] = Put(h[o], t.nav, c) /\ c.items = Segment(t, k)
  <2>1. IsSeq(g) /\ DOMAIN g = DOMAIN h BY ReturnedFacts
  <2>2. \A o \in DOMAIN h : o \notin Range(t.objs) => g[o] = h[o] BY ReturnedFacts
  <2>3. \A o \in Range(t.objs) : \E k \in DOMAIN t.objs : \E c :
           /\ t.objs[k] = o /\ c.items = Segment(t, k)
           /\ ContainerOk(c) /\ g[o] = Put(h[o], t.nav, c)
           /\ c.ctx = h[o].navs[t.nav].ctx /\ c.of = h[o].navs[t.nav].of
    BY ReturnedFacts
  <2> HIDE DEF g
  <2> QED BY <2>1, <2>2, <2>3
<1> HIDE DEF g
<1>2. \A o \in Range(t.objs) : h[o].type = T /\ o \in DOMAIN h BY DEF Typed, Range
<1>3. Keeps(h, g)
  <2> SUFFICES ASSUME NEW o \in DOMAIN h
               PROVE  /\ g[o].type = h[o].type /\ g[o].read = h[o].read
                      /\ g[o].values = h[o].values /\ g[o].mine = h[o].mine
    BY DEF Keeps
  <2>1. CASE o \notin Range(t.objs) BY <1>1, <2>1
  <2>2. CASE o \in Range(t.objs)
    <3>1. PICK c : ContainerOk(c) /\ g[o] = Put(h[o], t.nav, c) BY <1>1, <2>2
    <3>2. EntityOk(s, h[o]) /\ t.nav \in Navs(s, h[o].type) BY <1>2, <2>2 DEF HeapOk, OkIn
    <3> QED BY <3>1, <3>2, PutFacts
  <2> QED BY <2>1, <2>2
<1>4. ASSUME NEW o \in Range(t.objs)
      PROVE  \E c : /\ ContainerOk(c) /\ g[o] = Put(h[o], t.nav, c)
                    /\ Typed(g, Related(s, h[o].type, t.nav), c.items)
  <2>1. PICK k \in DOMAIN t.objs : \E c :
            ContainerOk(c) /\ g[o] = Put(h[o], t.nav, c) /\ c.items = Segment(t, k)
    BY <1>1
  <2>2. PICK c : ContainerOk(c) /\ g[o] = Put(h[o], t.nav, c) /\ c.items = Segment(t, k) BY <2>1
  <2>3. \A j \in DOMAIN Segment(t, k) : \E m \in DOMAIN t.all : Segment(t, k)[j] = t.all[m]
    BY SegmentFacts
  <2>4. Typed(g, Related(s, T, t.nav), Segment(t, k)) BY <1>1, <1>3, <2>3 DEF Typed, Keeps
  <2> QED BY <1>2, <2>2, <2>4
<1>5. ASSUME NEW o \in DOMAIN h
      PROVE  g[o] = h[o] \/ \E nav \in Navs(s, h[o].type) : \E c :
                /\ ContainerOk(c) /\ g[o] = Put(h[o], nav, c)
                /\ Typed(g, Related(s, h[o].type, nav), c.items)
  <2>1. CASE o \in Range(t.objs) BY <2>1, <1>2, <1>4
  <2>2. CASE o \notin Range(t.objs) BY <2>2, <1>1
  <2> QED BY <2>1, <2>2
<1> QED BY <1>1, <1>5 DEF StepsTo, g

\* The rest of to_list after the statement of a task.
LEMMA GoOnFacts ==
  ASSUME Shape, NEW t, todo # <<>>, t = Head(todo), t.do \in {"load", "related"},
         NEW h, StepsTo(setup, heap, h), NoneMine(h), GoOn(h, t)
  PROVE  /\ HeapOk(setup, h) /\ HeapOk(setup, heap') /\ NoneMine(heap')
         /\ StepsTo(setup, h, heap') /\ AllEager(setup, heap', todo')
         /\ DOMAIN heap' = DOMAIN h
<1> DEFINE T == TypeOf(t)
           s == setup
<1>1. s \in DOMAIN Scenarios /\ HeapOk(s, heap) BY DEF Shape, ShapeOk
<1>2. t.do # "lazy" /\ t.do # "restore" OBVIOUS
<1>3. EagerOk(s, heap, t) /\ AllEager(s, heap, Tail(todo)) BY <1>2, EagerTodo
<1>4. About(s, heap, t, T) /\ NestedIn(s, T, t.nav, t.nested) BY <1>2, <1>3, TypeOfTask DEF OfType
<1>5. IsSeq(t.objs) /\ t.objs # <<>> BY <1>3 DEF EagerOk
<1>6. HeapOk(s, h) /\ Grows(heap, h) BY <1>1, HeapStep
<1>7. About(s, h, t, T) /\ AllEager(s, h, Tail(todo))
  BY <1>3, <1>4, <1>6, TypedGrows, EagerGrows DEF About
<1>8. Related(s, T, t.nav) \in TypeNames(s) BY <1>1, <1>4, ScenarioFacts DEF About
<1> HIDE DEF T
<1>9. CASE t.nested = <<>>
  <2>1. heap' = h /\ todo' = <<>> \o Tail(todo) BY <1>9 DEF GoOn
  <2>2. todo' = Tail(todo)
    <3>1. Tail(todo) \in Seq(Range(Tail(todo))) BY <1>7 DEF AllEager, IsSeq
    <3> QED BY <2>1, <3>1, ConcatEmptySeq
  <2>3. StepsTo(s, h, h)
    <3>1. IsSeq(h) BY <1>6 DEF HeapOk
    <3> QED BY <3>1 DEF StepsTo
  <2> QED BY <1>6, <1>7, <2>1, <2>2, <2>3
<1>10. CASE t.nested # <<>>
  <2>1. heap' = Drained(h, t) /\ todo' = Deeper(h, t) \o Tail(todo) BY <1>10 DEF GoOn
  <2>2. StepsTo(s, h, heap') BY <1>6, <1>7, <2>1, DrainedSteps DEF About
  <2>3. HeapOk(s, heap') /\ Grows(h, heap') /\ Keeps(h, heap') BY <1>6, <2>2, HeapStep, StepsKeep
  <2>4. AllEager(s, h, Deeper(h, t)) BY <1>4, <1>5, <1>6, <1>7, <1>8, DeeperFacts
  <2>5. AllEager(s, h, todo') BY <1>7, <2>1, <2>4, ConcatEager
  <2>6. AllEager(s, heap', todo') BY <2>3, <2>5, EagerGrows
  <2>7. DOMAIN heap' = DOMAIN h BY <1>6, <1>7, <2>1, DrainedFacts DEF About
  <2>8. NoneMine(heap') BY <2>3, <2>7 DEF NoneMine, Keeps
  <2> QED BY <1>6, <2>2, <2>3, <2>6, <2>7, <2>8
<1> QED BY <1>9, <1>10

\* Nothing of the caller comes with the rows.
LEMMA FillsAllMine ==
  ASSUME setup \in DOMAIN Scenarios, NEW h, HeapOk(setup, h), NEW g, NEW objs, NEW T, NEW nav,
         Typed(h, T, objs), nav \in Navs(setup, T), T \in TypeNames(setup), NEW rows,
         FillsAll(h, g, objs, nav, Related(setup, T, nav), rows), NoneMine(h)
  PROVE  NoneMine(g)
<1> DEFINE R == Related(setup, T, nav)
<1>1. R \in TypeNames(setup) BY ScenarioFacts
<1>2. Keeps(h, g) BY FillsAllSteps, StepsKeep
<1>3. \A v : ~Entity(R, v).mine BY <1>1, EntityFacts
<1>4. \A o \in DOMAIN g \ DOMAIN h : ~g[o].mine BY <1>3 DEF FillsAll
<1> QED BY <1>2, <1>4 DEF NoneMine, Keeps

\* The task that LoadJoin leaves, for the rows of the join table.
ForJoins(t, joins) ==
    [do |-> "related", objs |-> t.objs, nav |-> t.nav, nested |-> t.nested, joins |-> joins]

JoinsOf(t, n) == All(n.join, n.through_parent_fk, {KeyOf(heap[o]) : o \in Range(t.objs)})

LEMMA LoadJoinFacts ==
  ASSUME Shape, LoadJoin, NEW t, t = Head(todo)
  PROVE  /\ EagerOk(setup, heap, t) /\ t.do = "load" /\ todo # <<>>
         /\ Kind(setup, TypeOf(t), t.nav) = "ManyToMany"
         /\ \/ GoOn(heap, t)
            \/ /\ todo' = <<ForJoins(t, JoinsOf(t, Meta(TypeOf(t), t.nav)))>> \o Tail(todo)
               /\ EagerOk(setup, heap, ForJoins(t, JoinsOf(t, Meta(TypeOf(t), t.nav))))
               /\ AllEager(setup, heap, todo')
               /\ UNCHANGED <<setup, tables, ever, heap, result, answer, writes, uses>>
<1> DEFINE T == TypeOf(t)
           n == Meta(T, t.nav)
           joins == JoinsOf(t, n)
           u == ForJoins(t, joins)
<1>1. t.do = "load" /\ todo # <<>> BY DEF LoadJoin, Doing
<1>2. t.do # "lazy" /\ t.do # "restore" BY <1>1
<1>3. EagerOk(setup, heap, t) /\ AllEager(setup, heap, Tail(todo)) BY <1>1, <1>2, EagerTodo
<1>4. OfType(setup, heap, t, T) BY <1>3, TypeOfTask
<1>5. /\ n.kind = "ManyToMany"
      /\ \/ GoOn(heap, t)
         \/ /\ todo' = <<u>> \o Tail(todo)
            /\ UNCHANGED <<setup, tables, ever, heap, result, answer, writes, uses>>
  BY DEF LoadJoin, JoinsOf, All, ForJoins
<1>6. Kind(setup, T, t.nav) = "ManyToMany" BY <1>5 DEF Kind, Meta
<1>7. IsSeq(joins)
  <2>1. setup \in DOMAIN Scenarios /\ TablesOk(setup, tables) BY DEF Shape, ShapeOk
  <2>2. T \in TypeNames(setup) /\ t.nav \in Navs(setup, T) BY <1>4 DEF OfType, About
  <2>3. n.join \in TypeNames(setup) BY <1>5, <2>1, <2>2, ScenarioFacts
  <2>4. IsSeq(tables[n.join]) BY <2>1, <2>3 DEF TablesOk
  <2> QED BY <2>4, SelectAny DEF JoinsOf
<1>8. EagerOk(setup, heap, u)
  <2>1. /\ u.do = "related" /\ u.objs = t.objs /\ u.nav = t.nav /\ u.nested = t.nested
        /\ u.joins = joins
    BY DEF ForJoins
  <2> HIDE DEF u, joins, n
  <2>2. u.do # "load" /\ u.do # "restore" BY <2>1
  <2>3. OfType(setup, heap, u, T) BY <1>2, <1>4, <1>6, <2>1, <2>2 DEF OfType, About
  <2>4. IsSeq(t.objs) /\ t.objs # <<>> BY <1>3 DEF EagerOk
  <2>5. u.do \in {"load", "related", "restore"} /\ IsSeq(u.objs) /\ u.objs # <<>> /\ IsSeq(u.joins)
    BY <1>7, <2>1, <2>4
  <2> QED BY <2>2, <2>3, <2>5 DEF EagerOk
<1> HIDE DEF u
<1>9. AllEager(setup, heap, <<u>> \o Tail(todo))
  <2>1. AllEager(setup, heap, <<u>>) BY <1>8, SingletonFacts DEF AllEager
  <2> QED BY <1>3, <2>1, ConcatEager
<1> QED BY <1>1, <1>3, <1>5, <1>6, <1>8, <1>9 DEF u

(***************************************************************************)
(* What load() reads.                                                      *)
(***************************************************************************)
\* Rows that the filters show, with one of the keys in the column.
RowsWith(R, column, keys, rows) ==
    /\ IsSeq(rows)
    /\ \A j \in DOMAIN rows : \E i \in DOMAIN tables[R] :
          /\ rows[j] = Values(R, tables[R][i]) /\ Visible(R, tables[R][i])
          /\ tables[R][i][column] \in keys

\* The column that load() compares.
LazyColumn(n) == IF n.kind = "BelongsTo" THEN n.ref_column ELSE n.fk_column

LazyKeys(o, n, nav) ==
    Range(SoughtLazily(n, Struct(heap[o].type), heap[o].navs[nav].ctx[1].snapshot))

LEMMA RowsWithSelect ==
  ASSUME NEW R, IsSeq(tables[R]), NEW column, NEW keys
  PROVE  /\ RowsWith(R, column, keys, Shown(R, column, keys))
         /\ RowsWith(R, column, keys, <<>>)
         /\ Shown(R, column, keys) # <<>> =>
               RowsWith(R, column, keys, <<Head(Shown(R, column, keys))>>)
<1> DEFINE f == Shown(R, column, keys)
<1>1. /\ IsSeq(f)
      /\ \A m \in DOMAIN f : \E k \in DOMAIN tables[R] :
            f[m] = Values(R, tables[R][k]) /\ tables[R][k][column] \in keys /\ Visible(R, tables[R][k])
  BY SelectShown
<1> HIDE DEF f
<1>2. RowsWith(R, column, keys, f) BY <1>1 DEF RowsWith
<1>3. RowsWith(R, column, keys, <<>>) BY EmptyIsSeq DEF RowsWith
<1>4. ASSUME f # <<>> PROVE RowsWith(R, column, keys, <<Head(f)>>)
  <2>1. Len(f) \in Nat /\ DOMAIN f = 1..Len(f) BY <1>1, SeqFacts
  <2>2. Len(f) # 0 BY <1>1, <1>4, EmptySeq DEF IsSeq
  <2>3. Head(f) = f[1] /\ 1 \in DOMAIN f BY <2>1, <2>2
  <2> DEFINE r == <<Head(f)>>
  <2>4. IsSeq(r) /\ \A j \in DOMAIN r : r[j] = f[1] BY <2>3, SingletonFacts
  <2> HIDE DEF r
  <2>5. RowsWith(R, column, keys, r) BY <1>1, <2>3, <2>4 DEF RowsWith
  <2> QED BY <2>5 DEF r
<1> QED BY <1>2, <1>3, <1>4 DEF f

LEMMA LazyScalarFacts ==
  ASSUME Shape, NEW o \in DOMAIN heap, NEW nav \in Navs(setup, heap[o].type), LazyScalar(o, nav)
  PROVE  /\ Loads(o, nav) /\ Kind(setup, heap[o].type, nav) # "ManyToMany"
         /\ UNCHANGED <<setup, tables, ever, todo, result, writes>>
         /\ \/ heap' = heap /\ answer' = [at |-> o, nav |-> nav, ok |-> FALSE]
            \/ \E rows :
                  /\ RowsWith(Related(setup, heap[o].type, nav), LazyColumn(Meta(heap[o].type, nav)),
                              LazyKeys(o, Meta(heap[o].type, nav), nav), rows)
                  /\ Filled(o, nav, rows)
<1> DEFINE T == heap[o].type
           n == Meta(T, nav)
           R == Related(setup, T, nav)
           sought == SoughtLazily(n, Struct(T), heap[o].navs[nav].ctx[1].snapshot)
           column == LazyColumn(n)
           found == Shown(R, column, Range(sought))
           rows == IF n.kind = "HasMany" \/ found = <<>> THEN found ELSE <<Head(found)>>
<1>1. setup \in DOMAIN Scenarios /\ TablesOk(setup, tables) /\ HeapOk(setup, heap)
  BY DEF Shape, ShapeOk
<1>2. T \in TypeNames(setup) BY <1>1 DEF HeapOk, OkIn, EntityOk
<1>3. n.type = R /\ R \in TypeNames(setup) BY <1>1, <1>2, ScenarioFacts
<1>4. IsSeq(tables[R]) BY <1>1, <1>3 DEF TablesOk
<1>5. Range(sought) = LazyKeys(o, n, nav) BY DEF LazyKeys
<1>6. /\ Loads(o, nav) /\ n.kind # "ManyToMany"
      /\ UNCHANGED <<setup, tables, ever, todo, result, writes>>
      /\ \/ Filled(o, nav, <<>>) \/ Filled(o, nav, rows)
         \/ heap' = heap /\ Answer(o, nav, FALSE)
  BY <1>3 DEF LazyScalar, LazyColumn, Shown
<1> HIDE DEF T, n, R, sought, column
<1>7. RowsWith(R, column, Range(sought), rows) /\ RowsWith(R, column, Range(sought), <<>>)
  <2>1. /\ RowsWith(R, column, Range(sought), found) /\ RowsWith(R, column, Range(sought), <<>>)
        /\ found # <<>> => RowsWith(R, column, Range(sought), <<Head(found)>>)
    BY <1>4, RowsWithSelect
  <2> HIDE DEF found
  <2> QED BY <2>1
<1> HIDE DEF rows
<1>8. Kind(setup, T, nav) = n.kind BY DEF Kind, Meta, n
<1> QED BY <1>5, <1>6, <1>7, <1>8 DEF T, n, R, column, Answer

LEMMA LazyJoinFacts ==
  ASSUME Shape, NEW o \in DOMAIN heap, NEW nav \in Navs(setup, heap[o].type), LazyJoin(o, nav)
  PROVE  /\ Loads(o, nav) /\ Kind(setup, heap[o].type, nav) = "ManyToMany"
         /\ UNCHANGED <<setup, tables, ever, result, writes>>
         /\ \/ Filled(o, nav, <<>>) /\ UNCHANGED todo
            \/ \E ids :
                  /\ todo' = <<[do |-> "lazy", at |-> o, nav |-> nav, ids |-> ids]>>
                  /\ UNCHANGED <<heap, answer>>
                  /\ Meta(heap[o].type, nav).related_index = 1
                  /\ \A id \in ids : \E j \in DOMAIN tables[Meta(heap[o].type, nav).join] :
                        LET row == tables[Meta(heap[o].type, nav).join][j]
                        IN  /\ id = Values(Meta(heap[o].type, nav).join, row)[1]
                            /\ row[Meta(heap[o].type, nav).through_parent_fk]
                                  \in LazyKeys(o, Meta(heap[o].type, nav), nav)
<1> DEFINE T == heap[o].type
           n == Meta(T, nav)
           sought == SoughtLazily(n, Struct(T), heap[o].navs[nav].ctx[1].snapshot)
           joins == All(n.join, n.through_parent_fk, Range(sought))
           ids == IF n.related_index # 1 THEN {}
                  ELSE {joins[k][n.related_index] : k \in DOMAIN joins}
<1>1. setup \in DOMAIN Scenarios /\ TablesOk(setup, tables) /\ HeapOk(setup, heap)
  BY DEF Shape, ShapeOk
<1>2. T \in TypeNames(setup) BY <1>1 DEF HeapOk, OkIn, EntityOk
<1>3. /\ Loads(o, nav) /\ n.kind = "ManyToMany"
      /\ UNCHANGED <<setup, tables, ever, result, writes>>
      /\ \/ Filled(o, nav, <<>>) /\ UNCHANGED todo
         \/ /\ ids # {} /\ todo' = <<[do |-> "lazy", at |-> o, nav |-> nav, ids |-> ids]>>
            /\ UNCHANGED <<heap, answer>>
  BY DEF LazyJoin, All
<1>4. Kind(setup, T, nav) = n.kind BY DEF Kind, Meta
<1>5. n.join \in TypeNames(setup) BY <1>1, <1>2, <1>3, ScenarioFacts
<1>6. IsSeq(tables[n.join]) BY <1>1, <1>5 DEF TablesOk
<1>7. Range(sought) = LazyKeys(o, n, nav) BY DEF LazyKeys
<1> HIDE DEF n, T, sought
<1>8. \A m \in DOMAIN joins : \E k \in DOMAIN tables[n.join] :
         /\ joins[m] = Values(n.join, tables[n.join][k])
         /\ tables[n.join][k][n.through_parent_fk] \in Range(sought)
  BY <1>6, SelectAny
<1> HIDE DEF joins
<1>9. ids # {} => n.related_index = 1 OBVIOUS
<1>10. \A id \in ids : \E j \in DOMAIN tables[n.join] :
          LET row == tables[n.join][j]
          IN  id = Values(n.join, row)[1] /\ row[n.through_parent_fk] \in LazyKeys(o, n, nav)
  <2> SUFFICES ASSUME NEW id \in ids
               PROVE  \E j \in DOMAIN tables[n.join] :
                         LET row == tables[n.join][j]
                         IN  /\ id = Values(n.join, row)[1]
                             /\ row[n.through_parent_fk] \in LazyKeys(o, n, nav)
    OBVIOUS
  <2>1. PICK m \in DOMAIN joins : id = joins[m][n.related_index] /\ n.related_index = 1 OBVIOUS
  <2>2. PICK k \in DOMAIN tables[n.join] :
           /\ joins[m] = Values(n.join, tables[n.join][k])
           /\ tables[n.join][k][n.through_parent_fk] \in Range(sought)
    BY <1>8
  <2> QED BY <1>7, <2>1, <2>2
<1> HIDE DEF ids
<1> QED BY <1>3, <1>4, <1>9, <1>10 DEF n, T

LEMMA LazyRelatedFacts ==
  ASSUME Shape, LazyRelated, NEW t, t = Head(todo)
  PROVE  /\ LazyOk(setup, heap, t) /\ todo' = <<>> /\ result # Nothing /\ todo = <<t>>
         /\ UNCHANGED <<setup, tables, ever, result, writes, uses>>
         /\ \E rows : /\ RowsWith(Related(setup, heap[t.at].type, t.nav),
                                  Meta(heap[t.at].type, t.nav).ref_column, t.ids, rows)
                      /\ Filled(t.at, t.nav, rows)
<1> DEFINE T == heap[t.at].type
           n == Meta(T, t.nav)
           R == Related(setup, T, t.nav)
<1>1. todo # <<>> /\ t.do = "lazy" BY DEF LazyRelated, Doing
<1>2. LazyOk(setup, heap, t) /\ result # Nothing /\ todo = <<t>> BY <1>1, LazyTodo
<1>3. setup \in DOMAIN Scenarios /\ TablesOk(setup, tables) /\ HeapOk(setup, heap)
  BY DEF Shape, ShapeOk
<1>4. T \in TypeNames(setup) /\ t.nav \in Navs(setup, T)
  BY <1>2, <1>3 DEF HeapOk, OkIn, EntityOk, LazyOk
<1>5. n.type = R /\ R \in TypeNames(setup) BY <1>3, <1>4, ScenarioFacts
<1>6. IsSeq(tables[R]) BY <1>3, <1>5 DEF TablesOk
<1>7. /\ Filled(t.at, t.nav, Shown(R, n.ref_column, t.ids)) /\ todo' = <<>>
      /\ UNCHANGED <<setup, tables, ever, result, writes, uses>>
  BY <1>5 DEF LazyRelated, Shown
<1> HIDE DEF n, R, T
<1>8. RowsWith(R, n.ref_column, t.ids, Shown(R, n.ref_column, t.ids)) BY <1>6, RowsWithSelect
<1> QED BY <1>2, <1>7, <1>8 DEF n, R, T

\* A filled container is well-formed, and so are the new entities.
LEMMA FillsOneSteps ==
  ASSUME setup \in DOMAIN Scenarios, NEW h, HeapOk(setup, h), NEW o \in DOMAIN h,
         NEW nav \in Navs(setup, h[o].type), NEW g, NEW rows, NEW d,
         FillsOne(h, g, o, nav, Related(setup, h[o].type, nav), rows, d)
  PROVE  /\ StepsTo(setup, h, g)
         /\ \A x \in DOMAIN g \ DOMAIN h : ~g[x].mine
<1> DEFINE R == Related(setup, h[o].type, nav)
<1>1. OkIn(setup, h, o) /\ EntityOk(setup, h[o]) BY DEF HeapOk, OkIn
<1>2. R \in TypeNames(setup) BY <1>1, ScenarioFacts DEF EntityOk
<1> HIDE DEF R
<1>3. ASSUME NEW v
      PROVE  /\ Fresh(setup, Attached(Entity(R, v), d)) /\ Attached(Entity(R, v), d).type = R
             /\ ~Attached(Entity(R, v), d).mine
  <2> DEFINE p == Entity(R, v)
  <2>1. Fresh(setup, p) /\ p.type = R /\ ~p.mine BY <1>2, EntityFacts
  <2> HIDE DEF p
  <2>2. /\ Fresh(setup, Attached(p, d)) /\ Attached(p, d).type = p.type
        /\ Attached(p, d).mine = p.mine
    BY <2>1, AttachedIs
  <2> QED BY <2>1, <2>2 DEF p
<1>4. IsSeq(g) /\ DOMAIN h \subseteq DOMAIN g /\ \A x \in DOMAIN h : x # o => g[x] = h[x]
  BY DEF FillsOne
<1>5. \A x \in DOMAIN g \ DOMAIN h : Fresh(setup, g[x]) /\ ~g[x].mine BY <1>3 DEF FillsOne, R
<1>6. PICK c : /\ g[o] = Put(h[o], nav, c) /\ ContainerOk(c)
               /\ \/ c.items = h[o].navs[nav].items
                  \/ \A i \in DOMAIN c.items : \E j \in DOMAIN rows :
                        /\ c.items[i] \in DOMAIN g \ DOMAIN h
                        /\ g[c.items[i]] = Attached(Entity(R, from_row(Struct(R), rows[j])), d)
  BY DEF FillsOne, R
<1>7. \A x \in DOMAIN h : g[x].type = h[x].type
  <2>1. g[o].type = h[o].type BY <1>1, <1>6, PutFacts
  <2> QED BY <1>4, <2>1
<1>8. Typed(g, R, c.items)
  <2>1. CASE c.items = h[o].navs[nav].items
    <3>1. Typed(h, R, c.items) BY <1>1, <2>1 DEF OkIn, R
    <3> QED BY <1>4, <1>7, <3>1 DEF Typed
  <2>2. CASE \A i \in DOMAIN c.items : \E j \in DOMAIN rows :
                /\ c.items[i] \in DOMAIN g \ DOMAIN h
                /\ g[c.items[i]] = Attached(Entity(R, from_row(Struct(R), rows[j])), d)
    <3>1. \A i \in DOMAIN c.items : c.items[i] \in DOMAIN g /\ g[c.items[i]].type = R
      BY <1>3, <2>2
    <3> QED BY <3>1 DEF Typed
  <2> QED BY <1>6, <2>1, <2>2
<1>9. StepsTo(setup, h, g) BY <1>4, <1>5, <1>6, <1>8 DEF StepsTo, R
<1> QED BY <1>5, <1>9

LEMMA ShapeToList ==
  ASSUME Shape, NEW q \in Given.queries, ToList(q)
  PROVE  Shape'
<1>1. /\ setup \in DOMAIN Scenarios /\ TablesOk(setup, tables) /\ EverOk(setup, tables, ever)
      /\ answer # Nothing => result # Nothing
  BY DEF Shape, ShapeOk
<1>2. result = Nothing /\ UNCHANGED <<setup, tables, ever, answer>> BY DEF ToList
<1>3. answer = Nothing BY <1>1, <1>2
<1>4. /\ HeapOk(setup, heap') /\ AllEager(setup, heap', todo')
      /\ q.includes = <<>> => todo' = <<>>
      /\ result'.query = q
  BY <1>1, ToListFacts
<1>5. NoneMine(heap')
  <2>1. q.type \in TypeNames(setup) BY <1>1, ToListFacts
  <2>2. \A o \in DOMAIN heap' : \E k \in DOMAIN tables[q.type] : ReadBy(heap'[o], q, tables[q.type][k])
    BY <1>1, ToListFacts
  <2>3. \A o \in DOMAIN heap' : ~heap'[o].mine BY <2>1, <2>2, ReadByFacts
  <2> QED BY <2>3 DEF NoneMine
<1>6. TodoOk(setup, heap', todo', result', answer') BY <1>2, <1>3, <1>4, <1>5 DEF TodoOk
<1> QED BY <1>1, <1>2, <1>3, <1>4, <1>6 DEF Shape, ShapeOk

LEMMA ShapeLoad ==
  ASSUME Shape, LoadScalar \/ LoadRelated \/ LoadJoin
  PROVE  Shape'
<1> DEFINE t == Head(todo)
<1>1. /\ setup \in DOMAIN Scenarios /\ TablesOk(setup, tables) /\ EverOk(setup, tables, ever)
      /\ HeapOk(setup, heap) /\ (answer # Nothing => result # Nothing)
  BY DEF Shape, ShapeOk
<1>2. todo # <<>> /\ t.do \in {"load", "related"} BY DEF LoadScalar, LoadRelated, LoadJoin, Doing
<1>3. t.do # "lazy" BY <1>2
<1>4. /\ EagerOk(setup, heap, t) /\ AllEager(setup, heap, Tail(todo))
      /\ NoneMine(heap) /\ answer = Nothing /\ result.query.includes # <<>>
  BY <1>2, <1>3, EagerTodo
<1>5. IsSeq(t.objs) /\ OfType(setup, heap, t, TypeOf(t)) BY <1>4, TypeOfTask DEF EagerOk
<1> HIDE DEF t
<1>6. t = Head(todo) BY DEF t
<1>7. ASSUME NEW h, StepsTo(setup, heap, h), NoneMine(h), GoOn(h, t)
      PROVE  Shape'
  <2>1. UNCHANGED <<setup, tables, ever, result, answer>> BY <1>7 DEF GoOn
  <2>2. HeapOk(setup, heap') /\ NoneMine(heap') /\ AllEager(setup, heap', todo')
    BY <1>2, <1>6, <1>7, GoOnFacts
  <2>3. TodoOk(setup, heap', todo', result', answer') BY <1>4, <2>1, <2>2 DEF TodoOk
  <2> QED BY <1>1, <2>1, <2>2, <2>3 DEF Shape, ShapeOk
<1>8. CASE LoadScalar \/ LoadRelated
  <2>1. PICK rows, h :
           /\ FillsAll(heap, h, t.objs, t.nav, Related(setup, TypeOf(t), t.nav), rows)
           /\ GoOn(h, t)
    BY <1>6, <1>8, LoadFacts
  <2>2. TypeOf(t) \in TypeNames(setup) /\ Typed(heap, TypeOf(t), t.objs)
        /\ t.nav \in Navs(setup, TypeOf(t))
    BY <1>5 DEF OfType, About
  <2>3. StepsTo(setup, heap, h) BY <1>1, <2>1, <2>2, FillsAllSteps
  <2>4. NoneMine(h) BY <1>1, <1>4, <2>1, <2>2, FillsAllMine
  <2> QED BY <1>7, <2>1, <2>3, <2>4
<1>9. CASE LoadJoin
  <2>1. \/ GoOn(heap, t)
        \/ /\ AllEager(setup, heap, todo')
           /\ UNCHANGED <<setup, tables, ever, heap, result, answer, writes, uses>>
    BY <1>6, <1>9, LoadJoinFacts
  <2>2. StepsTo(setup, heap, heap)
    <3>1. IsSeq(heap) BY <1>1 DEF HeapOk
    <3> QED BY <3>1 DEF StepsTo
  <2>3. ASSUME AllEager(setup, heap, todo'),
               UNCHANGED <<setup, tables, ever, heap, result, answer, writes, uses>>
        PROVE  Shape'
    <3>1. TodoOk(setup, heap', todo', result', answer') BY <1>4, <2>3 DEF TodoOk
    <3> QED BY <1>1, <2>3, <3>1 DEF Shape, ShapeOk
  <2> QED BY <1>4, <1>7, <2>1, <2>2, <2>3
<1> QED BY <1>8, <1>9

\* The task of Restore, and the heap after it.
LEMMA RestoreFacts ==
  ASSUME Shape, Restore, NEW t, t = Head(todo)
  PROVE  /\ todo # <<>> /\ t.do = "restore" /\ EagerOk(setup, heap, t) /\ RestoreOk(t)
         /\ IsSeq(t.objs) /\ About(setup, heap, t, TypeOf(t))
         /\ Typed(heap, Related(setup, TypeOf(t), t.nav), t.all)
         /\ NoneMine(heap) /\ answer = Nothing /\ result.query.includes # <<>>
         /\ AllEager(setup, heap, Tail(todo))
         /\ heap' = Returned(heap, t) /\ todo' = Tail(todo)
         /\ StepsTo(setup, heap, heap') /\ DOMAIN heap' = DOMAIN heap
         /\ UNCHANGED <<setup, tables, ever, result, answer, writes, uses>>
<1>1. /\ todo # <<>> /\ t.do = "restore" /\ heap' = Returned(heap, t) /\ todo' = Tail(todo)
      /\ UNCHANGED <<setup, tables, ever, result, answer, writes, uses>>
  BY DEF Restore, Doing
<1>2. t.do # "lazy" BY <1>1
<1>3. /\ EagerOk(setup, heap, t) /\ AllEager(setup, heap, Tail(todo))
      /\ NoneMine(heap) /\ answer = Nothing /\ result.query.includes # <<>>
  BY <1>1, <1>2, EagerTodo
<1>4. IsSeq(t.objs) /\ RestoreOk(t) BY <1>1, <1>3 DEF EagerOk
<1>5. About(setup, heap, t, TypeOf(t)) /\ Typed(heap, Related(setup, TypeOf(t), t.nav), t.all)
  BY <1>1, <1>3, TypeOfTask DEF OfType
<1>6. HeapOk(setup, heap) BY DEF Shape, ShapeOk
<1>7. Typed(heap, TypeOf(t), t.objs) /\ t.nav \in Navs(setup, TypeOf(t)) BY <1>5 DEF About
<1>8. StepsTo(setup, heap, heap') BY <1>1, <1>4, <1>5, <1>6, <1>7, ReturnedSteps
<1>9. DOMAIN heap' = DOMAIN heap BY <1>1, <1>4, <1>6, <1>7, ReturnedFacts
<1> QED BY <1>1, <1>3, <1>4, <1>5, <1>8, <1>9

LEMMA ShapeRestore ==
  ASSUME Shape, Restore
  PROVE  Shape'
<1> DEFINE t == Head(todo)
<1>1. /\ setup \in DOMAIN Scenarios /\ TablesOk(setup, tables) /\ EverOk(setup, tables, ever)
      /\ HeapOk(setup, heap) /\ (answer # Nothing => result # Nothing)
  BY DEF Shape, ShapeOk
<1>2. /\ NoneMine(heap) /\ answer = Nothing /\ result.query.includes # <<>>
      /\ AllEager(setup, heap, Tail(todo)) /\ todo' = Tail(todo)
      /\ StepsTo(setup, heap, heap') /\ DOMAIN heap' = DOMAIN heap
      /\ UNCHANGED <<setup, tables, ever, result, answer, writes, uses>>
  BY RestoreFacts
<1>3. HeapOk(setup, heap') /\ Grows(heap, heap') /\ Keeps(heap, heap')
  BY <1>1, <1>2, HeapStep, StepsKeep
<1>4. AllEager(setup, heap', todo') BY <1>2, <1>3, EagerGrows
<1>5. NoneMine(heap') BY <1>2, <1>3 DEF NoneMine, Keeps
<1>6. TodoOk(setup, heap', todo', result', answer') BY <1>2, <1>4, <1>5 DEF TodoOk
<1> QED BY <1>1, <1>2, <1>3, <1>6 DEF Shape, ShapeOk

LEMMA ShapeLazyRelated ==
  ASSUME Shape, LazyRelated
  PROVE  Shape'
<1> DEFINE t == Head(todo)
<1>1. /\ setup \in DOMAIN Scenarios /\ TablesOk(setup, tables) /\ EverOk(setup, tables, ever)
      /\ HeapOk(setup, heap)
  BY DEF Shape, ShapeOk
<1>2. /\ LazyOk(setup, heap, t) /\ todo' = <<>> /\ result # Nothing
      /\ UNCHANGED <<setup, tables, ever, result, writes, uses>>
  BY LazyRelatedFacts
<1>3. PICK rows : /\ RowsWith(Related(setup, heap[t.at].type, t.nav),
                              Meta(heap[t.at].type, t.nav).ref_column, t.ids, rows)
                  /\ Filled(t.at, t.nav, rows)
  BY LazyRelatedFacts
<1>4. IsSeq(rows) BY <1>3 DEF RowsWith
<1>5. t.at \in DOMAIN heap /\ t.nav \in Navs(setup, heap[t.at].type) BY <1>2 DEF LazyOk
<1> HIDE DEF t
<1>6. FillsOne(heap, heap', t.at, t.nav, Related(setup, heap[t.at].type, t.nav), rows,
               heap[t.at].navs[t.nav].ctx[1].depth + 1)
  BY <1>1, <1>3, <1>4, <1>5, FilledFacts
<1>7. StepsTo(setup, heap, heap') BY <1>1, <1>5, <1>6, FillsOneSteps
<1>8. HeapOk(setup, heap') BY <1>1, <1>7, HeapStep
<1>9. TodoOk(setup, heap', todo', result', answer') BY <1>2 DEF TodoOk
<1> QED BY <1>1, <1>2, <1>8, <1>9 DEF Shape, ShapeOk

LEMMA ShapeCaller ==
  ASSUME Shape, Caller
  PROVE  Shape'
<1>1. /\ setup \in DOMAIN Scenarios /\ TablesOk(setup, tables) /\ EverOk(setup, tables, ever)
      /\ HeapOk(setup, heap)
  BY DEF Shape, ShapeOk
<1>2. PICK o \in DOMAIN heap :
        /\ Idle /\ ~heap[o].mine
        /\ \/ \E nav \in DOMAIN heap[o].navs :
                 \/ LoadNoop(o, nav) \/ TooDeep(o, nav)
                 \/ LazyScalar(o, nav) \/ LazyJoin(o, nav) \/ Add(o, nav)
           \/ \E e \in Given.edits : heap[o].type = e.type /\ Edit(o, e.field, e.value)
  BY DEF Caller
<1>3. todo = <<>> /\ result # Nothing BY <1>2 DEF Idle
<1>4. DOMAIN heap[o].navs = Navs(setup, heap[o].type) BY <1>1 DEF HeapOk, OkIn, EntityOk
<1>5. ASSUME HeapOk(setup, heap'), todo' = todo, UNCHANGED <<setup, tables, ever, result>>
      PROVE  Shape'
  <2>1. TodoOk(setup, heap', todo', result', answer') BY <1>3, <1>5 DEF TodoOk
  <2> QED BY <1>1, <1>3, <1>5, <2>1 DEF Shape, ShapeOk
<1>6. ASSUME NEW nav \in DOMAIN heap[o].navs, LoadNoop(o, nav) \/ TooDeep(o, nav)
      PROVE  Shape'
  BY <1>1, <1>5, <1>6 DEF LoadNoop, TooDeep
<1>7. ASSUME NEW nav \in DOMAIN heap[o].navs, NEW rows, IsSeq(rows), Filled(o, nav, rows)
      PROVE  HeapOk(setup, heap')
  <2>1. FillsOne(heap, heap', o, nav, Related(setup, heap[o].type, nav), rows,
                 heap[o].navs[nav].ctx[1].depth + 1)
    BY <1>1, <1>4, <1>7, FilledFacts
  <2>2. StepsTo(setup, heap, heap') BY <1>1, <1>4, <2>1, FillsOneSteps
  <2> QED BY <1>1, <2>2, HeapStep
<1>8. ASSUME NEW nav \in DOMAIN heap[o].navs, LazyScalar(o, nav)
      PROVE  Shape'
  <2>1. UNCHANGED <<setup, tables, ever, todo, result>> BY <1>4, <1>8, LazyScalarFacts
  <2>2. heap' = heap \/ \E rows : IsSeq(rows) /\ Filled(o, nav, rows)
    BY <1>4, <1>8, LazyScalarFacts DEF RowsWith
  <2>3. HeapOk(setup, heap') BY <1>1, <1>7, <2>2
  <2> QED BY <1>5, <2>1, <2>3
<1>9. ASSUME NEW nav \in DOMAIN heap[o].navs, LazyJoin(o, nav)
      PROVE  Shape'
  <2>1. UNCHANGED <<setup, tables, ever, result>> BY <1>4, <1>9, LazyJoinFacts
  <2>2. \/ Filled(o, nav, <<>>) /\ UNCHANGED todo
        \/ \E ids : /\ todo' = <<[do |-> "lazy", at |-> o, nav |-> nav, ids |-> ids]>>
                    /\ UNCHANGED <<heap, answer>>
    BY <1>4, <1>9, LazyJoinFacts
  <2>3. CASE Filled(o, nav, <<>>) /\ UNCHANGED todo BY <1>5, <1>7, <2>1, <2>3, EmptyIsSeq
  <2>4. ASSUME NEW ids, todo' = <<[do |-> "lazy", at |-> o, nav |-> nav, ids |-> ids]>>,
               UNCHANGED <<heap, answer>>
        PROVE  Shape'
    <3> DEFINE t == [do |-> "lazy", at |-> o, nav |-> nav, ids |-> ids]
    <3>1. t.do = "lazy" /\ t.at = o /\ t.nav = nav OBVIOUS
    <3> HIDE DEF t
    <3>2. LazyOk(setup, heap, t) BY <1>2, <1>4, <3>1 DEF LazyOk
    <3>3. todo' = <<t>> BY <2>4 DEF t
    <3>4. TodoOk(setup, heap', todo', result', answer') BY <1>3, <2>1, <2>4, <3>2, <3>3 DEF TodoOk
    <3> QED BY <1>1, <1>3, <2>1, <2>4, <3>4 DEF Shape, ShapeOk
  <2> QED BY <2>2, <2>3, <2>4
<1>10. ASSUME NEW nav \in DOMAIN heap[o].navs, Add(o, nav)
       PROVE  Shape'
  <2>1. PICK e : /\ Adds(heap, heap', o, nav, e)
                 /\ Fresh(setup, e) /\ e.type = Related(setup, heap[o].type, nav)
    BY <1>1, <1>4, <1>10, AddFacts
  <2>2. StepsTo(setup, heap, heap') BY <1>1, <1>4, <2>1, AddsSteps
  <2>3. HeapOk(setup, heap') BY <1>1, <2>2, HeapStep
  <2>4. UNCHANGED <<setup, tables, ever, todo, result>> BY <1>10 DEF Add
  <2> QED BY <1>5, <2>3, <2>4
<1>11. ASSUME NEW e \in Given.edits, Edit(o, e.field, e.value)
       PROVE  Shape'
  <2>1. HeapOk(setup, heap') BY <1>1, <1>11, EditFacts
  <2>2. UNCHANGED <<setup, tables, ever, todo, result>> BY <1>11 DEF Edit
  <2> QED BY <1>5, <2>1, <2>2
<1> QED BY <1>2, <1>6, <1>8, <1>9, <1>10, <1>11

LEMMA ShapeWrite ==
  ASSUME Shape, NEW c \in Given.changes, Write(c)
  PROVE  Shape'
<1> DEFINE s == setup
<1>1. /\ s \in DOMAIN Scenarios /\ TablesOk(s, tables) /\ EverOk(s, tables, ever)
      /\ HeapOk(s, heap) /\ TodoOk(s, heap, todo, result, answer)
      /\ answer # Nothing => result # Nothing
  BY DEF Shape, ShapeOk
<1>2. /\ tables' = [tables EXCEPT ![c.type] = Changed(tables[c.type], c.from, c.to)]
      /\ ever' = [T \in DOMAIN ever |-> ever[T] \cup Range(tables'[T])]
      /\ UNCHANGED <<setup, heap, todo, result, answer, uses>>
  BY DEF Write
<1>3. DOMAIN tables = TypeNames(s) /\ \A T \in TypeNames(s) : IsSeq(tables[T]) BY <1>1 DEF TablesOk
<1>4. TablesOk(s, tables')
  <2>1. DOMAIN tables' = TypeNames(s) BY <1>2, <1>3
  <2>2. ASSUME NEW T \in TypeNames(s) PROVE IsSeq(tables'[T])
    <3>1. CASE T = c.type
      <4>1. tables'[T] = Changed(tables[T], c.from, c.to) BY <1>2, <1>3, <3>1
      <4> QED BY <1>3, <4>1, ChangedFacts
    <3>2. CASE T # c.type BY <1>2, <1>3, <3>2
    <3> QED BY <3>1, <3>2
  <2> QED BY <2>1, <2>2 DEF TablesOk
<1>5. EverOk(s, tables', ever')
  <2>1. DOMAIN ever = TypeNames(s) BY <1>1 DEF EverOk
  <2> QED BY <1>2, <2>1 DEF EverOk
<1> QED BY <1>1, <1>2, <1>4, <1>5 DEF Shape, ShapeOk

LEMMA ShapeInit == Init => Shape
<1> SUFFICES ASSUME Init PROVE Shape OBVIOUS
<1>1. /\ setup \in DOMAIN Scenarios /\ tables = Given.rows
      /\ ever = [T \in DOMAIN Given.rows |-> Range(Given.rows[T])]
      /\ heap = <<>> /\ todo = <<>> /\ result = Nothing /\ answer = Nothing
  BY DEF Init
<1>2. ScenarioOk(setup) BY <1>1, ScenarioFacts
<1>3. TypeNames(setup) = DOMAIN Given.model BY DEF TypeNames, Given
<1>4. DOMAIN Given.rows = DOMAIN Given.model
      /\ \A T \in DOMAIN Given.model : Given.rows[T] \in Seq(Range(Given.rows[T]))
  BY <1>2 DEF ScenarioOk, Given
<1>5. TablesOk(setup, tables) BY <1>1, <1>3, <1>4 DEF TablesOk, IsSeq
<1>6. EverOk(setup, tables, ever) BY <1>1, <1>3, <1>4 DEF EverOk
<1>7. HeapOk(setup, heap) BY <1>1, EmptyIsSeq DEF HeapOk
<1>8. TodoOk(setup, heap, todo, result, answer) BY <1>1 DEF TodoOk
<1> QED BY <1>1, <1>5, <1>6, <1>7, <1>8 DEF Shape, ShapeOk

\* Tables, entities and tasks keep their shape: every container is a sequence
\* of entities of the related type, and every task of a call is about objects
\* of one type that have the navigation.
THEOREM ShapeIsKept == Spec => []Shape
<1>1. Init => Shape BY ShapeInit
<1>2. Shape /\ [Next]_vars => Shape'
  <2> SUFFICES ASSUME Shape, [Next]_vars PROVE Shape' OBVIOUS
  <2>1. CASE UNCHANGED vars BY <2>1 DEF vars, Shape
  <2>2. ASSUME NEW q \in Given.queries, ToList(q) PROVE Shape' BY <2>2, ShapeToList
  <2>3. CASE LoadScalar \/ LoadRelated \/ LoadJoin BY <2>3, ShapeLoad
  <2>4. CASE Restore BY <2>4, ShapeRestore
  <2>5. CASE LazyRelated BY <2>5, ShapeLazyRelated
  <2>6. CASE Caller BY <2>6, ShapeCaller
  <2>7. ASSUME NEW c \in Given.changes, Write(c) PROVE Shape' BY <2>7, ShapeWrite
  <2> QED BY <2>1, <2>2, <2>3, <2>4, <2>5, <2>6, <2>7 DEF Next
<1> QED BY <1>1, <1>2, PTL DEF Spec

(***************************************************************************)
(* What a step does to the entities.                                       *)
(***************************************************************************)

\* e has been read from a row that the filters show.
FromShown(e) ==
    \E R \in TypeNames(setup) : \E i \in DOMAIN tables[R] :
        /\ e.type = R /\ e.read = from_row(Struct(R), Values(R, tables[R][i]))
        /\ Visible(R, tables[R][i])

\* Nothing happens to the entities, and what is to be done changes only when
\* the rows of a join table have been read.
Waits ==
    /\ UNCHANGED <<heap, result, answer>>
    /\ \/ todo' = todo
       \/ AllEager(setup, heap', todo')
       \/ \E o \in DOMAIN heap : \E nav, ids :
             /\ Loads(o, nav) /\ todo' = <<[do |-> "lazy", at |-> o, nav |-> nav, ids |-> ids]>>

\* A statement of to_list, or what follows it.
LoadsEagerly ==
    /\ answer = Nothing /\ answer' = Nothing /\ result' = result /\ result.query.includes # <<>>
    /\ NoneMine(heap) /\ NoneMine(heap') /\ DOMAIN heap \subseteq DOMAIN heap'
    /\ Keeps(heap, heap') /\ AllEager(setup, heap', todo')
    /\ \A x \in DOMAIN heap' \ DOMAIN heap : FromShown(heap'[x])

LazyNews(h, g, rows, R, d) ==
    \A x \in DOMAIN g \ DOMAIN h :
        /\ ~g[x].mine /\ FromShown(g[x])
        /\ \A nav \in DOMAIN g[x].navs : g[x].navs[nav].ctx # <<>>

\* A load() that fills its container.
LoadsLazily(o, nav) ==
    /\ o \in DOMAIN heap /\ nav \in Navs(setup, heap[o].type) /\ ~heap[o].mine
    /\ result # Nothing /\ result' = result /\ todo' = <<>>
    /\ \/ todo = <<>> /\ Loads(o, nav)
       \/ \E t : todo = <<t>> /\ t.do = "lazy" /\ t.at = o /\ t.nav = nav
    /\ answer' = [at |-> o, nav |-> nav, ok |-> TRUE]
    /\ \E rows, d :
          /\ FillsOne(heap, heap', o, nav, Related(setup, heap[o].type, nav), rows, d)
          /\ LazyNews(heap, heap', rows, Related(setup, heap[o].type, nav), d)

\* A load() that does nothing.
LoadsNothing(o, nav) ==
    /\ o \in DOMAIN heap /\ nav \in Navs(setup, heap[o].type) /\ ~heap[o].mine
    /\ result # Nothing /\ UNCHANGED <<heap, result, todo>>
    /\ LoadNoop(o, nav) \/ answer' = [at |-> o, nav |-> nav, ok |-> FALSE]

Extends(o, nav) ==
    /\ o \in DOMAIN heap /\ nav \in Navs(setup, heap[o].type) /\ ~heap[o].mine
    /\ todo = <<>> /\ result # Nothing /\ UNCHANGED <<result, todo, answer>> /\ Add(o, nav)
    /\ \E e : /\ Adds(heap, heap', o, nav, e)
              /\ Fresh(setup, e) /\ e.mine /\ e.type = Related(setup, heap[o].type, nav)
              /\ \A x \in Navs(setup, e.type) : e.navs[x] = NoContainer

Edits ==
    /\ todo = <<>> /\ result # Nothing /\ UNCHANGED <<result, todo, answer>>
    /\ \E o \in DOMAIN heap : \E e \in Given.edits : Edit(o, e.field, e.value)
    /\ DOMAIN heap' = DOMAIN heap
    /\ \A x \in DOMAIN heap :
          /\ heap'[x].read = heap[x].read /\ heap'[x].mine = heap[x].mine
          /\ heap'[x].navs = heap[x].navs /\ heap'[x].type = heap[x].type

LEMMA NewsOfFill ==
  ASSUME setup \in DOMAIN Scenarios, TablesOk(setup, tables), HeapOk(setup, heap),
         NEW o \in DOMAIN heap, NEW nav \in Navs(setup, heap[o].type),
         NEW column, NEW keys, NEW rows, NEW d, NEW g,
         RowsWith(Related(setup, heap[o].type, nav), column, keys, rows),
         FillsOne(heap, g, o, nav, Related(setup, heap[o].type, nav), rows, d)
  PROVE  LazyNews(heap, g, rows, Related(setup, heap[o].type, nav), d)
<1> DEFINE R == Related(setup, heap[o].type, nav)
<1>1. R \in TypeNames(setup) BY ScenarioFacts DEF HeapOk, OkIn, EntityOk
<1> SUFFICES ASSUME NEW x \in DOMAIN g \ DOMAIN heap
             PROVE  /\ ~g[x].mine /\ FromShown(g[x])
                    /\ \A y \in DOMAIN g[x].navs : g[x].navs[y].ctx # <<>>
  BY DEF LazyNews
<1>2. PICK j \in DOMAIN rows : g[x] = Attached(Entity(R, from_row(Struct(R), rows[j])), d)
  BY DEF FillsOne
<1>3. PICK i \in DOMAIN tables[R] : rows[j] = Values(R, tables[R][i]) /\ Visible(R, tables[R][i])
  BY DEF RowsWith
<1> DEFINE v == from_row(Struct(R), rows[j])
<1>4. v = from_row(Struct(R), Values(R, tables[R][i])) BY <1>3
<1> HIDE DEF v, R
<1>5. g[x] = Attached(Entity(R, v), d) BY <1>2 DEF v
<1>6. /\ Fresh(setup, Entity(R, v)) /\ Entity(R, v).type = R /\ Entity(R, v).read = v
      /\ ~Entity(R, v).mine
  <2>1. Fresh(setup, Entity(R, v)) BY <1>1, EntityFacts
  <2>2. Entity(R, v).type = R /\ Entity(R, v).read = v /\ ~Entity(R, v).mine BY <1>1, EntityIs
  <2> QED BY <2>1, <2>2
<1>7. /\ Fresh(setup, g[x]) /\ g[x].type = R /\ g[x].read = v /\ ~g[x].mine
      /\ \A y \in Navs(setup, R) : g[x].navs[y].ctx = <<[snapshot |-> Entity(R, v).values, depth |-> d]>>
  BY <1>5, <1>6, AttachedFacts
<1>8. DOMAIN g[x].navs = Navs(setup, R) BY <1>7 DEF Fresh, EntityOk
<1>9. FromShown(g[x]) BY <1>1, <1>3, <1>4, <1>7 DEF FromShown
<1>10. \A y \in DOMAIN g[x].navs : g[x].navs[y].ctx # <<>>
  <2> SUFFICES ASSUME NEW y \in Navs(setup, R) PROVE g[x].navs[y].ctx # <<>> BY <1>8
  <2>1. g[x].navs[y].ctx = <<[snapshot |-> Entity(R, v).values, depth |-> d]>> BY <1>7
  <2> QED BY <2>1
<1> QED BY <1>7, <1>9, <1>10

\* The step of a caller.
LEMMA CallerSteps ==
  ASSUME Shape, Caller
  PROVE  \/ Waits \/ Edits
         \/ \E o, nav : LoadsLazily(o, nav) \/ LoadsNothing(o, nav) \/ Extends(o, nav)
<1>1. /\ setup \in DOMAIN Scenarios /\ TablesOk(setup, tables) /\ HeapOk(setup, heap)
  BY DEF Shape, ShapeOk
<1>2. PICK o \in DOMAIN heap :
        /\ Idle /\ ~heap[o].mine
        /\ \/ \E nav \in DOMAIN heap[o].navs :
                 \/ LoadNoop(o, nav) \/ TooDeep(o, nav)
                 \/ LazyScalar(o, nav) \/ LazyJoin(o, nav) \/ Add(o, nav)
           \/ \E e \in Given.edits : heap[o].type = e.type /\ Edit(o, e.field, e.value)
  BY DEF Caller
<1>3. todo = <<>> /\ result # Nothing BY <1>2 DEF Idle
<1>4. DOMAIN heap[o].navs = Navs(setup, heap[o].type) BY <1>1 DEF HeapOk, OkIn, EntityOk
<1>5. ASSUME NEW nav \in DOMAIN heap[o].navs, LoadNoop(o, nav) \/ TooDeep(o, nav)
      PROVE  LoadsNothing(o, nav)
  <2>1. CASE LoadNoop(o, nav) BY <1>2, <1>3, <1>4, <2>1 DEF LoadNoop, LoadsNothing
  <2>2. CASE TooDeep(o, nav) BY <1>2, <1>3, <1>4, <2>2 DEF TooDeep, Answer, LoadsNothing
  <2> QED BY <1>5, <2>1, <2>2
<1>6. ASSUME NEW nav \in DOMAIN heap[o].navs, NEW column, NEW keys, NEW rows,
             RowsWith(Related(setup, heap[o].type, nav), column, keys, rows),
             Filled(o, nav, rows), Loads(o, nav), UNCHANGED <<todo, result>>
      PROVE  LoadsLazily(o, nav)
  <2> DEFINE d == heap[o].navs[nav].ctx[1].depth + 1
  <2>1. IsSeq(rows) BY <1>6 DEF RowsWith
  <2>2. /\ FillsOne(heap, heap', o, nav, Related(setup, heap[o].type, nav), rows, d)
        /\ answer' = [at |-> o, nav |-> nav, ok |-> TRUE]
    BY <1>1, <1>4, <1>6, <2>1, FilledFacts
  <2> HIDE DEF d
  <2>3. LazyNews(heap, heap', rows, Related(setup, heap[o].type, nav), d)
    BY <1>1, <1>4, <1>6, <2>2, NewsOfFill
  <2> QED BY <1>2, <1>3, <1>4, <1>6, <2>2, <2>3 DEF LoadsLazily
<1>7. ASSUME NEW nav \in DOMAIN heap[o].navs, LazyScalar(o, nav)
      PROVE  LoadsLazily(o, nav) \/ LoadsNothing(o, nav)
  <2>1. Loads(o, nav) /\ UNCHANGED <<todo, result>> BY <1>4, <1>7, LazyScalarFacts
  <2>2. \/ heap' = heap /\ answer' = [at |-> o, nav |-> nav, ok |-> FALSE]
        \/ \E rows :
              /\ RowsWith(Related(setup, heap[o].type, nav), LazyColumn(Meta(heap[o].type, nav)),
                          LazyKeys(o, Meta(heap[o].type, nav), nav), rows)
              /\ Filled(o, nav, rows)
    BY <1>4, <1>7, LazyScalarFacts
  <2>3. CASE heap' = heap /\ answer' = [at |-> o, nav |-> nav, ok |-> FALSE]
    BY <1>2, <1>3, <1>4, <2>1, <2>3 DEF LoadsNothing
  <2> QED BY <1>6, <2>1, <2>2, <2>3
<1>8. ASSUME NEW nav \in DOMAIN heap[o].navs, LazyJoin(o, nav)
      PROVE  LoadsLazily(o, nav) \/ Waits
  <2>1. Loads(o, nav) /\ UNCHANGED result BY <1>4, <1>8, LazyJoinFacts
  <2>2. \/ Filled(o, nav, <<>>) /\ UNCHANGED todo
        \/ \E ids : /\ todo' = <<[do |-> "lazy", at |-> o, nav |-> nav, ids |-> ids]>>
                    /\ UNCHANGED <<heap, answer>>
    BY <1>4, <1>8, LazyJoinFacts
  <2>3. CASE Filled(o, nav, <<>>) /\ UNCHANGED todo
    <3>1. RowsWith(Related(setup, heap[o].type, nav), "id", {}, <<>>) BY EmptyIsSeq DEF RowsWith
    <3> QED BY <1>6, <2>1, <2>3, <3>1
  <2>4. CASE \E ids : /\ todo' = <<[do |-> "lazy", at |-> o, nav |-> nav, ids |-> ids]>>
                      /\ UNCHANGED <<heap, answer>>
    BY <2>1, <2>4 DEF Waits
  <2> QED BY <2>2, <2>3, <2>4
<1>9. ASSUME NEW nav \in DOMAIN heap[o].navs, Add(o, nav)
      PROVE  Extends(o, nav)
  <2>1. \E e : /\ Adds(heap, heap', o, nav, e)
               /\ Fresh(setup, e) /\ e.mine /\ e.type = Related(setup, heap[o].type, nav)
               /\ \A x \in Navs(setup, e.type) : e.navs[x] = NoContainer
    BY <1>1, <1>4, <1>9, AddFacts
  <2>2. UNCHANGED <<result, todo, answer>> BY <1>9 DEF Add
  <2> QED BY <1>2, <1>3, <1>4, <1>9, <2>1, <2>2 DEF Extends
<1>10. ASSUME NEW e \in Given.edits, Edit(o, e.field, e.value)
       PROVE  Edits
  <2>1. /\ DOMAIN heap' = DOMAIN heap
        /\ \A x \in DOMAIN heap :
              /\ heap'[x].read = heap[x].read /\ heap'[x].mine = heap[x].mine
              /\ heap'[x].navs = heap[x].navs /\ heap'[x].type = heap[x].type
    BY <1>1, <1>10, EditFacts
  <2>2. UNCHANGED <<result, todo, answer>> BY <1>10 DEF Edit
  <2> QED BY <1>3, <1>10, <2>1, <2>2 DEF Edits
<1> QED BY <1>2, <1>5, <1>7, <1>8, <1>9, <1>10

LEMMA EagerSteps ==
  ASSUME Shape, LoadScalar \/ LoadRelated \/ LoadJoin
  PROVE  Waits \/ LoadsEagerly
<1> DEFINE t == Head(todo)
<1>1. setup \in DOMAIN Scenarios /\ TablesOk(setup, tables) /\ HeapOk(setup, heap)
  BY DEF Shape, ShapeOk
<1>2. todo # <<>> /\ t.do \in {"load", "related"} BY DEF LoadScalar, LoadRelated, LoadJoin, Doing
<1>3. t.do # "lazy" BY <1>2
<1>4. /\ EagerOk(setup, heap, t) /\ NoneMine(heap) /\ answer = Nothing
      /\ result.query.includes # <<>>
  BY <1>2, <1>3, EagerTodo
<1>5. OfType(setup, heap, t, TypeOf(t)) BY <1>4, TypeOfTask DEF EagerOk
<1> HIDE DEF t
<1>6. t = Head(todo) BY DEF t
<1>7. ASSUME NEW h, StepsTo(setup, heap, h), NoneMine(h), GoOn(h, t),
             \A x \in DOMAIN h \ DOMAIN heap : FromShown(h[x])
      PROVE  LoadsEagerly
  <2>1. UNCHANGED <<result, answer>> BY <1>7 DEF GoOn
  <2>2. /\ HeapOk(setup, h) /\ NoneMine(heap') /\ AllEager(setup, heap', todo')
        /\ StepsTo(setup, h, heap') /\ DOMAIN heap' = DOMAIN h
    BY <1>2, <1>6, <1>7, GoOnFacts
  <2>3. Keeps(heap, h) /\ Keeps(h, heap') BY <1>1, <1>7, <2>2, StepsKeep
  <2>4. DOMAIN heap \subseteq DOMAIN h BY <1>7 DEF StepsTo
  <2>5. Keeps(heap, heap') BY <2>3, <2>4 DEF Keeps
  <2>6. \A x \in DOMAIN heap' \ DOMAIN heap : FromShown(heap'[x])
    <3> SUFFICES ASSUME NEW x \in DOMAIN heap' \ DOMAIN heap PROVE FromShown(heap'[x]) OBVIOUS
    <3>1. heap'[x].type = h[x].type /\ heap'[x].read = h[x].read BY <2>2, <2>3 DEF Keeps
    <3>2. FromShown(h[x]) BY <1>7, <2>2
    <3> QED BY <3>1, <3>2 DEF FromShown
  <2> QED BY <1>4, <2>1, <2>2, <2>4, <2>5, <2>6 DEF LoadsEagerly
<1>8. CASE LoadScalar \/ LoadRelated
  <2> DEFINE R == Related(setup, TypeOf(t), t.nav)
  <2>1. PICK rows, h :
           /\ AllFound(t, Meta(TypeOf(t), t.nav), R, rows)
           /\ FillsAll(heap, h, t.objs, t.nav, R, rows)
           /\ GoOn(h, t)
    BY <1>6, <1>8, LoadFacts
  <2>2. TypeOf(t) \in TypeNames(setup) /\ Typed(heap, TypeOf(t), t.objs)
        /\ t.nav \in Navs(setup, TypeOf(t))
    BY <1>5 DEF OfType, About
  <2>3. StepsTo(setup, heap, h) BY <1>1, <2>1, <2>2, FillsAllSteps
  <2>4. NoneMine(h) BY <1>1, <1>4, <2>1, <2>2, FillsAllMine
  <2>5. R \in TypeNames(setup) BY <1>1, <2>2, ScenarioFacts
  <2> HIDE DEF R
  <2>6. ASSUME NEW x \in DOMAIN h \ DOMAIN heap PROVE FromShown(h[x])
    <3>1. PICK k \in DOMAIN rows : \E j \in DOMAIN rows[k] :
             h[x] = Entity(R, from_row(Struct(R), rows[k][j]))
      BY <2>1 DEF FillsAll
    <3>2. PICK j \in DOMAIN rows[k] : h[x] = Entity(R, from_row(Struct(R), rows[k][j])) BY <3>1
    <3>3. PICK i \in DOMAIN tables[R] :
             rows[k][j] = Values(R, tables[R][i]) /\ Visible(R, tables[R][i])
      BY <2>1 DEF AllFound
    <3> DEFINE v == from_row(Struct(R), rows[k][j])
    <3>4. v = from_row(Struct(R), Values(R, tables[R][i])) BY <3>3
    <3>5. h[x] = Entity(R, v) BY <3>2
    <3> HIDE DEF v
    <3>6. Entity(R, v).type = R /\ Entity(R, v).read = v BY <2>5, EntityIs
    <3>7. h[x].type = R /\ h[x].read = v BY <3>5, <3>6
    <3> QED BY <2>5, <3>3, <3>4, <3>7 DEF FromShown
  <2> QED BY <1>7, <2>1, <2>3, <2>4, <2>6
<1>9. CASE LoadJoin
  <2>1. \/ GoOn(heap, t)
        \/ /\ AllEager(setup, heap, todo')
           /\ UNCHANGED <<setup, tables, ever, heap, result, answer, writes, uses>>
    BY <1>6, <1>9, LoadJoinFacts
  <2>2. StepsTo(setup, heap, heap)
    <3>1. IsSeq(heap) BY <1>1 DEF HeapOk
    <3> QED BY <3>1 DEF StepsTo
  <2>3. CASE GoOn(heap, t) BY <1>4, <1>7, <2>2, <2>3
  <2>4. CASE /\ AllEager(setup, heap, todo')
             /\ UNCHANGED <<setup, tables, ever, heap, result, answer, writes, uses>>
    BY <2>4 DEF Waits
  <2> QED BY <2>1, <2>3, <2>4
<1> QED BY <1>8, <1>9

LEMMA CallerKeeps ==
  ASSUME Caller
  PROVE  setup' = setup /\ ever' = ever
<1> DEFINE same == UNCHANGED <<setup, tables, ever, result, writes>>
<1>1. \A o, nav : LoadNoop(o, nav) => same BY DEF LoadNoop
<1>2. \A o, nav : TooDeep(o, nav) => same BY DEF TooDeep
<1>3. ASSUME NEW o, NEW nav, LazyScalar(o, nav) PROVE same
  <2>1. UNCHANGED <<setup, tables, ever, todo, result, writes>> BY <1>3, Zenon DEF LazyScalar
  <2> QED BY <2>1
<1>4. ASSUME NEW o, NEW nav, LazyJoin(o, nav) PROVE same
  <2>1. UNCHANGED <<setup, tables, ever, result, writes>> BY <1>4, Zenon DEF LazyJoin
  <2> QED BY <2>1
<1>5. ASSUME NEW o, NEW nav, Add(o, nav) PROVE same
  <2>1. UNCHANGED <<setup, tables, ever, todo, result, answer, writes>> BY <1>5, Zenon DEF Add
  <2> QED BY <2>1
<1>6. ASSUME NEW o, NEW name, NEW v, Edit(o, name, v) PROVE same
  <2>1. UNCHANGED <<setup, tables, ever, todo, result, answer, writes>> BY <1>6, Zenon DEF Edit
  <2> QED BY <2>1
<1>7. ~same \/ (setup' = setup /\ ever' = ever) OBVIOUS
<1> HIDE DEF same
<1> QED BY <1>1, <1>2, <1>3, <1>4, <1>5, <1>6, <1>7 DEF Caller

\* Every step is of one of these kinds.
LEMMA Steps ==
  ASSUME Shape, [Next]_vars
  PROVE  /\ setup' = setup
         /\ \/ Waits \/ Edits \/ LoadsEagerly
            \/ \E q \in Given.queries : ToList(q)
            \/ \E o, nav : LoadsLazily(o, nav) \/ LoadsNothing(o, nav) \/ Extends(o, nav)
<1>1. setup \in DOMAIN Scenarios /\ TablesOk(setup, tables) /\ HeapOk(setup, heap)
  BY DEF Shape, ShapeOk
<1>2. CASE UNCHANGED vars BY <1>2 DEF vars, Waits
<1>3. ASSUME NEW q \in Given.queries, ToList(q)
      PROVE  setup' = setup
  BY <1>3 DEF ToList
<1>4. CASE LoadScalar \/ LoadRelated \/ LoadJoin
  <2>1. Waits \/ LoadsEagerly BY <1>4, EagerSteps
  <2>2. setup' = setup BY <1>4 DEF LoadScalar, LoadRelated, LoadJoin, GoOn
  <2> QED BY <2>1, <2>2
<1>5. CASE Restore
  <2> DEFINE t == Head(todo)
  <2>1. /\ NoneMine(heap) /\ answer = Nothing /\ result.query.includes # <<>>
        /\ AllEager(setup, heap, Tail(todo)) /\ todo' = Tail(todo)
        /\ StepsTo(setup, heap, heap') /\ DOMAIN heap' = DOMAIN heap
        /\ UNCHANGED <<setup, tables, ever, result, answer, writes, uses>>
    BY <1>5, RestoreFacts
  <2>2. Grows(heap, heap') /\ Keeps(heap, heap') BY <1>1, <2>1, HeapStep, StepsKeep
  <2>3. AllEager(setup, heap', todo') BY <2>1, <2>2, EagerGrows
  <2>4. NoneMine(heap') BY <2>1, <2>2 DEF NoneMine, Keeps
  <2> QED BY <2>1, <2>2, <2>3, <2>4 DEF LoadsEagerly
<1>6. CASE LazyRelated
  <2> DEFINE t == Head(todo)
             R == Related(setup, heap[t.at].type, t.nav)
             d == heap[t.at].navs[t.nav].ctx[1].depth + 1
  <2>1. /\ LazyOk(setup, heap, t) /\ todo' = <<>> /\ result # Nothing /\ todo = <<t>>
        /\ UNCHANGED <<setup, tables, ever, result, writes, uses>>
    BY <1>6, LazyRelatedFacts
  <2>2. PICK rows : RowsWith(R, Meta(heap[t.at].type, t.nav).ref_column, t.ids, rows)
                    /\ Filled(t.at, t.nav, rows)
    BY <1>6, LazyRelatedFacts
  <2> HIDE DEF t
  <2>3. /\ t.do = "lazy" /\ t.at \in DOMAIN heap /\ t.nav \in Navs(setup, heap[t.at].type)
        /\ ~heap[t.at].mine
    BY <2>1 DEF LazyOk
  <2>4. IsSeq(rows) BY <2>2 DEF RowsWith
  <2>5. /\ FillsOne(heap, heap', t.at, t.nav, R, rows, d)
        /\ answer' = [at |-> t.at, nav |-> t.nav, ok |-> TRUE]
    BY <1>1, <2>2, <2>3, <2>4, FilledFacts
  <2> HIDE DEF d
  <2>6. LazyNews(heap, heap', rows, R, d) BY <1>1, <2>2, <2>3, <2>5, NewsOfFill
  <2>7. LoadsLazily(t.at, t.nav) BY <2>1, <2>3, <2>5, <2>6 DEF LoadsLazily, R
  <2> QED BY <2>1, <2>7
<1>7. CASE Caller
  <2>1. setup' = setup BY <1>7, CallerKeeps
  <2> QED BY <1>7, <2>1, CallerSteps
<1>8. ASSUME NEW c \in Given.changes, Write(c) PROVE setup' = setup /\ Waits
  BY <1>8 DEF Write, Waits
<1> QED BY <1>2, <1>3, <1>4, <1>5, <1>6, <1>7, <1>8 DEF Next

(***************************************************************************)
(* A load() that returned Ok has loaded.                                   *)
(***************************************************************************)

\* load() beside an include, whose containers have no context to load with.
BesideInclude == Used("lazy beside include")

\* The last answer is true of the container it is about ...
AnswerHolds(an, h) ==
    an # Nothing =>
        /\ an.at \in DOMAIN h /\ an.nav \in Navs(setup, h[an.at].type)
        /\ Given.lazy /\ an.ok => h[an.at].navs[an.nav].loaded

\* ... and without includes every container has a context to load with.
HasContexts(rs, h) ==
    rs # Nothing /\ Given.lazy /\ rs.query.includes = <<>> =>
        \A o \in DOMAIN h : ~h[o].mine =>
            \A nav \in Navs(setup, h[o].type) : h[o].navs[nav].ctx # <<>>

LoadInv == AnswerHolds(answer, heap) /\ HasContexts(result, heap)

\* What an entity keeps while another of its containers, or its own, changes.
Replaces(h, g, o, nav, c) ==
    /\ ContainerOk(c) /\ g[o] = Put(h[o], nav, c)
    /\ DOMAIN h \subseteq DOMAIN g /\ \A x \in DOMAIN h : x # o => g[x] = h[x]

Replaced(h, g, o, nav, c) ==
    /\ Keeps(h, g) /\ DOMAIN h \subseteq DOMAIN g /\ g[o].navs[nav] = c
    /\ \A x \in DOMAIN h : \A y \in Navs(setup, h[x].type) :
          x # o \/ y # nav => g[x].navs[y] = h[x].navs[y]

LEMMA FillOf ==
  ASSUME Shape, NEW o \in DOMAIN heap, NEW nav \in Navs(setup, heap[o].type), NEW g, NEW c,
         Replaces(heap, g, o, nav, c)
  PROVE  Replaced(heap, g, o, nav, c)
<1>1. HeapOk(setup, heap) BY DEF Shape, ShapeOk
<1>2. EntityOk(setup, heap[o]) BY <1>1 DEF HeapOk, OkIn
<1>3. /\ g[o].type = heap[o].type /\ g[o].values = heap[o].values
      /\ g[o].read = heap[o].read /\ g[o].mine = heap[o].mine
      /\ g[o].navs[nav] = c
      /\ \A y \in Navs(setup, heap[o].type) : y # nav => g[o].navs[y] = heap[o].navs[y]
  BY <1>2, PutFacts DEF Replaces
<1>4. Keeps(heap, g) BY <1>3 DEF Keeps, Replaces
<1> QED BY <1>3, <1>4 DEF Replaces, Replaced

LEMMA ReadByContexts ==
  ASSUME NEW q, q.type \in TypeNames(setup), NEW e, NEW row, ReadBy(e, q, row),
         Given.lazy, q.includes = <<>>
  PROVE  /\ e.type = q.type
         /\ \A y \in Navs(setup, q.type) : e.navs[y].ctx # <<>>
<1>1. e.type = q.type BY ReadByFacts
<1>2. ASSUME NEW y \in Navs(setup, q.type) PROVE e.navs[y].ctx # <<>>
  <2>1. e.navs[y].ctx = CtxRead(q, e.values) BY ReadByFacts
  <2>2. e.navs[y].ctx = <<[snapshot |-> e.values, depth |-> 0]>> BY <2>1 DEF CtxRead
  <2> QED BY <2>2
<1> QED BY <1>1, <1>2

LEMMA ToListContexts ==
  ASSUME Shape, NEW q \in Given.queries, ToList(q)
  PROVE  HasContexts(result', heap')
<1>1. setup \in DOMAIN Scenarios /\ TablesOk(setup, tables) BY DEF Shape, ShapeOk
<1>2. /\ q.type \in TypeNames(setup) /\ result'.query = q
      /\ \A o \in DOMAIN heap' : \E row : ReadBy(heap'[o], q, row)
  BY <1>1, ToListFacts
<1> SUFFICES ASSUME Given.lazy, q.includes = <<>>, NEW o \in DOMAIN heap',
                    NEW nav \in Navs(setup, heap'[o].type)
             PROVE  heap'[o].navs[nav].ctx # <<>>
  BY <1>2 DEF HasContexts
<1>3. PICK row : ReadBy(heap'[o], q, row) BY <1>2
<1> DEFINE e == heap'[o]
<1>4. ReadBy(e, q, row) BY <1>3
<1> HIDE DEF e
<1>5. e.type = q.type /\ \A y \in Navs(setup, q.type) : e.navs[y].ctx # <<>>
  BY <1>2, <1>4, ReadByContexts
<1> QED BY <1>5 DEF e

LEMMA LoadInvFills ==
  ASSUME Shape, LoadInv, setup' = setup, NEW o, NEW nav, LoadsLazily(o, nav)
  PROVE  LoadInv'
<1>1. /\ o \in DOMAIN heap /\ nav \in Navs(setup, heap[o].type) /\ result' = result
      /\ answer' = [at |-> o, nav |-> nav, ok |-> TRUE]
  BY DEF LoadsLazily
<1>2. PICK rows, d : /\ FillsOne(heap, heap', o, nav, Related(setup, heap[o].type, nav), rows, d)
                     /\ LazyNews(heap, heap', rows, Related(setup, heap[o].type, nav), d)
  BY DEF LoadsLazily
<1>3. PICK c : /\ heap'[o] = Put(heap[o], nav, c) /\ ContainerOk(c) /\ c.loaded = TRUE
               /\ c.ctx = heap[o].navs[nav].ctx
  BY <1>2 DEF FillsOne
<1>4. DOMAIN heap \subseteq DOMAIN heap' /\ \A x \in DOMAIN heap : x # o => heap'[x] = heap[x]
  BY <1>2 DEF FillsOne
<1>5. /\ Keeps(heap, heap') /\ heap'[o].navs[nav] = c
      /\ \A x \in DOMAIN heap : \A y \in Navs(setup, heap[x].type) :
            x # o \/ y # nav => heap'[x].navs[y] = heap[x].navs[y]
  <2>1. Replaces(heap, heap', o, nav, c) BY <1>3, <1>4 DEF Replaces
  <2>2. Replaced(heap, heap', o, nav, c) BY <1>1, <2>1, FillOf
  <2> QED BY <2>2 DEF Replaced
<1>6. AnswerHolds(answer', heap')
  <2>1. answer'.at = o /\ answer'.nav = nav BY <1>1
  <2>2. o \in DOMAIN heap' /\ heap'[o].type = heap[o].type BY <1>1, <1>4, <1>5 DEF Keeps
  <2> QED BY <1>1, <1>3, <1>5, <2>1, <2>2 DEF AnswerHolds
<1>7. HasContexts(result', heap')
  <2> SUFFICES ASSUME result # Nothing, Given.lazy, result.query.includes = <<>>,
                      NEW x \in DOMAIN heap', ~heap'[x].mine, NEW y \in Navs(setup, heap'[x].type)
               PROVE  heap'[x].navs[y].ctx # <<>>
    BY <1>1 DEF HasContexts
  <2>1. CASE x \in DOMAIN heap
    <3>1. heap'[x].type = heap[x].type /\ ~heap[x].mine BY <1>5, <2>1 DEF Keeps
    <3>2. heap[x].navs[y].ctx # <<>> BY <2>1, <3>1 DEF LoadInv, HasContexts
    <3> QED BY <1>1, <1>3, <1>5, <2>1, <3>1, <3>2
  <2>2. CASE x \notin DOMAIN heap
    <3>1. \A z \in DOMAIN heap'[x].navs : heap'[x].navs[z].ctx # <<>> BY <1>2, <2>2 DEF LazyNews
    <3>2. Fresh(setup, heap'[x])
      <4>1. StepsTo(setup, heap, heap')
        BY <1>1, <1>2, FillsOneSteps DEF Shape, ShapeOk
      <4> QED BY <2>2, <4>1 DEF StepsTo
    <3>3. DOMAIN heap'[x].navs = Navs(setup, heap'[x].type) BY <3>2 DEF Fresh, EntityOk
    <3> QED BY <3>1, <3>3
  <2> QED BY <2>1, <2>2
<1> QED BY <1>6, <1>7 DEF LoadInv, AnswerHolds, HasContexts, Given

LEMMA LoadInvAdds ==
  ASSUME Shape, LoadInv, setup' = setup, NEW o, NEW nav, Extends(o, nav)
  PROVE  LoadInv'
<1>1. /\ o \in DOMAIN heap /\ nav \in Navs(setup, heap[o].type) /\ UNCHANGED <<result, answer>>
  BY DEF Extends
<1>2. PICK e : Adds(heap, heap', o, nav, e) /\ e.mine BY DEF Extends
<1>3. PICK c : /\ heap'[o] = Put(heap[o], nav, c) /\ ContainerOk(c)
               /\ c.loaded = heap[o].navs[nav].loaded /\ c.ctx = heap[o].navs[nav].ctx
  BY <1>2 DEF Adds
<1>4. /\ DOMAIN heap \subseteq DOMAIN heap' /\ \A x \in DOMAIN heap : x # o => heap'[x] = heap[x]
      /\ \A x \in DOMAIN heap' : x \in DOMAIN heap \/ heap'[x] = e
  BY <1>2 DEF Adds
<1>5. /\ Keeps(heap, heap') /\ heap'[o].navs[nav] = c
      /\ \A x \in DOMAIN heap : \A y \in Navs(setup, heap[x].type) :
            x # o \/ y # nav => heap'[x].navs[y] = heap[x].navs[y]
  <2>1. Replaces(heap, heap', o, nav, c) BY <1>3, <1>4 DEF Replaces
  <2>2. Replaced(heap, heap', o, nav, c) BY <1>1, <2>1, FillOf
  <2> QED BY <2>2 DEF Replaced
<1>6. \A x \in DOMAIN heap : \A y \in Navs(setup, heap[x].type) :
         /\ heap'[x].navs[y].ctx = heap[x].navs[y].ctx
         /\ heap'[x].navs[y].loaded = heap[x].navs[y].loaded
  BY <1>3, <1>5
<1>7. AnswerHolds(answer, heap') BY <1>4, <1>5, <1>6 DEF LoadInv, AnswerHolds, Keeps
<1>8. HasContexts(result, heap') BY <1>2, <1>4, <1>5, <1>6 DEF LoadInv, HasContexts, Keeps
<1> QED BY <1>1, <1>7, <1>8 DEF LoadInv, AnswerHolds, HasContexts, Given

LEMMA LoadInvEdits ==
  ASSUME Shape, LoadInv, setup' = setup, Edits
  PROVE  LoadInv'
<1>1. UNCHANGED <<result, answer>> /\ DOMAIN heap' = DOMAIN heap BY DEF Edits
<1>2. \A x \in DOMAIN heap :
         /\ heap'[x].mine = heap[x].mine /\ heap'[x].navs = heap[x].navs
         /\ heap'[x].type = heap[x].type
  BY DEF Edits
<1>3. AnswerHolds(answer, heap') BY <1>1, <1>2 DEF LoadInv, AnswerHolds
<1>4. HasContexts(result, heap') BY <1>1, <1>2 DEF LoadInv, HasContexts
<1> QED BY <1>1, <1>3, <1>4 DEF LoadInv, AnswerHolds, HasContexts, Given

\* After a load() that returned Ok in a context with lazy loading, the
\* container is loaded, whatever the scenario, as long as load() is not called
\* beside an include, whose containers have no context (lazy.rs,
\* navigation_loader.rs).
THEOREM LoadsTakeEffect ==
  ASSUME ~BesideInclude
  PROVE  Spec => []LoadTakesEffect
<1>1. Init => LoadInv BY DEF Init, LoadInv, AnswerHolds, HasContexts
<1>2. Shape /\ LoadInv /\ [Next]_vars => LoadInv'
  <2> SUFFICES ASSUME Shape, LoadInv, [Next]_vars PROVE LoadInv' OBVIOUS
  <2>1. setup' = setup BY Steps
  <2>2. CASE Waits
    BY <2>1, <2>2 DEF Waits, LoadInv, AnswerHolds, HasContexts, Given
  <2>3. CASE Edits BY <2>1, <2>3, LoadInvEdits
  <2>4. CASE LoadsEagerly
    <3>1. answer' = Nothing /\ result' = result /\ result.query.includes # <<>>
      BY <2>4 DEF LoadsEagerly
    <3> QED BY <3>1 DEF LoadInv, AnswerHolds, HasContexts
  <2>5. ASSUME NEW q \in Given.queries, ToList(q) PROVE LoadInv'
    <3>1. answer' = answer /\ result = Nothing BY <2>5 DEF ToList
    <3>2. answer = Nothing BY <3>1 DEF Shape, ShapeOk
    <3>3. HasContexts(result', heap') BY <2>5, ToListContexts
    <3> QED BY <2>1, <3>1, <3>2, <3>3 DEF LoadInv, AnswerHolds, HasContexts, Given
  <2>6. ASSUME NEW o, NEW nav, LoadsLazily(o, nav) PROVE LoadInv'
    BY <2>1, <2>6, LoadInvFills
  <2>7. ASSUME NEW o, NEW nav, LoadsNothing(o, nav) PROVE LoadInv'
    <3>1. /\ o \in DOMAIN heap /\ nav \in Navs(setup, heap[o].type) /\ ~heap[o].mine
          /\ result # Nothing /\ UNCHANGED <<heap, result>>
      BY <2>7 DEF LoadsNothing
    <3>2. HasContexts(result, heap) BY DEF LoadInv
    <3>3. AnswerHolds(answer', heap)
      <4>1. CASE LoadNoop(o, nav)
        <5>1. answer' = [at |-> o, nav |-> nav, ok |-> TRUE] BY <4>1, Zenon DEF LoadNoop, Answer
        <5>2. /\ heap[o].navs[nav].loaded \/ heap[o].navs[nav].ctx = <<>>
              /\ Given.lazy /\ result.query.includes # <<>> => heap[o].navs[nav].loaded
          BY <4>1, Zenon DEF LoadNoop, BesideInclude
        <5>3. Given.lazy => heap[o].navs[nav].loaded BY <3>1, <3>2, <5>2 DEF HasContexts
        <5> QED BY <3>1, <5>1, <5>3 DEF AnswerHolds
      <4>2. CASE answer' = [at |-> o, nav |-> nav, ok |-> FALSE]
        <5>1. answer'.at = o /\ answer'.nav = nav /\ answer'.ok = FALSE BY <4>2
        <5> QED BY <3>1, <5>1 DEF AnswerHolds
      <4> QED BY <2>7, <4>1, <4>2 DEF LoadsNothing
    <3> QED BY <2>1, <3>1, <3>2, <3>3 DEF LoadInv, AnswerHolds, HasContexts, Given
  <2>8. ASSUME NEW o, NEW nav, Extends(o, nav) PROVE LoadInv'
    BY <2>1, <2>8, LoadInvAdds
  <2> QED BY <2>2, <2>3, <2>4, <2>5, <2>6, <2>7, <2>8, Steps
<1>3. Shape /\ LoadInv => LoadTakesEffect
  BY DEF LoadInv, AnswerHolds, LoadTakesEffect, Container
<1>4. Spec => []Shape BY ShapeIsKept
<1> QED BY <1>1, <1>2, <1>3, <1>4, PTL DEF Spec

(***************************************************************************)
(* What the caller has added stays.                                        *)
(***************************************************************************)

Holds(h, i) ==
    \E o \in DOMAIN h : \E nav \in Navs(setup, h[o].type) : i \in Range(h[o].navs[nav].items)

AllHeld(h) == \A i \in DOMAIN h : h[i].mine => Holds(h, i)

\* add() to a collection that load() has still to fill.
AddsEarly == Used("add before load")

LEMMA LoadsEmpty ==
  ASSUME ~AddsEarly, NEW o, NEW nav, Loads(o, nav)
  PROVE  heap[o].navs[nav].items = <<>>
BY Zenon DEF AddsEarly, Loads

\* The container that a load() is about to fill is empty.
EmptyFor(h, td) == \A t : td = <<t>> /\ t.do = "lazy" => h[t.at].navs[t.nav].items = <<>>

AddedInv == AllHeld(heap) /\ EmptyFor(heap, todo)

LEMMA EagerIsEmpty ==
  ASSUME NEW h, NEW td, AllEager(setup, h, td)
  PROVE  \A g : EmptyFor(g, td)
<1> SUFFICES ASSUME NEW g, NEW t, td = <<t>>, t.do = "lazy" PROVE FALSE BY DEF EmptyFor
<1>1. 1 \in DOMAIN td /\ td[1] = t BY SingletonFacts
<1>2. EagerOk(setup, h, t) BY <1>1 DEF AllEager
<1> QED BY <1>2 DEF EagerOk

LEMMA NoneMineHeld ==
  ASSUME NEW h, NoneMine(h)
  PROVE  AllHeld(h)
BY DEF NoneMine, AllHeld

LEMMA AddedToList ==
  ASSUME Shape, NEW q \in Given.queries, ToList(q)
  PROVE  AllHeld(heap') /\ EmptyFor(heap', todo')
<1>1. setup \in DOMAIN Scenarios /\ TablesOk(setup, tables) BY DEF Shape, ShapeOk
<1>2. /\ q.type \in TypeNames(setup) /\ AllEager(setup, heap', todo')
      /\ \A o \in DOMAIN heap' : \E row : ReadBy(heap'[o], q, row)
  BY <1>1, ToListFacts
<1>3. NoneMine(heap') BY <1>2, ReadByFacts DEF NoneMine
<1> QED BY <1>2, <1>3, NoneMineHeld, EagerIsEmpty

LEMMA AddedFills ==
  ASSUME Shape, AddedInv, ~AddsEarly, NEW o, NEW nav, LoadsLazily(o, nav)
  PROVE  AllHeld(heap') /\ EmptyFor(heap', todo')
<1>1. /\ o \in DOMAIN heap /\ nav \in Navs(setup, heap[o].type) /\ todo' = <<>>
  BY DEF LoadsLazily
<1>2. PICK rows, d : /\ FillsOne(heap, heap', o, nav, Related(setup, heap[o].type, nav), rows, d)
                     /\ LazyNews(heap, heap', rows, Related(setup, heap[o].type, nav), d)
  BY DEF LoadsLazily
<1>3. PICK c : heap'[o] = Put(heap[o], nav, c) /\ ContainerOk(c) BY <1>2 DEF FillsOne
<1>4. DOMAIN heap \subseteq DOMAIN heap' /\ \A x \in DOMAIN heap : x # o => heap'[x] = heap[x]
  BY <1>2 DEF FillsOne
<1>5. /\ Keeps(heap, heap')
      /\ \A x \in DOMAIN heap : \A y \in Navs(setup, heap[x].type) :
            x # o \/ y # nav => heap'[x].navs[y] = heap[x].navs[y]
  <2>1. Replaces(heap, heap', o, nav, c) BY <1>3, <1>4 DEF Replaces
  <2>2. Replaced(heap, heap', o, nav, c) BY <1>1, <2>1, FillOf
  <2> QED BY <2>2 DEF Replaced
<1>6. heap[o].navs[nav].items = <<>>
  <2>1. CASE Loads(o, nav) BY <2>1, LoadsEmpty
  <2>2. ASSUME NEW t, todo = <<t>>, t.do = "lazy", t.at = o, t.nav = nav
        PROVE  heap[o].navs[nav].items = <<>>
    BY <2>2 DEF AddedInv, EmptyFor
  <2> QED BY <2>1, <2>2 DEF LoadsLazily
<1>7. Range(heap[o].navs[nav].items) = {} BY <1>6, EmptyIsSeq DEF Range
<1>8. ASSUME NEW i \in DOMAIN heap', heap'[i].mine PROVE Holds(heap', i)
  <2>1. i \in DOMAIN heap BY <1>2, <1>8 DEF LazyNews
  <2>2. heap[i].mine BY <1>5, <1>8, <2>1 DEF Keeps
  <2>3. PICK x \in DOMAIN heap : \E y \in Navs(setup, heap[x].type) :
           i \in Range(heap[x].navs[y].items)
    BY <2>1, <2>2 DEF AddedInv, AllHeld, Holds
  <2>4. PICK y \in Navs(setup, heap[x].type) : i \in Range(heap[x].navs[y].items) BY <2>3
  <2>5. x # o \/ y # nav BY <1>7, <2>4
  <2>6. heap'[x].navs[y] = heap[x].navs[y] BY <1>5, <2>5
  <2>7. x \in DOMAIN heap' /\ y \in Navs(setup, heap'[x].type) BY <1>4, <1>5, <2>4 DEF Keeps
  <2> QED BY <2>4, <2>6, <2>7 DEF Holds
<1> QED BY <1>1, <1>8 DEF AllHeld, EmptyFor

LEMMA AddedExtends ==
  ASSUME Shape, AddedInv, NEW o, NEW nav, Extends(o, nav)
  PROVE  AllHeld(heap') /\ EmptyFor(heap', todo')
<1>1. /\ o \in DOMAIN heap /\ nav \in Navs(setup, heap[o].type) /\ todo' = <<>>
  BY DEF Extends
<1>2. PICK e : Adds(heap, heap', o, nav, e) BY DEF Extends
<1>3. PICK c : /\ heap'[o] = Put(heap[o], nav, c) /\ ContainerOk(c)
               /\ c.items = Append(heap[o].navs[nav].items, Len(heap) + 1)
  BY <1>2 DEF Adds
<1>4. DOMAIN heap \subseteq DOMAIN heap' /\ \A x \in DOMAIN heap : x # o => heap'[x] = heap[x]
  BY <1>2 DEF Adds
<1>9. \A x \in DOMAIN heap' : x \in DOMAIN heap \/ x = Len(heap) + 1
  BY <1>2 DEF Adds
<1>5. /\ Keeps(heap, heap') /\ heap'[o].navs[nav] = c
      /\ \A x \in DOMAIN heap : \A y \in Navs(setup, heap[x].type) :
            x # o \/ y # nav => heap'[x].navs[y] = heap[x].navs[y]
  <2>1. Replaces(heap, heap', o, nav, c) BY <1>3, <1>4 DEF Replaces
  <2>2. Replaced(heap, heap', o, nav, c) BY <1>1, <2>1, FillOf
  <2> QED BY <2>2 DEF Replaced
<1>6. IsSeq(heap[o].navs[nav].items) BY <1>1 DEF Shape, ShapeOk, HeapOk, OkIn, EntityOk, ContainerOk
<1>7. Range(heap[o].navs[nav].items) \subseteq Range(c.items) /\ Len(heap) + 1 \in Range(c.items)
  <2> DEFINE s == heap[o].navs[nav].items
             n == Len(heap) + 1
  <2>1. IsSeq(s) BY <1>6
  <2>2. c.items = Append(s, n) BY <1>3
  <2> HIDE DEF s, n
  <2>3. /\ Len(s) \in Nat /\ DOMAIN s = 1..Len(s) /\ DOMAIN Append(s, n) = 1..(Len(s) + 1)
        /\ \A k \in DOMAIN s : Append(s, n)[k] = s[k]
        /\ Append(s, n)[Len(s) + 1] = n
    BY <2>1, AppendFacts, SeqFacts
  <2>4. Range(s) \subseteq Range(Append(s, n))
    <3> SUFFICES ASSUME NEW k \in DOMAIN s PROVE s[k] \in Range(Append(s, n)) BY DEF Range
    <3>1. k \in DOMAIN Append(s, n) BY <2>3
    <3> QED BY <2>3, <3>1 DEF Range
  <2>5. n \in Range(Append(s, n)) BY <2>3 DEF Range
  <2> QED BY <2>2, <2>4, <2>5 DEF s, n
<1>8. ASSUME NEW i \in DOMAIN heap', heap'[i].mine PROVE Holds(heap', i)
  <2>1. o \in DOMAIN heap' /\ nav \in Navs(setup, heap'[o].type) BY <1>1, <1>4, <1>5 DEF Keeps
  <2>2. CASE i = Len(heap) + 1 BY <1>5, <1>7, <2>1, <2>2 DEF Holds
  <2>3. CASE i \in DOMAIN heap
    <3>1. heap[i].mine BY <1>5, <1>8, <2>3 DEF Keeps
    <3>2. PICK x \in DOMAIN heap : \E y \in Navs(setup, heap[x].type) :
             i \in Range(heap[x].navs[y].items)
      BY <2>3, <3>1 DEF AddedInv, AllHeld, Holds
    <3>3. PICK y \in Navs(setup, heap[x].type) : i \in Range(heap[x].navs[y].items) BY <3>2
    <3>4. x \in DOMAIN heap' /\ y \in Navs(setup, heap'[x].type) BY <1>4, <1>5, <3>3 DEF Keeps
    <3>5. i \in Range(heap'[x].navs[y].items)
      <4>1. CASE x # o \/ y # nav BY <1>5, <3>3, <4>1
      <4>2. CASE x = o /\ y = nav BY <1>5, <1>7, <3>3, <4>2
      <4> QED BY <4>1, <4>2
    <3> QED BY <3>4, <3>5 DEF Holds
  <2> QED BY <1>9, <2>2, <2>3
<1> QED BY <1>1, <1>8 DEF AllHeld, EmptyFor

\* What the caller adds to a collection stays in one, whatever is loaded and
\* changed afterwards, as long as it is added to collections that are loaded or
\* have nothing to load with (relations.rs, HasMany::add and load).
THEOREM AddedStays ==
  ASSUME ~AddsEarly
  PROVE  Spec => []AddedIsKept
<1>1. Init => AddedInv
  <2> SUFFICES ASSUME Init PROVE AddedInv OBVIOUS
  <2>1. heap = <<>> /\ todo = <<>> BY DEF Init
  <2>2. \A t : <<>> # <<t>> OBVIOUS
  <2> QED BY <2>1, <2>2 DEF AddedInv, AllHeld, EmptyFor
<1>2. Shape /\ AddedInv /\ [Next]_vars => AddedInv'
  <2> SUFFICES ASSUME Shape, AddedInv, [Next]_vars PROVE AddedInv' OBVIOUS
  <2>1. setup' = setup BY Steps
  <2>2. SUFFICES AllHeld(heap') /\ EmptyFor(heap', todo')
    BY <2>1 DEF AddedInv, AllHeld, EmptyFor, Holds
  <2>3. CASE Waits
    <3>1. heap' = heap BY <2>3 DEF Waits
    <3>2. CASE todo' = todo BY <3>1, <3>2 DEF AddedInv
    <3>3. CASE AllEager(setup, heap', todo') BY <3>1, <3>3, EagerIsEmpty DEF AddedInv
    <3>4. CASE \E o \in DOMAIN heap : \E nav, ids :
                  Loads(o, nav) /\ todo' = <<[do |-> "lazy", at |-> o, nav |-> nav, ids |-> ids]>>
      <4>1. PICK o \in DOMAIN heap : \E nav, ids :
               Loads(o, nav) /\ todo' = <<[do |-> "lazy", at |-> o, nav |-> nav, ids |-> ids]>>
        BY <3>4
      <4>2. PICK nav, ids :
               Loads(o, nav) /\ todo' = <<[do |-> "lazy", at |-> o, nav |-> nav, ids |-> ids]>>
        BY <4>1
      <4>3. heap[o].navs[nav].items = <<>> BY <4>2, LoadsEmpty
      <4>4. EmptyFor(heap, todo')
        <5> DEFINE u == [do |-> "lazy", at |-> o, nav |-> nav, ids |-> ids]
        <5>1. u.at = o /\ u.nav = nav OBVIOUS
        <5>2. \A t : todo' = <<t>> => t = u BY <4>2
        <5> HIDE DEF u
        <5> QED BY <4>3, <5>1, <5>2 DEF EmptyFor
      <4> QED BY <3>1, <4>4 DEF AddedInv
    <3> QED BY <2>3, <3>2, <3>3, <3>4 DEF Waits
  <2>4. CASE Edits
    <3>1. todo = <<>> /\ todo' = todo /\ DOMAIN heap' = DOMAIN heap BY <2>4 DEF Edits
    <3>2. \A x \in DOMAIN heap :
             /\ heap'[x].mine = heap[x].mine /\ heap'[x].navs = heap[x].navs
             /\ heap'[x].type = heap[x].type
      BY <2>4 DEF Edits
    <3> QED BY <3>1, <3>2 DEF AddedInv, AllHeld, EmptyFor, Holds
  <2>5. CASE LoadsEagerly BY <2>5, NoneMineHeld, EagerIsEmpty DEF LoadsEagerly
  <2>6. ASSUME NEW q \in Given.queries, ToList(q) PROVE AllHeld(heap') /\ EmptyFor(heap', todo')
    BY <2>6, AddedToList
  <2>7. ASSUME NEW o, NEW nav, LoadsLazily(o, nav) PROVE AllHeld(heap') /\ EmptyFor(heap', todo')
    BY <2>7, AddedFills
  <2>8. ASSUME NEW o, NEW nav, LoadsNothing(o, nav) PROVE AllHeld(heap') /\ EmptyFor(heap', todo')
    BY <2>8 DEF LoadsNothing, AddedInv
  <2>9. ASSUME NEW o, NEW nav, Extends(o, nav) PROVE AllHeld(heap') /\ EmptyFor(heap', todo')
    BY <2>9, AddedExtends
  <2> QED BY <2>3, <2>4, <2>5, <2>6, <2>7, <2>8, <2>9, Steps
<1>3. Shape /\ AddedInv => AddedIsKept
  <2> SUFFICES ASSUME Shape, AddedInv, NEW i \in DOMAIN heap, heap[i].mine
               PROVE  \E o \in DOMAIN heap : \E nav \in DOMAIN heap[o].navs :
                         i \in Range(Container(o, nav).items)
    BY DEF AddedIsKept
  <2>1. PICK o \in DOMAIN heap : \E nav \in Navs(setup, heap[o].type) :
           i \in Range(heap[o].navs[nav].items)
    BY DEF AddedInv, AllHeld, Holds
  <2>2. DOMAIN heap[o].navs = Navs(setup, heap[o].type)
    BY DEF Shape, ShapeOk, HeapOk, OkIn, EntityOk
  <2> QED BY <2>1, <2>2 DEF Container
<1>4. Spec => []Shape BY ShapeIsKept
<1> QED BY <1>1, <1>2, <1>3, <1>4, PTL DEF Spec

(***************************************************************************)
(* What the filters hide.                                                  *)
(***************************************************************************)

Seen(h, rs) ==
    \A i \in DOMAIN h :
        h[i].mine \/ Visible(h[i].type, h[i].read)
        \/ (~rs.query.filtered /\ i \in Range(rs.objs))

\* The field of an entity that from_row has read.
LEMMA FromRowAt ==
  ASSUME NEW S, NEW values, NEW name \in FieldNames(S)
  PROVE  from_row(S, values)[name] = values[PlaceOf(S, name)]
BY DEF from_row, PlaceOf

LEMMA VisibleAsRead ==
  ASSUME setup \in DOMAIN Scenarios, FiltersSee, NEW T \in TypeNames(setup), NEW row, Visible(T, row)
  PROVE  Visible(T, from_row(Struct(T), Values(T, row)))
<1> SUFFICES ASSUME T \in Given.filters
             PROVE  from_row(Struct(T), Values(T, row)).hidden = 0
  BY DEF Visible
<1>1. /\ "hidden" \in FieldNames(Struct(T)) /\ PlaceOf(Struct(T), "hidden") \in DOMAIN Given.order[T]
      /\ Given.order[T][PlaceOf(Struct(T), "hidden")] = "hidden"
  BY DEF FiltersSee, ReadsField, TypeNames, Struct, Given
<1>2. from_row(Struct(T), Values(T, row))["hidden"] = Values(T, row)[PlaceOf(Struct(T), "hidden")]
  BY <1>1, FromRowAt
<1>3. Values(T, row)[PlaceOf(Struct(T), "hidden")] = row["hidden"] BY <1>1 DEF Values
<1>4. row.hidden = 0 BY DEF Visible
<1> QED BY <1>2, <1>3, <1>4

LEMMA ShownIsVisible ==
  ASSUME setup \in DOMAIN Scenarios, FiltersSee, NEW e, FromShown(e)
  PROVE  Visible(e.type, e.read)
<1>1. PICK R \in TypeNames(setup) : \E i \in DOMAIN tables[R] :
        /\ e.type = R /\ e.read = from_row(Struct(R), Values(R, tables[R][i]))
        /\ Visible(R, tables[R][i])
  BY DEF FromShown
<1>2. PICK i \in DOMAIN tables[R] :
        /\ e.type = R /\ e.read = from_row(Struct(R), Values(R, tables[R][i]))
        /\ Visible(R, tables[R][i])
  BY <1>1
<1>3. Visible(R, from_row(Struct(R), Values(R, tables[R][i]))) BY <1>2, VisibleAsRead
<1> QED BY <1>2, <1>3

\* Entities that keep what they are, and new ones of the caller or of rows
\* that are shown.
LEMMA SeenGrows ==
  ASSUME setup \in DOMAIN Scenarios, FiltersSee, Seen(heap, result), NEW g, Keeps(heap, g),
         \A x \in DOMAIN g \ DOMAIN heap : g[x].mine \/ FromShown(g[x])
  PROVE  Seen(g, result)
<1> SUFFICES ASSUME NEW i \in DOMAIN g
             PROVE  g[i].mine \/ Visible(g[i].type, g[i].read)
                    \/ (~result.query.filtered /\ i \in Range(result.objs))
  BY DEF Seen
<1>1. CASE i \in DOMAIN heap
  <2>1. g[i].mine = heap[i].mine /\ g[i].type = heap[i].type /\ g[i].read = heap[i].read
    BY <1>1 DEF Keeps
  <2>2. heap[i].mine \/ Visible(heap[i].type, heap[i].read)
        \/ (~result.query.filtered /\ i \in Range(result.objs))
    BY <1>1 DEF Seen
  <2> QED BY <2>1, <2>2
<1>2. CASE i \notin DOMAIN heap BY <1>2, ShownIsVisible
<1> QED BY <1>1, <1>2

LEMMA ReadByRow ==
  ASSUME NEW q, q.type \in TypeNames(setup), NEW e, NEW row, ReadBy(e, q, row)
  PROVE  e.type = q.type /\ e.read = from_row(Struct(q.type), Values(q.type, row))
BY ReadByFacts

LEMMA SeenToList ==
  ASSUME Shape, FiltersSee, NEW q \in Given.queries, ToList(q)
  PROVE  Seen(heap', result')
<1>1. setup \in DOMAIN Scenarios /\ TablesOk(setup, tables) BY DEF Shape, ShapeOk
<1>2. /\ q.type \in TypeNames(setup) /\ result'.query = q
      /\ DOMAIN result'.objs = DOMAIN heap' /\ \A o \in DOMAIN heap' : result'.objs[o] = o
      /\ \A o \in DOMAIN heap' : \E k \in DOMAIN tables[q.type] :
            /\ ReadBy(heap'[o], q, tables[q.type][k])
            /\ q.filtered => Visible(q.type, tables[q.type][k])
  BY <1>1, ToListFacts
<1> SUFFICES ASSUME NEW i \in DOMAIN heap'
             PROVE  Visible(heap'[i].type, heap'[i].read)
                    \/ (~q.filtered /\ i \in Range(result'.objs))
  BY <1>2 DEF Seen
<1>3. i \in Range(result'.objs) BY <1>2 DEF Range
<1>4. CASE q.filtered
  <2>1. PICK k \in DOMAIN tables[q.type] : /\ ReadBy(heap'[i], q, tables[q.type][k])
                                           /\ Visible(q.type, tables[q.type][k])
    BY <1>2, <1>4
  <2>2. heap'[i].type = q.type /\
        heap'[i].read = from_row(Struct(q.type), Values(q.type, tables[q.type][k]))
    BY <1>2, <2>1, ReadByRow
  <2>3. Visible(q.type, from_row(Struct(q.type), Values(q.type, tables[q.type][k])))
    BY <1>1, <1>2, <2>1, VisibleAsRead
  <2> QED BY <2>2, <2>3
<1> QED BY <1>3, <1>4

\* A row that the filter of its table hides reaches the caller through no
\* navigation, eager, nested or lazy, whatever the scenario and however the
\* other connection hides and shows rows between two statements; it is only
\* in the list of a query that ignores the filters (apply_filter_to_sql,
\* apply_filter).
THEOREM HiddenStays ==
  ASSUME FiltersSee
  PROVE  Spec => []HiddenStayHidden
<1>1. Init => Seen(heap, result)
  <2> SUFFICES ASSUME Init PROVE Seen(heap, result) OBVIOUS
  <2>1. heap = <<>> BY DEF Init
  <2> QED BY <2>1 DEF Seen
<1>2. Shape /\ Seen(heap, result) /\ [Next]_vars => Seen(heap, result)'
  <2> SUFFICES ASSUME Shape, Seen(heap, result), [Next]_vars PROVE Seen(heap, result)' OBVIOUS
  <2>1. setup' = setup BY Steps
  <2>2. SUFFICES Seen(heap', result') BY <2>1 DEF Seen, Visible, Given
  <2>3. setup \in DOMAIN Scenarios BY DEF Shape, ShapeOk
  <2>4. CASE Waits BY <2>4 DEF Waits
  <2>5. CASE Edits
    <3>1. DOMAIN heap' = DOMAIN heap /\ result' = result BY <2>5 DEF Edits
    <3>2. \A x \in DOMAIN heap :
             /\ heap'[x].mine = heap[x].mine /\ heap'[x].read = heap[x].read
             /\ heap'[x].type = heap[x].type
      BY <2>5 DEF Edits
    <3> QED BY <3>1, <3>2 DEF Seen
  <2>6. CASE LoadsEagerly BY <2>3, <2>6, SeenGrows DEF LoadsEagerly
  <2>7. ASSUME NEW q \in Given.queries, ToList(q) PROVE Seen(heap', result')
    BY <2>7, SeenToList
  <2>8. ASSUME NEW o, NEW nav, LoadsLazily(o, nav) PROVE Seen(heap', result')
    <3>1. /\ o \in DOMAIN heap /\ nav \in Navs(setup, heap[o].type) /\ result' = result
      BY <2>8 DEF LoadsLazily
    <3>2. PICK rows, d : /\ FillsOne(heap, heap', o, nav, Related(setup, heap[o].type, nav), rows, d)
                         /\ LazyNews(heap, heap', rows, Related(setup, heap[o].type, nav), d)
      BY <2>8 DEF LoadsLazily
    <3>3. HeapOk(setup, heap) BY DEF Shape, ShapeOk
    <3>4. StepsTo(setup, heap, heap') BY <2>3, <3>1, <3>2, <3>3, FillsOneSteps
    <3>5. Keeps(heap, heap') BY <3>3, <3>4, StepsKeep
    <3>6. \A x \in DOMAIN heap' \ DOMAIN heap : FromShown(heap'[x]) BY <3>2 DEF LazyNews
    <3> QED BY <2>3, <3>1, <3>5, <3>6, SeenGrows
  <2>9. ASSUME NEW o, NEW nav, LoadsNothing(o, nav) PROVE Seen(heap', result')
    BY <2>9 DEF LoadsNothing
  <2>10. ASSUME NEW o, NEW nav, Extends(o, nav) PROVE Seen(heap', result')
    <3>1. /\ o \in DOMAIN heap /\ nav \in Navs(setup, heap[o].type) /\ result' = result
      BY <2>10 DEF Extends
    <3>2. PICK e : /\ Adds(heap, heap', o, nav, e) /\ e.mine /\ Fresh(setup, e)
                   /\ e.type = Related(setup, heap[o].type, nav)
      BY <2>10 DEF Extends
    <3>3. HeapOk(setup, heap) BY DEF Shape, ShapeOk
    <3>4. StepsTo(setup, heap, heap') BY <3>1, <3>2, <3>3, AddsSteps
    <3>5. Keeps(heap, heap') BY <3>3, <3>4, StepsKeep
    <3>6. \A x \in DOMAIN heap' \ DOMAIN heap : heap'[x].mine BY <3>2 DEF Adds
    <3> QED BY <2>3, <3>1, <3>5, <3>6, SeenGrows
  <2> QED BY <2>4, <2>5, <2>6, <2>7, <2>8, <2>9, <2>10, Steps
<1>3. Shape /\ Seen(heap, result) => HiddenStayHidden BY DEF Seen, HiddenStayHidden
<1>4. Spec => []Shape BY ShapeIsKept
<1> QED BY <1>1, <1>2, <1>3, <1>4, PTL DEF Spec

(***************************************************************************)
(* Every member belongs: by key and position, and as the fields declare.   *)
(***************************************************************************)

\* r is related to an entity of type T with values "of", by the metadata and
\* the rows "ev" that the join tables have had.
BelongsIn(ev, T, nav, of, r) ==
    LET n == Metas[setup][T][nav]
        S == Scenarios[setup].model[T]
        R == Scenarios[setup].model[n.type]
    IN  /\ n.kind = "BelongsTo" => of[n.fk_column] = r[KeyNameOf(R)]
        /\ n.kind = "HasMany" => r[FkNameOf(R, T)] = of[n.ref_column]
        /\ n.kind = "ManyToMany" =>
               \E row \in ev[n.join] : /\ row[n.through_parent_fk] = of[KeyNameOf(S)]
                                       /\ row[n.related_fk] = r[KeyNameOf(R)]

LEMMA ReadOf ==
  ASSUME NEW T, NEW name, NEW at, NEW column, ReadsField(setup, T, name, at, column), NEW v
  PROVE  from_row(Struct(T), v)[name] = v[at]
<1>1. name \in FieldNames(Struct(T)) /\ at = PlaceOf(Struct(T), name)
  BY DEF ReadsField, Struct, Given
<1> QED BY <1>1, FromRowAt

LEMMA ValueOf ==
  ASSUME NEW T, NEW name, NEW at, NEW column, ReadsField(setup, T, name, at, column), NEW row
  PROVE  Values(T, row)[at] = row[column]
<1>1. at \in DOMAIN Given.order[T] /\ Given.order[T][at] = column BY DEF ReadsField, Given
<1> QED BY <1>1 DEF Values

LEMMA FieldOfRow ==
  ASSUME NEW T, NEW name, NEW at, NEW column, ReadsField(setup, T, name, at, column), NEW row
  PROVE  ByField(T, row)[name] = row[column]
<1>1. /\ name \in FieldNames(Struct(T)) /\ at = PlaceOf(Struct(T), name)
      /\ Scalars(Struct(T))[at].column = column
  BY DEF ReadsField, Struct, Given
<1>2. ByField(T, row)[name] = row[Scalars(Struct(T))[PlaceOf(Struct(T), name)].column]
  BY <1>1 DEF ByField
<1> QED BY <1>1, <1>2

LEMMA AgreesFacts ==
  ASSUME setup \in DOMAIN Scenarios, MetadataAgrees, NEW T \in TypeNames(setup),
         NEW nav \in Navs(setup, T)
  PROVE  Agrees(setup, T, nav)
BY DEF MetadataAgrees, TypeNames, Navs

LEMMA BelongsAsDeclared ==
  ASSUME setup \in DOMAIN Scenarios, MetadataAgrees, NEW T \in TypeNames(setup),
         NEW nav \in Navs(setup, T), NEW of, NEW r, BelongsIn(ever, T, nav, of, r)
  PROVE  Belongs(T, nav, of, r)
<1> DEFINE n == Metas[setup][T][nav]
           f == Field(T, nav)
<1>1. Agrees(setup, T, nav) BY AgreesFacts
<1>2. f.is = n.kind /\ f.type = n.type /\ f.join = n.join
  BY <1>1 DEF Agrees, Field, Struct, Given
<1>3. CASE n.kind = "BelongsTo"
  <2>1. n.fk_column = FkName(T, n.type) BY <1>1, <1>3 DEF Agrees, FkName, Struct, Given
  <2>2. of[n.fk_column] = r[KeyName(n.type)]
    BY <1>3 DEF BelongsIn, KeyName, Struct, Given
  <2> HIDE DEF n, f
  <2>3. of[FkName(T, f.type)] = r[KeyName(f.type)] BY <1>2, <2>1, <2>2
  <2> QED BY <1>2, <1>3, <2>3 DEF Belongs, f
<1>4. CASE n.kind = "HasMany"
  <2>1. n.ref_column = KeyName(T) BY <1>1, <1>4 DEF Agrees, KeyName, Struct, Given
  <2>2. r[FkName(n.type, T)] = of[n.ref_column]
    BY <1>4 DEF BelongsIn, FkName, Struct, Given
  <2> HIDE DEF n, f
  <2>3. r[FkName(f.type, T)] = of[KeyName(T)] BY <1>2, <2>1, <2>2
  <2> QED BY <1>2, <1>4, <2>3 DEF Belongs, f
<1>5. CASE n.kind = "ManyToMany"
  <2>1. PICK row \in ever[n.join] : /\ row[n.through_parent_fk] = of[KeyName(T)]
                                    /\ row[n.related_fk] = r[KeyName(n.type)]
    BY <1>5 DEF BelongsIn, KeyName, Struct, Given
  <2>2. /\ ReadsField(setup, n.join, FkName(n.join, T), n.parent_index, n.through_parent_fk)
        /\ ReadsField(setup, n.join, FkName(n.join, n.type), n.related_index, n.related_fk)
    BY <1>1, <1>5 DEF Agrees, FkName, Struct, Given
  <2> HIDE DEF n, f
  <2>3. ByField(n.join, row)[FkName(n.join, T)] = row[n.through_parent_fk]
    BY <2>2, FieldOfRow
  <2>4. ByField(n.join, row)[FkName(n.join, n.type)] = row[n.related_fk]
    BY <2>2, FieldOfRow
  <2>5. \E w \in ever[f.join] : /\ ByField(f.join, w)[FkName(f.join, T)] = of[KeyName(T)]
                                /\ ByField(f.join, w)[FkName(f.join, f.type)] = r[KeyName(f.type)]
    BY <1>2, <2>1, <2>3, <2>4
  <2> QED BY <1>2, <1>5, <2>5 DEF Belongs, f
<1>6. n.kind \in {"BelongsTo", "HasMany", "ManyToMany"} BY <1>1 DEF Agrees
<1> QED BY <1>3, <1>4, <1>5, <1>6

\* Rows are never taken out of "ever".
EverGrows(ev, fv) == \A J \in TypeNames(setup) : ev[J] \subseteq fv[J]

LEMMA JoinIsType ==
  ASSUME setup \in DOMAIN Scenarios, NEW T \in TypeNames(setup), NEW nav \in Navs(setup, T),
         Kind(setup, T, nav) = "ManyToMany"
  PROVE  Meta(T, nav).join \in TypeNames(setup)
<1>1. Meta(T, nav).kind = "ManyToMany" BY DEF Kind, Meta
<1> QED BY <1>1, ScenarioFacts

LEMMA BelongsGrows ==
  ASSUME setup \in DOMAIN Scenarios, NEW ev, NEW fv, EverGrows(ev, fv),
         NEW T \in TypeNames(setup), NEW nav \in Navs(setup, T), NEW of, NEW r,
         BelongsIn(ev, T, nav, of, r)
  PROVE  BelongsIn(fv, T, nav, of, r)
<1> DEFINE n == Metas[setup][T][nav]
<1>1. CASE n.kind = "ManyToMany"
  <2>1. Meta(T, nav).join \in TypeNames(setup) BY <1>1, JoinIsType DEF Kind
  <2>2. ev[n.join] \subseteq fv[n.join] BY <2>1 DEF EverGrows, Meta
  <2> QED BY <2>2 DEF BelongsIn
<1>2. CASE n.kind # "ManyToMany" BY <1>2 DEF BelongsIn
<1> QED BY <1>1, <1>2

\* What an entity is looked for by.
LEMMA GetFacts ==
  ASSUME NEW snap, NEW name, NEW x, <<x>> = Get(snap, name) \/ x \in Range(Get(snap, name))
  PROVE  name \in DOMAIN snap /\ x = snap[name]
<1>1. CASE name \in DOMAIN snap BY <1>1 DEF Get, Range
<1>2. CASE name \notin DOMAIN snap BY <1>2 DEF Get, Range
<1> QED BY <1>1, <1>2

KeyValues(S, snap) == [name \in Range(primary_keys(S)) |-> snap[name]]

LEMMA KeyFacts ==
  ASSUME NEW S, NEW snap, NEW name, NEW x,
         <<x>> = Get(KeyValues(S, snap), name) \/ x \in Range(Get(KeyValues(S, snap), name))
  PROVE  name \in Range(primary_keys(S)) /\ x = snap[name]
<1> DEFINE f == KeyValues(S, snap)
<1>1. DOMAIN f = Range(primary_keys(S)) /\ \A y \in DOMAIN f : f[y] = snap[y] BY DEF KeyValues
<1>2. name \in DOMAIN f /\ x = f[name]
  <2> HIDE DEF f
  <2>1. <<x>> = Get(f, name) \/ x \in Range(Get(f, name)) BY DEF f
  <2> QED BY <2>1, GetFacts
<1> HIDE DEF f
<1> QED BY <1>1, <1>2

LEMMA KeyOfOne ==
  ASSUME NEW S, NEW snap, NEW name, NEW x, <<x>> = Get(KeyValues(S, snap), name)
  PROVE  x = snap[name]
BY KeyFacts

\* The rows of a join table that a task has read.
JoinsRead(ev, J, joins) == \A j \in DOMAIN joins : \E row \in ev[J] : joins[j] = Values(J, row)

LEMMA FoundByKey ==
  ASSUME NEW t, NEW n, NEW e, NEW v, FoundFor(t, n, e, v), t.do = "load"
  PROVE  <<v[ReadAt(n)]>> = SoughtBy(n, e)
BY DEF FoundFor

\* What LoadScalar and LoadRelated find for an entity belongs to it.
LEMMA BelongsEager ==
  ASSUME setup \in DOMAIN Scenarios, MetadataAgrees, NEW T \in TypeNames(setup),
         NEW nav \in Navs(setup, T), NEW t, NEW e, NEW v, NEW ev, e.type = T,
         FoundFor(t, Meta(T, nav), e, v),
         t.do = "load" <=> Meta(T, nav).kind # "ManyToMany",
         t.do # "load" => JoinsRead(ev, Meta(T, nav).join, t.joins)
  PROVE  BelongsIn(ev, T, nav, e.values, from_row(Struct(Related(setup, T, nav)), v))
<1> DEFINE n == Meta(T, nav)
           R == Related(setup, T, nav)
           r == from_row(Struct(R), v)
<1>1. Agrees(setup, T, nav) BY AgreesFacts
<1>2. n = Metas[setup][T][nav] /\ n.type = R BY DEF Meta, Related
<1> HIDE DEF n, r
<1>3. FoundFor(t, n, e, v) /\ (t.do = "load" <=> n.kind # "ManyToMany") BY DEF n
<1>4. CASE n.kind = "BelongsTo"
  <2>1. ReadsField(setup, R, KeyNameOf(Struct(R)), n.pk_row_index, n.ref_column)
    BY <1>1, <1>2, <1>4 DEF Agrees, Struct, Given
  <2>2. r[KeyNameOf(Struct(R))] = v[n.pk_row_index] BY <2>1, ReadOf DEF r
  <2>3. <<v[n.pk_row_index]>> = Get(e.values, n.fk_column)
    <3>1. SoughtBy(n, e) = Get(e.values, n.fk_column) BY <1>4 DEF SoughtBy, snapshot
    <3>2. ReadAt(n) = n.pk_row_index BY <1>4 DEF ReadAt
    <3>3. t.do = "load" BY <1>3, <1>4
    <3>4. <<v[ReadAt(n)]>> = SoughtBy(n, e) BY <1>3, <3>3, FoundByKey
    <3> QED BY <3>1, <3>2, <3>4
  <2>4. v[n.pk_row_index] = e.values[n.fk_column]
    <3>1. PICK x : x = v[n.pk_row_index] OBVIOUS
    <3>2. <<x>> = Get(e.values, n.fk_column) BY <2>3, <3>1
    <3>3. x = e.values[n.fk_column] BY <3>2, GetFacts
    <3> QED BY <3>1, <3>3
  <2>5. e.values[n.fk_column] = r[KeyNameOf(Struct(R))] BY <2>2, <2>4
  <2> QED BY <1>2, <1>4, <2>5 DEF BelongsIn, r, Struct, Given
<1>5. CASE n.kind = "HasMany"
  <2>1. /\ n.ref_column = KeyNameOf(Struct(T))
        /\ ReadsField(setup, R, FkNameOf(Struct(R), T), n.fk_row_index, n.fk_column)
    BY <1>1, <1>2, <1>5 DEF Agrees, Struct, Given
  <2>2. r[FkNameOf(Struct(R), T)] = v[n.fk_row_index] BY <2>1, ReadOf DEF r
  <2>3. <<v[n.fk_row_index]>> = Get(KeyValues(Struct(T), e.values), n.ref_column)
    <3>1. SoughtBy(n, e) = Get(KeyValues(Struct(T), e.values), n.ref_column)
      BY <1>5 DEF SoughtBy, key_values, KeyValues
    <3>2. ReadAt(n) = n.fk_row_index BY <1>5 DEF ReadAt
    <3>3. t.do = "load" BY <1>3, <1>5
    <3>4. <<v[ReadAt(n)]>> = SoughtBy(n, e) BY <1>3, <3>3, FoundByKey
    <3> QED BY <3>1, <3>2, <3>4
  <2>4. v[n.fk_row_index] = e.values[n.ref_column]
    <3>1. PICK x : x = v[n.fk_row_index] OBVIOUS
    <3>2. <<x>> = Get(KeyValues(Struct(T), e.values), n.ref_column) BY <2>3, <3>1
    <3>3. x = e.values[n.ref_column] BY <3>2, KeyOfOne
    <3> QED BY <3>1, <3>3
  <2>5. r[FkNameOf(Struct(R), T)] = e.values[n.ref_column] BY <2>2, <2>4
  <2> QED BY <1>2, <1>5, <2>5 DEF BelongsIn, r, Struct, Given
<1>6. CASE n.kind = "ManyToMany"
  <2>1. /\ ReadsField(setup, R, KeyNameOf(Struct(R)), n.pk_row_index, n.ref_column)
        /\ ReadsField(setup, n.join, FkNameOf(Struct(n.join), T), n.parent_index,
                      n.through_parent_fk)
        /\ ReadsField(setup, n.join, FkNameOf(Struct(n.join), n.type), n.related_index,
                      n.related_fk)
    BY <1>1, <1>2, <1>6 DEF Agrees, Struct, Given
  <2>2. r[KeyNameOf(Struct(R))] = v[n.pk_row_index]
    <3>1. ReadsField(setup, R, KeyNameOf(Struct(R)), n.pk_row_index, n.ref_column) BY <2>1
    <3> QED BY <3>1, ReadOf DEF r
  <2>3. t.do # "load" /\ JoinsRead(ev, n.join, t.joins) BY <1>3, <1>6 DEF n
  <2>4. PICK j \in DOMAIN t.joins : /\ t.joins[j][n.parent_index] = KeyOf(e)
                                    /\ v[n.pk_row_index] = t.joins[j][n.related_index]
    BY <1>3, <2>3 DEF FoundFor
  <2>5. PICK row \in ev[n.join] : t.joins[j] = Values(n.join, row) BY <2>3 DEF JoinsRead
  <2>6. /\ Values(n.join, row)[n.parent_index] = row[n.through_parent_fk]
        /\ Values(n.join, row)[n.related_index] = row[n.related_fk]
    <3>1. ReadsField(setup, n.join, FkNameOf(Struct(n.join), T), n.parent_index,
                     n.through_parent_fk)
      BY <2>1
    <3>2. Values(n.join, row)[n.parent_index] = row[n.through_parent_fk] BY <3>1, ValueOf
    <3>3. ReadsField(setup, n.join, FkNameOf(Struct(n.join), n.type), n.related_index,
                     n.related_fk)
      BY <2>1
    <3>4. Values(n.join, row)[n.related_index] = row[n.related_fk] BY <3>3, ValueOf
    <3> QED BY <3>2, <3>4
  <2>7. KeyOf(e) = e.values[KeyNameOf(Struct(T))] BY DEF KeyOf, KeyNameOf
  <2>8. row[n.through_parent_fk] = e.values[KeyNameOf(Struct(T))] BY <2>4, <2>5, <2>6, <2>7
  <2>9. row[n.related_fk] = r[KeyNameOf(Struct(R))] BY <2>2, <2>4, <2>5, <2>6
  <2> QED BY <1>2, <1>6, <2>8, <2>9 DEF BelongsIn, r, Struct, Given
<1>7. n.kind \in {"BelongsTo", "HasMany", "ManyToMany"} BY <1>1, <1>2 DEF Agrees
<1> QED BY <1>4, <1>5, <1>6, <1>7 DEF r

\* An identifier that load() has read from the join table for an entity.
IdRead(ev, T, nav, of, id) ==
    LET n == Metas[setup][T][nav]
    IN  \E row \in ev[n.join] : /\ row[n.through_parent_fk] = of[KeyNameOf(Struct(T))]
                                /\ row[n.related_fk] = id

\* What LazyScalar finds by the snapshot belongs to an entity with its values.
LEMMA BelongsLazy ==
  ASSUME setup \in DOMAIN Scenarios, MetadataAgrees, NEW T \in TypeNames(setup),
         NEW nav \in Navs(setup, T), NEW snap, NEW row, NEW ev,
         Meta(T, nav).kind # "ManyToMany",
         row[LazyColumn(Meta(T, nav))] \in Range(SoughtLazily(Meta(T, nav), Struct(T), snap))
  PROVE  BelongsIn(ev, T, nav, snap,
                   from_row(Struct(Related(setup, T, nav)), Values(Related(setup, T, nav), row)))
<1> DEFINE n == Meta(T, nav)
           R == Related(setup, T, nav)
           v == Values(R, row)
           r == from_row(Struct(R), v)
<1>1. Agrees(setup, T, nav) BY AgreesFacts
<1>2. n = Metas[setup][T][nav] /\ n.type = R BY DEF Meta, Related
<1> HIDE DEF n
<1>3. row[LazyColumn(n)] \in Range(SoughtLazily(n, Struct(T), snap)) /\ n.kind # "ManyToMany"
  BY DEF n
<1>4. CASE n.kind = "BelongsTo"
  <2>1. ReadsField(setup, R, KeyNameOf(Struct(R)), n.pk_row_index, n.ref_column)
    BY <1>1, <1>2, <1>4 DEF Agrees, Struct, Given
  <2>2. r[KeyNameOf(Struct(R))] = v[n.pk_row_index] BY <2>1, ReadOf
  <2>3. v[n.pk_row_index] = row[n.ref_column] BY <2>1, ValueOf
  <2>4. row[n.ref_column] \in Range(Get(snap, n.fk_column))
    BY <1>3, <1>4 DEF LazyColumn, SoughtLazily
  <2>5. row[n.ref_column] = snap[n.fk_column] BY <2>4, GetFacts
  <2> HIDE DEF r, v
  <2>6. snap[n.fk_column] = r[KeyNameOf(Struct(R))] BY <2>2, <2>3, <2>5
  <2> QED BY <1>2, <1>4, <2>6 DEF BelongsIn, r, v, Struct, Given
<1>5. CASE n.kind = "HasMany"
  <2>1. ReadsField(setup, R, FkNameOf(Struct(R), T), n.fk_row_index, n.fk_column)
    BY <1>1, <1>2, <1>5 DEF Agrees, Struct, Given
  <2>2. r[FkNameOf(Struct(R), T)] = v[n.fk_row_index] BY <2>1, ReadOf
  <2>3. v[n.fk_row_index] = row[n.fk_column] BY <2>1, ValueOf
  <2>4. row[n.fk_column] \in Range(Get(KeyValues(Struct(T), snap), n.ref_column))
    BY <1>3, <1>5 DEF LazyColumn, SoughtLazily, KeyValues
  <2>5. row[n.fk_column] = snap[n.ref_column] BY <2>4, KeyFacts
  <2> HIDE DEF r, v
  <2>6. r[FkNameOf(Struct(R), T)] = snap[n.ref_column] BY <2>2, <2>3, <2>5
  <2> QED BY <1>2, <1>5, <2>6 DEF BelongsIn, r, v, Struct, Given
<1>6. n.kind \in {"BelongsTo", "HasMany"} BY <1>1, <1>2, <1>3 DEF Agrees
<1> QED BY <1>4, <1>5, <1>6

\* The identifiers of LazyJoin, and what LazyRelated finds by them.
LEMMA IdsBelong ==
  ASSUME setup \in DOMAIN Scenarios, MetadataAgrees, NEW T \in TypeNames(setup),
         NEW nav \in Navs(setup, T), NEW snap, NEW ev, NEW row \in ev[Meta(T, nav).join],
         Meta(T, nav).kind = "ManyToMany", Meta(T, nav).related_index = 1,
         row[Meta(T, nav).through_parent_fk] \in Range(SoughtLazily(Meta(T, nav), Struct(T), snap))
  PROVE  IdRead(ev, T, nav, snap, Values(Meta(T, nav).join, row)[1])
<1> DEFINE n == Meta(T, nav)
<1>1. Agrees(setup, T, nav) BY AgreesFacts
<1>2. n = Metas[setup][T][nav] BY DEF Meta
<1> HIDE DEF n
<1>3. /\ row[n.through_parent_fk] \in Range(SoughtLazily(n, Struct(T), snap))
      /\ n.kind = "ManyToMany" /\ n.related_index = 1 /\ row \in ev[n.join]
  BY DEF n
<1>4. /\ n.ref_column \in Range(primary_keys(Struct(T))) => n.ref_column = KeyNameOf(Struct(T))
      /\ ReadsField(setup, n.join, FkNameOf(Struct(n.join), n.type), n.related_index, n.related_fk)
  BY <1>1, <1>2, <1>3 DEF Agrees, Struct, Given
<1>5. Values(n.join, row)[n.related_index] = row[n.related_fk] BY <1>4, ValueOf
<1>6. row[n.through_parent_fk] \in Range(Get(KeyValues(Struct(T), snap), n.ref_column))
  BY <1>3 DEF SoughtLazily, KeyValues
<1>7. row[n.through_parent_fk] = snap[KeyNameOf(Struct(T))] BY <1>4, <1>6, KeyFacts
<1>8. row[n.related_fk] = Values(n.join, row)[1] BY <1>3, <1>5
<1> QED BY <1>2, <1>3, <1>7, <1>8 DEF IdRead, n

LEMMA BelongsById ==
  ASSUME setup \in DOMAIN Scenarios, MetadataAgrees, NEW T \in TypeNames(setup),
         NEW nav \in Navs(setup, T), NEW of, NEW ev, NEW row,
         Meta(T, nav).kind = "ManyToMany",
         IdRead(ev, T, nav, of, row[Meta(T, nav).ref_column])
  PROVE  BelongsIn(ev, T, nav, of,
                   from_row(Struct(Related(setup, T, nav)), Values(Related(setup, T, nav), row)))
<1> DEFINE n == Meta(T, nav)
           R == Related(setup, T, nav)
           v == Values(R, row)
           r == from_row(Struct(R), v)
<1>1. Agrees(setup, T, nav) BY AgreesFacts
<1>2. n = Metas[setup][T][nav] /\ n.type = R BY DEF Meta, Related
<1> HIDE DEF n
<1>3. n.kind = "ManyToMany" /\ IdRead(ev, T, nav, of, row[n.ref_column]) BY DEF n
<1>4. ReadsField(setup, R, KeyNameOf(Struct(R)), n.pk_row_index, n.ref_column)
  BY <1>1, <1>2, <1>3 DEF Agrees, Struct, Given
<1>5. r[KeyNameOf(Struct(R))] = v[n.pk_row_index] BY <1>4, ReadOf
<1>6. v[n.pk_row_index] = row[n.ref_column] BY <1>4, ValueOf
<1> HIDE DEF r, v
<1>7. PICK w \in ev[n.join] : /\ w[n.through_parent_fk] = of[KeyNameOf(Struct(T))]
                              /\ w[n.related_fk] = row[n.ref_column]
  BY <1>2, <1>3 DEF IdRead
<1>8. w[n.related_fk] = r[KeyNameOf(Struct(R))] BY <1>5, <1>6, <1>7
<1> QED BY <1>2, <1>3, <1>7, <1>8 DEF BelongsIn, r, v, Struct, Given

\* Each of the items belongs to o, whose container is of its values.
AllBelong(ev, h, o, nav, items) ==
    \A k \in DOMAIN items : /\ h[o].navs[nav].of = h[o].values
                            /\ BelongsIn(ev, h[o].type, nav, h[o].values, h[items[k]].read)

\* No lazy loading, and nothing of the caller: how it is during to_list.
Plain(ev, h, o, nav) ==
    h[o].navs[nav].ctx = <<>> /\ AllBelong(ev, h, o, nav, h[o].navs[nav].items)

Plainly(ev, h) == \A o \in DOMAIN h : \A nav \in Navs(setup, h[o].type) : Plain(ev, h, o, nav)

\* The containers are of what they were, or of the values of their owners.
Owned(h, g) ==
    /\ Keeps(h, g) /\ DOMAIN h \subseteq DOMAIN g
    /\ \A o \in DOMAIN h : \A y \in Navs(setup, h[o].type) :
          g[o].navs[y].of = h[o].navs[y].of \/ g[o].navs[y].of = h[o].values

PlainSteps(ev, h, g) ==
    /\ Owned(h, g)
    /\ \A o \in DOMAIN h : \A y \in Navs(setup, h[o].type) :
          g[o].navs[y] = h[o].navs[y] \/ Plain(ev, g, o, y)
    /\ \A o \in DOMAIN g \ DOMAIN h : \A y \in Navs(setup, g[o].type) : Plain(ev, g, o, y)

LEMMA AllBelongGrows ==
  ASSUME NEW ev, NEW h, NEW g, Owned(h, g), NEW o \in DOMAIN h, NEW nav \in Navs(setup, h[o].type),
         NEW items, AllBelong(ev, h, o, nav, items), \A k \in DOMAIN items : items[k] \in DOMAIN h
  PROVE  AllBelong(ev, g, o, nav, items)
<1>1. g[o].type = h[o].type /\ g[o].values = h[o].values BY DEF Owned, Keeps
<1>2. g[o].navs[nav].of = h[o].navs[nav].of \/ g[o].navs[nav].of = h[o].values BY DEF Owned
<1> SUFFICES ASSUME NEW k \in DOMAIN items
             PROVE  /\ g[o].navs[nav].of = g[o].values
                    /\ BelongsIn(ev, g[o].type, nav, g[o].values, g[items[k]].read)
  BY DEF AllBelong
<1>3. /\ h[o].navs[nav].of = h[o].values
      /\ BelongsIn(ev, h[o].type, nav, h[o].values, h[items[k]].read)
  BY DEF AllBelong
<1>4. g[items[k]].read = h[items[k]].read BY DEF Owned, Keeps
<1> QED BY <1>1, <1>2, <1>3, <1>4

LEMMA PlainStepsKeep ==
  ASSUME NEW ev, NEW h, HeapOk(setup, h), Plainly(ev, h), NEW g, PlainSteps(ev, h, g)
  PROVE  Plainly(ev, g)
<1>1. ASSUME NEW o \in DOMAIN h, NEW y \in Navs(setup, h[o].type), g[o].navs[y] = h[o].navs[y]
      PROVE  Plain(ev, g, o, y)
  <2> DEFINE items == h[o].navs[y].items
  <2>1. Plain(ev, h, o, y) BY DEF Plainly
  <2>2. Typed(h, Related(setup, h[o].type, y), items) BY DEF HeapOk, OkIn
  <2>3. \A k \in DOMAIN items : items[k] \in DOMAIN h BY <2>2 DEF Typed
  <2>4. AllBelong(ev, h, o, y, items) /\ h[o].navs[y].ctx = <<>> BY <2>1 DEF Plain
  <2>5. Owned(h, g) BY DEF PlainSteps
  <2> HIDE DEF items
  <2>6. AllBelong(ev, g, o, y, items) BY <2>3, <2>4, <2>5, AllBelongGrows
  <2> QED BY <1>1, <2>4, <2>6 DEF Plain, items
<1>2. \A o \in DOMAIN h : g[o].type = h[o].type BY DEF PlainSteps, Owned, Keeps
<1> SUFFICES ASSUME NEW o \in DOMAIN g, NEW y \in Navs(setup, g[o].type) PROVE Plain(ev, g, o, y)
  BY DEF Plainly
<1>3. CASE o \in DOMAIN h
  <2>1. y \in Navs(setup, h[o].type) BY <1>2, <1>3
  <2>2. g[o].navs[y] = h[o].navs[y] \/ Plain(ev, g, o, y) BY <1>3, <2>1 DEF PlainSteps
  <2> QED BY <1>1, <1>3, <2>1, <2>2
<1>4. CASE o \notin DOMAIN h BY <1>4 DEF PlainSteps
<1> QED BY <1>3, <1>4

LEMMA EntityEmpty ==
  ASSUME NEW T \in TypeNames(setup), NEW values
  PROVE  \A y \in Navs(setup, T) : Entity(T, values).navs[y] = NoContainer
BY DEF Entity, Navs, Struct, Given

LEMMA EmptyIsPlain ==
  ASSUME NEW ev, NEW g, NEW o, NEW y, g[o].navs[y].ctx = <<>>, g[o].navs[y].items = <<>>
  PROVE  Plain(ev, g, o, y)
<1>1. \A k \in DOMAIN g[o].navs[y].items : FALSE BY EmptyIsSeq
<1> QED BY <1>1 DEF Plain, AllBelong

\* The rows that are read for each of the objects belong to it.
RowsBelong(ev, T, nav, objs, rows) ==
    \A k \in DOMAIN objs : \A j \in DOMAIN rows[k] :
        BelongsIn(ev, T, nav, heap[objs[k]].values, from_row(Struct(Related(setup, T, nav)), rows[k][j]))

LEMMA FillPlain ==
  ASSUME setup \in DOMAIN Scenarios, HeapOk(setup, heap), NEW ev, NEW T \in TypeNames(setup),
         NEW nav \in Navs(setup, T), NEW objs, Typed(heap, T, objs), NEW rows, NEW g,
         FillsAll(heap, g, objs, nav, Related(setup, T, nav), rows),
         RowsBelong(ev, T, nav, objs, rows)
  PROVE  PlainSteps(ev, heap, g)
<1> DEFINE R == Related(setup, T, nav)
<1>1. R \in TypeNames(setup) BY ScenarioFacts
<1>2. Keeps(heap, g) BY FillsAllSteps, StepsKeep
<1>3. DOMAIN heap \subseteq DOMAIN g BY DEF FillsAll
<1> HIDE DEF R
<1>4. ASSUME NEW o \in DOMAIN heap, g[o] # heap[o]
      PROVE  /\ g[o].navs[nav].of = heap[o].values /\ Plain(ev, g, o, nav)
             /\ \A y \in Navs(setup, heap[o].type) : y # nav => g[o].navs[y] = heap[o].navs[y]
  <2>1. PICK k \in DOMAIN objs : \E c :
                /\ objs[k] = o /\ g[o] = Put(heap[o], nav, c)
                /\ c = [items |-> c.items, loaded |-> TRUE, ctx |-> <<>>, of |-> heap[o].values]
                /\ IsSeq(c.items)
                /\ \A i \in DOMAIN c.items : \E j \in DOMAIN rows[k] :
                      /\ c.items[i] \in DOMAIN g \ DOMAIN heap
                      /\ g[c.items[i]] = Entity(R, from_row(Struct(R), rows[k][j]))
    BY <1>4 DEF FillsAll, R
  <2>2. PICK c :
                /\ objs[k] = o /\ g[o] = Put(heap[o], nav, c)
                /\ c = [items |-> c.items, loaded |-> TRUE, ctx |-> <<>>, of |-> heap[o].values]
                /\ IsSeq(c.items)
                /\ \A i \in DOMAIN c.items : \E j \in DOMAIN rows[k] :
                      /\ c.items[i] \in DOMAIN g \ DOMAIN heap
                      /\ g[c.items[i]] = Entity(R, from_row(Struct(R), rows[k][j]))
    BY <2>1
  <2>3. heap[o].type = T BY <2>2 DEF Typed
  <2>4. c.loaded = TRUE /\ c.ctx = <<>> /\ c.of = heap[o].values
        /\ c = [items |-> c.items, loaded |-> c.loaded, ctx |-> c.ctx, of |-> c.of]
    BY <2>2
  <2>5. ContainerOk(c) BY <2>2, <2>4 DEF ContainerOk
  <2>6. EntityOk(setup, heap[o]) BY DEF HeapOk, OkIn
  <2>7. /\ g[o].navs[nav] = c
        /\ \A y \in Navs(setup, heap[o].type) : y # nav => g[o].navs[y] = heap[o].navs[y]
    <3>1. nav \in Navs(setup, heap[o].type) /\ g[o] = Put(heap[o], nav, c) BY <2>2, <2>3
    <3> QED BY <2>5, <2>6, <3>1, PutFacts
  <2>8. g[o].type = T /\ g[o].values = heap[o].values BY <1>2, <2>3 DEF Keeps
  <2>9. ASSUME NEW i \in DOMAIN c.items
        PROVE  BelongsIn(ev, T, nav, heap[o].values, g[c.items[i]].read)
    <3>1. PICK j \in DOMAIN rows[k] : g[c.items[i]] = Entity(R, from_row(Struct(R), rows[k][j]))
      BY <2>2
    <3> DEFINE v == from_row(Struct(R), rows[k][j])
    <3>2. BelongsIn(ev, T, nav, heap[o].values, v) BY <2>2 DEF RowsBelong, R
    <3>3. g[c.items[i]] = Entity(R, v) BY <3>1
    <3> HIDE DEF v
    <3>4. Entity(R, v).read = v BY <1>1, EntityIs
    <3> QED BY <3>2, <3>3, <3>4
  <2>10. AllBelong(ev, g, o, nav, c.items) BY <2>4, <2>7, <2>8, <2>9 DEF AllBelong
  <2> QED BY <2>4, <2>7, <2>10 DEF Plain
<1>5. ASSUME NEW o \in DOMAIN g \ DOMAIN heap, NEW y \in Navs(setup, g[o].type)
      PROVE  Plain(ev, g, o, y)
  <2>1. PICK k \in DOMAIN rows : \E j \in DOMAIN rows[k] :
           g[o] = Entity(R, from_row(Struct(R), rows[k][j]))
    BY DEF FillsAll, R
  <2>2. PICK v : g[o] = Entity(R, v) BY <2>1
  <2>3. Entity(R, v).type = R BY <1>1, EntityIs
  <2>4. g[o].navs[y] = NoContainer BY <1>1, <2>2, <2>3, EntityEmpty
  <2>5. NoContainer.ctx = <<>> /\ NoContainer.items = <<>> BY DEF NoContainer
  <2>6. g[o].navs[y].ctx = <<>> /\ g[o].navs[y].items = <<>> BY <2>4, <2>5
  <2> QED BY <2>6, EmptyIsPlain
<1>6. ASSUME NEW o \in DOMAIN heap, NEW y \in Navs(setup, heap[o].type)
      PROVE  /\ g[o].navs[y].of = heap[o].navs[y].of \/ g[o].navs[y].of = heap[o].values
             /\ g[o].navs[y] = heap[o].navs[y] \/ Plain(ev, g, o, y)
  <2>1. CASE g[o] = heap[o] BY <2>1
  <2>2. CASE g[o] # heap[o] /\ y = nav BY <1>4, <2>2
  <2>3. CASE g[o] # heap[o] /\ y # nav BY <1>4, <2>3
  <2> QED BY <2>1, <2>2, <2>3
<1>7. Owned(heap, g) BY <1>2, <1>3, <1>6 DEF Owned
<1> QED BY <1>5, <1>6, <1>7 DEF PlainSteps

\* Containers of the objects get other items, which belong to their owners.
OnlyMoves(ev, h, g, objs, nav) ==
    /\ DOMAIN g = DOMAIN h /\ Keeps(h, g)
    /\ \A o \in DOMAIN h : o \notin Range(objs) => g[o] = h[o]
    /\ \A o \in Range(objs) : \E c :
          /\ ContainerOk(c) /\ g[o] = Put(h[o], nav, c)
          /\ c.ctx = h[o].navs[nav].ctx /\ c.of = h[o].navs[nav].of
          /\ AllBelong(ev, h, o, nav, c.items) /\ \A k \in DOMAIN c.items : c.items[k] \in DOMAIN h

LEMMA MovesArePlain ==
  ASSUME NEW ev, NEW h, HeapOk(setup, h), Plainly(ev, h), NEW g, NEW objs, NEW T,
         Typed(h, T, objs), NEW nav \in Navs(setup, T), OnlyMoves(ev, h, g, objs, nav)
  PROVE  PlainSteps(ev, h, g)
<1>1. \A o \in Range(objs) : o \in DOMAIN h /\ h[o].type = T BY DEF Typed, Range
<1>2. ASSUME NEW o \in Range(objs)
      PROVE  /\ g[o].navs[nav].of = h[o].navs[nav].of /\ g[o].navs[nav].ctx = h[o].navs[nav].ctx
             /\ AllBelong(ev, h, o, nav, g[o].navs[nav].items)
             /\ \A k \in DOMAIN g[o].navs[nav].items : g[o].navs[nav].items[k] \in DOMAIN h
             /\ \A y \in Navs(setup, h[o].type) : y # nav => g[o].navs[y] = h[o].navs[y]
  <2>1. PICK c : /\ ContainerOk(c) /\ g[o] = Put(h[o], nav, c)
                 /\ c.ctx = h[o].navs[nav].ctx /\ c.of = h[o].navs[nav].of
                 /\ AllBelong(ev, h, o, nav, c.items)
                 /\ \A k \in DOMAIN c.items : c.items[k] \in DOMAIN h
    BY DEF OnlyMoves
  <2>2. EntityOk(setup, h[o]) /\ nav \in Navs(setup, h[o].type) BY <1>1 DEF HeapOk, OkIn
  <2>3. g[o].navs[nav] = c /\ \A y \in Navs(setup, h[o].type) : y # nav => g[o].navs[y] = h[o].navs[y]
    BY <2>1, <2>2, PutFacts
  <2> QED BY <2>1, <2>3
<1>3. ASSUME NEW o \in DOMAIN h, NEW y \in Navs(setup, h[o].type)
      PROVE  g[o].navs[y] = h[o].navs[y] \/ (o \in Range(objs) /\ y = nav)
  <2>1. CASE o \in Range(objs) BY <1>2, <2>1
  <2>2. CASE o \notin Range(objs) BY <2>2 DEF OnlyMoves
  <2> QED BY <2>1, <2>2
<1>4. Owned(h, g)
  <2>1. ASSUME NEW o \in DOMAIN h, NEW y \in Navs(setup, h[o].type)
        PROVE  g[o].navs[y].of = h[o].navs[y].of
    <3>1. CASE g[o].navs[y] = h[o].navs[y] BY <3>1
    <3>2. CASE o \in Range(objs) /\ y = nav BY <1>2, <3>2
    <3> QED BY <1>3, <3>1, <3>2
  <2>2. Keeps(h, g) /\ DOMAIN h \subseteq DOMAIN g BY DEF OnlyMoves
  <2> QED BY <2>1, <2>2 DEF Owned
<1>5. ASSUME NEW o \in Range(objs) PROVE Plain(ev, g, o, nav)
  <2> DEFINE items == g[o].navs[nav].items
  <2>1. o \in DOMAIN h /\ nav \in Navs(setup, h[o].type) BY <1>1
  <2>2. Plain(ev, h, o, nav) BY <2>1 DEF Plainly
  <2>3. AllBelong(ev, h, o, nav, items) /\ \A k \in DOMAIN items : items[k] \in DOMAIN h BY <1>2
  <2> HIDE DEF items
  <2>4. AllBelong(ev, g, o, nav, items) BY <1>4, <2>1, <2>3, AllBelongGrows
  <2> QED BY <1>2, <2>2, <2>4 DEF Plain, items
<1>6. \A o \in DOMAIN h : \A y \in Navs(setup, h[o].type) :
         g[o].navs[y] = h[o].navs[y] \/ Plain(ev, g, o, y)
  BY <1>3, <1>5
<1>7. DOMAIN g = DOMAIN h BY DEF OnlyMoves
<1> QED BY <1>4, <1>6, <1>7 DEF PlainSteps

LEMMA DrainPlain ==
  ASSUME NEW ev, NEW h, HeapOk(setup, h), Plainly(ev, h), NEW t, NEW T, Typed(h, T, t.objs),
         t.nav \in Navs(setup, T)
  PROVE  PlainSteps(ev, h, Drained(h, t))
<1> DEFINE g == Drained(h, t)
<1>1. /\ DOMAIN g = DOMAIN h
      /\ \A o \in DOMAIN h : o \notin Range(t.objs) => g[o] = h[o]
      /\ \A o \in Range(t.objs) : Moves(h, g, o, t.nav, <<>>)
  BY DrainedFacts
<1>2. Keeps(h, g) BY DrainedSteps, StepsKeep
<1> HIDE DEF g
<1>3. ASSUME NEW o \in Range(t.objs)
      PROVE  \E c : /\ ContainerOk(c) /\ g[o] = Put(h[o], t.nav, c)
                    /\ c.ctx = h[o].navs[t.nav].ctx /\ c.of = h[o].navs[t.nav].of
                    /\ AllBelong(ev, h, o, t.nav, c.items)
                    /\ \A k \in DOMAIN c.items : c.items[k] \in DOMAIN h
  <2>1. PICK c : /\ ContainerOk(c) /\ g[o] = Put(h[o], t.nav, c) /\ c.items = <<>>
                 /\ c.ctx = h[o].navs[t.nav].ctx /\ c.of = h[o].navs[t.nav].of
    BY <1>1 DEF Moves
  <2>2. \A k \in DOMAIN c.items : FALSE BY <2>1, EmptyIsSeq
  <2>3. AllBelong(ev, h, o, t.nav, c.items) BY <2>2 DEF AllBelong
  <2> QED BY <2>1, <2>2, <2>3
<1>4. OnlyMoves(ev, h, g, t.objs, t.nav) BY <1>1, <1>2, <1>3 DEF OnlyMoves
<1>5. PlainSteps(ev, h, g) BY <1>4, MovesArePlain
<1> QED BY <1>5 DEF g

\* What is put back belongs to where it is put.
SegmentsBelong(ev, h, t) == \A k \in DOMAIN t.objs : AllBelong(ev, h, t.objs[k], t.nav, Segment(t, k))

LEMMA SegmentIn ==
  ASSUME NEW h, NEW t, IsSeq(t.objs), RestoreOk(t), NEW R, Typed(h, R, t.all),
         NEW k \in DOMAIN t.objs
  PROVE  \A j \in DOMAIN Segment(t, k) : Segment(t, k)[j] \in DOMAIN h
<1>1. /\ DOMAIN Segment(t, k) = 1..t.counts[k]
      /\ \A j \in 1..t.counts[k] : /\ Before(t.counts, k) + j \in DOMAIN t.all
                                   /\ Segment(t, k)[j] = t.all[Before(t.counts, k) + j]
  BY SegmentFacts
<1> QED BY <1>1 DEF Typed

LEMMA ReturnPlain ==
  ASSUME NEW ev, NEW h, HeapOk(setup, h), Plainly(ev, h), NEW t, NEW T, IsSeq(t.objs),
         Typed(h, T, t.objs), t.nav \in Navs(setup, T), RestoreOk(t),
         Typed(h, Related(setup, T, t.nav), t.all), SegmentsBelong(ev, h, t)
  PROVE  PlainSteps(ev, h, Returned(h, t))
<1> DEFINE g == Returned(h, t)
<1>1. /\ DOMAIN g = DOMAIN h
      /\ \A o \in DOMAIN h : o \notin Range(t.objs) => g[o] = h[o]
      /\ \A o \in Range(t.objs) : \E k \in DOMAIN t.objs : \E c :
               /\ t.objs[k] = o /\ c.items = Segment(t, k)
               /\ ContainerOk(c) /\ g[o] = Put(h[o], t.nav, c)
               /\ c.ctx = h[o].navs[t.nav].ctx /\ c.of = h[o].navs[t.nav].of
  BY ReturnedFacts
<1>2. Keeps(h, g) BY ReturnedSteps, StepsKeep
<1> HIDE DEF g
<1>3. ASSUME NEW o \in Range(t.objs)
      PROVE  \E c : /\ ContainerOk(c) /\ g[o] = Put(h[o], t.nav, c)
                    /\ c.ctx = h[o].navs[t.nav].ctx /\ c.of = h[o].navs[t.nav].of
                    /\ AllBelong(ev, h, o, t.nav, c.items)
                    /\ \A k \in DOMAIN c.items : c.items[k] \in DOMAIN h
  <2>1. PICK k \in DOMAIN t.objs : \E c :
               /\ t.objs[k] = o /\ c.items = Segment(t, k)
               /\ ContainerOk(c) /\ g[o] = Put(h[o], t.nav, c)
               /\ c.ctx = h[o].navs[t.nav].ctx /\ c.of = h[o].navs[t.nav].of
    BY <1>1
  <2>2. PICK c :
               /\ t.objs[k] = o /\ c.items = Segment(t, k)
               /\ ContainerOk(c) /\ g[o] = Put(h[o], t.nav, c)
               /\ c.ctx = h[o].navs[t.nav].ctx /\ c.of = h[o].navs[t.nav].of
    BY <2>1
  <2>3. AllBelong(ev, h, o, t.nav, c.items) BY <2>2 DEF SegmentsBelong
  <2>4. \A j \in DOMAIN c.items : c.items[j] \in DOMAIN h BY <2>2, SegmentIn
  <2> QED BY <2>2, <2>3, <2>4
<1>4. OnlyMoves(ev, h, g, t.objs, t.nav) BY <1>1, <1>2, <1>3 DEF OnlyMoves
<1>5. PlainSteps(ev, h, g) BY <1>4, MovesArePlain
<1> QED BY <1>5 DEF g

\* What the tasks of to_list that are under way have read.
TaskHolds(ev, h, t) ==
    /\ t.do = "related" => JoinsRead(ev, Meta(h[Head(t.objs)].type, t.nav).join, t.joins)
    /\ t.do = "restore" => SegmentsBelong(ev, h, t)

AllHold(ev, h, tasks) == \A k \in DOMAIN tasks : TaskHolds(ev, h, tasks[k])

LEMMA HeadOfObjs ==
  ASSUME NEW s, NEW h, NEW t, EagerOk(s, h, t)
  PROVE  Head(t.objs) \in DOMAIN h
<1>1. PICK T : OfType(s, h, t, T) BY DEF EagerOk
<1>2. IsSeq(t.objs) /\ t.objs # <<>> BY DEF EagerOk
<1>3. Len(t.objs) \in Nat /\ DOMAIN t.objs = 1..Len(t.objs) BY <1>2, SeqFacts
<1>4. Len(t.objs) # 0 BY <1>2, EmptySeq DEF IsSeq
<1>5. Head(t.objs) = t.objs[1] /\ 1 \in DOMAIN t.objs BY <1>3, <1>4
<1> QED BY <1>1, <1>5 DEF OfType, About, Typed

LEMMA TasksGrow ==
  ASSUME NEW ev, NEW h, NEW g, Owned(h, g), NEW tasks, AllEager(setup, h, tasks),
         AllHold(ev, h, tasks)
  PROVE  AllHold(ev, g, tasks)
<1>1. ASSUME NEW t, EagerOk(setup, h, t), TaskHolds(ev, h, t) PROVE TaskHolds(ev, g, t)
  <2>1. ASSUME t.do = "related"
        PROVE  JoinsRead(ev, Meta(g[Head(t.objs)].type, t.nav).join, t.joins)
    <3>1. Head(t.objs) \in DOMAIN h BY <1>1, HeadOfObjs
    <3>2. g[Head(t.objs)].type = h[Head(t.objs)].type BY <3>1 DEF Owned, Keeps
    <3> QED BY <1>1, <2>1, <3>2 DEF TaskHolds
  <2>2. ASSUME t.do = "restore", NEW k \in DOMAIN t.objs
        PROVE  AllBelong(ev, g, t.objs[k], t.nav, Segment(t, k))
    <3>1. PICK T : OfType(setup, h, t, T) BY <1>1 DEF EagerOk
    <3>2. /\ t.objs[k] \in DOMAIN h /\ t.nav \in Navs(setup, h[t.objs[k]].type)
          /\ Typed(h, Related(setup, T, t.nav), t.all)
      BY <2>2, <3>1 DEF OfType, About, Typed
    <3>3. IsSeq(t.objs) /\ RestoreOk(t) BY <1>1, <2>2 DEF EagerOk
    <3>4. \A j \in DOMAIN Segment(t, k) : Segment(t, k)[j] \in DOMAIN h BY <3>2, <3>3, SegmentIn
    <3>5. AllBelong(ev, h, t.objs[k], t.nav, Segment(t, k))
      BY <1>1, <2>2 DEF TaskHolds, SegmentsBelong
    <3> QED BY <3>2, <3>4, <3>5, AllBelongGrows
  <2> QED BY <2>1, <2>2 DEF TaskHolds, SegmentsBelong
<1> QED BY <1>1 DEF AllHold, AllEager

\* Each item is of the caller, or belongs to what the container is of.
Owns(ev, h, o, nav) ==
    LET c == h[o].navs[nav]
    IN  \A k \in DOMAIN c.items :
           h[c.items[k]].mine \/ BelongsIn(ev, h[o].type, nav, c.of, h[c.items[k]].read)

AllMine(h, items) == \A k \in DOMAIN items : h[items[k]].mine

\* A container that load() would fill looks for the rows by the values its
\* owner still has, and what is in it already is of the caller.
Ready(h, o, nav) ==
    LET c == h[o].navs[nav]
    IN  c.ctx # <<>> /\ ~c.loaded =>
            c.ctx[1].snapshot = h[o].values /\ AllMine(h, c.items)

Sound(ev, h, o, nav) == Owns(ev, h, o, nav) /\ Ready(h, o, nav)

Soundly(ev, h) == \A o \in DOMAIN h : \A nav \in Navs(setup, h[o].type) : Sound(ev, h, o, nav)

SoundSteps(ev, h, g) ==
    /\ Keeps(h, g) /\ DOMAIN h \subseteq DOMAIN g
    /\ \A o \in DOMAIN h : \A y \in Navs(setup, h[o].type) :
          g[o].navs[y] = h[o].navs[y] \/ Sound(ev, g, o, y)
    /\ \A o \in DOMAIN g \ DOMAIN h : \A y \in Navs(setup, g[o].type) : Sound(ev, g, o, y)

LEMMA PlainIsSound ==
  ASSUME NEW ev, NEW h, Plainly(ev, h)
  PROVE  Soundly(ev, h)
<1> SUFFICES ASSUME NEW o \in DOMAIN h, NEW nav \in Navs(setup, h[o].type)
             PROVE  Sound(ev, h, o, nav)
  BY DEF Soundly
<1>1. h[o].navs[nav].ctx = <<>> /\ AllBelong(ev, h, o, nav, h[o].navs[nav].items)
  BY DEF Plainly, Plain
<1>2. Ready(h, o, nav) BY <1>1 DEF Ready
<1>3. Owns(ev, h, o, nav) BY <1>1 DEF Owns, AllBelong
<1> QED BY <1>2, <1>3 DEF Sound

LEMMA SoundStepsKeep ==
  ASSUME NEW ev, NEW h, HeapOk(setup, h), Soundly(ev, h), NEW g, SoundSteps(ev, h, g)
  PROVE  Soundly(ev, g)
<1>1. ASSUME NEW o \in DOMAIN h, NEW y \in Navs(setup, h[o].type), g[o].navs[y] = h[o].navs[y]
      PROVE  Sound(ev, g, o, y)
  <2> DEFINE c == h[o].navs[y]
  <2>1. Owns(ev, h, o, y) /\ Ready(h, o, y) BY DEF Soundly, Sound
  <2>2. Typed(h, Related(setup, h[o].type, y), c.items) BY DEF HeapOk, OkIn
  <2>3. \A k \in DOMAIN c.items : c.items[k] \in DOMAIN h BY <2>2 DEF Typed
  <2>4. \A x \in DOMAIN h : /\ g[x].mine = h[x].mine /\ g[x].read = h[x].read
                            /\ g[x].type = h[x].type /\ g[x].values = h[x].values
    BY DEF SoundSteps, Keeps
  <2>5. g[o].navs[y] = c BY <1>1
  <2>6. \A k \in DOMAIN c.items :
           h[c.items[k]].mine \/ BelongsIn(ev, h[o].type, y, c.of, h[c.items[k]].read)
    BY <2>1 DEF Owns
  <2>7. c.ctx # <<>> /\ ~c.loaded => c.ctx[1].snapshot = h[o].values /\ AllMine(h, c.items)
    BY <2>1 DEF Ready
  <2> HIDE DEF c
  <2>8. Owns(ev, g, o, y)
    <3> SUFFICES ASSUME NEW k \in DOMAIN c.items
                 PROVE  g[c.items[k]].mine \/ BelongsIn(ev, g[o].type, y, c.of, g[c.items[k]].read)
      BY <2>5 DEF Owns
    <3> QED BY <2>3, <2>4, <2>6
  <2>9. Ready(g, o, y)
    <3> SUFFICES ASSUME c.ctx # <<>>, ~c.loaded
                 PROVE  c.ctx[1].snapshot = g[o].values /\ AllMine(g, c.items)
      BY <2>5 DEF Ready
    <3>1. AllMine(g, c.items) BY <2>3, <2>4, <2>7 DEF AllMine
    <3> QED BY <2>4, <2>7, <3>1
  <2> QED BY <2>8, <2>9 DEF Sound
<1>2. \A o \in DOMAIN h : g[o].type = h[o].type BY DEF SoundSteps, Keeps
<1> SUFFICES ASSUME NEW o \in DOMAIN g, NEW y \in Navs(setup, g[o].type) PROVE Sound(ev, g, o, y)
  BY DEF Soundly
<1>3. CASE o \in DOMAIN h
  <2>1. y \in Navs(setup, h[o].type) BY <1>2, <1>3
  <2>2. g[o].navs[y] = h[o].navs[y] \/ Sound(ev, g, o, y) BY <1>3, <2>1 DEF SoundSteps
  <2> QED BY <1>1, <1>3, <2>1, <2>2
<1>4. CASE o \notin DOMAIN h BY <1>4 DEF SoundSteps
<1> QED BY <1>3, <1>4

LEMMA NoItemsSound ==
  ASSUME NEW ev, NEW g, NEW o, NEW y, g[o].navs[y].items = <<>>,
         g[o].navs[y].ctx # <<>> => g[o].navs[y].ctx[1].snapshot = g[o].values
  PROVE  Sound(ev, g, o, y)
<1>1. \A k \in DOMAIN g[o].navs[y].items : FALSE BY EmptyIsSeq
<1>2. Owns(ev, g, o, y) BY <1>1 DEF Owns
<1>3. Ready(g, o, y) BY <1>1 DEF Ready, AllMine
<1> QED BY <1>2, <1>3 DEF Sound

LEMMA OneOf ==
  ASSUME NEW x
  PROVE  <<x>>[1] = x /\ <<x>> # <<>>
OBVIOUS

\* An entity that load() has just made.
LEMMA AttachedIsSound ==
  ASSUME NEW ev, NEW g, NEW o, NEW e, Fresh(setup, e), NEW d, g[o] = Attached(e, d),
         NEW y \in Navs(setup, g[o].type)
  PROVE  Sound(ev, g, o, y)
<1>1. /\ Fresh(setup, g[o]) /\ g[o].type = e.type /\ g[o].values = e.values
      /\ \A nav \in Navs(setup, e.type) :
            g[o].navs[nav].ctx = <<[snapshot |-> e.values, depth |-> d]>>
  BY AttachedFacts
<1>2. g[o].navs[y].items = <<>> BY <1>1 DEF Fresh
<1>3. g[o].navs[y].ctx[1].snapshot = g[o].values
  <2> DEFINE x == [snapshot |-> e.values, depth |-> d]
  <2>1. x.snapshot = e.values OBVIOUS
  <2>2. g[o].navs[y].ctx = <<x>> BY <1>1
  <2> HIDE DEF x
  <2> QED BY <1>1, <2>1, <2>2, OneOf
<1> QED BY <1>2, <1>3, NoItemsSound

\* load() fills a container.
LEMMA FillSound ==
  ASSUME setup \in DOMAIN Scenarios, HeapOk(setup, heap), NEW ev, Soundly(ev, heap),
         NEW o \in DOMAIN heap, NEW nav \in Navs(setup, heap[o].type), NEW rows, NEW g, NEW d,
         FillsOne(heap, g, o, nav, Related(setup, heap[o].type, nav), rows, d),
         AllMine(heap, heap[o].navs[nav].items),
         \A j \in DOMAIN rows :
            BelongsIn(ev, heap[o].type, nav, heap[o].values,
                      from_row(Struct(Related(setup, heap[o].type, nav)), rows[j]))
  PROVE  Soundly(ev, g)
<1> DEFINE T == heap[o].type
           R == Related(setup, heap[o].type, nav)
<1>1. R \in TypeNames(setup) BY ScenarioFacts DEF HeapOk, OkIn, EntityOk
<1>2. Keeps(heap, g) BY FillsOneSteps, StepsKeep
<1>3. /\ DOMAIN heap \subseteq DOMAIN g /\ \A x \in DOMAIN heap : x # o => g[x] = heap[x]
      /\ \A x \in DOMAIN g \ DOMAIN heap : \E j \in DOMAIN rows :
            g[x] = Attached(Entity(R, from_row(Struct(R), rows[j])), d)
  BY DEF FillsOne
<1>4. PICK c : /\ g[o] = Put(heap[o], nav, c) /\ ContainerOk(c)
               /\ c.loaded = TRUE /\ c.of = heap[o].values
               /\ \/ c.items = heap[o].navs[nav].items
                  \/ \A i \in DOMAIN c.items : \E j \in DOMAIN rows :
                       /\ c.items[i] \in DOMAIN g \ DOMAIN heap
                       /\ g[c.items[i]] = Attached(Entity(R, from_row(Struct(R), rows[j])), d)
  BY DEF FillsOne
<1>5. Typed(heap, R, heap[o].navs[nav].items) BY DEF HeapOk, OkIn
<1>6. /\ g[o].navs[nav] = c
      /\ \A y \in Navs(setup, T) : y # nav => g[o].navs[y] = heap[o].navs[y]
  <2>1. EntityOk(setup, heap[o]) BY DEF HeapOk, OkIn
  <2> QED BY <1>4, <2>1, PutFacts
<1>7. \A j \in DOMAIN rows : BelongsIn(ev, T, nav, heap[o].values, from_row(Struct(R), rows[j]))
  OBVIOUS
<1> HIDE DEF R
<1>8. ASSUME NEW i \in DOMAIN c.items
      PROVE  g[c.items[i]].mine \/ BelongsIn(ev, T, nav, c.of, g[c.items[i]].read)
  <2>1. CASE c.items = heap[o].navs[nav].items
    <3>1. c.items[i] \in DOMAIN heap /\ heap[c.items[i]].mine
      BY <1>5, <2>1 DEF Typed, AllMine
    <3> QED BY <1>2, <3>1 DEF Keeps
  <2>2. CASE \A m \in DOMAIN c.items : \E j \in DOMAIN rows :
                       /\ c.items[m] \in DOMAIN g \ DOMAIN heap
                       /\ g[c.items[m]] = Attached(Entity(R, from_row(Struct(R), rows[j])), d)
    <3>1. PICK j \in DOMAIN rows : g[c.items[i]] = Attached(Entity(R, from_row(Struct(R), rows[j])), d)
      BY <2>2
    <3> DEFINE v == from_row(Struct(R), rows[j])
               e == Entity(R, v)
    <3>2. BelongsIn(ev, T, nav, c.of, v) BY <1>4, <1>7
    <3>3. g[c.items[i]] = Attached(e, d) BY <3>1
    <3> HIDE DEF v
    <3>4. e.read = v BY <1>1, EntityIs
    <3>5. Fresh(setup, e) BY <1>1, EntityFacts
    <3> HIDE DEF e
    <3>6. Attached(e, d).read = e.read BY <3>5, AttachedIs
    <3>7. g[c.items[i]].read = v BY <3>3, <3>4, <3>6
    <3> QED BY <3>2, <3>7
  <2> QED BY <1>4, <2>1, <2>2
<1>9. Sound(ev, g, o, nav)
  <2>1. g[o].type = T BY <1>2 DEF Keeps
  <2>2. Owns(ev, g, o, nav) BY <1>6, <1>8, <2>1 DEF Owns
  <2>3. Ready(g, o, nav) BY <1>4, <1>6 DEF Ready
  <2> QED BY <2>2, <2>3 DEF Sound
<1>10. ASSUME NEW x \in DOMAIN g \ DOMAIN heap, NEW y \in Navs(setup, g[x].type)
       PROVE  Sound(ev, g, x, y)
  <2>1. PICK j \in DOMAIN rows : g[x] = Attached(Entity(R, from_row(Struct(R), rows[j])), d)
    BY <1>3 DEF R
  <2> DEFINE e == Entity(R, from_row(Struct(R), rows[j]))
  <2>2. Fresh(setup, e) BY <1>1, EntityFacts
  <2>3. g[x] = Attached(e, d) BY <2>1
  <2> HIDE DEF e
  <2> QED BY <2>2, <2>3, AttachedIsSound
<1>11. ASSUME NEW x \in DOMAIN heap, NEW y \in Navs(setup, heap[x].type)
       PROVE  g[x].navs[y] = heap[x].navs[y] \/ Sound(ev, g, x, y)
  <2>1. CASE x # o BY <1>3, <2>1
  <2>2. CASE x = o /\ y # nav BY <1>6, <2>2
  <2>3. CASE x = o /\ y = nav BY <1>9, <2>3
  <2> QED BY <2>1, <2>2, <2>3
<1>12. SoundSteps(ev, heap, g) BY <1>2, <1>3, <1>10, <1>11 DEF SoundSteps
<1> QED BY <1>12, SoundStepsKeep

\* The caller adds to a collection.
LEMMA AddSound ==
  ASSUME HeapOk(setup, heap), NEW ev, Soundly(ev, heap),
         NEW o \in DOMAIN heap, NEW nav \in Navs(setup, heap[o].type), NEW g, NEW e,
         Adds(heap, g, o, nav, e), Fresh(setup, e), e.mine,
         e.type = Related(setup, heap[o].type, nav),
         \A x \in Navs(setup, e.type) : e.navs[x] = NoContainer
  PROVE  Soundly(ev, g)
<1> DEFINE T == heap[o].type
           n == Len(heap) + 1
           old == heap[o].navs[nav]
<1>1. Keeps(heap, g) BY AddsSteps, StepsKeep
<1>2. /\ DOMAIN g = DOMAIN heap \cup {n} /\ n \notin DOMAIN heap
      /\ \A x \in DOMAIN heap : x # o => g[x] = heap[x]
      /\ g[n] = e
  BY DEF Adds
<1>3. PICK c : /\ g[o] = Put(heap[o], nav, c) /\ ContainerOk(c)
               /\ c.loaded = old.loaded /\ c.ctx = old.ctx /\ c.of = old.of
               /\ c.items = Append(old.items, n)
  BY DEF Adds
<1> HIDE DEF n
<1>4. EntityOk(setup, heap[o]) /\ Typed(heap, Related(setup, T, nav), old.items)
  BY DEF HeapOk, OkIn
<1>5. /\ g[o].navs[nav] = c
      /\ \A y \in Navs(setup, T) : y # nav => g[o].navs[y] = heap[o].navs[y]
  BY <1>3, <1>4, PutFacts
<1>6. Owns(ev, heap, o, nav) /\ Ready(heap, o, nav) BY DEF Soundly, Sound
<1>7. \A k \in DOMAIN c.items :
         \/ c.items[k] = n
         \/ k \in DOMAIN old.items /\ c.items[k] = old.items[k] /\ old.items[k] \in DOMAIN heap
  <2>1. IsSeq(old.items) BY <1>4 DEF EntityOk, ContainerOk
  <2>2. /\ DOMAIN c.items = 1..(Len(old.items) + 1) /\ c.items[Len(old.items) + 1] = n
        /\ \A k \in DOMAIN old.items : c.items[k] = old.items[k]
    BY <1>3, <2>1, AppendFacts
  <2>3. Len(old.items) \in Nat /\ DOMAIN old.items = 1..Len(old.items) BY <2>1, SeqFacts
  <2>4. \A k \in DOMAIN c.items : k = Len(old.items) + 1 \/ k \in DOMAIN old.items BY <2>2, <2>3
  <2>5. \A k \in DOMAIN old.items : old.items[k] \in DOMAIN heap BY <1>4 DEF Typed
  <2> QED BY <2>2, <2>4, <2>5
<1>8. g[n].mine BY <1>2
<1>9. g[o].type = T /\ g[o].values = heap[o].values BY <1>1 DEF Keeps
<1>10. Owns(ev, g, o, nav)
  <2> SUFFICES ASSUME NEW k \in DOMAIN c.items
               PROVE  g[c.items[k]].mine \/ BelongsIn(ev, T, nav, c.of, g[c.items[k]].read)
    BY <1>5, <1>9 DEF Owns
  <2>1. CASE c.items[k] = n BY <1>8, <2>1
  <2>2. CASE c.items[k] # n
    <3>1. k \in DOMAIN old.items /\ c.items[k] = old.items[k] /\ old.items[k] \in DOMAIN heap
      BY <1>7, <2>2
    <3>2. heap[old.items[k]].mine \/ BelongsIn(ev, T, nav, old.of, heap[old.items[k]].read)
      BY <1>6, <3>1 DEF Owns
    <3> QED BY <1>1, <1>3, <3>1, <3>2 DEF Keeps
  <2> QED BY <2>1, <2>2
<1>11. Ready(g, o, nav)
  <2> SUFFICES ASSUME c.ctx # <<>>, ~c.loaded
               PROVE  c.ctx[1].snapshot = heap[o].values /\ AllMine(g, c.items)
    BY <1>5, <1>9 DEF Ready
  <2>1. old.ctx[1].snapshot = heap[o].values /\ AllMine(heap, old.items) BY <1>3, <1>6 DEF Ready
  <2>2. AllMine(g, c.items)
    <3> SUFFICES ASSUME NEW k \in DOMAIN c.items PROVE g[c.items[k]].mine BY DEF AllMine
    <3>1. CASE c.items[k] = n BY <1>8, <3>1
    <3>2. CASE c.items[k] # n
      <4>1. k \in DOMAIN old.items /\ c.items[k] = old.items[k] /\ old.items[k] \in DOMAIN heap
        BY <1>7, <3>2
      <4>2. heap[old.items[k]].mine BY <2>1, <4>1 DEF AllMine
      <4> QED BY <1>1, <4>1, <4>2 DEF Keeps
    <3> QED BY <3>1, <3>2
  <2> QED BY <1>3, <2>1, <2>2
<1>12. ASSUME NEW x \in DOMAIN g \ DOMAIN heap, NEW y \in Navs(setup, g[x].type)
       PROVE  Sound(ev, g, x, y)
  <2>1. g[x] = e BY <1>2
  <2>2. g[x].navs[y] = NoContainer BY <2>1
  <2>3. NoContainer.ctx = <<>> /\ NoContainer.items = <<>> BY DEF NoContainer
  <2>4. g[x].navs[y].ctx = <<>> /\ g[x].navs[y].items = <<>> BY <2>2, <2>3
  <2> QED BY <2>4, NoItemsSound
<1>13. ASSUME NEW x \in DOMAIN heap, NEW y \in Navs(setup, heap[x].type)
       PROVE  g[x].navs[y] = heap[x].navs[y] \/ Sound(ev, g, x, y)
  <2>1. CASE x # o BY <1>2, <2>1
  <2>2. CASE x = o /\ y # nav BY <1>5, <2>2
  <2>3. CASE x = o /\ y = nav BY <1>10, <1>11, <2>3 DEF Sound
  <2> QED BY <2>1, <2>2, <2>3
<1>14. SoundSteps(ev, heap, g) BY <1>1, <1>2, <1>12, <1>13 DEF SoundSteps
<1> QED BY <1>14, SoundStepsKeep

\* Edits of an entity that load() has still to look up by its values.
EditsEarly == Used("edit before load")

LEMMA EditsLate ==
  ASSUME ~EditsEarly, NEW o, NEW name, NEW v, Edit(o, name, v)
  PROVE  \A nav \in DOMAIN heap[o].navs : heap[o].navs[nav].loaded \/ heap[o].navs[nav].ctx = <<>>
BY Zenon DEF EditsEarly, Edit

LEMMA EditSound ==
  ASSUME ~EditsEarly, HeapOk(setup, heap), NEW ev, Soundly(ev, heap),
         NEW o \in DOMAIN heap, NEW name, NEW v, Edit(o, name, v)
  PROVE  Soundly(ev, heap')
<1>1. /\ DOMAIN heap' = DOMAIN heap
      /\ \A x \in DOMAIN heap :
            /\ heap'[x].read = heap[x].read /\ heap'[x].mine = heap[x].mine
            /\ heap'[x].navs = heap[x].navs /\ heap'[x].type = heap[x].type
            /\ x # o => heap'[x] = heap[x]
  BY EditFacts
<1>2. DOMAIN heap[o].navs = Navs(setup, heap[o].type) BY DEF HeapOk, OkIn, EntityOk
<1> SUFFICES ASSUME NEW x \in DOMAIN heap', NEW y \in Navs(setup, heap'[x].type)
             PROVE  Sound(ev, heap', x, y)
  BY DEF Soundly
<1> DEFINE c == heap[x].navs[y]
<1>3. /\ x \in DOMAIN heap /\ y \in Navs(setup, heap[x].type)
      /\ heap'[x].type = heap[x].type /\ heap'[x].navs[y] = c
  BY <1>1
<1>4. Owns(ev, heap, x, y) /\ Ready(heap, x, y) BY <1>3 DEF Soundly, Sound
<1>5. \A k \in DOMAIN c.items : c.items[k] \in DOMAIN heap
  <2>1. Typed(heap, Related(setup, heap[x].type, y), c.items) BY <1>3 DEF HeapOk, OkIn
  <2> QED BY <2>1 DEF Typed
<1>6. \A k \in DOMAIN c.items :
         heap[c.items[k]].mine \/ BelongsIn(ev, heap[x].type, y, c.of, heap[c.items[k]].read)
  BY <1>4 DEF Owns
<1>7. c.ctx # <<>> /\ ~c.loaded => c.ctx[1].snapshot = heap[x].values /\ AllMine(heap, c.items)
  BY <1>4 DEF Ready
<1>8. x = o => c.loaded \/ c.ctx = <<>> BY <1>2, <1>3, EditsLate
<1> HIDE DEF c
<1>9. Owns(ev, heap', x, y) BY <1>1, <1>3, <1>5, <1>6 DEF Owns
<1>10. Ready(heap', x, y)
  <2> SUFFICES ASSUME c.ctx # <<>>, ~c.loaded
               PROVE  c.ctx[1].snapshot = heap'[x].values /\ AllMine(heap', c.items)
    BY <1>3 DEF Ready
  <2>1. heap'[x] = heap[x] BY <1>1, <1>3, <1>8
  <2>2. AllMine(heap', c.items) BY <1>1, <1>5, <1>7 DEF AllMine
  <2> QED BY <1>7, <2>1, <2>2
<1> QED BY <1>9, <1>10 DEF Sound

LEMMA ReadBySound ==
  ASSUME NEW q, q.type \in TypeNames(setup), NEW ev, NEW g, NEW o, NEW row, ReadBy(g[o], q, row),
         NEW y \in Navs(setup, g[o].type)
  PROVE  Sound(ev, g, o, y) /\ (q.includes # <<>> => Plain(ev, g, o, y))
<1> DEFINE e == g[o]
<1>1. ReadBy(e, q, row) OBVIOUS
<1> HIDE DEF e
<1>2. Fresh(setup, e) /\ e.type = q.type
  <2>1. Fresh(setup, e) BY <1>1, ReadByFacts
  <2>2. e.type = q.type BY <1>1, ReadByFacts
  <2> QED BY <2>1, <2>2
<1>3. y \in Navs(setup, q.type) BY <1>2 DEF e
<1>4. e.navs[y].ctx = CtxRead(q, e.values) BY <1>1, <1>3, ReadByFacts
<1>5. e.navs[y].items = <<>> BY <1>2, <1>3 DEF Fresh
<1>6. e.navs[y].ctx # <<>> => e.navs[y].ctx[1].snapshot = e.values
  <2> DEFINE x == [snapshot |-> e.values, depth |-> 0]
  <2>1. x.snapshot = e.values OBVIOUS
  <2>2. e.navs[y].ctx = <<>> \/ e.navs[y].ctx = <<x>> BY <1>4 DEF CtxRead
  <2> HIDE DEF x
  <2> QED BY <2>1, <2>2, OneOf
<1>7. q.includes # <<>> => e.navs[y].ctx = <<>> BY <1>4 DEF CtxRead
<1>8. Sound(ev, g, o, y) BY <1>5, <1>6, NoItemsSound DEF e
<1>9. q.includes # <<>> => Plain(ev, g, o, y) BY <1>5, <1>7, EmptyIsPlain DEF e
<1> QED BY <1>8, <1>9

LEMMA ToListSound ==
  ASSUME Shape, NEW q \in Given.queries, ToList(q), NEW ev
  PROVE  Soundly(ev, heap') /\ (q.includes # <<>> => Plainly(ev, heap'))
<1>1. setup \in DOMAIN Scenarios /\ TablesOk(setup, tables) BY DEF Shape, ShapeOk
<1>2. /\ q.type \in TypeNames(setup)
      /\ \A o \in DOMAIN heap' : \E row : ReadBy(heap'[o], q, row)
  BY <1>1, ToListFacts
<1>3. ASSUME NEW o \in DOMAIN heap', NEW y \in Navs(setup, heap'[o].type)
      PROVE  Sound(ev, heap', o, y) /\ (q.includes # <<>> => Plain(ev, heap', o, y))
  <2>1. PICK row : ReadBy(heap'[o], q, row) BY <1>2
  <2> QED BY <1>2, <2>1, ReadBySound
<1> QED BY <1>3 DEF Soundly, Plainly

\* While to_list loads, all of that holds and what it has read is right; while
\* load() waits for the second statement, so are the identifiers it has read.
Eagerly(ev, h, td) == td # <<>> /\ Head(td).do # "lazy" => Plainly(ev, h) /\ AllHold(ev, h, td)

LazyHolds(ev, h, t) ==
    /\ Kind(setup, h[t.at].type, t.nav) = "ManyToMany"
    /\ AllMine(h, h[t.at].navs[t.nav].items)
    /\ \A id \in t.ids : IdRead(ev, h[t.at].type, t.nav, h[t.at].values, id)

Lazily(ev, h, td) == td # <<>> /\ Head(td).do = "lazy" => LazyHolds(ev, h, Head(td))

MembersOk(ev, h, td) == Soundly(ev, h) /\ Eagerly(ev, h, td) /\ Lazily(ev, h, td)

MembersInv == MembersOk(ever, heap, todo)

LEMMA IdleOk ==
  ASSUME NEW ev, NEW h, Soundly(ev, h), NEW td, td = <<>>
  PROVE  MembersOk(ev, h, td)
BY DEF MembersOk, Eagerly, Lazily

LEMMA EagerIsOk ==
  ASSUME NEW ev, NEW h, Plainly(ev, h), NEW td, AllEager(setup, h, td), AllHold(ev, h, td)
  PROVE  MembersOk(ev, h, td)
<1>1. Soundly(ev, h) BY PlainIsSound
<1>2. td # <<>> => Head(td).do # "lazy"
  <2> SUFFICES ASSUME td # <<>> PROVE Head(td).do # "lazy" OBVIOUS
  <2>1. EagerOk(setup, h, Head(td)) BY TailEager
  <2> QED BY <2>1 DEF EagerOk
<1> QED BY <1>1, <1>2 DEF MembersOk, Eagerly, Lazily

LEMMA TailHolds ==
  ASSUME NEW ev, NEW h, NEW td, AllEager(setup, h, td), td # <<>>, AllHold(ev, h, td)
  PROVE  AllHold(ev, h, Tail(td)) /\ TaskHolds(ev, h, Head(td))
<1>1. IsSeq(td) /\ td \in Seq(Range(td)) BY DEF AllEager, IsSeq
<1>2. Len(td) \in Nat /\ DOMAIN td = 1..Len(td) BY <1>1, SeqFacts
<1>3. Len(td) # 0 BY <1>1, EmptySeq DEF IsSeq
<1>4. /\ Head(td) = td[1] /\ 1 \in DOMAIN td
      /\ Tail(td) \in Seq(Range(td)) /\ Len(Tail(td)) = Len(td) - 1
      /\ \A i \in 1..Len(Tail(td)) : Tail(td)[i] = td[i + 1]
  BY <1>1, <1>2, <1>3, HeadTailProperties
<1>5. DOMAIN Tail(td) = 1..Len(Tail(td))
  <2>1. AllEager(setup, h, Tail(td)) BY TailEager
  <2>2. IsSeq(Tail(td)) BY <2>1 DEF AllEager
  <2> QED BY <2>2, SeqFacts
<1>6. ASSUME NEW k \in DOMAIN Tail(td) PROVE TaskHolds(ev, h, Tail(td)[k])
  <2>1. k + 1 \in DOMAIN td BY <1>2, <1>4, <1>5
  <2> QED BY <1>4, <1>5, <2>1 DEF AllHold
<1> QED BY <1>4, <1>6 DEF AllHold

LEMMA ConcatHolds ==
  ASSUME NEW ev, NEW h, NEW a, NEW b, AllEager(setup, h, a), AllEager(setup, h, b),
         AllHold(ev, h, a), AllHold(ev, h, b)
  PROVE  AllHold(ev, h, a \o b)
<1>1. IsSeq(a) /\ IsSeq(b) BY DEF AllEager
<1>2. ASSUME NEW k \in DOMAIN (a \o b) PROVE TaskHolds(ev, h, (a \o b)[k])
  BY <1>1, ConcatElements DEF AllHold
<1> QED BY <1>2 DEF AllHold

\* What is taken out of the containers is put back where it was.
LEMMA RestoreHolds ==
  ASSUME NEW ev, NEW h, HeapOk(setup, h), Plainly(ev, h), NEW t, IsSeq(t.objs), NEW T,
         About(setup, h, t, T)
  PROVE  SegmentsBelong(ev, h, RestoreOf(h, t))
<1> DEFINE r == RestoreOf(h, t)
<1>1. r.objs = t.objs /\ r.nav = t.nav BY DEF RestoreOf
<1>2. /\ RestoreOk(r)
      /\ \A k \in DOMAIN t.objs :
            /\ r.counts[k] = Len(h[t.objs[k]].navs[t.nav].items)
            /\ \A j \in 1..r.counts[k] :
                  r.all[Before(r.counts, k) + j] = h[t.objs[k]].navs[t.nav].items[j]
  <2>1. RestoreOk(r) BY RestoreOfFacts
  <2>2. \A k \in DOMAIN t.objs :
           /\ r.counts[k] = Len(h[t.objs[k]].navs[t.nav].items)
           /\ \A j \in 1..r.counts[k] :
                 r.all[Before(r.counts, k) + j] = h[t.objs[k]].navs[t.nav].items[j]
    <3>1. TakesAll(h, t, r) BY RestoreOfFacts
    <3> HIDE DEF r
    <3> QED BY <3>1 DEF TakesAll
  <2> QED BY <2>1, <2>2
<1> HIDE DEF r
<1>3. ASSUME NEW k \in DOMAIN t.objs PROVE AllBelong(ev, h, t.objs[k], t.nav, Segment(r, k))
  <2> DEFINE o == t.objs[k]
             items == h[o].navs[t.nav].items
  <2>1. o \in DOMAIN h /\ t.nav \in Navs(setup, h[o].type) BY DEF About, Typed
  <2>2. AllBelong(ev, h, o, t.nav, items) BY <2>1 DEF Plainly, Plain
  <2>3. DOMAIN items = 1..Len(items)
    <3>1. IsSeq(items) BY <2>1 DEF HeapOk, OkIn, EntityOk, ContainerOk
    <3> QED BY <3>1, SeqFacts
  <2>4. /\ DOMAIN Segment(r, k) = 1..r.counts[k]
        /\ \A j \in 1..r.counts[k] : Segment(r, k)[j] = r.all[Before(r.counts, k) + j]
    <3>1. IsSeq(r.objs) /\ k \in DOMAIN r.objs BY <1>1
    <3> QED BY <1>2, <3>1, SegmentFacts
  <2>5. r.counts[k] = Len(items) /\ \A j \in 1..r.counts[k] : r.all[Before(r.counts, k) + j] = items[j]
    BY <1>2
  <2> HIDE DEF items
  <2>6. DOMAIN Segment(r, k) = DOMAIN items /\ \A j \in DOMAIN items : Segment(r, k)[j] = items[j]
    BY <2>3, <2>4, <2>5
  <2> QED BY <2>2, <2>6 DEF AllBelong
<1>4. SegmentsBelong(ev, h, r) BY <1>1, <1>3 DEF SegmentsBelong
<1> QED BY <1>4 DEF r

LEMMA GoOnPlain ==
  ASSUME Shape, NEW t, todo # <<>>, t = Head(todo), t.do \in {"load", "related"},
         NEW h, StepsTo(setup, heap, h), NoneMine(h), GoOn(h, t), NEW ev, Plainly(ev, h),
         Owned(heap, h), AllHold(ev, heap, Tail(todo))
  PROVE  MembersOk(ev, heap', todo')
<1> DEFINE T == TypeOf(t)
           s == setup
<1>1. s \in DOMAIN Scenarios /\ HeapOk(s, heap) BY DEF Shape, ShapeOk
<1>2. t.do # "lazy" /\ t.do # "restore" OBVIOUS
<1>3. EagerOk(s, heap, t) /\ AllEager(s, heap, Tail(todo)) BY <1>2, EagerTodo
<1>4. About(s, heap, t, T) /\ NestedIn(s, T, t.nav, t.nested) BY <1>2, <1>3, TypeOfTask DEF OfType
<1>5. IsSeq(t.objs) /\ t.objs # <<>> BY <1>3 DEF EagerOk
<1>6. HeapOk(s, h) /\ Grows(heap, h) BY <1>1, HeapStep
<1>7. About(s, h, t, T) /\ AllEager(s, h, Tail(todo))
  BY <1>3, <1>4, <1>6, TypedGrows, EagerGrows DEF About
<1>8. Related(s, T, t.nav) \in TypeNames(s) BY <1>1, <1>4, ScenarioFacts DEF About
<1>9. AllHold(ev, h, Tail(todo)) BY <1>3, TasksGrow
<1>10. AllEager(s, heap', todo') BY GoOnFacts
<1> HIDE DEF T
<1>11. CASE t.nested = <<>>
  <2>1. heap' = h /\ todo' = <<>> \o Tail(todo) BY <1>11 DEF GoOn
  <2>2. todo' = Tail(todo)
    <3>1. Tail(todo) \in Seq(Range(Tail(todo))) BY <1>7 DEF AllEager, IsSeq
    <3> QED BY <2>1, <3>1, ConcatEmptySeq
  <2> QED BY <1>7, <1>9, <2>1, <2>2, EagerIsOk
<1>12. CASE t.nested # <<>>
  <2>1. heap' = Drained(h, t) /\ todo' = Deeper(h, t) \o Tail(todo) BY <1>12 DEF GoOn
  <2>2. PlainSteps(ev, h, heap') BY <1>6, <1>7, <2>1, DrainPlain DEF About
  <2>3. Plainly(ev, heap') /\ Owned(h, heap') BY <1>6, <2>2, PlainStepsKeep DEF PlainSteps
  <2>4. /\ AllEager(s, h, Deeper(h, t))
        /\ \A k \in DOMAIN Deeper(h, t) :
              Deeper(h, t)[k].do = "load" \/ Deeper(h, t)[k] = RestoreOf(h, t)
    BY <1>4, <1>5, <1>6, <1>7, <1>8, DeeperFacts
  <2>5. TaskHolds(ev, h, RestoreOf(h, t))
    <3>1. RestoreOf(h, t).do = "restore" BY DEF RestoreOf
    <3>2. SegmentsBelong(ev, h, RestoreOf(h, t)) BY <1>5, <1>6, <1>7, RestoreHolds
    <3> QED BY <3>1, <3>2 DEF TaskHolds
  <2>6. \A u : u.do = "load" => TaskHolds(ev, h, u) BY DEF TaskHolds
  <2>7. AllHold(ev, h, Deeper(h, t)) BY <2>4, <2>5, <2>6 DEF AllHold
  <2>8. AllHold(ev, h, todo') /\ AllEager(s, h, todo')
    <3>1. AllHold(ev, h, todo') BY <1>7, <1>9, <2>1, <2>4, <2>7, ConcatHolds
    <3>2. AllEager(s, h, todo') BY <1>7, <2>1, <2>4, ConcatEager
    <3> QED BY <3>1, <3>2
  <2>9. AllHold(ev, heap', todo') BY <2>3, <2>8, TasksGrow
  <2> QED BY <1>10, <2>3, <2>9, EagerIsOk
<1> QED BY <1>11, <1>12

LEMMA EagerWhole ==
  ASSUME Shape, todo # <<>>, Head(todo).do # "lazy"
  PROVE  AllEager(setup, heap, todo)
<1>1. \A u : todo = <<u>> => u.do # "lazy"
  <2> SUFFICES ASSUME NEW u, todo = <<u>> PROVE u.do # "lazy" OBVIOUS
  <2>1. Head(todo) = u OBVIOUS
  <2> QED BY <2>1
<1> QED BY <1>1 DEF Shape, ShapeOk, TodoOk, LazyOk

\* The statements of to_list.
LEMMA LoadOk ==
  ASSUME Shape, MetadataAgrees, MembersInv, LoadScalar \/ LoadRelated
  PROVE  MembersOk(ever, heap', todo')
<1> DEFINE t == Head(todo)
           T == TypeOf(t)
           R == Related(setup, T, t.nav)
<1>1. setup \in DOMAIN Scenarios /\ HeapOk(setup, heap) BY DEF Shape, ShapeOk
<1>2. todo # <<>> /\ t.do \in {"load", "related"} BY DEF LoadScalar, LoadRelated, Doing
<1>3. t.do # "lazy" BY <1>2
<1>4. EagerOk(setup, heap, t) /\ AllEager(setup, heap, Tail(todo)) /\ NoneMine(heap)
  BY <1>2, <1>3, EagerTodo
<1>5. Plainly(ever, heap) /\ AllHold(ever, heap, todo)
  BY <1>2, <1>3 DEF MembersInv, MembersOk, Eagerly
<1>6. AllEager(setup, heap, todo) BY <1>2, <1>3, EagerWhole
<1>7. AllHold(ever, heap, Tail(todo)) /\ TaskHolds(ever, heap, t) BY <1>2, <1>5, <1>6, TailHolds
<1>8. T \in TypeNames(setup) /\ Typed(heap, T, t.objs) /\ t.nav \in Navs(setup, T)
  BY <1>4, TypeOfTask DEF OfType, About
<1>9. T = heap[Head(t.objs)].type BY DEF TypeOf
<1> HIDE DEF T
<1>10. t.do # "load" => JoinsRead(ever, Meta(T, t.nav).join, t.joins)
  BY <1>2, <1>7, <1>9 DEF TaskHolds
<1> HIDE DEF t
<1>11. t = Head(todo) /\ T = TypeOf(t) BY DEF t, T
<1>12. PICK rows, h :
               /\ AllFound(t, Meta(T, t.nav), R, rows)
               /\ FillsAll(heap, h, t.objs, t.nav, R, rows)
               /\ t.do = "load" <=> Meta(T, t.nav).kind # "ManyToMany"
               /\ DOMAIN rows = DOMAIN t.objs
               /\ GoOn(h, t)
  BY <1>11, LoadFacts
<1>13. RowsBelong(ever, T, t.nav, t.objs, rows)
  <2> SUFFICES ASSUME NEW k \in DOMAIN t.objs, NEW j \in DOMAIN rows[k]
               PROVE  BelongsIn(ever, T, t.nav, heap[t.objs[k]].values,
                                from_row(Struct(R), rows[k][j]))
    BY DEF RowsBelong
  <2> DEFINE e == heap[t.objs[k]]
             v == rows[k][j]
  <2>1. e.type = T BY <1>8 DEF Typed
  <2>2. FoundFor(t, Meta(T, t.nav), e, v) BY <1>12 DEF AllFound
  <2> HIDE DEF e, v
  <2>3. BelongsIn(ever, T, t.nav, e.values, from_row(Struct(R), v))
    BY <1>1, <1>8, <1>10, <1>12, <2>1, <2>2, BelongsEager
  <2> QED BY <2>3 DEF e, v
<1>14. PlainSteps(ever, heap, h) BY <1>1, <1>8, <1>12, <1>13, FillPlain
<1>15. Plainly(ever, h) /\ Owned(heap, h) BY <1>1, <1>5, <1>14, PlainStepsKeep DEF PlainSteps
<1>16. StepsTo(setup, heap, h) BY <1>1, <1>8, <1>12, FillsAllSteps
<1>17. NoneMine(h) BY <1>1, <1>4, <1>8, <1>12, FillsAllMine
<1> QED BY <1>2, <1>7, <1>11, <1>12, <1>15, <1>16, <1>17, GoOnPlain

LEMMA OwnedItself ==
  ASSUME NEW h
  PROVE  Owned(h, h)
BY DEF Owned, Keeps

\* The rows of the join table that are in it have been in it.
LEMMA JoinsAreRead ==
  ASSUME TablesOk(setup, tables), EverOk(setup, tables, ever), NEW J \in TypeNames(setup),
         NEW column, NEW keys
  PROVE  JoinsRead(ever, J, All(J, column, keys))
<1> DEFINE found == All(J, column, keys)
<1>1. IsSeq(tables[J]) /\ Range(tables[J]) \subseteq ever[J] BY DEF TablesOk, EverOk
<1>2. \A m \in DOMAIN found : \E k \in DOMAIN tables[J] : found[m] = Values(J, tables[J][k])
  BY <1>1, SelectAny
<1>3. \A k \in DOMAIN tables[J] : tables[J][k] \in ever[J] BY <1>1 DEF Range
<1> HIDE DEF found
<1>4. JoinsRead(ever, J, found) BY <1>2, <1>3 DEF JoinsRead
<1> QED BY <1>4 DEF found

LEMMA LoadJoinOk ==
  ASSUME Shape, MembersInv, LoadJoin
  PROVE  MembersOk(ever, heap', todo')
<1> DEFINE t == Head(todo)
           T == TypeOf(t)
           n == Meta(T, t.nav)
           joins == JoinsOf(t, n)
<1>1. /\ setup \in DOMAIN Scenarios /\ HeapOk(setup, heap)
      /\ TablesOk(setup, tables) /\ EverOk(setup, tables, ever)
  BY DEF Shape, ShapeOk
<1>2. /\ EagerOk(setup, heap, t) /\ t.do = "load" /\ todo # <<>>
      /\ Kind(setup, T, t.nav) = "ManyToMany"
      /\ \/ GoOn(heap, t)
         \/ /\ todo' = <<ForJoins(t, joins)>> \o Tail(todo)
            /\ EagerOk(setup, heap, ForJoins(t, joins))
            /\ AllEager(setup, heap, todo')
            /\ UNCHANGED <<setup, tables, ever, heap, result, answer, writes, uses>>
  BY LoadJoinFacts
<1>3. t.do # "lazy" BY <1>2
<1>4. AllEager(setup, heap, Tail(todo)) /\ NoneMine(heap) BY <1>2, <1>3, EagerTodo
<1>5. Plainly(ever, heap) /\ AllHold(ever, heap, todo)
  BY <1>2, <1>3 DEF MembersInv, MembersOk, Eagerly
<1>6. AllEager(setup, heap, todo) BY <1>2, <1>3, EagerWhole
<1>7. AllHold(ever, heap, Tail(todo)) BY <1>2, <1>5, <1>6, TailHolds
<1>8. T \in TypeNames(setup) /\ t.nav \in Navs(setup, T)
  BY <1>2, TypeOfTask DEF OfType, About
<1>9. n.join \in TypeNames(setup)
  <2>1. n.kind = "ManyToMany" BY <1>2 DEF Kind, Meta
  <2> HIDE DEF T, t
  <2> QED BY <1>1, <1>8, <2>1, ScenarioFacts
<1>10. CASE GoOn(heap, t)
  <2>1. StepsTo(setup, heap, heap)
    <3>1. IsSeq(heap) BY <1>1 DEF HeapOk
    <3> QED BY <3>1 DEF StepsTo
  <2>2. t.do \in {"load", "related"} BY <1>2
  <2> QED BY <1>2, <1>4, <1>5, <1>7, <1>10, <2>1, <2>2, OwnedItself, GoOnPlain
<1>11. CASE /\ todo' = <<ForJoins(t, joins)>> \o Tail(todo)
            /\ EagerOk(setup, heap, ForJoins(t, joins))
            /\ AllEager(setup, heap, todo')
            /\ UNCHANGED <<setup, tables, ever, heap, result, answer, writes, uses>>
  <2> DEFINE u == ForJoins(t, joins)
  <2>1. JoinsRead(ever, n.join, joins) BY <1>1, <1>9, JoinsAreRead DEF JoinsOf
  <2>2. u.do = "related" /\ u.objs = t.objs /\ u.nav = t.nav /\ u.joins = joins BY DEF ForJoins
  <2>3. n = Meta(heap[Head(t.objs)].type, t.nav) BY DEF TypeOf
  <2> HIDE DEF u, joins, n, T, t
  <2>4. TaskHolds(ever, heap, u) BY <2>1, <2>2, <2>3 DEF TaskHolds
  <2>5. IsSeq(<<u>>) /\ \A k \in DOMAIN <<u>> : <<u>>[k] = u BY SingletonFacts
  <2>6. AllHold(ever, heap, <<u>>) BY <2>4, <2>5 DEF AllHold
  <2>7. EagerOk(setup, heap, u) /\ todo' = <<u>> \o Tail(todo) /\ heap' = heap
        /\ AllEager(setup, heap, todo')
    BY <1>11 DEF u
  <2>8. AllEager(setup, heap, <<u>>) BY <2>5, <2>7 DEF AllEager
  <2>9. AllHold(ever, heap, todo') BY <1>4, <1>7, <2>6, <2>7, <2>8, ConcatHolds
  <2> QED BY <1>5, <2>7, <2>9, EagerIsOk
<1> QED BY <1>2, <1>10, <1>11

LEMMA RestoreIsOk ==
  ASSUME Shape, MembersInv, Restore
  PROVE  MembersOk(ever, heap', todo')
<1> DEFINE t == Head(todo)
           T == TypeOf(t)
<1>1. HeapOk(setup, heap) BY DEF Shape, ShapeOk
<1>2. /\ todo # <<>> /\ t.do = "restore" /\ RestoreOk(t)
      /\ IsSeq(t.objs) /\ About(setup, heap, t, T)
      /\ Typed(heap, Related(setup, T, t.nav), t.all)
      /\ AllEager(setup, heap, Tail(todo))
      /\ heap' = Returned(heap, t) /\ todo' = Tail(todo)
      /\ StepsTo(setup, heap, heap')
  BY RestoreFacts
<1>3. t.do # "lazy" BY <1>2
<1>4. Plainly(ever, heap) /\ AllHold(ever, heap, todo)
  BY <1>2, <1>3 DEF MembersInv, MembersOk, Eagerly
<1>5. AllEager(setup, heap, todo) BY <1>2, <1>3, EagerWhole
<1>6. AllHold(ever, heap, Tail(todo)) /\ TaskHolds(ever, heap, t) BY <1>2, <1>4, <1>5, TailHolds
<1>7. SegmentsBelong(ever, heap, t) BY <1>2, <1>6 DEF TaskHolds
<1> HIDE DEF t, T
<1>8. PlainSteps(ever, heap, heap') BY <1>1, <1>2, <1>4, <1>7, ReturnPlain DEF About
<1>9. Plainly(ever, heap') /\ Owned(heap, heap') BY <1>1, <1>4, <1>8, PlainStepsKeep DEF PlainSteps
<1>10. AllHold(ever, heap', Tail(todo)) BY <1>2, <1>6, <1>9, TasksGrow
<1>11. AllEager(setup, heap', Tail(todo))
  <2>1. Grows(heap, heap') BY <1>1, <1>2, HeapStep
  <2> QED BY <1>2, <2>1, EagerGrows
<1> QED BY <1>2, <1>9, <1>10, <1>11, EagerIsOk

\* The caller and the other connection.
RowsFit(ev, o, nav, rows) ==
    \A j \in DOMAIN rows :
        BelongsIn(ev, heap[o].type, nav, heap[o].values,
                  from_row(Struct(Related(setup, heap[o].type, nav)), rows[j]))

LEMMA FilledSound ==
  ASSUME Shape, NEW ev, Soundly(ev, heap), NEW o \in DOMAIN heap,
         NEW nav \in Navs(setup, heap[o].type), NEW rows, IsSeq(rows), Filled(o, nav, rows),
         AllMine(heap, heap[o].navs[nav].items), RowsFit(ev, o, nav, rows)
  PROVE  Soundly(ev, heap')
<1> DEFINE d == heap[o].navs[nav].ctx[1].depth + 1
           R == Related(setup, heap[o].type, nav)
<1>1. setup \in DOMAIN Scenarios /\ HeapOk(setup, heap) BY DEF Shape, ShapeOk
<1>2. FillsOne(heap, heap', o, nav, R, rows, d) BY <1>1, FilledFacts
<1>3. \A j \in DOMAIN rows :
         BelongsIn(ev, heap[o].type, nav, heap[o].values, from_row(Struct(R), rows[j]))
  BY DEF RowsFit
<1> HIDE DEF d
<1> QED BY <1>1, <1>2, <1>3, FillSound

LEMMA LoadsReady ==
  ASSUME NEW ev, Soundly(ev, heap), NEW o \in DOMAIN heap, NEW nav \in Navs(setup, heap[o].type),
         Loads(o, nav)
  PROVE  /\ heap[o].navs[nav].ctx[1].snapshot = heap[o].values
         /\ AllMine(heap, heap[o].navs[nav].items)
<1>1. ~heap[o].navs[nav].loaded /\ heap[o].navs[nav].ctx # <<>> BY Zenon DEF Loads
<1>2. Ready(heap, o, nav) BY DEF Soundly, Sound
<1> QED BY <1>1, <1>2 DEF Ready

\* The rows that LazyScalar and LazyRelated find.
LEMMA LazyRowsFit ==
  ASSUME Shape, MetadataAgrees, NEW o \in DOMAIN heap, NEW nav \in Navs(setup, heap[o].type),
         Kind(setup, heap[o].type, nav) # "ManyToMany", NEW ev, NEW rows,
         heap[o].navs[nav].ctx[1].snapshot = heap[o].values,
         RowsWith(Related(setup, heap[o].type, nav), LazyColumn(Meta(heap[o].type, nav)),
                  LazyKeys(o, Meta(heap[o].type, nav), nav), rows)
  PROVE  RowsFit(ev, o, nav, rows)
<1> DEFINE T == heap[o].type
           R == Related(setup, T, nav)
           n == Meta(T, nav)
           snap == heap[o].values
<1>1. setup \in DOMAIN Scenarios /\ T \in TypeNames(setup)
  BY DEF Shape, ShapeOk, HeapOk, OkIn, EntityOk
<1>2. n.kind # "ManyToMany" BY DEF Kind, Meta
<1>3. LazyKeys(o, n, nav) = Range(SoughtLazily(n, Struct(T), snap)) BY DEF LazyKeys
<1> SUFFICES ASSUME NEW j \in DOMAIN rows
             PROVE  BelongsIn(ev, T, nav, snap, from_row(Struct(R), rows[j]))
  BY DEF RowsFit
<1>4. PICK i \in DOMAIN tables[R] :
         /\ rows[j] = Values(R, tables[R][i])
         /\ tables[R][i][LazyColumn(n)] \in LazyKeys(o, n, nav)
  BY DEF RowsWith
<1> DEFINE row == tables[R][i]
<1>5. rows[j] = Values(R, row) /\ row[LazyColumn(n)] \in Range(SoughtLazily(n, Struct(T), snap))
  BY <1>3, <1>4
<1> HIDE DEF row, snap, T
<1>6. nav \in Navs(setup, T) BY DEF T
<1>7. BelongsIn(ev, T, nav, snap, from_row(Struct(R), Values(R, row)))
  BY <1>1, <1>2, <1>5, <1>6, BelongsLazy
<1> QED BY <1>5, <1>7

LEMMA IdRowsFit ==
  ASSUME Shape, MetadataAgrees, NEW o \in DOMAIN heap, NEW nav \in Navs(setup, heap[o].type),
         Kind(setup, heap[o].type, nav) = "ManyToMany", NEW ev, NEW rows, NEW ids,
         \A id \in ids : IdRead(ev, heap[o].type, nav, heap[o].values, id),
         RowsWith(Related(setup, heap[o].type, nav), Meta(heap[o].type, nav).ref_column, ids, rows)
  PROVE  RowsFit(ev, o, nav, rows)
<1> DEFINE T == heap[o].type
           R == Related(setup, T, nav)
           n == Meta(T, nav)
           of == heap[o].values
<1>1. setup \in DOMAIN Scenarios /\ T \in TypeNames(setup)
  BY DEF Shape, ShapeOk, HeapOk, OkIn, EntityOk
<1>2. n.kind = "ManyToMany" BY DEF Kind, Meta
<1> SUFFICES ASSUME NEW j \in DOMAIN rows
             PROVE  BelongsIn(ev, T, nav, of, from_row(Struct(R), rows[j]))
  BY DEF RowsFit
<1>3. PICK i \in DOMAIN tables[R] :
         rows[j] = Values(R, tables[R][i]) /\ tables[R][i][n.ref_column] \in ids
  BY DEF RowsWith
<1> DEFINE row == tables[R][i]
<1>4. rows[j] = Values(R, row) /\ IdRead(ev, T, nav, of, row[n.ref_column]) BY <1>3
<1> HIDE DEF row, of, T
<1>5. nav \in Navs(setup, T) BY DEF T
<1>6. BelongsIn(ev, T, nav, of, from_row(Struct(R), Values(R, row)))
  BY <1>1, <1>2, <1>4, <1>5, BelongsById
<1> QED BY <1>4, <1>6

LEMMA LazyRelatedOk ==
  ASSUME Shape, MetadataAgrees, MembersInv, LazyRelated
  PROVE  MembersOk(ever, heap', todo')
<1> DEFINE t == Head(todo)
<1>1. /\ LazyOk(setup, heap, t) /\ todo' = <<>> /\ todo = <<t>>
      /\ \E rows : /\ RowsWith(Related(setup, heap[t.at].type, t.nav),
                               Meta(heap[t.at].type, t.nav).ref_column, t.ids, rows)
                   /\ Filled(t.at, t.nav, rows)
  BY LazyRelatedFacts
<1>2. todo # <<>>
  <2> HIDE DEF t
  <2> QED BY <1>1, OneOf
<1>3. t.do = "lazy" /\ t.at \in DOMAIN heap /\ t.nav \in Navs(setup, heap[t.at].type)
  BY <1>1 DEF LazyOk
<1>4. Soundly(ever, heap) /\ LazyHolds(ever, heap, t)
  BY <1>2, <1>3 DEF MembersInv, MembersOk, Lazily
<1> HIDE DEF t
<1> DEFINE o == t.at
           nav == t.nav
<1>5. PICK rows : /\ RowsWith(Related(setup, heap[o].type, nav), Meta(heap[o].type, nav).ref_column,
                              t.ids, rows)
                  /\ Filled(o, nav, rows)
  BY <1>1
<1>6. /\ Kind(setup, heap[o].type, nav) = "ManyToMany"
      /\ AllMine(heap, heap[o].navs[nav].items)
      /\ \A id \in t.ids : IdRead(ever, heap[o].type, nav, heap[o].values, id)
  BY <1>4 DEF LazyHolds
<1>7. o \in DOMAIN heap /\ nav \in Navs(setup, heap[o].type) BY <1>3
<1> HIDE DEF o, nav
<1>8. RowsFit(ever, o, nav, rows) BY <1>5, <1>6, <1>7, IdRowsFit
<1>9. IsSeq(rows) BY <1>5 DEF RowsWith
<1>10. Soundly(ever, heap') BY <1>4, <1>5, <1>6, <1>7, <1>8, <1>9, FilledSound
<1> QED BY <1>1, <1>10, IdleOk

LEMMA LazyScalarOk ==
  ASSUME Shape, MetadataAgrees, Soundly(ever, heap), todo = <<>>, NEW o \in DOMAIN heap,
         NEW nav \in Navs(setup, heap[o].type), LazyScalar(o, nav)
  PROVE  MembersOk(ever, heap', todo')
<1>1. /\ Loads(o, nav) /\ Kind(setup, heap[o].type, nav) # "ManyToMany" /\ todo' = todo
      /\ \/ heap' = heap
         \/ \E rows :
              /\ RowsWith(Related(setup, heap[o].type, nav), LazyColumn(Meta(heap[o].type, nav)),
                          LazyKeys(o, Meta(heap[o].type, nav), nav), rows)
              /\ Filled(o, nav, rows)
  BY LazyScalarFacts
<1>2. /\ heap[o].navs[nav].ctx[1].snapshot = heap[o].values
      /\ AllMine(heap, heap[o].navs[nav].items)
  BY <1>1, LoadsReady
<1>3. Soundly(ever, heap')
  <2>1. CASE heap' = heap BY <2>1
  <2>2. ASSUME NEW rows,
               RowsWith(Related(setup, heap[o].type, nav), LazyColumn(Meta(heap[o].type, nav)),
                        LazyKeys(o, Meta(heap[o].type, nav), nav), rows),
               Filled(o, nav, rows)
        PROVE  Soundly(ever, heap')
    <3>1. RowsFit(ever, o, nav, rows) BY <1>1, <1>2, <2>2, LazyRowsFit
    <3>2. IsSeq(rows) BY <2>2 DEF RowsWith
    <3> QED BY <1>2, <2>2, <3>1, <3>2, FilledSound
  <2> QED BY <1>1, <2>1, <2>2
<1> QED BY <1>1, <1>3, IdleOk

LEMMA LazyJoinOk ==
  ASSUME Shape, MetadataAgrees, Soundly(ever, heap), todo = <<>>, NEW o \in DOMAIN heap,
         NEW nav \in Navs(setup, heap[o].type), LazyJoin(o, nav)
  PROVE  MembersOk(ever, heap', todo')
<1> DEFINE T == heap[o].type
           n == Meta(T, nav)
<1>1. setup \in DOMAIN Scenarios /\ T \in TypeNames(setup)
      /\ TablesOk(setup, tables) /\ EverOk(setup, tables, ever)
  BY DEF Shape, ShapeOk, HeapOk, OkIn, EntityOk
<1>2. /\ Loads(o, nav) /\ Kind(setup, T, nav) = "ManyToMany"
      /\ \/ Filled(o, nav, <<>>) /\ UNCHANGED todo
         \/ \E ids :
              /\ todo' = <<[do |-> "lazy", at |-> o, nav |-> nav, ids |-> ids]>>
              /\ UNCHANGED <<heap, answer>>
              /\ n.related_index = 1
              /\ \A id \in ids : \E j \in DOMAIN tables[n.join] :
                    LET row == tables[n.join][j]
                    IN  /\ id = Values(n.join, row)[1]
                        /\ row[n.through_parent_fk] \in LazyKeys(o, n, nav)
  BY LazyJoinFacts
<1>3. /\ heap[o].navs[nav].ctx[1].snapshot = heap[o].values
      /\ AllMine(heap, heap[o].navs[nav].items)
  BY <1>2, LoadsReady
<1>4. CASE Filled(o, nav, <<>>) /\ UNCHANGED todo
  <2>1. RowsFit(ever, o, nav, <<>>) BY EmptyIsSeq DEF RowsFit
  <2>2. Soundly(ever, heap') BY <1>3, <1>4, <2>1, EmptyIsSeq, FilledSound
  <2> QED BY <1>4, <2>2, IdleOk
<1>5. ASSUME NEW ids,
             todo' = <<[do |-> "lazy", at |-> o, nav |-> nav, ids |-> ids]>>, heap' = heap,
             n.related_index = 1,
             \A id \in ids : \E j \in DOMAIN tables[n.join] :
                    LET row == tables[n.join][j]
                    IN  /\ id = Values(n.join, row)[1]
                        /\ row[n.through_parent_fk] \in LazyKeys(o, n, nav)
      PROVE  MembersOk(ever, heap', todo')
  <2> DEFINE snap == heap[o].values
  <2>1. LazyKeys(o, n, nav) = Range(SoughtLazily(n, Struct(T), snap)) BY <1>3 DEF LazyKeys
  <2>2. n.join \in TypeNames(setup) BY <1>1, <1>2, JoinIsType
  <2>3. \A j \in DOMAIN tables[n.join] : tables[n.join][j] \in ever[n.join]
    BY <1>1, <2>2 DEF EverOk, Range
  <2>4. n.kind = "ManyToMany" BY <1>2 DEF Kind, Meta
  <2>5. ASSUME NEW id \in ids PROVE IdRead(ever, T, nav, snap, id)
    <3>1. PICK j \in DOMAIN tables[n.join] :
                    /\ id = Values(n.join, tables[n.join][j])[1]
                    /\ tables[n.join][j][n.through_parent_fk] \in LazyKeys(o, n, nav)
      BY <1>5
    <3> DEFINE row == tables[n.join][j]
    <3>2. /\ row \in ever[n.join] /\ id = Values(n.join, row)[1]
          /\ row[n.through_parent_fk] \in Range(SoughtLazily(n, Struct(T), snap))
      BY <2>1, <2>3, <3>1
    <3>3. n.related_index = 1 /\ nav \in Navs(setup, T) BY <1>5
    <3> HIDE DEF row, snap, T
    <3>4. IdRead(ever, T, nav, snap, Values(n.join, row)[1])
      BY <1>1, <2>4, <3>2, <3>3, IdsBelong
    <3> QED BY <3>2, <3>4
  <2> DEFINE u == [do |-> "lazy", at |-> o, nav |-> nav, ids |-> ids]
  <2>6. u.do = "lazy" /\ u.at = o /\ u.nav = nav /\ u.ids = ids OBVIOUS
  <2>7. todo' = <<u>> BY <1>5
  <2> HIDE DEF u
  <2>8. LazyHolds(ever, heap, u) BY <1>2, <1>3, <2>5, <2>6 DEF LazyHolds
  <2>9. Head(todo') = u BY <2>7
  <2> QED BY <1>5, <2>6, <2>8, <2>9 DEF MembersOk, Eagerly, Lazily
<1> QED BY <1>2, <1>4, <1>5

LEMMA CallerOk ==
  ASSUME Shape, MetadataAgrees, ~EditsEarly, MembersInv, Caller
  PROVE  MembersOk(ever, heap', todo')
<1>1. HeapOk(setup, heap) /\ setup \in DOMAIN Scenarios BY DEF Shape, ShapeOk
<1>2. PICK o \in DOMAIN heap :
        /\ Idle
        /\ \/ \E nav \in DOMAIN heap[o].navs :
                 \/ LoadNoop(o, nav) \/ TooDeep(o, nav)
                 \/ LazyScalar(o, nav) \/ LazyJoin(o, nav) \/ Add(o, nav)
           \/ \E e \in Given.edits : Edit(o, e.field, e.value)
  BY DEF Caller
<1>3. todo = <<>> BY <1>2 DEF Idle
<1>4. DOMAIN heap[o].navs = Navs(setup, heap[o].type) BY <1>1 DEF HeapOk, OkIn, EntityOk
<1>5. Soundly(ever, heap) BY DEF MembersInv, MembersOk
<1>6. ASSUME NEW nav \in DOMAIN heap[o].navs, LoadNoop(o, nav) \/ TooDeep(o, nav)
      PROVE  MembersOk(ever, heap', todo')
  <2>1. heap' = heap /\ todo' = todo
    <3>1. CASE LoadNoop(o, nav) BY <3>1 DEF LoadNoop
    <3>2. CASE TooDeep(o, nav) BY <3>2 DEF TooDeep
    <3> QED BY <1>6, <3>1, <3>2
  <2> QED BY <2>1 DEF MembersInv
<1>7. ASSUME NEW nav \in DOMAIN heap[o].navs, LazyScalar(o, nav)
      PROVE  MembersOk(ever, heap', todo')
  BY <1>3, <1>4, <1>5, <1>7, LazyScalarOk
<1>8. ASSUME NEW nav \in DOMAIN heap[o].navs, LazyJoin(o, nav)
      PROVE  MembersOk(ever, heap', todo')
  BY <1>3, <1>4, <1>5, <1>8, LazyJoinOk
<1>9. ASSUME NEW nav \in DOMAIN heap[o].navs, Add(o, nav)
      PROVE  MembersOk(ever, heap', todo')
  <2>1. PICK e : /\ Adds(heap, heap', o, nav, e)
                 /\ Fresh(setup, e) /\ e.mine /\ e.type = Related(setup, heap[o].type, nav)
                 /\ \A x \in Navs(setup, e.type) : e.navs[x] = NoContainer
    BY <1>1, <1>4, <1>9, AddFacts
  <2>2. Soundly(ever, heap') BY <1>1, <1>4, <1>5, <2>1, AddSound
  <2>3. todo' = todo BY <1>9 DEF Add
  <2> QED BY <1>3, <2>2, <2>3, IdleOk
<1>10. ASSUME NEW e \in Given.edits, Edit(o, e.field, e.value)
       PROVE  MembersOk(ever, heap', todo')
  <2>1. Soundly(ever, heap') BY <1>1, <1>5, <1>10, EditSound
  <2>2. todo' = todo BY <1>10 DEF Edit
  <2> QED BY <1>3, <2>1, <2>2, IdleOk
<1> QED BY <1>2, <1>6, <1>7, <1>8, <1>9, <1>10

\* Nothing that has been read is unread when rows change.
LEMMA SoundEver ==
  ASSUME setup \in DOMAIN Scenarios, NEW ev, NEW fv, EverGrows(ev, fv), NEW h, HeapOk(setup, h),
         Soundly(ev, h)
  PROVE  Soundly(fv, h)
<1> SUFFICES ASSUME NEW o \in DOMAIN h, NEW nav \in Navs(setup, h[o].type)
             PROVE  Sound(fv, h, o, nav)
  BY DEF Soundly
<1>1. h[o].type \in TypeNames(setup) BY DEF HeapOk, OkIn, EntityOk
<1>2. Owns(ev, h, o, nav) /\ Ready(h, o, nav) BY DEF Soundly, Sound
<1>3. \A of, r : BelongsIn(ev, h[o].type, nav, of, r) => BelongsIn(fv, h[o].type, nav, of, r)
  BY <1>1, BelongsGrows
<1>4. Owns(fv, h, o, nav) BY <1>2, <1>3 DEF Owns
<1> QED BY <1>2, <1>4 DEF Sound

LEMMA AllBelongEver ==
  ASSUME setup \in DOMAIN Scenarios, NEW ev, NEW fv, EverGrows(ev, fv), NEW h, HeapOk(setup, h),
         NEW o \in DOMAIN h, NEW nav \in Navs(setup, h[o].type), NEW items,
         AllBelong(ev, h, o, nav, items)
  PROVE  AllBelong(fv, h, o, nav, items)
<1>1. h[o].type \in TypeNames(setup) BY DEF HeapOk, OkIn, EntityOk
<1>2. \A of, r : BelongsIn(ev, h[o].type, nav, of, r) => BelongsIn(fv, h[o].type, nav, of, r)
  BY <1>1, BelongsGrows
<1> QED BY <1>2 DEF AllBelong

LEMMA EagerEver ==
  ASSUME setup \in DOMAIN Scenarios, NEW ev, NEW fv, EverGrows(ev, fv), NEW h, HeapOk(setup, h),
         NEW td, AllEager(setup, h, td), Plainly(ev, h), AllHold(ev, h, td)
  PROVE  Plainly(fv, h) /\ AllHold(fv, h, td)
<1>1. Plainly(fv, h)
  <2> SUFFICES ASSUME NEW o \in DOMAIN h, NEW nav \in Navs(setup, h[o].type)
               PROVE  Plain(fv, h, o, nav)
    BY DEF Plainly
  <2>1. Plain(ev, h, o, nav) BY DEF Plainly
  <2>2. AllBelong(fv, h, o, nav, h[o].navs[nav].items) BY <2>1, AllBelongEver DEF Plain
  <2> QED BY <2>1, <2>2 DEF Plain
<1>2. ASSUME NEW t, EagerOk(setup, h, t), TaskHolds(ev, h, t) PROVE TaskHolds(fv, h, t)
  <2>1. PICK T : OfType(setup, h, t, T) BY <1>2 DEF EagerOk
  <2>2. ASSUME t.do = "related"
        PROVE  JoinsRead(fv, Meta(h[Head(t.objs)].type, t.nav).join, t.joins)
    <3>1. Head(t.objs) \in DOMAIN h BY <1>2, HeadOfObjs
    <3>2. h[Head(t.objs)].type = T
      <4>1. IsSeq(t.objs) /\ t.objs # <<>> BY <1>2 DEF EagerOk
      <4>2. \A k \in DOMAIN t.objs : h[t.objs[k]].type = T BY <2>1 DEF OfType, About, Typed
      <4>3. Len(t.objs) \in Nat /\ DOMAIN t.objs = 1..Len(t.objs) BY <4>1, SeqFacts
      <4>4. Len(t.objs) # 0 BY <4>1, EmptySeq DEF IsSeq
      <4>5. Head(t.objs) = t.objs[1] /\ 1 \in DOMAIN t.objs BY <4>3, <4>4
      <4> QED BY <4>2, <4>5
    <3>3. T \in TypeNames(setup) /\ t.nav \in Navs(setup, T) /\ Kind(setup, T, t.nav) = "ManyToMany"
      BY <2>1, <2>2 DEF OfType, About
    <3>4. Meta(T, t.nav).join \in TypeNames(setup) BY <3>3, JoinIsType
    <3>5. JoinsRead(ev, Meta(T, t.nav).join, t.joins) BY <1>2, <2>2, <3>2 DEF TaskHolds
    <3>6. ev[Meta(T, t.nav).join] \subseteq fv[Meta(T, t.nav).join] BY <3>4 DEF EverGrows
    <3>7. JoinsRead(fv, Meta(T, t.nav).join, t.joins) BY <3>5, <3>6 DEF JoinsRead
    <3> QED BY <3>2, <3>7
  <2>3. ASSUME t.do = "restore", NEW k \in DOMAIN t.objs
        PROVE  AllBelong(fv, h, t.objs[k], t.nav, Segment(t, k))
    <3>1. t.objs[k] \in DOMAIN h /\ t.nav \in Navs(setup, h[t.objs[k]].type)
      BY <2>1, <2>3 DEF OfType, About, Typed
    <3>2. AllBelong(ev, h, t.objs[k], t.nav, Segment(t, k))
      BY <1>2, <2>3 DEF TaskHolds, SegmentsBelong
    <3> QED BY <3>1, <3>2, AllBelongEver
  <2> QED BY <2>2, <2>3 DEF TaskHolds, SegmentsBelong
<1>3. AllHold(fv, h, td) BY <1>2 DEF AllHold, AllEager
<1> QED BY <1>1, <1>3

LEMMA LazyEver ==
  ASSUME setup \in DOMAIN Scenarios, NEW ev, NEW fv, EverGrows(ev, fv), NEW h, HeapOk(setup, h),
         NEW t, LazyOk(setup, h, t), LazyHolds(ev, h, t)
  PROVE  LazyHolds(fv, h, t)
<1> DEFINE T == h[t.at].type
<1>1. t.at \in DOMAIN h /\ t.nav \in Navs(setup, T) BY DEF LazyOk
<1>2. T \in TypeNames(setup) BY <1>1 DEF HeapOk, OkIn, EntityOk
<1>3. Kind(setup, T, t.nav) = "ManyToMany" BY DEF LazyHolds
<1>4. Meta(T, t.nav).join \in TypeNames(setup) BY <1>1, <1>2, <1>3, JoinIsType
<1>5. ev[Meta(T, t.nav).join] \subseteq fv[Meta(T, t.nav).join] BY <1>4 DEF EverGrows
<1>6. \A of, id : IdRead(ev, T, t.nav, of, id) => IdRead(fv, T, t.nav, of, id)
  BY <1>5 DEF IdRead, Meta
<1> QED BY <1>6 DEF LazyHolds

LEMMA WriteOk ==
  ASSUME Shape, MembersInv, NEW c \in Given.changes, Write(c)
  PROVE  MembersOk(ever', heap', todo')
<1>1. /\ setup \in DOMAIN Scenarios /\ HeapOk(setup, heap) /\ EverOk(setup, tables, ever)
  BY DEF Shape, ShapeOk
<1>2. /\ ever' = [T \in DOMAIN ever |-> ever[T] \cup Range(tables'[T])]
      /\ heap' = heap /\ todo' = todo
  BY DEF Write
<1>3. DOMAIN ever = TypeNames(setup) BY <1>1 DEF EverOk
<1>4. EverGrows(ever, ever') BY <1>2, <1>3 DEF EverGrows
<1> DEFINE fv == ever'
<1>5. EverGrows(ever, fv) BY <1>4
<1> HIDE DEF fv
<1>6. Soundly(fv, heap) BY <1>1, <1>5, SoundEver DEF MembersInv, MembersOk
<1>7. Eagerly(fv, heap, todo)
  <2> SUFFICES ASSUME todo # <<>>, Head(todo).do # "lazy"
               PROVE  Plainly(fv, heap) /\ AllHold(fv, heap, todo)
    BY DEF Eagerly
  <2>1. AllEager(setup, heap, todo) BY EagerWhole
  <2>2. Plainly(ever, heap) /\ AllHold(ever, heap, todo) BY DEF MembersInv, MembersOk, Eagerly
  <2> QED BY <1>1, <1>5, <2>1, <2>2, EagerEver
<1>8. Lazily(fv, heap, todo)
  <2> SUFFICES ASSUME todo # <<>>, Head(todo).do = "lazy"
               PROVE  LazyHolds(fv, heap, Head(todo))
    BY DEF Lazily
  <2>1. LazyOk(setup, heap, Head(todo)) BY LazyTodo
  <2>2. LazyHolds(ever, heap, Head(todo)) BY DEF MembersInv, MembersOk, Lazily
  <2> QED BY <1>1, <1>5, <2>1, <2>2, LazyEver
<1> QED BY <1>2, <1>6, <1>7, <1>8 DEF MembersOk, fv

LEMMA MembersSetup ==
  ASSUME setup' = setup, MembersOk(ever', heap', todo')
  PROVE  MembersInv'
<1>1. Soundly(ever, heap)'
  <2> SUFFICES ASSUME NEW o \in DOMAIN heap', NEW nav \in Navs(setup', heap'[o].type)
               PROVE  Sound(ever, heap, o, nav)'
    BY DEF Soundly
  <2>1. Owns(ever', heap', o, nav) /\ Ready(heap', o, nav) BY DEF MembersOk, Soundly, Sound
  <2>2. Owns(ever, heap, o, nav)' BY <2>1 DEF Owns, BelongsIn
  <2>3. Ready(heap, o, nav)' BY <2>1 DEF Ready, AllMine
  <2> QED BY <2>2, <2>3 DEF Sound
<1>2. Eagerly(ever, heap, todo)'
  <2> SUFFICES ASSUME todo' # <<>>, Head(todo').do # "lazy"
               PROVE  Plainly(ever, heap)' /\ AllHold(ever, heap, todo)'
    BY DEF Eagerly
  <2>1. Plainly(ever', heap') /\ AllHold(ever', heap', todo') BY DEF MembersOk, Eagerly
  <2>2. Plainly(ever, heap)'
    <3> SUFFICES ASSUME NEW o \in DOMAIN heap', NEW nav \in Navs(setup', heap'[o].type)
                 PROVE  Plain(ever, heap, o, nav)'
      BY DEF Plainly
    <3>1. Plain(ever', heap', o, nav) BY <2>1 DEF Plainly
    <3> QED BY <3>1 DEF Plain, AllBelong, BelongsIn
  <2>3. AllHold(ever, heap, todo)'
    <3> SUFFICES ASSUME NEW k \in DOMAIN todo' PROVE TaskHolds(ever, heap, todo[k])'
      BY DEF AllHold
    <3>1. TaskHolds(ever', heap', todo'[k]) BY <2>1 DEF AllHold
    <3>2. SegmentsBelong(ever', heap', todo'[k]) => SegmentsBelong(ever, heap, todo[k])'
      <4>1. ASSUME NEW o, NEW nav, NEW items, AllBelong(ever', heap', o, nav, items)
            PROVE  AllBelong(ever, heap, o, nav, items)'
        <5> SUFFICES ASSUME NEW i \in DOMAIN items
                     PROVE  /\ heap'[o].navs[nav].of = heap'[o].values
                            /\ BelongsIn(ever, heap[o].type, nav, heap[o].values,
                                         heap[items[i]].read)'
          BY DEF AllBelong
        <5>1. /\ heap'[o].navs[nav].of = heap'[o].values
              /\ BelongsIn(ever', heap'[o].type, nav, heap'[o].values, heap'[items[i]].read)
          BY <4>1 DEF AllBelong
        <5> QED BY <5>1 DEF BelongsIn
      <4> QED BY <4>1 DEF SegmentsBelong, Segment
    <3>3. \A J, joins : JoinsRead(ever', J, joins) => JoinsRead(ever, J, joins)'
      BY DEF JoinsRead, Values, Given
    <3> QED BY <3>1, <3>2, <3>3 DEF TaskHolds, Meta
  <2> QED BY <2>2, <2>3
<1>3. Lazily(ever, heap, todo)'
  BY DEF MembersOk, Lazily, LazyHolds, Kind, AllMine, IdRead, Struct, Given
<1> QED BY <1>1, <1>2, <1>3 DEF MembersInv, MembersOk

LEMMA MembersKept ==
  ASSUME Shape, MetadataAgrees, ~EditsEarly, MembersInv, [Next]_vars
  PROVE  MembersOk(ever', heap', todo')
<1>1. CASE UNCHANGED vars BY <1>1 DEF vars, MembersInv
<1>2. ASSUME NEW q \in Given.queries, ToList(q) PROVE MembersOk(ever', heap', todo')
  <2>1. /\ AllEager(setup, heap', todo') /\ (q.includes = <<>> => todo' = <<>>)
        /\ \A k \in DOMAIN todo' : todo'[k].do = "load"
    <3>1. setup \in DOMAIN Scenarios /\ TablesOk(setup, tables) BY DEF Shape, ShapeOk
    <3> QED BY <1>2, <3>1, ToListFacts
  <2> DEFINE ev == ever'
  <2>2. Soundly(ev, heap') /\ (q.includes # <<>> => Plainly(ev, heap'))
    <3> HIDE DEF ev
    <3> QED BY <1>2, ToListSound
  <2>3. CASE q.includes = <<>> BY <2>1, <2>2, <2>3, IdleOk
  <2>4. CASE q.includes # <<>>
    <3>1. AllHold(ev, heap', todo') BY <2>1 DEF AllHold, TaskHolds
    <3> QED BY <2>1, <2>2, <2>4, <3>1, EagerIsOk
  <2> QED BY <2>3, <2>4
<1>3. CASE LoadScalar \/ LoadRelated
  <2>1. ever' = ever BY <1>3 DEF LoadScalar, LoadRelated, GoOn
  <2> QED BY <1>3, <2>1, LoadOk
<1>4. CASE LoadJoin
  <2>1. ever' = ever BY <1>4 DEF LoadJoin, GoOn
  <2> QED BY <1>4, <2>1, LoadJoinOk
<1>5. CASE Restore
  <2>1. ever' = ever BY <1>5 DEF Restore
  <2> QED BY <1>5, <2>1, RestoreIsOk
<1>6. CASE LazyRelated
  <2>1. ever' = ever BY <1>6 DEF LazyRelated
  <2> QED BY <1>6, <2>1, LazyRelatedOk
<1>7. CASE Caller
  <2>1. ever' = ever BY <1>7, CallerKeeps
  <2> QED BY <1>7, <2>1, CallerOk
<1>8. ASSUME NEW c \in Given.changes, Write(c) PROVE MembersOk(ever', heap', todo')
  BY <1>8, WriteOk
<1> QED BY <1>1, <1>2, <1>3, <1>4, <1>5, <1>6, <1>7, <1>8 DEF Next

\* Whatever the other connection changes between two statements, every entity
\* that to_list or load() puts into a container is related to the entity that
\* owns it, as the fields of the two structs declare: it has the key that the
\* owner's foreign key names, or the owner's key in its own, or some row of the
\* join table has had both.  The metadata must agree with the fields, and the
\* caller must not edit an entity between the query and the load() of one of
\* its navigations (navigation_loader.rs, lazy.rs, entity/parse.rs).
THEOREM MembersStay ==
  ASSUME MetadataAgrees, ~EditsEarly
  PROVE  Spec => []MembersBelong
<1>1. Init => MembersInv
  <2> SUFFICES ASSUME Init PROVE MembersInv OBVIOUS
  <2>1. heap = <<>> /\ todo = <<>> BY DEF Init
  <2>2. Soundly(ever, heap) BY <2>1 DEF Soundly
  <2> QED BY <2>1, <2>2, IdleOk DEF MembersInv
<1>2. Shape /\ MembersInv /\ [Next]_vars => MembersInv'
  <2> SUFFICES ASSUME Shape, MembersInv, [Next]_vars PROVE MembersInv' OBVIOUS
  <2>1. setup' = setup BY Steps
  <2>2. MembersOk(ever', heap', todo') BY MembersKept
  <2> QED BY <2>1, <2>2, MembersSetup
<1>3. Shape /\ MembersInv => MembersBelong
  <2> SUFFICES ASSUME Shape, MembersInv, NEW o \in DOMAIN heap, NEW nav \in DOMAIN heap[o].navs,
                      NEW i \in Range(Fetched(o, nav))
               PROVE  Belongs(heap[o].type, nav, Container(o, nav).of, heap[i].read)
    BY DEF MembersBelong
  <2> DEFINE items == heap[o].navs[nav].items
             at    == {k \in DOMAIN items : ~heap[items[k]].mine}
  <2>1. /\ setup \in DOMAIN Scenarios /\ heap[o].type \in TypeNames(setup)
        /\ nav \in Navs(setup, heap[o].type)
    BY DEF Shape, ShapeOk, HeapOk, OkIn, EntityOk
  <2>2. IsSeq(items) BY <2>1 DEF Shape, ShapeOk, HeapOk, OkIn, EntityOk, ContainerOk
  <2>3. PICK m \in DOMAIN Fetched(o, nav) : Fetched(o, nav)[m] = i BY DEF Range
  <2>4. Fetched(o, nav) = Picked(items, at) BY DEF Fetched, Container
  <2>5. \A k \in at : k \in DOMAIN items /\ ~heap[items[k]].mine OBVIOUS
  <2>6. Owns(ever, heap, o, nav) BY <2>1 DEF MembersInv, MembersOk, Soundly, Sound
  <2>7. \A k \in DOMAIN items :
           heap[items[k]].mine
           \/ BelongsIn(ever, heap[o].type, nav, heap[o].navs[nav].of, heap[items[k]].read)
    BY <2>6 DEF Owns
  <2> HIDE DEF items, at
  <2>8. PICK k \in DOMAIN items : k \in at /\ Picked(items, at)[m] = items[k]
    BY <2>2, <2>3, <2>4, PickedFacts
  <2>9. items[k] = i /\ ~heap[i].mine BY <2>3, <2>4, <2>5, <2>8
  <2>10. BelongsIn(ever, heap[o].type, nav, heap[o].navs[nav].of, heap[i].read) BY <2>7, <2>9
  <2>11. Container(o, nav).of = heap[o].navs[nav].of BY DEF Container
  <2> QED BY <2>1, <2>10, <2>11, BelongsAsDeclared
<1>4. Spec => []Shape BY ShapeIsKept
<1> QED BY <1>1, <1>2, <1>3, <1>4, PTL DEF Spec
=============================================================================
