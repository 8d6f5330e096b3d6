------------------------ MODULE DeviceSelectionProofs ------------------------
(***************************************************************************)
(* What discovery and selection compute, for sequences of any length.      *)
(*                                                                         *)
(* Induction is over sets of numbers: a set that has 0 and the successor   *)
(* of each of its members has every natural number, because a smallest     *)
(* one that it lacks would have a predecessor that it has.                 *)
(***************************************************************************)
EXTENDS DeviceSelection, FiniteSetTheorems, WellFoundedInduction, TLAPS

-----------------------------------------------------------------------------
(* Induction.                                                              *)

LessThan == {ss \in Nat \X Nat : ss[1] < ss[2]}

\* The order of the natural numbers is well-founded.
LEMMA LessThanIsWellFounded == IsWellFoundedOn(LessThan, Nat)
<1>1. LessThan = OpToRel(<, Nat)
  BY Zenon DEF LessThan, OpToRel
<1> QED BY <1>1, NatLessThanWellFounded, Zenon

\* Induction, for a set of numbers.
LEMMA InductiveSet ==
    ASSUME NEW S, 0 \in S, \A n \in Nat : n \in S => n + 1 \in S
    PROVE  Nat \subseteq S
<1> DEFINE T == Nat \ S
<1> SUFFICES ASSUME T # {} PROVE FALSE
  OBVIOUS
<1>1. PICK x \in T : \A y \in T : <<y, x>> \notin LessThan
  <2> HIDE DEF T
  <2>1. T \subseteq Nat
    BY DEF T
  <2> QED BY <2>1, WFMin, LessThanIsWellFounded
<1>2. x # 0 /\ x - 1 \in Nat /\ x - 1 < x /\ x \in Nat
  OBVIOUS
<1>3. <<x - 1, x>> \in LessThan
  BY <1>2 DEF LessThan
<1>4. x - 1 \in S
  BY <1>1, <1>2, <1>3
<1> QED BY <1>2, <1>4

-----------------------------------------------------------------------------
(* Keep.                                                                   *)

KeepStep(s, S, kept, k) ==
    IF k = 0 THEN <<>>
    ELSE IF s[k] \in S THEN Append(kept[k - 1], s[k]) ELSE kept[k - 1]

\* The recursive function of Keep exists.
LEMMA KeepRecursion ==
    ASSUME NEW E, NEW s \in Seq(E), NEW S
    PROVE  \E kept : /\ kept = [k \in 0..Len(s) |-> KeepStep(s, S, kept, k)]
                     /\ Keep(s, S) = kept[Len(s)]
<1> DEFINE Solves(f, m) == f = [k \in 0..m |-> KeepStep(s, S, f, k)]
           P == {m \in Nat : \E f : Solves(f, m)}
<1>1. 0 \in P
  <2>1. Solves([k \in 0..0 |-> <<>>], 0)
    BY DEF KeepStep
  <2> QED BY <2>1
<1>2. ASSUME NEW m \in Nat, m \in P PROVE m + 1 \in P
  <2>1. PICK f : Solves(f, m)
    BY <1>2
  <2> DEFINE g == [k \in 0..(m + 1) |->
                      IF k <= m THEN f[k] ELSE KeepStep(s, S, f, m + 1)]
  <2>2. \A k \in 0..m : f[k] = KeepStep(s, S, f, k)
    BY <2>1
  <2>3. \A k \in 0..(m + 1) : g[k] = KeepStep(s, S, f, k)
    BY <2>2
  <2>4. \A k \in 0..(m + 1) : KeepStep(s, S, g, k) = KeepStep(s, S, f, k)
    BY DEF KeepStep
  <2>5. Solves(g, m + 1)
    BY <2>3, <2>4
  <2> HIDE DEF g
  <2> QED BY <2>5
<1>3. Len(s) \in P
  <2> HIDE DEF P
  <2> QED BY <1>1, <1>2, InductiveSet
<1> QED BY <1>3 DEF Keep, KeepStep

\* Where the elements of kept come from: p goes up, and takes every position up
\* to m of s that holds an element of S.
Takes(p, kept, s, S, m) ==
    /\ p \in [1..Len(kept) -> 1..m]
    /\ \A i, j \in 1..Len(kept) : i < j => p[i] < p[j]
    /\ \A i \in 1..Len(kept) : kept[i] = s[p[i]] /\ s[p[i]] \in S
    /\ \A k \in 1..m : s[k] \in S => \E i \in 1..Len(kept) : p[i] = k

\* Keep returns the elements of s that are in S, each as often as in s and in
\* the same order.
LEMMA KeepTakes ==
    ASSUME NEW E, NEW s \in Seq(E), NEW S
    PROVE  /\ Keep(s, S) \in Seq(E)
           /\ \E p : Takes(p, Keep(s, S), s, S, Len(s))
<1>1. PICK kept : /\ kept = [k \in 0..Len(s) |-> KeepStep(s, S, kept, k)]
                  /\ Keep(s, S) = kept[Len(s)]
  BY KeepRecursion
<1> DEFINE P == {m \in Nat : m <= Len(s) =>
                    kept[m] \in Seq(E) /\ \E p : Takes(p, kept[m], s, S, m)}
<1>2. 0 \in P
  <2>1. kept[0] = <<>>
    BY <1>1 DEF KeepStep
  <2>2. Takes(<<>>, <<>>, s, S, 0)
    BY DEF Takes
  <2>3. kept[0] \in Seq(E) /\ \E p : Takes(p, kept[0], s, S, 0)
    BY <2>1, <2>2
  <2> QED BY <2>3
<1>3. ASSUME NEW m \in Nat, m \in P PROVE m + 1 \in P
  <2> SUFFICES ASSUME m + 1 <= Len(s)
               PROVE  /\ kept[m + 1] \in Seq(E)
                      /\ \E p : Takes(p, kept[m + 1], s, S, m + 1)
    OBVIOUS
  <2>1. kept[m + 1] = IF s[m + 1] \in S THEN Append(kept[m], s[m + 1]) ELSE kept[m]
    <3>1. m + 1 \in 0..Len(s) /\ m + 1 # 0 /\ (m + 1) - 1 = m
      OBVIOUS
    <3>2. kept[m + 1] = KeepStep(s, S, kept, m + 1)
      BY <1>1, <3>1
    <3> QED BY <3>1, <3>2 DEF KeepStep
  <2>2. PICK p : Takes(p, kept[m], s, S, m)
    BY <1>3
  <2>3. kept[m] \in Seq(E) /\ s[m + 1] \in E
    BY <1>3
  <2>4. CASE s[m + 1] \in S
    <3> DEFINE new == Append(kept[m], s[m + 1])
               q == [i \in 1..(Len(kept[m]) + 1) |->
                        IF i <= Len(kept[m]) THEN p[i] ELSE m + 1]
    <3>1. new \in Seq(E) /\ Len(new) = Len(kept[m]) + 1
      BY <2>3
    <3>2. \A i \in 1..Len(kept[m]) : new[i] = kept[m][i]
      BY <2>3
    <3>3. new[Len(kept[m]) + 1] = s[m + 1]
      BY <2>3
    <3> HIDE DEF new
    <3>4. Len(kept[m]) \in Nat
      BY <2>3
    <3>5. q \in [1..Len(new) -> 1..(m + 1)]
      BY <2>2, <3>1, <3>4 DEF Takes
    <3>6. ASSUME NEW i \in 1..Len(new), NEW j \in 1..Len(new), i < j PROVE q[i] < q[j]
      <4>1. i \in 1..Len(kept[m]) /\ q[i] = p[i] /\ p[i] \in 1..m
        <5>1. i \in 1..Len(kept[m])
          BY <3>1, <3>4, <3>6
        <5>2. p[i] \in 1..m
          BY <2>2, <5>1 DEF Takes
        <5> QED BY <3>4, <5>1, <5>2
      <4>2. CASE j <= Len(kept[m])
        BY <2>2, <3>1, <3>4, <3>6, <4>1, <4>2 DEF Takes
      <4>3. CASE j = Len(kept[m]) + 1
        BY <3>4, <4>1, <4>3
      <4> QED BY <3>1, <3>4, <4>2, <4>3
    <3>7. ASSUME NEW i \in 1..Len(new) PROVE new[i] = s[q[i]] /\ s[q[i]] \in S
      <4>1. CASE i <= Len(kept[m])
        BY <2>2, <3>1, <3>2, <3>4, <4>1 DEF Takes
      <4>2. CASE i = Len(kept[m]) + 1
        BY <2>4, <3>3, <3>4, <4>2
      <4> QED BY <3>1, <3>4, <4>1, <4>2
    <3>8. ASSUME NEW k \in 1..(m + 1), s[k] \in S PROVE \E i \in 1..Len(new) : q[i] = k
      <4>1. CASE k <= m
        <5>1. PICK i \in 1..Len(kept[m]) : p[i] = k
          BY <2>2, <3>8, <4>1 DEF Takes
        <5>2. i \in 1..Len(new) /\ q[i] = k
          BY <3>1, <3>4, <5>1
        <5> HIDE DEF q
        <5> QED BY <5>2
      <4>2. CASE k = m + 1
        BY <3>1, <3>4, <4>2
      <4> QED BY <4>1, <4>2
    <3>9. Takes(q, new, s, S, m + 1)
      BY <3>5, <3>6, <3>7, <3>8 DEF Takes
    <3>10. kept[m + 1] = new
      BY <2>1, <2>4 DEF new
    <3> QED BY <3>1, <3>9, <3>10
  <2>5. CASE s[m + 1] \notin S
    <3>1. Takes(p, kept[m], s, S, m + 1)
      BY <2>2, <2>3, <2>5 DEF Takes
    <3> QED BY <2>1, <2>3, <2>5, <3>1
  <2> QED BY <2>4, <2>5
<1>4. Len(s) \in P
  <2> HIDE DEF P
  <2> QED BY <1>2, <1>3, InductiveSet
<1> QED BY <1>1, <1>4

\* The elements that Keep returns.
LEMMA KeepRange ==
    ASSUME NEW E, NEW s \in Seq(E), NEW S
    PROVE  Range(Keep(s, S)) = Range(s) \cap S
<1>1. Keep(s, S) \in Seq(E) /\ \E p : Takes(p, Keep(s, S), s, S, Len(s))
  BY KeepTakes
<1> DEFINE t == Keep(s, S)
<1> HIDE DEF t
<1>2. PICK p : Takes(p, t, s, S, Len(s))
  BY <1>1 DEF t
<1>3. DOMAIN t = 1..Len(t) /\ DOMAIN s = 1..Len(s) /\ Len(s) \in Nat
  BY <1>1 DEF t
<1>4. \A i \in DOMAIN t : t[i] \in Range(s) \cap S
  BY <1>2, <1>3 DEF Takes, Range
<1>5. \A k \in DOMAIN s : s[k] \in S => s[k] \in Range(t)
  BY <1>2, <1>3 DEF Takes, Range
<1>6. Range(t) = Range(s) \cap S
  BY <1>4, <1>5 DEF Range
<1> QED BY <1>6 DEF t

\* Keep does not bring together what s holds only at one position.
LEMMA KeepApart ==
    ASSUME NEW E, NEW s \in Seq(E), NEW S, NEW Same,
           \A k, l \in DOMAIN s : <<s[k], s[l]>> \in Same => k = l
    PROVE  \A i, j \in DOMAIN Keep(s, S) :
               <<Keep(s, S)[i], Keep(s, S)[j]>> \in Same => i = j
<1> DEFINE t == Keep(s, S)
<1>1. t \in Seq(E) /\ \E p : Takes(p, t, s, S, Len(s))
  BY KeepTakes
<1> HIDE DEF t
<1>2. PICK p : Takes(p, t, s, S, Len(s))
  BY <1>1
<1> SUFFICES ASSUME NEW i \in DOMAIN t, NEW j \in DOMAIN t, <<t[i], t[j]>> \in Same
             PROVE  i = j
  BY DEF t
<1>3. i \in 1..Len(t) /\ j \in 1..Len(t) /\ Len(t) \in Nat /\ DOMAIN s = 1..Len(s)
  BY <1>1
<1>4. p[i] \in 1..Len(s) /\ p[j] \in 1..Len(s) /\ t[i] = s[p[i]] /\ t[j] = s[p[j]]
  BY <1>2, <1>3 DEF Takes
<1>5. p[i] = p[j]
  BY <1>3, <1>4
<1>6. ~(i < j) /\ ~(j < i)
  BY <1>2, <1>3, <1>4, <1>5 DEF Takes
<1> QED BY <1>3, <1>6

-----------------------------------------------------------------------------
(* FlattenSeq.                                                             *)

FlattenStep(ss, f, i) == IF i = 1 THEN ss[i] ELSE f[i - 1] \o ss[i]

\* The recursive function of FlattenSeq exists.
LEMMA FlattenRecursion ==
    ASSUME NEW E, NEW ss \in Seq(Seq(E)), Len(ss) # 0
    PROVE  \E f : /\ f = [i \in 1..Len(ss) |-> FlattenStep(ss, f, i)]
                  /\ FlattenSeq(ss) = f[Len(ss)]
<1> DEFINE Solves(f, m) == f = [i \in 1..m |-> FlattenStep(ss, f, i)]
           P == {m \in Nat : \E f : Solves(f, m)}
<1>1. 0 \in P
  <2>1. Solves([i \in 1..0 |-> <<>>], 0)
    OBVIOUS
  <2> QED BY <2>1
<1>2. ASSUME NEW m \in Nat, m \in P PROVE m + 1 \in P
  <2>1. PICK f : Solves(f, m)
    BY <1>2
  <2> DEFINE g == [i \in 1..(m + 1) |->
                      IF i <= m THEN f[i] ELSE FlattenStep(ss, f, m + 1)]
  <2>2. \A i \in 1..m : f[i] = FlattenStep(ss, f, i)
    BY <2>1
  <2>3. \A i \in 1..(m + 1) : g[i] = FlattenStep(ss, f, i)
    BY <2>2
  <2>4. \A i \in 1..(m + 1) : FlattenStep(ss, g, i) = FlattenStep(ss, f, i)
    BY DEF FlattenStep
  <2>5. Solves(g, m + 1)
    BY <2>3, <2>4
  <2> HIDE DEF g
  <2> QED BY <2>5
<1>3. Len(ss) \in P
  <2> HIDE DEF P
  <2> QED BY <1>1, <1>2, InductiveSet
<1> QED BY <1>3 DEF FlattenSeq, FlattenStep

\* Where the elements of t come from: the one at i was at position pos[i] of the
\* sequence number src[i], of the first m of ss, and none of them is missing.
Joins(src, pos, t, ss, m) ==
    /\ src \in [1..Len(t) -> 1..m]
    /\ \A i \in 1..Len(t) : pos[i] \in DOMAIN ss[src[i]] /\ t[i] = ss[src[i]][pos[i]]
    /\ \A i, j \in 1..Len(t) : src[i] = src[j] /\ pos[i] = pos[j] => i = j
    /\ \A k \in 1..m : \A l \in DOMAIN ss[k] :
           \E i \in 1..Len(t) : src[i] = k /\ pos[i] = l

\* One more sequence.
LEMMA JoinNext ==
    ASSUME NEW E, NEW ss \in Seq(Seq(E)), NEW m \in Nat, m + 1 <= Len(ss),
           NEW t \in Seq(E), NEW src, NEW pos, Joins(src, pos, t, ss, m)
    PROVE  \E src2, pos2 : Joins(src2, pos2, t \o ss[m + 1], ss, m + 1)
<1> DEFINE u == ss[m + 1]
           n == Len(t)
           v == t \o u
           src2 == [i \in 1..(n + Len(u)) |-> IF i <= n THEN src[i] ELSE m + 1]
           pos2 == [i \in 1..(n + Len(u)) |-> IF i <= n THEN pos[i] ELSE i - n]
<1>1. u \in Seq(E) /\ n \in Nat /\ Len(u) \in Nat /\ DOMAIN u = 1..Len(u)
  OBVIOUS
<1>2. /\ v \in Seq(E) /\ Len(v) = n + Len(u)
      /\ \A i \in 1..n : v[i] = t[i]
      /\ \A i \in 1..Len(v) : i > n => v[i] = u[i - n]
  BY <1>1
<1> HIDE DEF v, n
<1>3. \A i \in 1..n : src[i] \in 1..m
  BY DEF Joins, n
<1>4. src2 \in [1..Len(v) -> 1..(m + 1)]
  BY <1>1, <1>2, <1>3
<1>5. ASSUME NEW i \in 1..Len(v)
      PROVE  pos2[i] \in DOMAIN ss[src2[i]] /\ v[i] = ss[src2[i]][pos2[i]]
  <2>1. CASE i <= n
    <3>1. i \in 1..n /\ src2[i] = src[i] /\ pos2[i] = pos[i] /\ v[i] = t[i]
      BY <1>1, <1>2, <2>1
    <3> QED BY <3>1 DEF Joins, n
  <2>2. CASE i > n
    <3>1. i \in 1..(n + Len(u)) /\ ~(i <= n) /\ i - n \in 1..Len(u)
      BY <1>1, <1>2, <2>2
    <3>2. src2[i] = m + 1 /\ pos2[i] = i - n
      BY <3>1
    <3>3. v[i] = u[i - n]
      BY <1>2, <2>2
    <3> QED BY <1>1, <3>1, <3>2, <3>3
  <2> QED BY <1>1, <1>2, <2>1, <2>2
<1>6. ASSUME NEW i \in 1..Len(v), NEW j \in 1..Len(v),
             src2[i] = src2[j], pos2[i] = pos2[j]
      PROVE  i = j
  <2>0. i \in 1..(n + Len(u)) /\ j \in 1..(n + Len(u))
    BY <1>2
  <2>1. CASE i <= n /\ j <= n
    <3>1. src[i] = src[j] /\ pos[i] = pos[j]
      BY <1>6, <2>0, <2>1
    <3>2. i \in 1..n /\ j \in 1..n
      BY <1>1, <2>0, <2>1
    <3> QED BY <3>1, <3>2 DEF Joins, n
  <2>2. CASE i > n /\ j > n
    BY <1>1, <1>6, <2>0, <2>2
  <2>3. CASE (i <= n /\ j > n) \/ (i > n /\ j <= n)
    BY <1>1, <1>3, <1>6, <2>0, <2>3
  <2> QED BY <1>1, <1>2, <2>1, <2>2, <2>3
<1>7. ASSUME NEW k \in 1..(m + 1), NEW l \in DOMAIN ss[k]
      PROVE  \E i \in 1..Len(v) : src2[i] = k /\ pos2[i] = l
  <2>1. CASE k <= m
    <3>1. PICK i \in 1..n : src[i] = k /\ pos[i] = l
      BY <2>1 DEF Joins, n
    <3>2. i \in 1..Len(v) /\ src2[i] = k /\ pos2[i] = l
      BY <1>1, <1>2, <3>1
    <3> HIDE DEF src2, pos2
    <3> QED BY <3>2
  <2>2. CASE k = m + 1
    <3>1. l \in 1..Len(u)
      BY <1>1, <2>2
    <3> DEFINE i == n + l
    <3>2. i \in 1..Len(v) /\ src2[i] = k /\ pos2[i] = l
      BY <1>1, <1>2, <2>2, <3>1
    <3> HIDE DEF src2, pos2, i
    <3> QED BY <3>2
  <2> HIDE DEF src2, pos2, u
  <2> QED BY <2>1, <2>2
<1> HIDE DEF src2, pos2
<1>8. Joins(src2, pos2, v, ss, m + 1)
  BY <1>4, <1>5, <1>6, <1>7 DEF Joins
<1> QED BY <1>8 DEF v, u

\* FlattenSeq puts the sequences one after the other.
LEMMA FlattenJoins ==
    ASSUME NEW E, NEW ss \in Seq(Seq(E))
    PROVE  /\ FlattenSeq(ss) \in Seq(E)
           /\ \E src, pos : Joins(src, pos, FlattenSeq(ss), ss, Len(ss))
<1>1. CASE Len(ss) = 0
  <2>1. FlattenSeq(ss) = <<>>
    BY <1>1 DEF FlattenSeq
  <2>2. Joins(<<>>, <<>>, <<>>, ss, 0)
    BY DEF Joins
  <2> QED BY <1>1, <2>1, <2>2
<1>2. CASE Len(ss) # 0
  <2>1. PICK f : /\ f = [i \in 1..Len(ss) |-> FlattenStep(ss, f, i)]
                 /\ FlattenSeq(ss) = f[Len(ss)]
    BY <1>2, FlattenRecursion
  <2>2. \A i \in 1..Len(ss) : f[i] = FlattenStep(ss, f, i)
    BY <2>1
  <2> DEFINE P == {m \in Nat : m + 1 <= Len(ss) =>
                     f[m + 1] \in Seq(E) /\ \E src, pos : Joins(src, pos, f[m + 1], ss, m + 1)}
  <2>3. 0 \in P
    <3>1. f[1] = ss[1] /\ ss[1] \in Seq(E)
      BY <1>2, <2>2 DEF FlattenStep
    <3>2. \E src, pos : Joins(src, pos, ss[1], ss, 1)
      <4> DEFINE src == [i \in 1..Len(ss[1]) |-> 1]
                 pos == [i \in 1..Len(ss[1]) |-> i]
      <4>1. \A i \in 1..Len(ss[1]) : src[i] = 1 /\ pos[i] = i
        OBVIOUS
      <4>2. src \in [1..Len(ss[1]) -> 1..1]
        OBVIOUS
      <4>3. DOMAIN ss[1] = 1..Len(ss[1])
        BY <3>1
      <4>4. \A k \in 1..1 : k = 1
        OBVIOUS
      <4> HIDE DEF src, pos
      <4>5. Joins(src, pos, ss[1], ss, 1)
        BY <4>1, <4>2, <4>3, <4>4 DEF Joins
      <4> QED BY <4>5
    <3>3. f[0 + 1] \in Seq(E) /\ \E src, pos : Joins(src, pos, f[0 + 1], ss, 0 + 1)
      BY <3>1, <3>2
    <3> QED BY <3>3
  <2>4. ASSUME NEW m \in Nat, m \in P PROVE m + 1 \in P
    <3> SUFFICES ASSUME (m + 1) + 1 <= Len(ss)
                 PROVE  /\ f[(m + 1) + 1] \in Seq(E)
                        /\ \E src, pos : Joins(src, pos, f[(m + 1) + 1], ss, (m + 1) + 1)
      OBVIOUS
    <3>1. f[(m + 1) + 1] = f[m + 1] \o ss[(m + 1) + 1]
      <4>1. (m + 1) + 1 \in 1..Len(ss) /\ (m + 1) + 1 # 1 /\ ((m + 1) + 1) - 1 = m + 1
        OBVIOUS
      <4> QED BY <2>2, <4>1 DEF FlattenStep
    <3>2. PICK src, pos : Joins(src, pos, f[m + 1], ss, m + 1)
      BY <2>4
    <3>3. f[m + 1] \in Seq(E) /\ ss[(m + 1) + 1] \in Seq(E)
      BY <2>4
    <3>4. \E src2, pos2 : Joins(src2, pos2, f[m + 1] \o ss[(m + 1) + 1], ss, (m + 1) + 1)
      BY <3>2, <3>3, JoinNext
    <3> QED BY <3>1, <3>3, <3>4
  <2>5. Len(ss) - 1 \in P
    <3> HIDE DEF P
    <3>1. Len(ss) - 1 \in Nat
      BY <1>2
    <3> QED BY <2>3, <2>4, <3>1, InductiveSet
  <2>6. (Len(ss) - 1) + 1 = Len(ss)
    BY <1>2
  <2> QED BY <2>1, <2>5, <2>6
<1> QED BY <1>1, <1>2

\* The elements that FlattenSeq returns.
LEMMA FlattenRange ==
    ASSUME NEW E, NEW ss \in Seq(Seq(E))
    PROVE  Range(FlattenSeq(ss)) = UNION {Range(ss[k]) : k \in DOMAIN ss}
<1> DEFINE t == FlattenSeq(ss)
<1>1. t \in Seq(E) /\ \E src, pos : Joins(src, pos, t, ss, Len(ss))
  BY FlattenJoins
<1> HIDE DEF t
<1>2. PICK src, pos : Joins(src, pos, t, ss, Len(ss))
  BY <1>1
<1>3. DOMAIN t = 1..Len(t) /\ DOMAIN ss = 1..Len(ss)
  BY <1>1
<1>4. ASSUME NEW i \in DOMAIN t PROVE \E k \in DOMAIN ss : t[i] \in Range(ss[k])
  <2>1. src[i] \in DOMAIN ss /\ pos[i] \in DOMAIN ss[src[i]] /\ t[i] = ss[src[i]][pos[i]]
    BY <1>2, <1>3 DEF Joins
  <2>2. t[i] \in Range(ss[src[i]])
    BY <2>1 DEF Range
  <2> QED BY <2>1, <2>2
<1>5. ASSUME NEW k \in DOMAIN ss, NEW l \in DOMAIN ss[k] PROVE ss[k][l] \in Range(t)
  <2>0. k \in 1..Len(ss)
    BY <1>3
  <2>1. PICK i \in 1..Len(t) : src[i] = k /\ pos[i] = l
    BY <1>2, <2>0 DEF Joins
  <2>2. t[i] = ss[k][l]
    BY <1>2, <2>1 DEF Joins
  <2> QED BY <1>3, <2>1, <2>2 DEF Range
<1>6. Range(t) = UNION {Range(ss[k]) : k \in DOMAIN ss}
  BY <1>4, <1>5 DEF Range
<1> QED BY <1>6 DEF t

-----------------------------------------------------------------------------
(* Discovery and selection.                                                *)

PciNetDevice == [listed : DOMAIN Info, read : DOMAIN Info]

\* The devices of a host have addresses of their own.
IsHost(pci) ==
    /\ pci \in Seq(DOMAIN Info)
    /\ \A k, l \in DOMAIN pci : Info[pci[k]].addr = Info[pci[l]].addr => k = l

\* A pool: every device of it was read on the host pci, at the address at which
\* it was listed, and no address comes twice.
IsPool(pool, pci) ==
    /\ pool \in Seq(PciNetDevice)
    /\ \A k \in DOMAIN pool : pool[k].read \in Now(pool[k].listed, pci)
    /\ \A k, l \in DOMAIN pool : GetPciAddr(pool[k]) = GetPciAddr(pool[l]) => k = l

SameDeviceAddr ==
    {pair \in (DOMAIN Info) \X (DOMAIN Info) : Info[pair[1]].addr = Info[pair[2]].addr}

SamePciAddr ==
    {pair \in PciNetDevice \X PciNetDevice : GetPciAddr(pair[1]) = GetPciAddr(pair[2])}

\* Keep leaves the devices of a host apart.
LEMMA KeepIsHost ==
    ASSUME NEW pci, IsHost(pci), NEW S
    PROVE  IsHost(Keep(pci, S))
<1> DEFINE t == Keep(pci, S)
<1>1. pci \in Seq(DOMAIN Info)
  BY DEF IsHost
<1>2. t \in Seq(DOMAIN Info)
  BY <1>1, KeepTakes
<1>3. \A k, l \in DOMAIN pci : <<pci[k], pci[l]>> \in SameDeviceAddr => k = l
  BY DEF IsHost, SameDeviceAddr
<1>4. \A k, l \in DOMAIN t : <<t[k], t[l]>> \in SameDeviceAddr => k = l
  BY <1>1, <1>3, KeepApart
<1> HIDE DEF t
<1>5. \A k \in DOMAIN t : t[k] \in DOMAIN Info
  BY <1>2
<1>6. IsHost(t)
  BY <1>2, <1>4, <1>5 DEF IsHost, SameDeviceAddr
<1> QED BY <1>6 DEF t

\* Keep leaves a pool a pool.
LEMMA KeepIsPool ==
    ASSUME NEW pool, NEW pci, IsPool(pool, pci), NEW S
    PROVE  IsPool(Keep(pool, S), pci)
<1> DEFINE t == Keep(pool, S)
<1>1. pool \in Seq(PciNetDevice)
  BY DEF IsPool
<1>2. t \in Seq(PciNetDevice)
  BY <1>1, KeepTakes
<1>3. \A k, l \in DOMAIN pool : <<pool[k], pool[l]>> \in SamePciAddr => k = l
  BY DEF IsPool, SamePciAddr
<1>4. \A k, l \in DOMAIN t : <<t[k], t[l]>> \in SamePciAddr => k = l
  BY <1>1, <1>3, KeepApart
<1>5. Range(t) \subseteq Range(pool)
  BY <1>1, KeepRange
<1> HIDE DEF t
<1>6. \A k \in DOMAIN t : t[k] \in PciNetDevice
  BY <1>2
<1>7. ASSUME NEW k \in DOMAIN t PROVE t[k].read \in Now(t[k].listed, pci)
  <2>1. PICK l \in DOMAIN pool : pool[l] = t[k]
    BY <1>5 DEF Range
  <2> QED BY <2>1 DEF IsPool
<1>8. IsPool(t, pci)
  BY <1>2, <1>4, <1>6, <1>7 DEF IsPool, SamePciAddr
<1> QED BY <1>8 DEF t

\* GetDevices makes a pool of the listed devices that can be read.
LEMMA GetDevicesIsPool ==
    ASSUME NEW list, NEW pci, IsHost(list), IsHost(pci)
    PROVE  /\ IsPool(GetDevices(list, pci), pci)
           /\ {dev.listed : dev \in Range(GetDevices(list, pci))}
                  = {d \in Range(list) : Now(d, pci) # {}}
<1> DEFINE found == {d \in Range(list) : Now(d, pci) # {}}
           devices == Keep(list, found)
           pool == GetDevices(list, pci)
<1>1. IsHost(devices) /\ Range(devices) = found
  <2>1. Range(devices) = Range(list) \cap found
    BY KeepRange DEF IsHost
  <2> QED BY <2>1, KeepIsHost
<1>2. /\ DOMAIN pool = DOMAIN devices
      /\ \A k \in DOMAIN devices :
             /\ pool[k].listed = devices[k]
             /\ pool[k].read = CHOOSE e \in Now(devices[k], pci) : TRUE
             /\ pool[k] = [listed |-> pool[k].listed, read |-> pool[k].read]
  BY DEF GetDevices, NewPciNetDevice
<1> HIDE DEF devices, pool
<1>3. devices \in Seq(DOMAIN Info) /\ DOMAIN devices = 1..Len(devices) /\ Len(devices) \in Nat
  BY <1>1 DEF IsHost
<1>4. ASSUME NEW k \in DOMAIN devices
      PROVE  /\ pool[k] \in PciNetDevice
             /\ pool[k].read \in Now(pool[k].listed, pci)
  <2>1. devices[k] \in DOMAIN Info /\ Now(devices[k], pci) # {}
    <3>1. devices[k] \in Range(devices)
      BY DEF Range
    <3>2. devices[k] \in found
      BY <1>1, <3>1
    <3> QED BY <1>3, <3>2
  <2>2. pool[k].read \in Now(devices[k], pci)
    BY <1>2, <2>1
  <2>3. Now(devices[k], pci) \subseteq DOMAIN Info
    BY DEF Now, IsHost, Range
  <2> QED BY <1>2, <2>1, <2>2, <2>3 DEF PciNetDevice
<1>5. pool \in Seq(PciNetDevice)
  <2>1. pool = [k \in 1..Len(devices) |-> pool[k]]
    <3>1. pool = [k \in DOMAIN devices |-> pool[k]]
      BY DEF pool, devices, GetDevices
    <3> QED BY <1>3, <3>1
  <2>2. pool \in [1..Len(devices) -> PciNetDevice]
    BY <1>3, <1>4, <2>1
  <2> QED BY <1>3, <2>2
<1>6. \A k, l \in DOMAIN pool : GetPciAddr(pool[k]) = GetPciAddr(pool[l]) => k = l
  BY <1>1, <1>2 DEF IsHost, GetPciAddr
<1>7. IsPool(pool, pci)
  BY <1>2, <1>4, <1>5, <1>6 DEF IsPool
<1>8. {dev.listed : dev \in Range(pool)} = Range(devices)
  BY <1>2 DEF Range
<1> QED BY <1>1, <1>7, <1>8 DEF pool

SelectorNames == {"vendors", "deviceIDs", "drivers", "ifNames", "linkTypes"}

\* All selectors with values let the device through.
Passes(dev, selector) ==
    \A s \in SelectorNames : selector[s] = {} \/ Gets(dev)[s] \in selector[s]

\* GetFilteredDevices keeps the devices of a pool that pass, in a pool.
LEMMA FilteredPass ==
    ASSUME NEW pool, NEW pci, IsPool(pool, pci), NEW selector
    PROVE  /\ IsPool(GetFilteredDevices(pool, selector), pci)
           /\ Range(GetFilteredDevices(pool, selector))
                  = {dev \in Range(pool) : Passes(dev, selector)}
<1> DEFINE ofVendor == Filter("vendors", selector.vendors, Range(pool))
           ofID     == Filter("deviceIDs", selector.deviceIDs, ofVendor)
           ofDriver == Filter("drivers", selector.drivers, ofID)
           named    == Filter("ifNames", selector.ifNames, ofDriver)
           linked   == Filter("linkTypes", selector.linkTypes, named)
<1>1. GetFilteredDevices(pool, selector) = Keep(pool, linked)
  BY DEF GetFilteredDevices
<1>2. \A s, values, inDevices :
          Filter(s, values, inDevices)
              = {dev \in inDevices : values = {} \/ Gets(dev)[s] \in values}
  BY DEF Filter
<1>3. linked = {dev \in Range(pool) : Passes(dev, selector)}
  BY <1>2 DEF Passes, SelectorNames
<1> HIDE DEF linked
<1>4. Range(Keep(pool, linked)) = Range(pool) \cap linked
  BY KeepRange DEF IsPool
<1> QED BY <1>1, <1>3, <1>4, KeepIsPool

\* The files of a pool are those of its devices.
LEMMA SpecOfPool ==
    ASSUME NEW pool, NEW pci, IsPool(pool, pci), IsHost(pci)
    PROVE  /\ [k \in DOMAIN pool |-> GetRdmaSpec(pool[k])] \in Seq(Seq(STRING \X Nat))
           /\ getDevicesSpec(pool) \in Seq(STRING \X Nat)
           /\ Range(getDevicesSpec(pool))
                  = UNION {Range(Info[dev.read].files) : dev \in Range(pool)}
<1> DEFINE ss == [k \in DOMAIN pool |-> GetRdmaSpec(pool[k])]
<1>1. pool \in Seq(PciNetDevice) /\ DOMAIN pool = 1..Len(pool) /\ Len(pool) \in Nat
  BY DEF IsPool
<1>2. ASSUME NEW k \in DOMAIN pool PROVE GetRdmaSpec(pool[k]) \in Seq(STRING \X Nat)
  <2>1. pool[k].read \in Range(pci) /\ Usable(pool[k].read)
    BY DEF IsPool, Now
  <2>2. pool[k].read \in DOMAIN Info
    BY <2>1 DEF IsHost, Range
  <2> QED BY <2>1, <2>2, FilesAssumption DEF GetRdmaSpec, RegularFiles
<1>3. ss \in Seq(Seq(STRING \X Nat))
  BY <1>1, <1>2
<1>4. getDevicesSpec(pool) = FlattenSeq(ss)
  BY DEF getDevicesSpec
<1>5. DOMAIN ss = DOMAIN pool /\ \A k \in DOMAIN pool : ss[k] = Info[pool[k].read].files
  BY DEF GetRdmaSpec
<1> HIDE DEF ss
<1>6. UNION {Range(ss[k]) : k \in DOMAIN ss}
          = UNION {Range(Info[dev.read].files) : dev \in Range(pool)}
  BY <1>5 DEF Range
<1>7. FlattenSeq(ss) \in Seq(STRING \X Nat)
  BY <1>3, FlattenJoins
<1>8. Range(FlattenSeq(ss)) = UNION {Range(ss[k]) : k \in DOMAIN ss}
  BY <1>3, FlattenRange
<1> QED BY <1>3, <1>4, <1>6, <1>7, <1>8 DEF ss

\* Where discovery sees the same host both times it looks, it selects the devices
\* that the documented rule selects: the order of the filters, the devices that
\* cannot be read and the empty selectors make no difference.
THEOREM SelectionFollowsRule ==
    ASSUME NEW pci, IsHost(pci), NEW selector, DOMAIN selector = SelectorNames
    PROVE  Range(getDevicesSpec(GetFilteredDevices(
               GetDevices(DiscoverHostDevices(pci), pci), selector)))
           = FilesOf(pci, selector)
<1> DEFINE list == DiscoverHostDevices(pci)
           found == GetDevices(list, pci)
           pool == GetFilteredDevices(found, selector)
<1>1. IsHost(list) /\ Range(list) = {d \in Range(pci) : Info[d].class = NetClass}
  <2> DEFINE S == {d \in Range(pci) : Info[d].class = NetClass}
  <2>1. Range(Keep(pci, S)) = Range(pci) \cap S
    BY KeepRange DEF IsHost
  <2> QED BY <2>1, KeepIsHost DEF DiscoverHostDevices
<1>2. /\ IsPool(found, pci)
      /\ {dev.listed : dev \in Range(found)} = {d \in Range(list) : Now(d, pci) # {}}
  BY <1>1, GetDevicesIsPool
<1>3. IsPool(pool, pci) /\ Range(pool) = {dev \in Range(found) : Passes(dev, selector)}
  BY <1>2, FilteredPass
<1> HIDE DEF list, found, pool
<1>4. ASSUME NEW d \in Range(pci), NEW e \in Now(d, pci) PROVE e = d
  BY DEF IsHost, Now, Range
<1>5. \A d \in Range(pci) : Now(d, pci) # {} <=> Usable(d)
  <2>1. \A d \in Range(pci) : Usable(d) => d \in Now(d, pci)
    BY DEF Now
  <2>2. ASSUME NEW d \in Range(pci), Now(d, pci) # {} PROVE Usable(d)
    <3>1. d \in Now(d, pci)
      BY <1>4, <2>2
    <3> QED BY <3>1 DEF Now
  <2> QED BY <2>1, <2>2
<1>6. ASSUME NEW dev \in Range(found)
      PROVE  dev.read = dev.listed /\ dev.listed \in Range(list)
  <2>1. dev.listed \in Range(list)
    BY <1>2
  <2>2. PICK k \in DOMAIN found : dev = found[k]
    BY DEF Range
  <2>3. dev.read \in Now(dev.listed, pci)
    BY <1>2, <2>2 DEF IsPool
  <2> QED BY <1>1, <1>4, <2>1, <2>3
<1>7. ASSUME NEW dev, dev.read = dev.listed
      PROVE  Passes(dev, selector) <=> Matches(dev.listed, selector)
  BY <1>7
  DEF Passes, Matches, SelectorNames, Gets, Attribute, GetVendor, GetDeviceID, GetDriver,
      GetIfName, GetLinkType
<1>8. {dev.read : dev \in Range(pool)}
          = {d \in Range(pci) : Info[d].class = NetClass /\ Usable(d) /\ Matches(d, selector)}
  <2>1. ASSUME NEW dev \in Range(pool)
        PROVE  /\ dev.read \in Range(pci) /\ Info[dev.read].class = NetClass
               /\ Usable(dev.read) /\ Matches(dev.read, selector)
    <3>1. dev \in Range(found) /\ Passes(dev, selector)
      BY <1>3
    <3>2. dev.read = dev.listed /\ dev.listed \in Range(list)
      BY <1>6, <3>1
    <3>3. Now(dev.listed, pci) # {}
      BY <1>2, <3>1
    <3> QED BY <1>1, <1>5, <1>7, <3>1, <3>2, <3>3
  <2>2. ASSUME NEW d \in Range(pci), Info[d].class = NetClass, Usable(d), Matches(d, selector)
        PROVE  \E dev \in Range(pool) : dev.read = d
    <3>1. d \in Range(list) /\ Now(d, pci) # {}
      BY <1>1, <1>5, <2>2
    <3>2. PICK dev \in Range(found) : dev.listed = d
      BY <1>2, <3>1
    <3>3. dev.read = d
      BY <1>6, <3>2
    <3>4. dev \in Range(pool)
      BY <1>3, <1>7, <2>2, <3>2, <3>3
    <3> QED BY <3>3, <3>4
  <2> QED BY <2>1, <2>2
<1>9. Range(getDevicesSpec(pool)) = UNION {Range(Info[dev.read].files) : dev \in Range(pool)}
  BY <1>3, SpecOfPool
<1>10. UNION {Range(Info[dev.read].files) : dev \in Range(pool)}
          = UNION {Range(Info[d].files) : d \in {dev.read : dev \in Range(pool)}}
  OBVIOUS
<1> QED BY <1>8, <1>9, <1>10 DEF FilesOf, pool, found, list

-----------------------------------------------------------------------------
(* The files of a pool, and the changes that devicesChanged sees.          *)

\* There are finitely many files of a kind.
LEMMA OfKindFinite ==
    ASSUME NEW E, NEW files \in Seq(E), NEW kind
    PROVE  /\ IsFiniteSet(OfKind(files, kind))
           /\ Cardinality(OfKind(files, kind)) \in Nat
<1>1. Len(files) \in Nat /\ DOMAIN files = 1..Len(files)
  OBVIOUS
<1>2. IsFiniteSet(1..Len(files))
  BY <1>1, FS_Interval
<1>3. OfKind(files, kind) \in SUBSET (1..Len(files))
  BY <1>1 DEF OfKind
<1> QED BY <1>2, <1>3, FS_Subset, FS_CardinalityType

\* Where each sequence has as many files of one kind as of another, there are not
\* more of the one in all of them together.
LEMMA JoinedCount ==
    ASSUME NEW E, NEW ss \in Seq(Seq(E)), NEW a, NEW b,
           \A k \in DOMAIN ss : Cardinality(OfKind(ss[k], a)) = Cardinality(OfKind(ss[k], b))
    PROVE  Cardinality(OfKind(FlattenSeq(ss), a)) <= Cardinality(OfKind(FlattenSeq(ss), b))
<1> DEFINE t == FlattenSeq(ss)
<1>1. t \in Seq(E) /\ \E src, pos : Joins(src, pos, t, ss, Len(ss))
  BY FlattenJoins
<1> HIDE DEF t
<1>2. PICK src, pos : Joins(src, pos, t, ss, Len(ss))
  BY <1>1
<1>3. DOMAIN t = 1..Len(t) /\ DOMAIN ss = 1..Len(ss)
  BY <1>1
<1> DEFINE pair == [k \in DOMAIN ss |->
               CHOOSE f : f \in Bijection(OfKind(ss[k], a), OfKind(ss[k], b))]
<1>4. ASSUME NEW k \in DOMAIN ss
      PROVE  /\ pair[k] \in [OfKind(ss[k], a) -> OfKind(ss[k], b)]
             /\ \A l, m \in OfKind(ss[k], a) : pair[k][l] = pair[k][m] => l = m
  <2>1. ss[k] \in Seq(E)
    OBVIOUS
  <2>2. ExistsBijection(OfKind(ss[k], a), OfKind(ss[k], b))
    BY <2>1, OfKindFinite, FS_SameCardinalityBij
  <2>3. pair[k] \in Bijection(OfKind(ss[k], a), OfKind(ss[k], b))
    BY <2>2 DEF ExistsBijection
  <2> QED BY <2>3 DEF Bijection, Injection, IsInjective
<1> HIDE DEF pair
<1>5. ASSUME NEW i \in OfKind(t, a)
      PROVE  i \in 1..Len(t) /\ src[i] \in DOMAIN ss /\ pos[i] \in OfKind(ss[src[i]], a)
  <2>1. i \in 1..Len(t) /\ t[i][1] = a
    BY <1>3 DEF OfKind
  <2>2. src[i] \in DOMAIN ss /\ pos[i] \in DOMAIN ss[src[i]] /\ t[i] = ss[src[i]][pos[i]]
    BY <1>2, <1>3, <2>1 DEF Joins
  <2> QED BY <2>1, <2>2 DEF OfKind
<1> DEFINE Joined(i, j) == src[j] = src[i] /\ pos[j] = pair[src[i]][pos[i]]
           F == [i \in OfKind(t, a) |-> CHOOSE j \in OfKind(t, b) : Joined(i, j)]
<1>6. ASSUME NEW i \in OfKind(t, a) PROVE \E j \in OfKind(t, b) : Joined(i, j)
  <2> DEFINE k == src[i]
             l == pair[k][pos[i]]
  <2>1. k \in DOMAIN ss /\ l \in OfKind(ss[k], b)
    BY <1>4, <1>5
  <2>2. k \in 1..Len(ss) /\ l \in DOMAIN ss[k] /\ ss[k][l][1] = b
    BY <1>3, <2>1 DEF OfKind
  <2> HIDE DEF k, l
  <2>3. PICK j \in 1..Len(t) : src[j] = k /\ pos[j] = l
    BY <1>2, <2>2 DEF Joins
  <2>4. t[j] = ss[k][l]
    BY <1>2, <2>3 DEF Joins
  <2>5. j \in OfKind(t, b)
    BY <1>3, <2>2, <2>3, <2>4 DEF OfKind
  <2> QED BY <2>3, <2>5 DEF k, l
<1>7. \A i \in OfKind(t, a) : F[i] \in OfKind(t, b) /\ Joined(i, F[i])
  BY <1>6
<1>8. F \in [OfKind(t, a) -> OfKind(t, b)]
  BY <1>7
<1> HIDE DEF F
<1>9. ASSUME NEW i \in OfKind(t, a), NEW j \in OfKind(t, a), F[i] = F[j] PROVE i = j
  <2>1. src[i] = src[j] /\ pair[src[i]][pos[i]] = pair[src[i]][pos[j]]
    BY <1>7, <1>9
  <2>2. pos[i] = pos[j]
    BY <1>4, <1>5, <2>1
  <2> QED BY <1>2, <1>5, <2>1, <2>2 DEF Joins
<1>10. F \in Injection(OfKind(t, a), OfKind(t, b))
  BY <1>8, <1>9 DEF Injection, IsInjective
<1>11. IsFiniteSet(OfKind(t, b))
  BY <1>1, OfKindFinite
<1> QED BY <1>10, <1>11, FS_Injection DEF t

\* Devices that can be shared have no file in common but rdma_cm.
FilesApart(pci) ==
    \A d, e \in Range(pci) : d # e /\ Usable(d) /\ Usable(e) =>
        Range(Info[d].files) \cap Range(Info[e].files) \subseteq {RdmaCm}

\* The files of a pool are as regular as those of a device.
LEMMA SpecIsRegular ==
    ASSUME NEW pool, NEW pci, IsPool(pool, pci), IsHost(pci), FilesApart(pci)
    PROVE  RegularFiles(getDevicesSpec(pool))
<1> DEFINE ss == [k \in DOMAIN pool |-> GetRdmaSpec(pool[k])]
           t == FlattenSeq(ss)
<1>1. ss \in Seq(Seq(STRING \X Nat)) /\ getDevicesSpec(pool) = t
  BY SpecOfPool DEF getDevicesSpec
<1>2. /\ DOMAIN ss = DOMAIN pool
      /\ \A k \in DOMAIN ss : ss[k] = Info[pool[k].read].files
  BY DEF GetRdmaSpec
<1> HIDE DEF ss
<1>3. ASSUME NEW k \in DOMAIN ss
      PROVE  /\ pool[k].read \in Range(pci) /\ Usable(pool[k].read)
             /\ RegularFiles(ss[k])
  <2>1. pool[k].read \in Range(pci) /\ Usable(pool[k].read)
    BY <1>2 DEF IsPool, Now
  <2>2. pool[k].read \in DOMAIN Info
    BY <2>1 DEF IsHost, Range
  <2> QED BY <1>2, <2>1, <2>2, FilesAssumption
<1>4. ASSUME NEW k \in DOMAIN ss, NEW l \in DOMAIN ss, k # l
      PROVE  Range(ss[k]) \cap Range(ss[l]) \subseteq {RdmaCm}
  <2>1. pool[k].read # pool[l].read
    BY <1>2, <1>4 DEF IsPool, Now, GetPciAddr
  <2> QED BY <1>2, <1>3, <2>1 DEF FilesApart
<1>5. t \in Seq(STRING \X Nat) /\ \E src, pos : Joins(src, pos, t, ss, Len(ss))
  BY <1>1, FlattenJoins
<1>6. /\ Cardinality(OfKind(t, "rdma_cm")) <= Cardinality(OfKind(t, "uverbs"))
      /\ Cardinality(OfKind(t, "uverbs")) <= Cardinality(OfKind(t, "rdma_cm"))
  BY <1>1, <1>3, JoinedCount DEF RegularFiles
<1> HIDE DEF t
<1>7. Cardinality(OfKind(t, "rdma_cm")) = Cardinality(OfKind(t, "uverbs"))
  BY <1>5, <1>6, OfKindFinite
<1>8. PICK src, pos : Joins(src, pos, t, ss, Len(ss))
  BY <1>5
<1>9. ASSUME NEW i \in DOMAIN t
      PROVE  /\ i \in 1..Len(t) /\ src[i] \in DOMAIN ss
             /\ pos[i] \in DOMAIN ss[src[i]] /\ t[i] = ss[src[i]][pos[i]]
  <2>1. DOMAIN t = 1..Len(t) /\ DOMAIN ss = 1..Len(ss)
    BY <1>1, <1>5
  <2> QED BY <1>8, <2>1 DEF Joins
<1>10. ASSUME NEW i \in OfKind(t, "rdma_cm") PROVE t[i] = RdmaCm
  <2>1. i \in DOMAIN t /\ t[i][1] = "rdma_cm"
    BY DEF OfKind
  <2>2. pos[i] \in OfKind(ss[src[i]], "rdma_cm")
    BY <1>9, <2>1 DEF OfKind
  <2> QED BY <1>3, <1>9, <2>1, <2>2 DEF RegularFiles
<1>11. ASSUME NEW i \in DOMAIN t, NEW j \in DOMAIN t, t[i] = t[j]
       PROVE  i = j \/ t[i] = RdmaCm
  <2>1. CASE src[i] = src[j]
    <3>1. pos[i] = pos[j] \/ t[i] = RdmaCm
      BY <1>3, <1>9, <1>11, <2>1 DEF RegularFiles
    <3> QED BY <1>8, <1>9, <2>1, <3>1 DEF Joins
  <2>2. CASE src[i] # src[j]
    <3>1. t[i] \in Range(ss[src[i]]) /\ t[i] \in Range(ss[src[j]])
      BY <1>9, <1>11 DEF Range
    <3> QED BY <1>4, <1>9, <2>2, <3>1
  <2> QED BY <2>1, <2>2
<1> QED BY <1>1, <1>5, <1>7, <1>10, <1>11 DEF RegularFiles

\* The positions of the files that are not repeated.
Single(files) == {k \in DOMAIN files : files[k][1] # "rdma_cm"}

\* How many there are, and that each holds a file of its own.
LEMMA SingleFiles ==
    ASSUME NEW files, RegularFiles(files)
    PROVE  /\ IsFiniteSet(Single(files))
           /\ Cardinality(Single(files))
                  = Len(files) - Cardinality(OfKind(files, "rdma_cm"))
           /\ \A k, l \in Single(files) : files[k] = files[l] => k = l
<1>1. files \in Seq(STRING \X Nat) /\ Len(files) \in Nat /\ DOMAIN files = 1..Len(files)
  BY DEF RegularFiles
<1>2. IsFiniteSet(1..Len(files)) /\ Cardinality(1..Len(files)) = Len(files)
  <2>1. 1 \in Int /\ Len(files) \in Int
    BY <1>1
  <2> QED BY <1>1, <2>1, FS_Interval
<1>3. Single(files) = (1..Len(files)) \ OfKind(files, "rdma_cm")
  BY <1>1 DEF Single, OfKind
<1>4. OfKind(files, "rdma_cm") = (1..Len(files)) \cap OfKind(files, "rdma_cm")
  BY <1>1 DEF OfKind
<1>5. IsFiniteSet(Single(files))
  BY <1>2, <1>3, FS_Difference
<1>6. Cardinality(Single(files)) = Len(files) - Cardinality(OfKind(files, "rdma_cm"))
  <2>1. Cardinality((1..Len(files)) \ OfKind(files, "rdma_cm"))
            = Cardinality(1..Len(files))
              - Cardinality((1..Len(files)) \cap OfKind(files, "rdma_cm"))
    BY <1>2, FS_Difference
  <2> QED BY <1>2, <1>3, <1>4, <2>1
<1>7. \A k, l \in Single(files) : files[k] = files[l] => k = l
  BY DEF Single, RegularFiles, RdmaCm
<1> QED BY <1>5, <1>6, <1>7

\* The files of a regular list at a set of positions that are not repeated.
LEMMA FilesAt ==
    ASSUME NEW files, RegularFiles(files), NEW K, K \subseteq Single(files)
    PROVE  /\ IsFiniteSet({files[k] : k \in K})
           /\ Cardinality({files[k] : k \in K}) = Cardinality(K)
<1> DEFINE F == [k \in K |-> files[k]]
           T == {files[k] : k \in K}
<1>1. IsFiniteSet(K)
  BY SingleFiles, FS_Subset
<1>2. \A k, l \in K : files[k] = files[l] => k = l
  BY SingleFiles
<1>3. F \in Bijection(K, T)
  BY <1>2 DEF Bijection, Injection, Surjection, IsInjective
<1> HIDE DEF F, T
<1>4. ExistsBijection(K, T)
  BY <1>3 DEF ExistsBijection
<1> QED BY <1>1, <1>4, FS_Bijection DEF T

==============================================================================
