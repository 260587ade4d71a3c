-------------------------- MODULE Recursion_proofs --------------------------
(***************************************************************************)
(* What the proofs about recursive functions on 0..n rest on: a set of     *)
(* naturals has a least element, so that a value that is wrong is wrong    *)
(* for a first time; and a function that is defined by recursion exists.   *)
(***************************************************************************)
EXTENDS Integers, Sequences, SequencesExt, WellFoundedInduction, TLAPS

LEMMA LeastNat ==
  ASSUME NEW S, S \subseteq Nat, S # {}
  PROVE  \E x \in S : \A y \in S : x <= y
<1>1. PICK R : /\ IsWellFoundedOn(R, Nat)
               /\ \A x, y \in Nat : <<y, x>> \in R <=> y < x
  <2>1. IsWellFoundedOn(OpToRel(<, Nat), Nat)
    BY NatLessThanWellFounded
  <2>2. \A x, y \in Nat : <<y, x>> \in OpToRel(<, Nat) <=> y < x
    BY DEF OpToRel
  <2> QED
    BY <2>1, <2>2
<1>2. PICK x \in S : \A y \in S : <<y, x>> \notin R
  BY <1>1, WFMin
<1>3. \A y \in S : ~(y < x)
  BY <1>1, <1>2
<1>4. \A y \in S : y \in Nat /\ x \in Nat
  OBVIOUS
<1> QED
  BY <1>2, <1>3, <1>4

(* f[0] is base, and each step takes the value at a place before it to the *)
(* next one; most often it is the value just before.                       *)
FollowsFrom(f, n, base, before, step) ==
  f[0] = base /\ \A k \in 1..n : f[k] = step[k][f[before[k]]]

Follows(f, n, base, step) ==
  f[0] = base /\ \A k \in 1..n : f[k] = step[k][f[k - 1]]

LEMMA CourseExists ==
  ASSUME NEW S, NEW base \in S, NEW n \in Nat, NEW step \in [1..n -> [S -> S]],
         NEW before, \A k \in 1..n : before[k] \in 0..(k - 1)
  PROVE  \E f \in [0..n -> S] : FollowsFrom(f, n, base, before, step)
<1>1. PICK Wrong : Wrong = {m \in 0..n :
                              ~ \E f \in [0..m -> S] : FollowsFrom(f, m, base, before, step)}
  OBVIOUS
<1>2. SUFFICES ASSUME Wrong # {} PROVE FALSE
  <2>1. n \in 0..n
    OBVIOUS
  <2> QED
    BY <1>1, <2>1
<1>3. Wrong \subseteq Nat
  BY <1>1
<1>4. PICK m \in Wrong : \A k \in Wrong : m <= k
  BY <1>2, <1>3, LeastNat
<1>5. m \in 0..n /\ ~ \E f \in [0..m -> S] : FollowsFrom(f, m, base, before, step)
  BY <1>1, <1>4
<1>6. CASE m = 0
  <2>1. PICK f : f = [k \in 0..0 |-> base]
    OBVIOUS
  <2>2. f \in [0..0 -> S] /\ FollowsFrom(f, 0, base, before, step)
    BY <2>1 DEF FollowsFrom
  <2> QED
    BY <1>5, <1>6, <2>2
<1>7. CASE m # 0
  <2>1. PICK l : l = m - 1
    OBVIOUS
  <2>2. l \in 0..n /\ ~(m <= l) /\ m = l + 1 /\ m \in 1..n
    BY <1>5, <1>7, <2>1
  <2>3. PICK f \in [0..l -> S] : FollowsFrom(f, l, base, before, step)
    BY <1>1, <1>4, <2>2
  <2>4. before[m] \in 0..l /\ f[before[m]] \in S
    BY <2>2
  <2>5. step[m][f[before[m]]] \in S
    BY <2>2, <2>4
  <2>6. PICK g : g = [k \in 0..m |-> IF k = m THEN step[m][f[before[m]]] ELSE f[k]]
    OBVIOUS
  <2>7. \A k \in 0..m : k # m => k \in 0..l
    BY <2>2
  <2>8. g \in [0..m -> S]
    BY <2>5, <2>6, <2>7
  <2>9. g[m] = step[m][f[before[m]]] /\ \A k \in 0..l : g[k] = f[k]
    BY <2>2, <2>6
  <2>10. g[0] = base
    BY <2>2, <2>3, <2>9 DEF FollowsFrom
  <2>11. ASSUME NEW k \in 1..m PROVE g[k] = step[k][g[before[k]]]
    <3>1. CASE k = m
      BY <2>4, <2>9, <3>1
    <3>2. CASE k # m
      <4>1. k \in 1..l /\ k \in 0..l /\ before[k] \in 0..l
        BY <2>2, <3>2
      <4> QED
        BY <2>3, <2>9, <4>1 DEF FollowsFrom
    <3> QED
      BY <3>1, <3>2
  <2> QED
    BY <1>5, <2>8, <2>10, <2>11 DEF FollowsFrom
<1> QED
  BY <1>6, <1>7

LEMMA RecursionExists ==
  ASSUME NEW S, NEW base \in S, NEW n \in Nat, NEW step \in [1..n -> [S -> S]]
  PROVE  \E f \in [0..n -> S] : Follows(f, n, base, step)
<1>1. PICK before : before = [k \in 1..n |-> k - 1]
  OBVIOUS
<1>2. \A k \in 1..n : before[k] = k - 1 /\ before[k] \in 0..(k - 1)
  BY <1>1
<1>3. PICK f \in [0..n -> S] : FollowsFrom(f, n, base, before, step)
  BY <1>2, CourseExists
<1>4. ASSUME NEW k \in 1..n PROVE f[k] = step[k][f[k - 1]]
  BY ONLY <1>2, <1>3, <1>4 DEF FollowsFrom
<1>5. f[0] = base
  BY <1>3 DEF FollowsFrom
<1> QED
  BY <1>4, <1>5 DEF Follows

(* A function that is true of 0, and of every k when of k - 1, is true.    *)
LEMMA AllFollow ==
  ASSUME NEW n \in Nat, NEW holds, holds[0], \A k \in 1..n : holds[k - 1] => holds[k]
  PROVE  \A k \in 0..n : holds[k]
<1>1. PICK Wrong : Wrong = {k \in 0..n : ~holds[k]}
  OBVIOUS
<1>2. SUFFICES ASSUME Wrong # {} PROVE FALSE
  BY <1>1
<1>3. Wrong \subseteq Nat
  BY <1>1
<1>4. PICK k \in Wrong : \A j \in Wrong : k <= j
  BY <1>2, <1>3, LeastNat
<1>5. k \in 0..n /\ ~holds[k]
  BY <1>1, <1>4
<1>6. k # 0
  BY <1>5
<1>7. k \in 1..n /\ k - 1 \in 0..n /\ ~(k <= k - 1)
  BY <1>5, <1>6
<1>8. holds[k - 1]
  BY <1>1, <1>4, <1>7
<1> QED
  BY <1>5, <1>7, <1>8

(* What the recursion of FlattenSeq computes.                              *)
Flattens(f, n, q) ==
  /\ f[0] = << >> /\ f[n] = FlattenSeq(q)
  /\ \A k \in 1..n : f[k] = f[k - 1] \o q[k]

LEMMA FlattenIs ==
  ASSUME NEW S, NEW n \in Nat, NEW q \in [1..n -> Seq(S)]
  PROVE  \E f \in [0..n -> Seq(S)] : Flattens(f, n, q)
<1>. DEFINE T == Seq(S)
<1>1. PICK step : step = [k \in 1..n |-> [s \in T |-> s \o q[k]]]
  OBVIOUS
<1>2. \A k \in 1..n : \A s \in T : s \o q[k] \in T
  OBVIOUS
<1>3. << >> \in T
  OBVIOUS
<1>. HIDE DEF T
<1>4. step \in [1..n -> [T -> T]]
  BY <1>1, <1>2
<1>5. PICK f \in [0..n -> T] : Follows(f, n, << >>, step)
  BY ONLY <1>3, <1>4, RecursionExists
<1>6. f[0] = << >> /\ \A k \in 1..n : f[k] = f[k - 1] \o q[k]
  <2>1. \A k \in 1..n : f[k - 1] \in T
    <3>1. \A k \in 1..n : k - 1 \in 0..n
      OBVIOUS
    <3>. QED
      BY <3>1
  <2>. QED
    BY <1>1, <1>5, <2>1 DEF Follows
<1>7. Len(q) = n
  OBVIOUS
<1>8. CASE n = 0
  <2>1. q = << >>
    BY <1>8
  <2>2. FlattenSeq(q) = << >>
    BY <1>7, <1>8, <2>1 DEF FlattenSeq
  <2>. QED
    BY <1>5, <1>6, <1>8, <2>2 DEF T, Flattens
<1>9. CASE n # 0
  <2>. DEFINE Next0(h, k) == IF k = 1 THEN q[k] ELSE h[k - 1] \o q[k]
  <2>1. PICK g : g = [k \in 1..n |-> f[k]]
    OBVIOUS
  <2>2. PICK H : H = [k \in 1..n |-> Next0(g, k)]
    OBVIOUS
  <2>3. \A k \in 1..n : g[k] = H[k]
    <3>1. ASSUME NEW k \in 1..n PROVE f[k] = Next0(g, k)
      <4>1. CASE k = 1
        <5>1. 1 \in 1..n
          BY <4>1
        <5>2. q[1] \in Seq(S)
          BY <5>1
        <5>3. f[1] = << >> \o q[1]
          <6>1. f[1] = f[1 - 1] \o q[1]
            BY <1>6, <5>1
          <6>2. 1 - 1 = 0
            OBVIOUS
          <6>. QED
            BY <1>6, <6>1, <6>2
        <5>4. << >> \o q[1] = q[1]
          BY <5>2
        <5>. QED
          BY <4>1, <5>3, <5>4
      <4>2. CASE k # 1
        <5>1. k - 1 \in 1..n
          BY <4>2
        <5>. QED
          BY <1>6, <2>1, <4>2, <5>1
      <4>. QED
        BY <4>1, <4>2
    <3>. QED
      BY <2>1, <2>2, <3>1
  <2>4. g = H
    BY <2>1, <2>2, <2>3
  <2>. HIDE DEF Next0
  <2>5. g = [k \in 1..n |-> Next0(g, k)]
    BY <2>2, <2>4
  <2>6. PICK w : w = CHOOSE h : h = [k \in 1..n |-> Next0(h, k)]
    OBVIOUS
  <2>7. w = [k \in 1..n |-> Next0(w, k)]
    BY <2>5, <2>6, Zenon
  <2>8. FlattenSeq(q) = w[n]
    BY <1>7, <1>9, <2>6 DEF FlattenSeq, Next0
  <2>9. \A k \in 1..n : w[k] = Next0(w, k)
    BY <2>7
  <2>10. PICK same : same = [k \in 0..n |-> k # 0 => w[k] = f[k]]
    OBVIOUS
  <2>11. same[0]
    <3>1. 0 \in 0..n
      OBVIOUS
    <3>. QED
      BY <2>10, <3>1
  <2>12. ASSUME NEW k \in 1..n, same[k - 1] PROVE same[k]
    <3>1. k \in 0..n /\ k - 1 \in 0..n
      OBVIOUS
    <3>2. w[k] = f[k]
      <4>1. CASE k = 1
        <5>1. w[1] = q[1]
          BY <2>9, <4>1 DEF Next0
        <5>2. g[1] = q[1]
          BY <2>2, <2>4, <4>1 DEF Next0
        <5>. QED
          BY <2>1, <4>1, <5>1, <5>2
      <4>2. CASE k # 1
        <5>0. same[k - 1] = (k - 1 # 0 => w[k - 1] = f[k - 1])
          BY <2>10, <3>1
        <5>1. w[k - 1] = f[k - 1]
          <6>1. k - 1 # 0
            BY <4>2
          <6>. QED
            BY <2>12, <5>0, <6>1, Zenon
        <5>2. w[k] = w[k - 1] \o q[k]
          BY <2>9, <4>2 DEF Next0
        <5>. QED
          BY <1>6, <5>1, <5>2
      <4>. QED
        BY <4>1, <4>2
    <3>. QED
      BY <2>10, <3>1, <3>2
  <2>13. \A k \in 0..n : same[k]
    BY ONLY <2>11, <2>12, AllFollow
  <2>14. w[n] = f[n]
    BY <1>9, <2>10, <2>13
  <2>. QED
    BY <1>5, <1>6, <2>8, <2>14 DEF T, Flattens
<1>. QED
  BY <1>8, <1>9

LEMMA FlattenType ==
  ASSUME NEW S, NEW n \in Nat, NEW q \in [1..n -> Seq(S)]
  PROVE  FlattenSeq(q) \in Seq(S)
<1>1. PICK f \in [0..n -> Seq(S)] : Flattens(f, n, q)
  BY FlattenIs
<1>2. n \in 0..n
  OBVIOUS
<1>. QED
  BY <1>1, <1>2 DEF Flattens
=============================================================================
