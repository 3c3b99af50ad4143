----------------------------- MODULE Transcript_proofs -----------------------------
(***************************************************************************)
(* Theorems of Transcript, for every set of agents and calls and every     *)
(* value of the bounds.                                                    *)
(***************************************************************************)
EXTENDS Transcript, Runner_proofs, FiniteSetTheorems, WellFoundedInduction

-------------------------------------------------------------------------------
(* Sequences that are joined from pieces.                                  *)

(* A set of numbers has a least one: the intervals from 1 to its elements  *)
(* have one that is smallest by inclusion.                                 *)
LEMMA LeastNumber ==
  ASSUME NEW T \in SUBSET Nat, T # {}
  PROVE  \E x \in T : \A y \in T : x <= y
<1> DEFINE U == {1..x : x \in T}
           R == StrictSubsetOrdering(Nat)
<1>1. IsWellFoundedOn(R, FiniteSubsetsOf(Nat))
  BY FS_StrictSubsetOrderingWellFounded
<1>2. U \subseteq FiniteSubsetsOf(Nat) /\ U # {}
  <2>1. ASSUME NEW x \in T PROVE 1..x \in FiniteSubsetsOf(Nat)
    <3>1. 1..x \subseteq Nat /\ IsFiniteSet(1..x)
      BY FS_Interval
    <3> QED
      BY <3>1 DEF FiniteSubsetsOf
  <2> QED
    BY <2>1
<1>3. \E u \in U : \A v \in U : ~ (<<v, u>> \in R)
  <2> HIDE DEF U, R
  <2> QED
    BY <1>1, <1>2, WFMin
<1>4. PICK x \in T : \A y \in T : ~ (<<1..y, 1..x>> \in R)
  BY <1>3
<1>5. ASSUME NEW y \in T, y < x PROVE FALSE
  <2>1. 1..y \subseteq 1..x /\ x \in 1..x /\ x \notin 1..y
    BY <1>5
  <2>2. <<1..y, 1..x>> \in R
    BY <2>1 DEF StrictSubsetOrdering
  <2> QED
    BY <1>4, <2>2
<1> QED
  BY <1>5

(* What holds at 0 and goes on from each number to the next holds up to n. *)
LEMMA UpTo ==
  ASSUME NEW n \in Nat, NEW T, 0 \in T, \A m \in 1..n : m - 1 \in T => m \in T
  PROVE  \A m \in 0..n : m \in T
<1> DEFINE Left == {m \in 0..n : m \notin T}
<1> SUFFICES ASSUME Left # {} PROVE FALSE
  OBVIOUS
<1>1. PICK m \in Left : \A y \in Left : m <= y
  <2>1. Left \in SUBSET Nat
    OBVIOUS
  <2> HIDE DEF Left
  <2> QED
    BY <2>1, LeastNumber
<1>2. m \in 1..n /\ m - 1 \in 0..n /\ m - 1 \notin Left
  BY <1>1
<1> QED
  BY <1>1, <1>2

(* What FlattenSeq joins, piece by piece. *)
Joins(s, f, n) == f[0] = <<>> /\ \A i \in 1..n : f[i] = f[i - 1] \o s[i]

Joined(s, g, m) == g = [i \in 1..m |-> IF i = 1 THEN s[i] ELSE g[i - 1] \o s[i]]

(* Its recursion has a solution for every sequence. *)
LEMMA JoinedExists ==
  ASSUME NEW n \in Nat, NEW s
  PROVE  \E g : Joined(s, g, n)
<1> DEFINE T == {m \in Nat : \E g : Joined(s, g, m)}
<1>1. 0 \in T
  <2> DEFINE g == [i \in 1..0 |-> s[i]]
  <2>1. Joined(s, g, 0)
    BY DEF Joined
  <2> QED
    BY <2>1
<1>2. ASSUME NEW m \in 1..n, m - 1 \in T PROVE m \in T
  <2>1. PICK g : Joined(s, g, m - 1)
    BY <1>2
  <2> DEFINE last == IF m = 1 THEN s[1] ELSE g[m - 1] \o s[m]
             h == [i \in 1..m |-> IF i = m THEN last ELSE g[i]]
  <2>2. ASSUME NEW i \in 1..m PROVE h[i] = IF i = 1 THEN s[i] ELSE h[i - 1] \o s[i]
    <3>1. CASE i = m
      BY <3>1
    <3>2. CASE i # m
      <4>1. i \in 1..m - 1 /\ i - 1 # m /\ h[i] = g[i] /\ (i # 1 => h[i - 1] = g[i - 1])
        BY <3>2
      <4>2. g[i] = IF i = 1 THEN s[i] ELSE g[i - 1] \o s[i]
        BY <2>1, <4>1 DEF Joined
      <4> QED
        BY <4>1, <4>2
    <3> QED
      BY <3>1, <3>2
  <2>3. DOMAIN h = 1..m /\ h = [i \in 1..m |-> h[i]]
    OBVIOUS
  <2> HIDE DEF h
  <2>4. h = [i \in 1..m |-> IF i = 1 THEN s[i] ELSE h[i - 1] \o s[i]]
    BY <2>2, <2>3
  <2>5. Joined(s, h, m)
    BY <2>4, Zenon DEF Joined
  <2>6. m \in Nat
    OBVIOUS
  <2> QED
    BY <2>5, <2>6
<1> HIDE DEF T
<1>3. n \in T
  BY <1>1, <1>2, UpTo
<1> QED
  BY <1>3 DEF T

(* FlattenSeq is where joining the pieces ends. *)
LEMMA FlattenJoins ==
  ASSUME NEW S, NEW n \in Nat, NEW s \in [1..n -> Seq(S)]
  PROVE  \E f \in [0..n -> Seq(S)] : Joins(s, f, n) /\ FlattenSeq(s) = f[n]
<1>1. s \in Seq(Seq(S)) /\ Len(s) = n
  OBVIOUS
<1>2. CASE n = 0
  <2> DEFINE f == [i \in 0..0 |-> <<>>]
  <2>1. FlattenSeq(s) = <<>>
    BY <1>1, <1>2, EmptySeq DEF FlattenSeq
  <2>2. f \in [0..n -> Seq(S)] /\ Joins(s, f, n) /\ f[n] = <<>>
    BY <1>2 DEF Joins
  <2> QED
    BY <2>1, <2>2
<1>3. CASE n # 0
  <2> DEFINE g == CHOOSE h : Joined(s, h, n)
  <2>1. Joined(s, g, n)
    BY JoinedExists
  <2>2. FlattenSeq(s) = g[n]
    BY <1>1, <1>3 DEF FlattenSeq, Joined
  <2> HIDE DEF g
  <2>3. \A i \in 1..n : g[i] = IF i = 1 THEN s[i] ELSE g[i - 1] \o s[i]
    BY <2>1 DEF Joined
  <2> DEFINE f == [i \in 0..n |-> IF i = 0 THEN <<>> ELSE g[i]]
             T == {m \in 0..n : f[m] \in Seq(S)}
  <2>4. ASSUME NEW i \in 1..n PROVE f[i] = g[i] /\ (i # 1 => f[i] = f[i - 1] \o s[i]) /\ (i = 1 => f[i] = s[i])
    <3>1. i \in 0..n /\ i # 0 /\ (i # 1 => i - 1 \in 0..n /\ i - 1 # 0)
      OBVIOUS
    <3>2. f[i] = g[i] /\ (i # 1 => f[i - 1] = g[i - 1])
      BY <3>1
    <3> QED
      BY <2>3, <3>2
  <2>5. f[0] = <<>> /\ f[n] = g[n]
    BY <1>3
  <2>6. f = [i \in 0..n |-> f[i]]
    OBVIOUS
  <2> HIDE DEF f
  <2>7. \A m \in 0..n : m \in T
    <3>1. 0 \in T
      <4>1. <<>> \in Seq(S)
        BY EmptySeq
      <4>2. f[0] \in Seq(S)
        BY <2>5, <4>1
      <4> QED
        BY <4>2
    <3>2. ASSUME NEW m \in 1..n, m - 1 \in T PROVE m \in T
      <4>1. f[m - 1] \in Seq(S) /\ s[m] \in Seq(S)
        BY <3>2
      <4>2. f[m - 1] \o s[m] \in Seq(S)
        BY <4>1, ConcatProperties
      <4>3. f[m] \in Seq(S)
        BY <2>4, <4>1, <4>2
      <4> QED
        BY <4>3
    <3> HIDE DEF T
    <3> QED
      BY <3>1, <3>2, UpTo
  <2>8. f \in [0..n -> Seq(S)]
    BY <2>6, <2>7
  <2>9. Joins(s, f, n)
    <3>1. ASSUME n # 0 PROVE f[1] = f[0] \o s[1]
      <4>1. f[1] = s[1] /\ s[1] \in Seq(S)
        BY <2>4, <3>1
      <4> QED
        BY <2>5, <4>1, ConcatEmptySeq
    <3>2. ASSUME NEW i \in 1..n PROVE f[i] = f[i - 1] \o s[i]
      <4>1. CASE i = 1
        <5>1. i - 1 = 0
          BY <4>1
        <5> QED
          BY <1>3, <3>1, <4>1, <5>1
      <4>2. CASE i # 1
        BY <2>4, <4>2
      <4> QED
        BY <4>1, <4>2
    <3> QED
      BY <2>5, <3>2 DEF Joins
  <2> QED
    BY <2>2, <2>5, <2>8, <2>9
<1> QED
  BY <1>2, <1>3

(* What is known of two sequences that are joined. *)
LEMMA JoinShape ==
  ASSUME NEW R, NEW u \in Seq(R), NEW v \in Seq(R)
  PROVE  /\ u \o v \in Seq(R) /\ Len(u \o v) = Len(u) + Len(v)
         /\ \A i \in 1..Len(u) : (u \o v)[i] = u[i]
         /\ \A j \in 1..Len(v) : (u \o v)[Len(u) + j] = v[j]
<1>1. u \o v \in Seq(R) /\ Len(u \o v) = Len(u) + Len(v) /\ Len(u) \in Nat /\ Len(v) \in Nat
  BY ConcatProperties
<1>2. \A i \in 1..Len(u) + Len(v) : (u \o v)[i] = IF i <= Len(u) THEN u[i] ELSE v[i - Len(u)]
  BY ConcatProperties
<1>3. \A i \in 1..Len(u) : (u \o v)[i] = u[i]
  BY <1>1, <1>2
<1>4. ASSUME NEW j \in 1..Len(v) PROVE (u \o v)[Len(u) + j] = v[j]
  <2>1. PICK i \in Nat : i = Len(u) + j
    BY <1>1
  <2>2. i \in 1..Len(u) + Len(v) /\ ~(i <= Len(u)) /\ i - Len(u) = j
    BY <1>1, <2>1
  <2> QED
    BY <1>2, <2>1, <2>2
<1> QED
  BY <1>1, <1>3, <1>4

(* Joining is associative. *)
LEMMA JoinTwice ==
  ASSUME NEW R, NEW x \in Seq(R), NEW y \in Seq(R), NEW z \in Seq(R)
  PROVE  (x \o y) \o z = x \o (y \o z)
BY ConcatAssociative

(* FlattenSeq is a sequence. *)
LEMMA FlattenType ==
  ASSUME NEW S, NEW n \in Nat, NEW s \in [1..n -> Seq(S)]
  PROVE  FlattenSeq(s) \in Seq(S)
BY FlattenJoins

(* It joins the pieces of two sequences one after the other. *)
LEMMA FlattenConcat ==
  ASSUME NEW R, NEW n \in Nat, NEW s \in [1..n -> Seq(R)],
         NEW m \in Nat, NEW t \in [1..m -> Seq(R)]
  PROVE  FlattenSeq(s \o t) = FlattenSeq(s) \o FlattenSeq(t)
<1>a. \A x, y, z \in Seq(R) : (x \o y) \o z = x \o (y \o z)
  BY JoinTwice
<1> DEFINE st == s \o t
<1>1. s \in Seq(Seq(R)) /\ t \in Seq(Seq(R)) /\ Len(s) = n /\ Len(t) = m
  OBVIOUS
<1>0. PICK k \in Nat : k = n + m
  OBVIOUS
<1>2. /\ st \in [1..k -> Seq(R)]
      /\ \A i \in 1..n : st[i] = s[i]
      /\ \A i \in 1..m : st[n + i] = t[i]
  <2>1. st \in Seq(Seq(R)) /\ Len(st) = k
    BY <1>0, <1>1, ConcatProperties
  <2>2. \A i \in 1..k : st[i] = IF i <= n THEN s[i] ELSE t[i - n]
    BY <1>0, <1>1, ConcatProperties
  <2>3. \A i \in 1..m : n + i \in 1..k /\ ~(n + i <= n) /\ (n + i) - n = i
    BY <1>0
  <2> HIDE DEF st
  <2>4. st \in [1..k -> Seq(R)]
    BY <2>1
  <2>5. \A i \in 1..n : st[i] = s[i]
    BY <1>0, <2>2
  <2>6. \A i \in 1..m : st[n + i] = t[i]
    BY <2>2, <2>3
  <2> QED
    BY <2>4, <2>5, <2>6
<1> HIDE DEF st
<1>3. PICK f \in [0..k -> Seq(R)] : Joins(st, f, k) /\ FlattenSeq(st) = f[k]
  BY <1>2, FlattenJoins
<1>4. PICK g \in [0..n -> Seq(R)] : Joins(s, g, n) /\ FlattenSeq(s) = g[n]
  BY FlattenJoins
<1>5. PICK h \in [0..m -> Seq(R)] : Joins(t, h, m) /\ FlattenSeq(t) = h[m]
  BY FlattenJoins
<1>6. f[n] = g[n]
  <2> DEFINE T == {i \in 0..n : f[i] = g[i]}
  <2>1. 0 \in T
    BY <1>3, <1>4 DEF Joins
  <2>2. ASSUME NEW i \in 1..n, i - 1 \in T PROVE i \in T
    <3>1. i \in 1..k
      BY <1>0
    <3>2. f[i] = f[i - 1] \o st[i]
      BY <1>3, <3>1 DEF Joins
    <3>3. g[i] = g[i - 1] \o s[i]
      BY <1>4 DEF Joins
    <3>4. f[i - 1] = g[i - 1] /\ st[i] = s[i]
      BY <1>2, <2>2
    <3>5. f[i] = g[i]
      BY <3>2, <3>3, <3>4
    <3> QED
      BY <3>5
  <2>3. n \in 0..n
    OBVIOUS
  <2> HIDE DEF T
  <2>4. \A i \in 0..n : i \in T
    BY <2>1, <2>2, UpTo
  <2>5. n \in T
    BY <2>3, <2>4
  <2> QED
    BY <2>5 DEF T
<1>7. f[k] = g[n] \o h[m]
  <2> DEFINE T == {i \in 0..m : f[n + i] = g[n] \o h[i]}
  <2>1. 0 \in T
    <3>1. h[0] = <<>> /\ g[n] \in Seq(R) /\ n + 0 = n
      BY <1>5 DEF Joins
    <3>2. g[n] \o <<>> = g[n]
      BY <3>1, ConcatEmptySeq
    <3>3. f[n + 0] = g[n] \o h[0]
      BY <1>6, <3>1, <3>2
    <3> QED
      BY <3>3
  <2>2. ASSUME NEW i \in 1..m, i - 1 \in T PROVE i \in T
    <3>1. f[n + i] = f[n + i - 1] \o st[n + i]
      <4>1. n + i \in 1..k
        BY <1>0
      <4>2. \A j \in 1..k : f[j] = f[j - 1] \o st[j]
        BY <1>3 DEF Joins
      <4>3. PICK j \in 1..k : j = n + i
        BY <4>1
      <4>4. f[j] = f[j - 1] \o st[j]
        BY <4>2
      <4>5. j - 1 = n + i - 1
        BY <4>3
      <4> QED
        BY ONLY <4>3, <4>4, <4>5
    <3>2. h[i] = h[i - 1] \o t[i] /\ st[n + i] = t[i]
      BY <1>2, <1>5 DEF Joins
    <3>3. f[n + i - 1] = g[n] \o h[i - 1]
      BY <2>2
    <3>4. g[n] \in Seq(R) /\ h[i - 1] \in Seq(R) /\ t[i] \in Seq(R)
      OBVIOUS
    <3>5. (g[n] \o h[i - 1]) \o t[i] = g[n] \o (h[i - 1] \o t[i])
      BY ONLY <1>a, <3>4
    <3>6. f[n + i] = g[n] \o h[i] /\ i \in 0..m
      <4>1. PICK x, y, z, u, w : /\ x = f[n + i] /\ y = g[n] /\ z = h[i - 1]
                                 /\ u = t[i] /\ w = h[i]
        OBVIOUS
      <4>2. x = (y \o z) \o u /\ w = z \o u /\ (y \o z) \o u = y \o (z \o u)
        BY <3>1, <3>2, <3>3, <3>5, <4>1
      <4>3. x = y \o w
        BY <4>2
      <4>4. i \in 0..m
        OBVIOUS
      <4> QED
        BY <4>1, <4>3, <4>4
    <3> QED
      BY <3>6
  <2>3. m \in 0..m
    OBVIOUS
  <2> HIDE DEF T
  <2>4. \A i \in 0..m : i \in T
    BY <2>1, <2>2, UpTo
  <2>5. m \in T
    BY <2>3, <2>4
  <2> QED
    BY <1>0, <2>5 DEF T
<1> QED
  BY <1>3, <1>4, <1>5, <1>7 DEF st

(* The pieces of t stand for the elements of r, or for nothing. *)
LEMMA FlattenSingles ==
  ASSUME NEW S, NEW r \in Seq(S), NEW n \in Nat, n = Len(r),
         NEW s \in [1..n -> Seq(S)], \A i \in 1..n : s[i] = <<r[i]>>
  PROVE  FlattenSeq(s) = r
<1>1. PICK f \in [0..n -> Seq(S)] : Joins(s, f, n) /\ FlattenSeq(s) = f[n]
  BY FlattenJoins
<1> DEFINE T == {k \in 0..n : Len(f[k]) = k /\ \A i \in 1..k : f[k][i] = r[i]}
<1>2. 0 \in T
  BY <1>1 DEF Joins
<1>3. ASSUME NEW k \in 1..n, k - 1 \in T PROVE k \in T
  <2>1. f[k] = f[k - 1] \o <<r[k]>>
    BY <1>1 DEF Joins
  <2>2. f[k - 1] \in Seq(S) /\ r[k] \in S /\ <<r[k]>> \in Seq(S) /\ Len(<<r[k]>>) = 1
    OBVIOUS
  <2>3. Len(f[k - 1]) = k - 1 /\ \A i \in 1..k - 1 : f[k - 1][i] = r[i]
    BY <1>3
  <2>4. Len(f[k]) = k
    BY <2>1, <2>2, <2>3, ConcatProperties
  <2>5. ASSUME NEW i \in 1..k PROVE f[k][i] = r[i]
    <3>1. f[k][i] = IF i <= k - 1 THEN f[k - 1][i] ELSE <<r[k]>>[i - (k - 1)]
      BY <2>1, <2>2, <2>3, ConcatProperties
    <3> QED
      BY <2>3, <3>1
  <2> QED
    BY <2>4, <2>5
<1> HIDE DEF T
<1>4. n \in T
  <2>1. \A k \in 0..n : k \in T
    BY <1>2, <1>3, UpTo
  <2> QED
    BY <2>1
<1>5. f[n] \in Seq(S) /\ Len(f[n]) = n /\ \A i \in 1..n : f[n][i] = r[i]
  BY <1>4 DEF T
<1>6. f[n] = r
  BY <1>5, SeqEqual
<1> QED
  BY <1>1, <1>6

(* Empty pieces leave nothing. *)
LEMMA FlattenEmpty ==
  ASSUME NEW n \in Nat, NEW s \in [1..n -> {<<>>}]
  PROVE  FlattenSeq(s) = <<>>
<1>1. s \in [1..n -> Seq({})]
  BY EmptySeq
<1>2. FlattenSeq(s) \in Seq({})
  BY <1>1, FlattenType
<1> QED
  BY <1>2

(* A sequence of one element at most. *)
LEMMA OnlyElement ==
  ASSUME NEW R, NEW q \in Seq(R), q # <<>>, Len(q) <= 1
  PROVE  \E x \in R : q = <<x>>
<1>0. Len(q) \in Nat \ {0}
  BY EmptySeq
<1>1. Len(q) = 1
  <2>1. PICK n \in Nat \ {0} : n = Len(q)
    BY <1>0
  <2>2. n <= 1
    BY <2>1
  <2>3. n = 1
    BY ONLY <2>2, n \in Nat \ {0}
  <2> QED
    BY <2>1, <2>3
<1>2. q[1] \in R /\ <<q[1]>> \in Seq(R) /\ Len(<<q[1]>>) = 1
  BY <1>1
<1>3. q = <<q[1]>>
  BY <1>1, <1>2, SeqEqual
<1> QED
  BY <1>2, <1>3

(* e finds the elements of t, in their order, among the pieces in s, of    *)
(* which it misses only empty ones up to n.                                *)
Picks(s, t, e, n) ==
  /\ e \in [1..Len(t) -> 1..n]
  /\ \A i, j \in 1..Len(t) : i < j => e[i] < e[j]
  /\ \A i \in 1..Len(t) : s[e[i]] = <<t[i]>>
  /\ \A k \in 1..n : s[k] # <<>> => \E i \in 1..Len(t) : e[i] = k

(* One piece more. *)
LEMMA PicksGrow ==
  ASSUME NEW R, NEW n \in Nat, NEW s \in [1..n -> Seq(R)], NEW k \in 1..n, Len(s[k]) <= 1,
         NEW u \in Seq(R), NEW e, Picks(s, u, e, k - 1)
  PROVE  \E d : Picks(s, u \o s[k], d, k)
<1> DEFINE l == Len(u)  v == u \o s[k]
<1>1. l \in Nat /\ s[k] \in Seq(R) /\ DOMAIN u = 1..l
  OBVIOUS
<1>2. CASE s[k] = <<>>
  <2>1. v = u
    BY <1>2
  <2>2. e \in [1..Len(u) -> 1..k]
    BY DEF Picks
  <2>3. \A j \in 1..k : j = k \/ j \in 1..k - 1
    OBVIOUS
  <2>4. Picks(s, u, e, k)
    BY <1>2, <2>2, <2>3 DEF Picks
  <2> QED
    BY <2>1, <2>4
<1>3. CASE s[k] # <<>>
  <2>1. PICK x \in R : s[k] = <<x>>
    <3>1. PICK q \in Seq(R) : q = s[k]
      BY <1>1
    <3>2. q # <<>> /\ Len(q) <= 1
      BY <1>3, <3>1
    <3> QED
      BY <3>1, <3>2, OnlyElement
  <2>2. Len(v) = l + 1 /\ (\A i \in 1..l : v[i] = u[i]) /\ v[l + 1] = x
    BY <2>1
  <2> DEFINE d == [i \in 1..l + 1 |-> IF i = l + 1 THEN k ELSE e[i]]
  <2>3. \A i \in 1..l : e[i] \in 1..k /\ e[i] < k /\ d[i] = e[i] /\ i # l + 1
    <3>1. e \in [1..l -> 1..k - 1]
      BY DEF Picks
    <3>2. \A i \in 1..l : e[i] \in 1..k - 1
      BY <3>1
    <3>3. \A i \in 1..l : i \in 1..l + 1 /\ i # l + 1
      BY <1>1
    <3> QED
      BY <3>2, <3>3
  <2>4. d[l + 1] = k /\ l + 1 \in 1..l + 1
    BY <1>1
  <2>5. \A i \in 1..l + 1 : i = l + 1 \/ i \in 1..l
    BY <1>1
  <2>6. d \in [1..l + 1 -> 1..k]
    <3>1. \A i \in 1..l + 1 : d[i] \in 1..k
      <4> HIDE DEF d
      <4> QED
        <5> SUFFICES ASSUME NEW i \in 1..l + 1 PROVE d[i] \in 1..k
          OBVIOUS
        <5>1. CASE i = l + 1
          BY <2>4, <5>1
        <5>2. CASE i \in 1..l
          BY <2>3, <5>2
        <5> QED
          BY <2>5, <5>1, <5>2
    <3> QED
      BY <3>1
  <2> HIDE DEF d, v, l
  <2>7. ASSUME NEW i \in 1..l + 1, NEW j \in 1..l + 1, i < j PROVE d[i] < d[j]
    <3>1. i \in 1..l
      BY <1>1, <2>7
    <3>2. CASE j = l + 1
      <4>1. d[i] < k /\ d[j] = k
        BY <2>3, <2>4, <3>1, <3>2
      <4> QED
        BY <4>1
    <3>3. CASE j \in 1..l
      <4>1. e[i] < e[j]
        BY <2>7, <3>1, <3>3 DEF Picks, l
      <4> QED
        BY <2>3, <3>1, <3>3, <4>1
    <3> QED
      BY <2>5, <3>2, <3>3
  <2>8. ASSUME NEW i \in 1..l + 1 PROVE s[d[i]] = <<v[i]>>
    <3>1. CASE i = l + 1
      BY <2>1, <2>2, <2>4, <3>1
    <3>2. CASE i \in 1..l
      BY <2>2, <2>3, <3>2 DEF Picks, l
    <3> QED
      BY <2>5, <3>1, <3>2
  <2>9. ASSUME NEW j \in 1..k, s[j] # <<>> PROVE \E i \in 1..l + 1 : d[i] = j
    <3>1. CASE j = k
      BY <2>4, <3>1
    <3>2. CASE j # k
      <4>1. j \in 1..k - 1
        BY <3>2
      <4>2. PICK i \in 1..l : e[i] = j
        BY <2>9, <4>1 DEF Picks, l
      <4>3. i \in 1..l + 1
        BY <1>1
      <4> QED
        BY <2>3, <4>2, <4>3
    <3> QED
      BY <3>1, <3>2
  <2>10. Picks(s, v, d, k)
    BY <2>2, <2>6, <2>7, <2>8, <2>9 DEF Picks
  <2> QED
    BY <2>10 DEF v
<1> QED
  BY <1>2, <1>3

(* What is joined from pieces of one element at most. *)
LEMMA FlattenPicks ==
  ASSUME NEW R, NEW n \in Nat, NEW s \in [1..n -> Seq(R)], \A i \in 1..n : Len(s[i]) <= 1
  PROVE  \E e : Picks(s, FlattenSeq(s), e, n)
<1>1. PICK f \in [0..n -> Seq(R)] : Joins(s, f, n) /\ FlattenSeq(s) = f[n]
  BY FlattenJoins
<1> DEFINE T == {k \in 0..n : \E e : Picks(s, f[k], e, k)}
<1>2. 0 \in T
  <2> DEFINE e == [i \in 1..0 |-> 0]
  <2>1. f[0] = <<>> /\ Len(<<>>) = 0
    BY <1>1 DEF Joins
  <2>2. Picks(s, <<>>, e, 0)
    BY DEF Picks
  <2> QED
    BY <2>1, <2>2
<1>3. ASSUME NEW k \in 1..n, k - 1 \in T PROVE k \in T
  <2>1. f[k] = f[k - 1] \o s[k]
    BY <1>1 DEF Joins
  <2>0. f[k - 1] \in Seq(R)
    OBVIOUS
  <2>2. PICK e : Picks(s, f[k - 1], e, k - 1)
    BY <1>3
  <2>3. \E d : Picks(s, f[k - 1] \o s[k], d, k)
    BY <2>0, <2>2, PicksGrow
  <2>4. \E d : Picks(s, f[k], d, k)
    BY <2>1, <2>3
  <2> QED
    BY <2>4
<1> HIDE DEF T
<1>4. \A k \in 0..n : k \in T
  BY <1>2, <1>3, UpTo
<1>5. n \in T
  BY <1>4
<1> QED
  BY <1>1, <1>5 DEF T

(* It has as many elements as there are pieces that are not empty. *)
LEMMA PicksCount ==
  ASSUME NEW n \in Nat, NEW s, NEW t, Len(t) \in Nat, NEW e, Picks(s, t, e, n)
  PROVE  Cardinality({k \in 1..n : s[k] # <<>>}) = Len(t)
<1> DEFINE W == {k \in 1..n : s[k] # <<>>}
           l == Len(t)
<1>1. ASSUME NEW i \in 1..l PROVE e[i] \in W
  <2>1. e[i] \in 1..n /\ s[e[i]] = <<t[i]>>
    BY DEF Picks
  <2>2. <<t[i]>> # <<>>
    OBVIOUS
  <2> QED
    BY <2>1, <2>2
<1>2. e \in [1..l -> W]
  BY <1>1 DEF Picks
<1>3. \A i, j \in 1..l : e[i] = e[j] => i = j
  <2> SUFFICES ASSUME NEW i \in 1..l, NEW j \in 1..l, e[i] = e[j], i # j PROVE FALSE
    OBVIOUS
  <2>1. e[i] \in Nat /\ e[j] \in Nat /\ (i < j \/ j < i)
    BY <1>1
  <2>2. e[i] < e[j] \/ e[j] < e[i]
    BY <2>1 DEF Picks
  <2> QED
    BY <2>1, <2>2
<1>4. \A k \in W : \E i \in 1..l : e[i] = k
  BY DEF Picks
<1> HIDE DEF W, l
<1>5. e \in Bijection(1..l, W)
  BY <1>2, <1>3, <1>4 DEF Bijection, Injection, Surjection, IsInjective
<1>6. ExistsBijection(1..l, W)
  BY <1>5 DEF ExistsBijection
<1>7. l \in Nat
  BY DEF l
<1> QED
  BY <1>6, <1>7, FS_CountingElements DEF W, l

-------------------------------------------------------------------------------
(* What is selected of a sequence.                                         *)

(* t has the elements of s at the places in W, in their order. *)
Selects(s, t, W, e) ==
  /\ e \in [1..Len(t) -> 1..Len(s)]
  /\ \A i, j \in 1..Len(t) : i < j => e[i] < e[j]
  /\ \A i \in 1..Len(t) : t[i] = s[e[i]] /\ e[i] \in W
  /\ \A k \in 1..Len(s) : k \in W => \E i \in 1..Len(t) : e[i] = k

(* What is selected stands in the wanted places, in their order, and there *)
(* is as much of it as there are such places.                              *)
LEMMA SelectedPlaces ==
  ASSUME NEW R, NEW s \in Seq(R), NEW W
  PROVE  /\ Selected(s, W) \in Seq(R)
         /\ \E e : Selects(s, Selected(s, W), W, e)
         /\ Cardinality({k \in 1..Len(s) : k \in W}) = Len(Selected(s, W))
<1> DEFINE n == Len(s)
           p == [i \in DOMAIN s |-> IF i \in W THEN <<s[i]>> ELSE <<>>]
           t == FlattenSeq(p)
<1>1. n \in Nat /\ DOMAIN s = 1..n /\ \A i \in 1..n : s[i] \in R
  OBVIOUS
<1>2. /\ DOMAIN p = 1..n
      /\ \A i \in 1..n : /\ p[i] = IF i \in W THEN <<s[i]>> ELSE <<>>
                         /\ p[i] \in Seq(R) /\ Len(p[i]) <= 1
                         /\ p[i] # <<>> <=> i \in W
  BY <1>1
<1>3. p \in [1..n -> Seq(R)]
  BY <1>1, <1>2
<1>4. Selected(s, W) = t
  BY DEF Selected
<1> HIDE DEF p, t
<1>5. t \in Seq(R)
  BY <1>1, <1>3, FlattenType DEF t
<1>6. PICK e : Picks(p, t, e, n)
  BY <1>1, <1>2, <1>3, FlattenPicks DEF t
<1> HIDE DEF n
<1>7. ASSUME NEW i \in 1..Len(t) PROVE t[i] = s[e[i]] /\ e[i] \in W
  <2>1. e[i] \in 1..n /\ p[e[i]] = <<t[i]>>
    BY <1>6 DEF Picks
  <2>2. p[e[i]] # <<>>
    BY <2>1
  <2>3. e[i] \in W /\ p[e[i]] = <<s[e[i]]>>
    BY <1>2, <2>1, <2>2
  <2> QED
    BY <2>1, <2>3
<1>8. ASSUME NEW k \in 1..n, k \in W PROVE \E i \in 1..Len(t) : e[i] = k
  BY <1>2, <1>6, <1>8 DEF Picks
<1>9. Selects(s, t, W, e)
  BY <1>6, <1>7, <1>8 DEF Selects, Picks, n
<1>10. Cardinality({k \in 1..n : k \in W}) = Len(t)
  <2>1. {k \in 1..n : k \in W} = {k \in 1..n : p[k] # <<>>}
    BY <1>2
  <2>2. Len(t) \in Nat
    BY <1>5
  <2> QED
    BY <1>1, <1>6, <2>1, <2>2, PicksCount
<1> QED
  BY <1>4, <1>5, <1>9, <1>10 DEF n

-------------------------------------------------------------------------------
(* The log of a transcript.                                                *)

LogRows  == [type : {"function_call", "function_call_output"}, call : Calls \union {None}]
Logs(i)  == i.kind \in {"call", "out"}
LogRow(i) == IF i.kind = "call" THEN CallItem(i.call) ELSE OutputItem(i.call)
LogPiece(i) == IF Logs(i) THEN <<LogRow(i)>> ELSE <<>>

(* The log of a transcript is joined from one piece per item. *)
LEMMA LogPieces ==
  ASSUME NEW s \in Seq(ItemSet)
  PROVE  /\ [i \in 1..Len(s) |-> LogPiece(s[i])] \in [1..Len(s) -> Seq(LogRows)]
         /\ LogOf(s) = FlattenSeq([i \in 1..Len(s) |-> LogPiece(s[i])])
         /\ LogOf(s) \in Seq(LogRows)
<1>1. Len(s) \in Nat /\ DOMAIN s = 1..Len(s) /\ \A i \in 1..Len(s) : s[i] \in ItemSet
  OBVIOUS
<1>2. ASSUME NEW i \in ItemSet
      PROVE  /\ LogPiece(i) \in Seq(LogRows)
             /\ LogPiece(i) = CASE i.kind = "call" -> <<CallItem(i.call)>>
                                [] i.kind = "out"  -> <<OutputItem(i.call)>>
                                [] OTHER           -> <<>>
  <2>1. i.call \in Calls \union {None}
    BY DEF ItemSet
  <2>2. LogRow(i) \in LogRows
    BY <2>1 DEF LogRow, CallItem, OutputItem, LogRows
  <2>3. LogPiece(i) \in Seq(LogRows)
    BY <2>2 DEF LogPiece
  <2>4. CASE i.kind = "call"
    BY <2>3, <2>4 DEF LogPiece, Logs, LogRow
  <2>5. CASE i.kind = "out"
    BY <2>3, <2>5 DEF LogPiece, Logs, LogRow
  <2>6. CASE ~Logs(i)
    BY <2>3, <2>6 DEF LogPiece, Logs, LogRow
  <2> QED
    BY <2>4, <2>5, <2>6 DEF Logs
<1> DEFINE p == [i \in 1..Len(s) |-> LogPiece(s[i])]
<1>3. p \in [1..Len(s) -> Seq(LogRows)]
  BY <1>1, <1>2
<1>4. LogOf(s) = FlattenSeq(p)
  <2>1. p = [i \in DOMAIN s |-> CASE s[i].kind = "call" -> <<CallItem(s[i].call)>>
                                 [] s[i].kind = "out"  -> <<OutputItem(s[i].call)>>
                                 [] OTHER              -> <<>>]
    BY <1>1, <1>2
  <2> HIDE DEF p
  <2> QED
    BY <2>1 DEF LogOf
<1> HIDE DEF p
<1>5. FlattenSeq(p) \in Seq(LogRows)
  BY <1>1, <1>3, FlattenType
<1> QED
  BY <1>3, <1>4, <1>5 DEF p

(* l logs s: e finds its rows, in their order, among the items. *)
Logging(s, l, e) ==
  /\ e \in [1..Len(l) -> 1..Len(s)]
  /\ \A i, j \in 1..Len(l) : i < j => e[i] < e[j]
  /\ \A i \in 1..Len(l) : Logs(s[e[i]]) /\ l[i] = LogRow(s[e[i]])
  /\ \A k \in 1..Len(s) : Logs(s[k]) => \E i \in 1..Len(l) : e[i] = k

(* Each row of the log comes from a place of the transcript, in the order  *)
(* of the places.                                                          *)
LEMMA LogPlaces ==
  ASSUME NEW s \in Seq(ItemSet)
  PROVE  \E e : Logging(s, LogOf(s), e)
<1> DEFINE n == Len(s)
           p == [i \in 1..n |-> LogPiece(s[i])]
           l == LogOf(s)
<1>1. n \in Nat /\ p \in [1..n -> Seq(LogRows)] /\ l = FlattenSeq(p)
  BY LogPieces
<1>2. ASSUME NEW i \in 1..n
      PROVE  Len(p[i]) <= 1 /\ (p[i] # <<>> <=> Logs(s[i])) /\ (Logs(s[i]) => p[i] = <<LogRow(s[i])>>)
  BY DEF LogPiece
<1> HIDE DEF p, l
<1>3. PICK e : Picks(p, l, e, n)
  BY <1>1, <1>2, FlattenPicks
<1>4. ASSUME NEW i \in 1..Len(l) PROVE Logs(s[e[i]]) /\ l[i] = LogRow(s[e[i]])
  <2>1. e[i] \in 1..n /\ p[e[i]] = <<l[i]>>
    BY <1>3 DEF Picks
  <2>2. p[e[i]] # <<>>
    BY <2>1
  <2>3. Logs(s[e[i]]) /\ p[e[i]] = <<LogRow(s[e[i]])>>
    BY <1>2, <2>1, <2>2
  <2> QED
    BY <2>1, <2>3
<1>5. ASSUME NEW k \in 1..n, Logs(s[k]) PROVE \E i \in 1..Len(l) : e[i] = k
  BY <1>2, <1>3, <1>5 DEF Picks
<1>6. Logging(s, l, e)
  BY <1>3, <1>4, <1>5 DEF Logging, Picks
<1> QED
  BY <1>6 DEF l

(* Items of both sequences are logged one after the other. *)
LEMMA LogConcat ==
  ASSUME NEW s \in Seq(ItemSet), NEW t \in Seq(ItemSet)
  PROVE  LogOf(s \o t) = LogOf(s) \o LogOf(t)
<1> DEFINE n == Len(s)  m == Len(t)  st == s \o t
           p == [i \in 1..n |-> LogPiece(s[i])]
           q == [i \in 1..m |-> LogPiece(t[i])]
           r == [i \in 1..Len(st) |-> LogPiece(st[i])]
<1>1. st \in Seq(ItemSet) /\ Len(st) = n + m /\ n \in Nat /\ m \in Nat
  BY ConcatProperties
<1>2. \A i \in 1..Len(st) : st[i] = IF i <= n THEN s[i] ELSE t[i - n]
  BY <1>1, ConcatProperties
<1>3. /\ p \in [1..n -> Seq(LogRows)] /\ LogOf(s) = FlattenSeq(p)
      /\ q \in [1..m -> Seq(LogRows)] /\ LogOf(t) = FlattenSeq(q)
  BY LogPieces
<1>4. r \in [1..Len(st) -> Seq(LogRows)] /\ LogOf(st) = FlattenSeq(r)
  <2> HIDE DEF st
  <2> QED
    BY <1>1, LogPieces DEF r
<1>5. r = p \o q
  <2>1. p \in Seq(Seq(LogRows)) /\ q \in Seq(Seq(LogRows)) /\ Len(p) = n /\ Len(q) = m
    <3> HIDE DEF p, q, n, m, st
    <3> QED
      BY <1>1, <1>3
  <2>2. r \in Seq(Seq(LogRows)) /\ Len(r) = n + m
    <3> HIDE DEF r, n, m, st
    <3> QED
      BY <1>1, <1>4
  <2>3. p \o q \in Seq(Seq(LogRows)) /\ Len(p \o q) = n + m
    BY <2>1, ConcatProperties
  <2>4. \A i \in 1..n + m : (p \o q)[i] = IF i <= n THEN p[i] ELSE q[i - n]
    BY <2>1, ConcatProperties
  <2>5. ASSUME NEW i \in 1..Len(r) PROVE r[i] = (p \o q)[i]
    <3>1. i \in 1..n + m /\ i \in 1..Len(st)
      BY <1>1, <2>2
    <3>2. r[i] = LogPiece(st[i])
      BY <3>1
    <3>3. CASE i <= n
      <4>1. i \in 1..n /\ st[i] = s[i] /\ (p \o q)[i] = p[i]
        BY <1>1, <1>2, <2>4, <3>1, <3>3
      <4>2. p[i] = LogPiece(s[i])
        BY <4>1
      <4> QED
        BY <3>2, <4>1, <4>2
    <3>4. CASE ~(i <= n)
      <4>1. i - n \in 1..m /\ st[i] = t[i - n] /\ (p \o q)[i] = q[i - n]
        BY <1>1, <1>2, <2>4, <3>1, <3>4
      <4>2. q[i - n] = LogPiece(t[i - n])
        BY <4>1
      <4> QED
        BY <3>2, <4>1, <4>2
    <3> QED
      BY <3>3, <3>4
  <2> HIDE DEF p, q, r, st
  <2> QED
    BY <2>2, <2>3, <2>5, SeqEqual
<1>6. FlattenSeq(p \o q) = FlattenSeq(p) \o FlattenSeq(q)
  <2> HIDE DEF p, q, n, m
  <2>1. /\ p \in [1..n -> Seq(LogRows)] /\ q \in [1..m -> Seq(LogRows)]
        /\ n \in Nat /\ m \in Nat
    BY <1>1, <1>3
  <2>2. \A i, j \in Nat : \A x \in [1..i -> Seq(LogRows)] : \A y \in [1..j -> Seq(LogRows)] :
          FlattenSeq(x \o y) = FlattenSeq(x) \o FlattenSeq(y)
    BY ONLY FlattenConcat
  <2>3. \A y \in [1..m -> Seq(LogRows)] : FlattenSeq(p \o y) = FlattenSeq(p) \o FlattenSeq(y)
    BY ONLY <2>1, <2>2, Zenon
  <2> QED
    BY ONLY <2>1, <2>3, Zenon
<1> QED
  BY <1>3, <1>4, <1>5, <1>6

(* Calls and outputs are logged one by one, words not at all. *)
LEMMA LogSame ==
  ASSUME NEW s \in Seq(ItemSet), \A i \in DOMAIN s : Logs(s[i])
  PROVE  LogOf(s) = [i \in DOMAIN s |-> LogRow(s[i])]
<1> DEFINE n == Len(s)
           p == [i \in 1..n |-> LogPiece(s[i])]
           r == [i \in 1..n |-> LogRow(s[i])]
<1>1. n \in Nat /\ DOMAIN s = 1..n /\ p \in [1..n -> Seq(LogRows)] /\ LogOf(s) = FlattenSeq(p)
  BY LogPieces
<1>2. ASSUME NEW i \in 1..n PROVE LogRow(s[i]) \in LogRows
  <2>1. PICK x \in ItemSet : x = s[i]
    BY <1>1
  <2>2. x.call \in Calls \union {None}
    BY DEF ItemSet
  <2> QED
    BY <2>1, <2>2 DEF LogRow, LogRows, CallItem, OutputItem
<1>3. r \in Seq(LogRows) /\ Len(r) = n
  BY <1>1, <1>2
<1>4. \A i \in 1..n : p[i] = <<r[i]>>
  BY <1>1 DEF LogPiece
<1> HIDE DEF p, r, n
<1>5. FlattenSeq(p) = r
  BY <1>1, <1>3, <1>4, FlattenSingles
<1> QED
  BY <1>1, <1>5 DEF r

(* A transcript without calls and outputs has an empty log. *)
LEMMA LogNothing ==
  ASSUME NEW s \in Seq(ItemSet), \A i \in DOMAIN s : ~Logs(s[i])
  PROVE  LogOf(s) = <<>>
<1> DEFINE n == Len(s)
           p == [i \in 1..n |-> LogPiece(s[i])]
<1>1. n \in Nat /\ DOMAIN s = 1..n /\ LogOf(s) = FlattenSeq(p)
  BY LogPieces
<1>2. p \in [1..n -> {<<>>}]
  BY <1>1 DEF LogPiece
<1> QED
  BY <1>1, <1>2, FlattenEmpty

(* The calls of a log are those of the transcript, and so are its outputs. *)
LEMMA LoggedRow ==
  ASSUME NEW s \in Seq(ItemSet), NEW c
  PROVE  /\ (\E k \in DOMAIN LogOf(s) : LogOf(s)[k] = CallItem(c)) <=>
              (\E i \in DOMAIN s : s[i].kind = "call" /\ s[i].call = c)
         /\ (\E k \in DOMAIN LogOf(s) : LogOf(s)[k] = OutputItem(c)) <=>
              (\E i \in DOMAIN s : s[i].kind = "out" /\ s[i].call = c)
<1> DEFINE l == LogOf(s)
<1>1. DOMAIN s = 1..Len(s) /\ DOMAIN l = 1..Len(l)
  BY LogPieces
<1>2. PICK e : Logging(s, l, e)
  BY LogPlaces
<1> HIDE DEF l
<1>3. ASSUME NEW k \in DOMAIN l
      PROVE  e[k] \in DOMAIN s /\ Logs(s[e[k]]) /\ l[k] = LogRow(s[e[k]])
  BY <1>1, <1>2, <1>3 DEF Logging
<1>4. ASSUME NEW i \in DOMAIN s, Logs(s[i]) PROVE \E k \in DOMAIN l : l[k] = LogRow(s[i])
  <2>1. PICK k \in 1..Len(l) : e[k] = i
    BY <1>1, <1>2, <1>4 DEF Logging
  <2> QED
    BY <1>1, <1>3, <2>1
<1>5. \A i : Logs(i) => /\ LogRow(i) = CallItem(c) <=> i.kind = "call" /\ i.call = c
                        /\ LogRow(i) = OutputItem(c) <=> i.kind = "out" /\ i.call = c
  <2> SUFFICES ASSUME NEW i, Logs(i)
               PROVE  /\ LogRow(i) = CallItem(c) <=> i.kind = "call" /\ i.call = c
                      /\ LogRow(i) = OutputItem(c) <=> i.kind = "out" /\ i.call = c
    OBVIOUS
  <2>1. CASE i.kind = "call"
    <3>1. LogRow(i) = CallItem(i.call)
      BY <2>1 DEF LogRow
    <3> QED
      BY <2>1, <3>1, ItemsDiffer
  <2>2. CASE i.kind = "out"
    <3>1. LogRow(i) = OutputItem(i.call)
      BY <2>2 DEF LogRow
    <3> QED
      BY <2>2, <3>1, ItemsDiffer
  <2> QED
    BY <2>1, <2>2 DEF Logs
<1>6. \A i : i.kind = "call" \/ i.kind = "out" => Logs(i)
  BY DEF Logs
<1>7. (\E k \in DOMAIN l : l[k] = CallItem(c)) <=> (\E i \in DOMAIN s : s[i].kind = "call" /\ s[i].call = c)
  BY <1>3, <1>4, <1>5, <1>6
<1>8. (\E k \in DOMAIN l : l[k] = OutputItem(c)) <=> (\E i \in DOMAIN s : s[i].kind = "out" /\ s[i].call = c)
  BY <1>3, <1>4, <1>5, <1>6
<1> QED
  BY <1>7, <1>8 DEF l

-------------------------------------------------------------------------------
(* The invariant.                                                          *)

ItemsTyped ==
  /\ items \in [Agents -> Seq(ItemSet)]
  /\ clock \in Nat /\ rewound \in 0..clock
  /\ pending \in Seq(1..clock) /\ Len(pending) = queued
  /\ loose \subseteq Calls /\ gone \subseteq Calls

LogsKept == \A a \in Agents : LogOf(items[a]) = log[a]

(* A stamp is given once, to an item or to a message in the queue. *)
StampsOK ==
  \A a \in Agents : \A i \in DOMAIN items[a] :
    /\ items[a][i].at \in 1..clock /\ items[a][i].at \notin ToSet(pending)
    /\ Logs(items[a][i]) => items[a][i].call \in Calls
    /\ \A b \in Agents : \A j \in DOMAIN items[b] :
         items[a][i].at = items[b][j].at => a = b /\ i = j

(* Only queued messages stand behind items that are newer. *)
OrderOK ==
  \A a \in Agents : \A i, j \in DOMAIN items[a] :
    i < j /\ (items[a][i].kind = "user" \/ items[a][j].kind # "user") =>
      items[a][i].at < items[a][j].at

(* The queue is in the order of acceptance, behind the user's messages in  *)
(* the transcript.                                                         *)
PendingOK ==
  /\ \A i, j \in DOMAIN pending : i < j => pending[i] < pending[j]
  /\ \A i \in DOMAIN items[Root] : \A j \in DOMAIN pending :
       items[Root][i].kind = "user" => items[Root][i].at < pending[j]

(* Only an agent that has begun a turn calls or waits. *)
TurnsOK ==
  \A a \in Agents : status[a] = "waiting" \/ pc[a] \in {"generate"} \union Handling => MaxTurns > 0

(* While messages are queued the root waits, or is about to take them. *)
QueueOK ==
  queued > 0 =>
    /\ MaxTurns > 0
    /\ \/ status[Root] = "waiting"
       \/ delivering /\ (pc[Root] = "start" \/ (pc[Root] = "turn" /\ turns[Root] = 0))

(* Only an agent that was delegated to has a transcript. *)
TasksOK ==
  /\ \A b \in Agents \ {Root} : status[b] = "absent" => items[b] = <<>>
  /\ \A b \in Agents \ {Root} : status[b] # "absent" => parent[b] # None

(* Nobody delegated to the root. *)
RootOK == parent[Root] = None

Recent(s, c, since) ==
  \E i \in DOMAIN s : s[i].kind = "call" /\ s[i].call = c /\ s[i].at > since

(* The calls that an agent handles or waits for are younger than the last  *)
(* rewind.                                                                 *)
RecentOK ==
  \A a \in Agents : \A c \in Pending(a) \union WaitCalls(waits[a]) \union WaitCalls(waiting[a]) :
    Recent(items[a], c, rewound)

(* The request knows the items that are not newer than itself, in its      *)
(* agent's transcript by their number.                                     *)
RequestOK ==
  /\ request.since \in 0..clock /\ request.known \in SUBSET (1..request.since)
  /\ \A a \in Agents : \A i \in DOMAIN items[a] :
       items[a][i].kind # "user" => (items[a][i].at \in request.known <=> items[a][i].at <= request.since)
  /\ request.agent \in Agents \union {None} /\ request.last \in Nat
  /\ request.agent # None =>
       /\ request.last <= Len(items[request.agent])
       /\ \A i \in DOMAIN items[request.agent] :
            items[request.agent][i].kind # "user" =>
              (i <= request.last <=> items[request.agent][i].at <= request.since)

RunnerInv == Core /\ SourcesOK /\ SignalOK /\ ReturnedOK /\ Chain

TInv ==
  /\ RunnerInv
  /\ ItemsTyped /\ LogsKept /\ StampsOK /\ OrderOK /\ PendingOK
  /\ TurnsOK /\ QueueOK /\ TasksOK /\ RootOK /\ AgentsHaveTasks /\ RecentOK /\ RequestOK

-------------------------------------------------------------------------------
(* What a step stores.                                                     *)

NewRows == [kind : Kinds, call : Calls \union {None}]

(* s followed by the items made of new and of what was taken. *)
Grows(s, t, new, taken) ==
  /\ Len(t) = Len(s) + Len(new) + Len(taken)
  /\ \A i \in 1..Len(s) : t[i] = s[i]
  /\ \A j \in 1..Len(new) : t[Len(s) + j] = Item(new[j].kind, new[j].call, clock + j)
  /\ \A j \in 1..Len(taken) : t[Len(s) + Len(new) + j] = Item("user", None, taken[j])

Own(x, a, new) == IF x = a THEN new ELSE <<>>
Taken(x, consumed) == IF x = Root /\ consumed THEN pending ELSE <<>>

(* What a step stores and what it takes from the queue are items. *)
LEMMA StampedType ==
  ASSUME ItemsTyped, NEW new \in Seq(NewRows)
  PROVE  /\ Stamped(new) \in Seq(ItemSet) /\ Len(Stamped(new)) = Len(new)
         /\ Materialized \in Seq(ItemSet) /\ Len(Materialized) = Len(pending)
         /\ \A j \in 1..Len(new) : Stamped(new)[j] = Item(new[j].kind, new[j].call, clock + j)
         /\ \A j \in 1..Len(pending) : Materialized[j] = Item("user", None, pending[j])
<1>1. /\ Len(new) \in Nat /\ DOMAIN new = 1..Len(new) /\ clock \in Nat
      /\ Len(pending) \in Nat /\ DOMAIN pending = 1..Len(pending)
  BY DEF ItemsTyped
<1>2. \A j \in 1..Len(new) : Item(new[j].kind, new[j].call, clock + j) \in ItemSet
  <2> SUFFICES ASSUME NEW j \in 1..Len(new)
               PROVE  Item(new[j].kind, new[j].call, clock + j) \in ItemSet
    OBVIOUS
  <2>1. new[j] \in NewRows
    BY <1>1
  <2>2. new[j].kind \in Kinds /\ new[j].call \in Calls \union {None} /\ clock + j \in Nat
    BY <1>1, <2>1 DEF NewRows
  <2> QED
    BY <2>2 DEF Item, ItemSet
<1>3. \A j \in 1..Len(pending) : Item("user", None, pending[j]) \in ItemSet
  <2> SUFFICES ASSUME NEW j \in 1..Len(pending) PROVE Item("user", None, pending[j]) \in ItemSet
    OBVIOUS
  <2>1. pending[j] \in 1..clock
    BY <1>1 DEF ItemsTyped
  <2>2. pending[j] \in Nat
    BY <1>1, <2>1
  <2> QED
    BY <2>2 DEF Item, ItemSet, Kinds
<1>4. Stamped(new) = [i \in 1..Len(new) |-> Item(new[i].kind, new[i].call, clock + i)]
  BY <1>1 DEF Stamped
<1>5. Materialized = [i \in 1..Len(pending) |-> Item("user", None, pending[i])]
  BY <1>1 DEF Materialized
<1> QED
  BY <1>1, <1>2, <1>3, <1>4, <1>5

(* A transcript grows by the items of both. *)
LEMMA GrowsFrom ==
  ASSUME ItemsTyped, NEW s \in Seq(ItemSet), NEW new \in Seq(NewRows), NEW taken \in {<<>>, pending},
         NEW t, t = s \o Stamped(new) \o (IF taken = <<>> THEN <<>> ELSE Materialized)
  PROVE  t \in Seq(ItemSet) /\ Grows(s, t, new, taken)
<1> DEFINE u == s \o Stamped(new)
           v == IF taken = <<>> THEN <<>> ELSE Materialized
<1>1. /\ Stamped(new) \in Seq(ItemSet) /\ Len(Stamped(new)) = Len(new)
      /\ \A j \in 1..Len(new) : Stamped(new)[j] = Item(new[j].kind, new[j].call, clock + j)
  BY StampedType
<1>2. /\ v \in Seq(ItemSet) /\ Len(v) = Len(taken)
      /\ \A j \in 1..Len(taken) : v[j] = Item("user", None, taken[j])
  <2>1. CASE taken = <<>>
    BY <2>1, EmptySeq
  <2>2. CASE taken # <<>>
    BY <2>2, StampedType
  <2> QED
    BY <2>1, <2>2
<1>3. u \in Seq(ItemSet) /\ Len(u) = Len(s) + Len(new)
  <2>1. PICK w \in Seq(ItemSet) : w = Stamped(new)
    BY <1>1
  <2>2. s \o w \in Seq(ItemSet) /\ Len(s \o w) = Len(s) + Len(w)
    BY ConcatProperties
  <2> QED
    BY <1>1, <2>1, <2>2
<1>4. \A i \in 1..Len(s) + Len(new) : u[i] = IF i <= Len(s) THEN s[i] ELSE Stamped(new)[i - Len(s)]
  BY <1>1, ConcatProperties
<1>5. t = u \o v
  OBVIOUS
<1> HIDE DEF u, v
<1>6. t \in Seq(ItemSet) /\ Len(t) = Len(u) + Len(v)
  BY <1>2, <1>3, <1>5, ConcatProperties
<1>7. \A i \in 1..Len(u) + Len(v) : t[i] = IF i <= Len(u) THEN u[i] ELSE v[i - Len(u)]
  <2>1. \A i \in 1..Len(u) + Len(v) : (u \o v)[i] = IF i <= Len(u) THEN u[i] ELSE v[i - Len(u)]
    BY <1>2, <1>3, ConcatProperties
  <2> QED
    BY <1>5, <2>1
<1>8. Len(s) \in Nat /\ Len(new) \in Nat /\ Len(taken) \in Nat
  <2>1. pending \in Seq(1..clock)
    BY DEF ItemsTyped
  <2> QED
    BY <2>1
<1>9. Len(t) = Len(s) + Len(new) + Len(taken)
  BY <1>2, <1>3, <1>6
<1>10. ASSUME NEW i \in 1..Len(s) PROVE t[i] = s[i]
  <2>1. i \in 1..Len(u) + Len(v) /\ i <= Len(u) /\ i \in 1..Len(s) + Len(new) /\ i <= Len(s)
    BY <1>2, <1>3, <1>8
  <2> QED
    BY <1>4, <1>7, <2>1
<1>11. ASSUME NEW j \in 1..Len(new) PROVE t[Len(s) + j] = Item(new[j].kind, new[j].call, clock + j)
  <2>1. PICK i \in Nat : i = Len(s) + j
    BY <1>8
  <2>2. /\ i \in 1..Len(u) + Len(v) /\ i <= Len(u) /\ i \in 1..Len(s) + Len(new) /\ ~(i <= Len(s))
        /\ i - Len(s) = j
    BY <1>2, <1>3, <1>8, <2>1
  <2>3. t[i] = Stamped(new)[j]
    BY <1>4, <1>7, <2>2
  <2> QED
    BY <1>1, <2>1, <2>3
<1>12. ASSUME NEW j \in 1..Len(taken) PROVE t[Len(s) + Len(new) + j] = Item("user", None, taken[j])
  <2>1. PICK i \in Nat : i = Len(s) + Len(new) + j
    BY <1>8
  <2>2. i \in 1..Len(u) + Len(v) /\ ~(i <= Len(u)) /\ i - Len(u) = j
    BY <1>2, <1>3, <1>8, <2>1
  <2>3. t[i] = v[j]
    BY <1>7, <2>2
  <2> QED
    BY <1>2, <2>1, <2>3
<1> QED
  BY <1>6, <1>9, <1>10, <1>11, <1>12 DEF Grows

(* Store appends to the transcripts and leaves no gap. *)
LEMMA StoreGrows ==
  ASSUME ItemsTyped, NEW a \in Agents, NEW new \in Seq(NewRows), Store(a, new)
  PROVE  /\ items' \in [Agents -> Seq(ItemSet)]
         /\ \A x \in Agents :
              Grows(items[x], items'[x], Own(x, a, new), Taken(x, queued' < queued))
<1> DEFINE consumed == queued' < queued
<1>1. \A x \in Agents :
        items'[x] = items[x] \o (IF x = a THEN Stamped(new) ELSE <<>>)
                             \o (IF x = Root /\ consumed THEN Materialized ELSE <<>>)
  BY DEF Store
<1>2. ASSUME NEW x \in Agents
      PROVE  items'[x] \in Seq(ItemSet) /\ Grows(items[x], items'[x], Own(x, a, new), Taken(x, consumed))
  <2> DEFINE own == Own(x, a, new)
             taken == Taken(x, consumed)
  <2>1. items[x] \in Seq(ItemSet)
    BY DEF ItemsTyped
  <2>2. own \in Seq(NewRows) /\ (own = new \/ own = <<>>)
    BY EmptySeq DEF Own
  <2>3. taken \in {<<>>, pending}
    BY DEF Taken
  <2>4. Stamped(<<>>) = <<>>
    <3>1. <<>> \in Seq(NewRows)
      BY EmptySeq
    <3>2. Stamped(<<>>) \in Seq(ItemSet) /\ Len(Stamped(<<>>)) = 0
      BY <3>1, StampedType
    <3> QED
      BY <3>2
  <2>5. (IF x = a THEN Stamped(new) ELSE <<>>) = Stamped(own)
    BY <2>4 DEF Own
  <2>6. (IF x = Root /\ consumed THEN Materialized ELSE <<>>) = (IF taken = <<>> THEN <<>> ELSE Materialized)
    <3>1. CASE x = Root /\ consumed
      <4>1. taken = pending
        BY <3>1 DEF Taken
      <4>2. pending = <<>> => Materialized = <<>>
        BY DEF Materialized
      <4> QED
        BY <3>1, <4>1, <4>2
    <3>2. CASE ~(x = Root /\ consumed)
      BY <3>2 DEF Taken
    <3> QED
      BY <3>1, <3>2
  <2>7. items'[x] = items[x] \o Stamped(own) \o (IF taken = <<>> THEN <<>> ELSE Materialized)
    BY <1>1, <2>5, <2>6
  <2> HIDE DEF own, taken
  <2>8. items'[x] \in Seq(ItemSet) /\ Grows(items[x], items'[x], own, taken)
    BY <2>1, <2>2, <2>3, <2>7, GrowsFrom
  <2> QED
    BY <2>8 DEF own, taken
<1>3. items' = [x \in Agents |-> items'[x]]
  BY DEF Store
<1>4. \A x \in Agents : items'[x] \in Seq(ItemSet)
  BY <1>2
<1> QED
  BY <1>2, <1>3, <1>4

Output(c)    == [kind |-> "out", call |-> c]
CallRows(cs) == [i \in DOMAIN cs |-> Call(cs[i])]
Words        == {<<>>, <<Text>>, <<User>>}

(* What a step stores for an agent is what its log gains, and words. *)
Storing(a, new) ==
  \/ log' = log /\ new \in Words
  \/ \E c \in Open(a) : StoreToolOutput(a, c) /\ new = <<Output(c)>>
  \/ \E cs \in Batches : \E text \in TextParts :
       StoreCalls(a, cs) /\ new = text \o CallRows(cs)

(* The single rows that a step can store: text and user messages stay out  *)
(* of the log.                                                             *)
LEMMA RowTypes ==
  /\ Text \in NewRows /\ User \in NewRows
  /\ \A c \in Calls : Output(c) \in NewRows /\ Call(c) \in NewRows
  /\ \A new \in Words : new \in Seq(NewRows) /\ \A j \in 1..Len(new) : ~Logs(new[j])
  /\ TextParts \subseteq Words
<1>1. Text \in NewRows /\ User \in NewRows
  BY DEF Text, User, NewRows, Kinds
<1>2. ~Logs(Text) /\ ~Logs(User)
  BY DEF Text, User, Logs
<1>3. ASSUME NEW new \in Words PROVE new \in Seq(NewRows) /\ \A j \in 1..Len(new) : ~Logs(new[j])
  <2>1. CASE new = <<>>
    BY <2>1, EmptySeq
  <2>2. CASE new = <<Text>>
    BY <1>1, <1>2, <2>2
  <2>3. CASE new = <<User>>
    BY <1>1, <1>2, <2>3
  <2> QED
    BY <1>3, <2>1, <2>2, <2>3 DEF Words
<1>4. ASSUME NEW c \in Calls PROVE Output(c) \in NewRows /\ Call(c) \in NewRows
  BY DEF Output, Call, NewRows, Kinds
<1> QED
  BY <1>1, <1>3, <1>4 DEF TextParts, Words

(* A stored response is its text and then its calls. *)
LEMMA CallRowsType ==
  ASSUME NEW cs \in Seq(Calls), NEW text \in TextParts
  PROVE  /\ CallRows(cs) \in Seq(NewRows) /\ Len(CallRows(cs)) = Len(cs)
         /\ text \in Seq(NewRows) /\ text \o CallRows(cs) \in Seq(NewRows)
         /\ Len(text \o CallRows(cs)) = Len(text) + Len(cs)
         /\ \A j \in 1..Len(text) : (text \o CallRows(cs))[j] = Text
         /\ \A j \in 1..Len(cs) : (text \o CallRows(cs))[Len(text) + j] = Call(cs[j])
<1> DEFINE r == CallRows(cs)
<1>1. Len(cs) \in Nat /\ DOMAIN cs = 1..Len(cs) /\ \A j \in 1..Len(cs) : cs[j] \in Calls
  OBVIOUS
<1>2. r \in Seq(NewRows) /\ Len(r) = Len(cs) /\ \A j \in 1..Len(cs) : r[j] = Call(cs[j])
  <2>1. \A j \in 1..Len(cs) : Call(cs[j]) \in NewRows
    BY <1>1, RowTypes
  <2>2. r = [j \in 1..Len(cs) |-> Call(cs[j])]
    BY <1>1 DEF CallRows
  <2> QED
    BY <1>1, <2>1, <2>2
<1> HIDE DEF r
<1>3. text \in Seq(NewRows) /\ \A j \in 1..Len(text) : text[j] = Text
  <2>1. CASE text = <<>>
    BY <2>1, EmptySeq
  <2>2. CASE text = <<Text>>
    BY <2>2, RowTypes
  <2> QED
    BY <2>1, <2>2 DEF TextParts
<1>4. /\ text \o r \in Seq(NewRows) /\ Len(text \o r) = Len(text) + Len(r)
      /\ \A i \in 1..Len(text) : (text \o r)[i] = text[i]
      /\ \A j \in 1..Len(r) : (text \o r)[Len(text) + j] = r[j]
  <2>1. PICK u \in Seq(NewRows), v \in Seq(NewRows) : u = text /\ v = r
    BY <1>2, <1>3
  <2>2. /\ u \o v \in Seq(NewRows) /\ Len(u \o v) = Len(u) + Len(v)
        /\ \A i \in 1..Len(u) : (u \o v)[i] = u[i]
        /\ \A j \in 1..Len(v) : (u \o v)[Len(u) + j] = v[j]
    BY JoinShape
  <2> QED
    BY <2>1, <2>2
<1> QED
  BY <1>2, <1>3, <1>4 DEF r

(* What Logged reads from the log. *)
LEMMA LoggedNothing ==
  ASSUME TypeOK, log' = log, NEW x \in Agents
  PROVE  Logged(x) = <<>>
<1>1. log[x] \in Seq(Items) /\ Len(log[x]) \in Nat
  BY DEF TypeOK
<1>2. SubSeq(log[x], Len(log[x]) + 1, Len(log[x])) = <<>>
  BY <1>1
<1> QED
  BY <1>2 DEF Logged

(* A step that stores the output of a call appends it to one log. *)
LEMMA LoggedOutput ==
  ASSUME TypeOK, NEW x \in Agents, NEW c \in Calls, StoreToolOutput(x, c)
  PROVE  Logged(x) = <<Output(c)>> /\ log'[x] # log[x] /\ \A y \in Agents \ {x} : log'[y] = log[y]
<1> DEFINE q == log[x]  n == Len(q)  r == log'[x]
<1>1. q \in Seq(Items) /\ n \in Nat /\ OutputItem(c) \in Items
  <2>1. log[x] \in Seq(Items)
    BY DEF TypeOK
  <2>2. OutputItem(c) \in Items
    BY DEF OutputItem, Items
  <2> QED
    BY <2>1, <2>2
<1>2. r = Append(q, OutputItem(c)) /\ \A y \in Agents \ {x} : log'[y] = log[y]
  BY DEF StoreToolOutput, TypeOK
<1>3. r \in Seq(Items) /\ Len(r) = n + 1 /\ r[n + 1] = OutputItem(c)
  BY <1>1, <1>2, AppendProperties
<1> DEFINE new == SubSeq(r, n + 1, Len(r))
<1>4. new \in Seq(Items) /\ Len(new) = 1 /\ new[1] = OutputItem(c)
  <2> HIDE DEF r, n
  <2> QED
    BY <1>1, <1>3, SubSeqProperties
<1>5. Logged(x) = [i \in DOMAIN new |-> [kind |-> "out", call |-> new[i].call]]
  BY DEF Logged
<1> HIDE DEF new, r
<1>6. DOMAIN new = 1..1 /\ new[1].call = c
  BY <1>4, ItemsDiffer
<1>7. Logged(x) = [i \in 1..1 |-> Output(c)]
  BY <1>5, <1>6 DEF Output
<1>8. Logged(x) = <<Output(c)>>
  BY <1>7
<1>9. log'[x] # log[x]
  BY <1>1, <1>3 DEF r
<1> QED
  BY <1>2, <1>8, <1>9

-------------------------------------------------------------------------------
(* The rows of the agents.                                                 *)

(* Rows appear by delegation only, and keep their parent. *)
LEMMA RowsStep ==
  ASSUME Core, [Next]_vars, NEW b \in Agents \ {Root}
  PROVE  /\ status[b] # "absent" =>
              status'[b] # "absent" /\ parent'[b] = parent[b] /\ source'[b] = source[b]
         /\ status[b] = "absent" => status'[b] = "absent" \/ \E a \in Agents : Delegate(a, b)
<1> USE DEF agentVars, runVars
<1>t. /\ TypeOK /\ TreeOK /\ WaitsAreOpen
      /\ pc \in [Agents -> PCs] /\ status \in [Agents -> Statuses]
      /\ parent \in [Agents -> Agents \union {None}] /\ source \in [Agents -> Calls \union {None}]
      /\ None \notin Agents
  BY RunnerAssumption DEF Core, TypeOK
<1> DEFINE Same == parent' = parent /\ source' = source /\ (status[b] = "absent" <=> status'[b] = "absent")
<1>1. CASE StartChat \/ Enqueue \/ Cancel \/ UNCHANGED vars
  <2>1. Same
    BY <1>1, <1>t DEF StartChat, Enqueue, Cancel, vars
  <2> QED
    BY <2>1
<1>2. ASSUME NEW a \in Agents, NEW e \in waiting[a], Deliver(a, e) PROVE Same
  BY <1>2, <1>t DEF Deliver
<1>3. ASSUME NEW a \in Agents, LocalStep(a) PROVE Same
  <2>1. TopMoves(a)
    BY <1>3, <1>t, LocalStepMovesTop
  <2>2. status[a] # "absent"
    BY <1>t, <2>1 DEF TopMoves, TreeOK
  <2> QED
    BY <1>t, <2>1, <2>2 DEF TopMoves
<1>4. ASSUME NEW a \in Agents, NEW c \in Agents, Delegate(a, c), ~Delegate(a, b)
      PROVE  parent'[b] = parent[b] /\ source'[b] = source[b] /\ status'[b] = status[b]
  BY <1>4, <1>t DEF Delegate
<1>5. ASSUME NEW a \in Agents, Delegate(a, b) PROVE status[b] = "absent"
  BY <1>5 DEF Delegate
<1>6. ASSUME NEW a \in Agents, NEW c \in Agents, ChildReturns(a, c) PROVE Same
  <2>1. status[a] # "absent"
    BY <1>6, <1>t DEF ChildReturns, TreeOK
  <2> QED
    BY <1>6, <1>t, <2>1 DEF ChildReturns
<1>7. ASSUME NEW c \in Agents, RequestEnds(c) PROVE Same
  BY <1>7 DEF RequestEnds
<1>8. ASSUME NEW c \in Agents, PropagateChildResult(c) PROVE Same
  <2>1. PICK p \in Agents : p = parent[c]
    BY <1>8, <1>t DEF PropagateChildResult, Propagates
  <2>2. status[p] # "absent"
    <3>1. waiting[p] # {}
      BY <1>8, <2>1 DEF PropagateChildResult, Propagates, WaitCalls
    <3> QED
      BY <1>t, <3>1 DEF WaitsAreOpen
  <2> QED
    BY <1>8, <1>t, <2>1, <2>2 DEF PropagateChildResult
<1> HIDE DEF Same
<1>9. Same => /\ status[b] # "absent" =>
                   status'[b] # "absent" /\ parent'[b] = parent[b] /\ source'[b] = source[b]
              /\ status[b] = "absent" => status'[b] = "absent"
  BY DEF Same
<1> QED
  BY <1>1, <1>2, <1>3, <1>4, <1>5, <1>6, <1>7, <1>8, <1>9 DEF Next, Step, LocalStep

(* A row appears when a call is handled, and the child becomes the top of  *)
(* the stack.                                                              *)
LEMMA OtherRows ==
  ASSUME Core, NEW a \in Agents, OtherStep(a), NEW b \in Agents \ {Root}, status[b] = "absent"
  PROVE  status'[b] = "absent"
<1>t. TypeOK /\ TreeOK /\ pc \in [Agents -> PCs]
  BY DEF Core, TypeOK
<1>1. [Next]_vars
  BY DEF OtherStep, Next, Step
<1> SUFFICES ASSUME NEW x \in Agents, Delegate(x, b) PROVE FALSE
  BY <1>1, RowsStep
<1>2. current = x /\ pc[x] = "call" /\ current' = b /\ b # x
  BY <1>t DEF Delegate, AtCall, TreeOK
<1>3. ~LocalStep(a)
  BY <1>t, <1>2, LocalStepMovesTop DEF TopMoves
<1>4. \A c, d \in Agents : ~ChildReturns(c, d) /\ ~RequestEnds(c) /\ ~PropagateChildResult(c)
  BY <1>2 DEF ChildReturns, RequestEnds, PropagateChildResult
<1> QED
  BY <1>3, <1>4 DEF OtherStep, LocalStep


(* Other steps store outputs only. *)
LEMMA OtherLogs ==
  ASSUME Core, NEW a \in Agents, OtherStep(a)
  PROVE  log' = log \/ \E x \in Agents : \E c \in Open(x) : StoreToolOutput(x, c)
<1>1. Next
  BY DEF OtherStep, Next, Step
<1>2. SUFFICES ASSUME NEW x \in Agents, NEW cs \in Batches, StoreCalls(x, cs) PROVE log' = log
  BY <1>1, LogSteps
<1>3. current = x /\ pc[x] = "generate"
  BY <1>2 DEF StoreCalls
<1>4. GenerateFails(a)
  BY <1>3 DEF OtherStep, StartRun, StopBeforeTurn, ExecuteTurn, GenerateFails, CancelAtCall,
     RejectCall, AtCall, AwaitTool, AskHuman, SyncToolReturns, McpToolReturns, EndTurn,
     ChildReturns, RequestEnds, PropagateChildResult
<1> QED
  BY <1>4 DEF GenerateFails

(* Calls that an agent handles or waits for. *)
Minded(x) == Pending(x) \union WaitCalls(waits[x]) \union WaitCalls(waiting[x])

(* Between its turns an agent minds nothing. *)
LEMMA MindsNothing ==
  ASSUME Core, NEW x \in Agents, pc[x] \notin Handling, status[x] # "waiting"
  PROVE  Minded(x) = {}
<1>1. todo[x] = <<>> /\ waits[x] = {}
  BY DEF Core, CallsOK
<1>2. waiting[x] = {}
  BY DEF Core, WaitsAreOpen
<1> QED
  BY <1>1, <1>2 DEF Minded, Pending, WaitCalls

(* A step stores `new` for agent x, only outputs while x minds a call, and *)
(* takes the queue only with texts.                                        *)
Stores(x, new) ==
  /\ Next /\ Store(x, new) /\ Storing(x, new)
  /\ queued' = queued \/ (queued' = 0 /\ new \in TextParts)
  /\ new = <<User>> => /\ x = Root => queued = 0
                       /\ status'[x] # "absent"
  /\ new = <<Text>> => status[x] # "absent"
  /\ \A b \in Agents \ {Root} :
       status[b] = "absent" /\ status'[b] # "absent" => x = b /\ new = <<User>>
  /\ Minded(x) # {} => new = <<>> \/ \E c \in Open(x) : new = <<Output(c)>>

(* The rows that are not in the log are told apart. *)
LEMMA WordsDiffer ==
  /\ <<>> \in Seq(NewRows) /\ <<Text>> \in Seq(NewRows) /\ <<User>> \in Seq(NewRows)
  /\ <<>> \in Words /\ <<Text>> \in Words /\ <<User>> \in Words
  /\ <<>> # <<Text>> /\ <<>> # <<User>> /\ <<Text>> # <<User>>
  /\ \A c : <<Output(c)>> # <<Text>> /\ <<Output(c)>> # <<User>>
<1>1. <<>> \in Words /\ <<Text>> \in Words /\ <<User>> \in Words
  BY DEF Words
<1>2. <<>> \in Seq(NewRows) /\ <<Text>> \in Seq(NewRows) /\ <<User>> \in Seq(NewRows)
  BY <1>1, RowTypes
<1>3. Text.kind = "text" /\ User.kind = "user" /\ \A c : Output(c).kind = "out"
  BY DEF Text, User, Output
<1>4. /\ <<Text>>[1].kind = "text" /\ <<User>>[1].kind = "user"
      /\ \A c : <<Output(c)>>[1].kind = "out"
  BY <1>3
<1>5. Len(<<>>) = 0 /\ Len(<<Text>>) = 1 /\ Len(<<User>>) = 1
  OBVIOUS
<1> QED
  BY <1>1, <1>2, <1>4, <1>5

(* A step that takes the queue appends nothing to a log. *)
LEMMA OtherQueue ==
  ASSUME NEW a \in Agents, OtherStep(a)
  PROVE  queued' = queued \/ (queued' = 0 /\ log' = log)
BY DEF OtherStep, StartRun, StopBeforeTurn, ExecuteTurn, GenerateFails, CancelAtCall,
   RejectCall, AwaitTool, AskHuman, SyncToolReturns, McpToolReturns, EndTurn,
   ChildReturns, RequestEnds, PropagateChildResult, ConsumeQueue

(* The runner's steps without a text store what they log. *)
LEMMA OtherStores ==
  ASSUME Core, NEW a \in Agents, OtherStep(a),
         LET x == CHOOSE x \in Agents : log' = log \/ log'[x] # log[x] IN Store(x, Logged(x))
  PROVE  \E x \in Agents, new \in Seq(NewRows) : Stores(x, new)
<1> DEFINE x == CHOOSE x \in Agents : log' = log \/ log'[x] # log[x]
<1>0. TypeOK /\ Store(x, Logged(x)) /\ Next
  BY DEF Core, OtherStep, Next, Step
<1>r. \A b \in Agents \ {Root} : ~(status[b] = "absent" /\ status'[b] # "absent")
  BY OtherRows
<1>1. CASE log' = log
  <2>1. x \in Agents
    BY <1>1
  <2> HIDE DEF x
  <2>2. Logged(x) = <<>>
    BY <1>0, <1>1, <2>1, LoggedNothing
  <2>3. Store(x, <<>>) /\ Storing(x, <<>>)
    BY <1>0, <1>1, <2>2, WordsDiffer DEF Storing
  <2>4. queued' = queued \/ (queued' = 0 /\ <<>> \in TextParts)
    BY OtherQueue DEF TextParts
  <2>5. Stores(x, <<>>)
    BY <1>0, <1>r, <2>3, <2>4, WordsDiffer DEF Stores
  <2> QED
    BY <2>1, <2>5, WordsDiffer
<1>2. ASSUME NEW y \in Agents, NEW c \in Open(y), StoreToolOutput(y, c)
      PROVE  \E z \in Agents, new \in Seq(NewRows) : Stores(z, new)
  <2>1. c \in Calls
    BY DEF Open, Issued
  <2>2. Logged(y) = <<Output(c)>> /\ log'[y] # log[y] /\ \A z \in Agents \ {y} : log'[z] = log[z]
    BY <1>0, <1>2, <2>1, LoggedOutput
  <2>3. x = y
    BY <2>2
  <2>4. Output(c) \in NewRows
    BY <2>1, RowTypes
  <2>5. <<Output(c)>> \in Seq(NewRows)
    BY <2>4
  <2> HIDE DEF x
  <2>6. Store(y, <<Output(c)>>) /\ Storing(y, <<Output(c)>>)
    BY <1>0, <1>2, <2>2, <2>3 DEF Storing
  <2>7. queued' = queued
    BY <2>2, OtherQueue
  <2>8. Stores(y, <<Output(c)>>)
    BY <1>0, <1>r, <2>6, <2>7, WordsDiffer DEF Stores
  <2> QED
    BY <2>5, <2>8
<1>3. log' = log \/ \E y \in Agents : \E c \in Open(y) : StoreToolOutput(y, c)
  BY OtherLogs
<1> HIDE DEF x
<1> QED
  BY <1>1, <1>2, <1>3

(* Each step of a run stores what it does for one agent. *)
LEMMA RunStores ==
  ASSUME Core, NEW a \in Agents, RunStep(a)
  PROVE  \E x \in Agents, new \in Seq(NewRows) : Stores(x, new)
<1>0. TypeOK /\ TreeOK
  BY DEF Core
<1>1. ASSUME NEW text \in TextParts, FinalAnswer(a), Store(a, text)
      PROVE  \E x \in Agents, new \in Seq(NewRows) : Stores(x, new)
  <2>1. text \in Words /\ text \in Seq(NewRows) /\ text # <<User>>
    BY RowTypes, WordsDiffer DEF TextParts
  <2>2. log' = log /\ Next /\ (queued' = queued \/ queued' = 0) /\ status[a] # "absent"
    BY <1>0, <1>1 DEF FinalAnswer, Next, Step, ConsumeQueue, TreeOK
  <2>m. Minded(a) = {}
    <3>1. pc[a] \notin Handling /\ status[a] # "waiting"
      BY <1>0, <1>1 DEF FinalAnswer, Handling, TreeOK
    <3> QED
      BY <3>1, MindsNothing
  <2>3. Storing(a, text)
    BY <2>1, <2>2 DEF Storing
  <2>r. \A b \in Agents \ {Root} : ~(status[b] = "absent" /\ status'[b] # "absent")
    BY <1>0, <1>1, <2>2 DEF FinalAnswer, ContinueRun, Return, TypeOK
  <2>4. Stores(a, text)
    BY <1>1, <2>r, <2>m, <2>1, <2>2, <2>3 DEF Stores
  <2> QED
    BY <2>1, <2>4
<1>2. ASSUME NEW text \in TextParts, NEW cs \in Batches, StoreCalls(a, cs),
             Store(a, text \o [i \in DOMAIN cs |-> Call(cs[i])])
      PROVE  \E x \in Agents, new \in Seq(NewRows) : Stores(x, new)
  <2>1. cs \in Seq(Calls) /\ cs # <<>>
    BY BatchType DEF Batches
  <2> DEFINE new == text \o CallRows(cs)
  <2>2. /\ new \in Seq(NewRows) /\ Len(text) \in Nat /\ Len(new) = Len(text) + Len(cs)
        /\ new[Len(text) + 1] = Call(cs[1]) /\ Len(cs) \in Nat /\ Len(cs) > 0
    <3>1. Len(cs) \in Nat /\ Len(cs) > 0
      BY <2>1, EmptySeq
    <3>2. Len(text) \in Nat
      BY WordsDiffer DEF TextParts
    <3>3. 1 \in 1..Len(cs)
      BY <3>1
    <3> QED
      BY <2>1, <3>1, <3>2, <3>3, CallRowsType
  <2>3. Store(a, new) /\ Storing(a, new)
    BY <1>2 DEF CallRows, Storing
  <2>4. Call(cs[1]).kind = "call" /\ <<User>>[1].kind = "user" /\ <<Text>>[1].kind = "text"
    BY DEF Call, User, Text
  <2> HIDE DEF new
  <2>5. new # <<User>>
    <3> SUFFICES ASSUME new = <<User>> PROVE FALSE
      OBVIOUS
    <3>1. Len(new) = 1
      OBVIOUS
    <3>2. Len(text) + 1 = 1
      BY <2>2, <3>1
    <3> QED
      BY <2>2, <2>4, <3>2
  <2>6. Next /\ queued' = queued /\ status[a] # "absent" /\ status' = status
    BY <1>0, <1>2 DEF Next, Step, StoreCalls, TreeOK, agentVars
  <2>m. Minded(a) = {}
    <3>1. pc[a] \notin Handling /\ status[a] # "waiting"
      BY <1>0, <1>2 DEF StoreCalls, Handling, TreeOK
    <3> QED
      BY <3>1, MindsNothing
  <2>7. Stores(a, new)
    BY <2>3, <2>m, <2>5, <2>6 DEF Stores
  <2> QED
    BY <2>2, <2>7
<1>3. ASSUME NEW b \in Agents, Delegate(a, b), Store(b, <<User>>)
      PROVE  \E x \in Agents, new \in Seq(NewRows) : Stores(x, new)
  <2>1. log' = log /\ queued' = queued /\ b # Root /\ status'[b] # "absent"
    BY <1>0, <1>3 DEF Delegate, TypeOK
  <2>2. Next
    BY <1>3 DEF Next, Step
  <2>3. Storing(b, <<User>>)
    BY <2>1, WordsDiffer DEF Storing
  <2>r. \A c \in Agents \ {b} : ~(status[c] = "absent" /\ status'[c] # "absent")
    BY <1>0, <1>3 DEF Delegate, TypeOK
  <2>m. Minded(b) = {}
    <3>1. pc[b] \notin Handling /\ status[b] # "waiting"
      BY <1>0, <1>3 DEF Delegate, Handling, TreeOK
    <3> QED
      BY <3>1, MindsNothing
  <2>4. Stores(b, <<User>>)
    BY <1>3, <2>m, <2>r, <2>1, <2>2, <2>3, WordsDiffer DEF Stores
  <2> QED
    BY <2>4, WordsDiffer
<1>4. ASSUME OtherStep(a),
             LET x == CHOOSE x \in Agents : log' = log \/ log'[x] # log[x] IN Store(x, Logged(x))
      PROVE  \E x \in Agents, new \in Seq(NewRows) : Stores(x, new)
  BY <1>4, OtherStores
<1> QED
  BY <1>1, <1>2, <1>3, <1>4 DEF RunStep

(* So does each request that the runner takes. *)
LEMMA RequestStores ==
  ASSUME Core, SignalOK, QueueOK, queued \in Nat,
         Submit \/ \E b \in Agents : \E e \in waiting[b] : DeliverResult(b, e)
  PROVE  \E x \in Agents, new \in Seq(NewRows) : Stores(x, new)
<1>0. TypeOK /\ Root \in Agents
  BY RunnerAssumption DEF Core
<1>1. CASE Submit
  <2>1. log' = log /\ queued' = queued /\ Next /\ Store(Root, <<User>>)
    BY <1>1 DEF Submit, StartChat, Next
  <2>2. queued = 0 /\ status'[Root] # "absent"
    BY <1>0, <1>1 DEF Submit, StartChat, SignalOK, QueueOK, TypeOK
  <2>3. Storing(Root, <<User>>)
    BY <2>1, WordsDiffer DEF Storing
  <2>r. \A c \in Agents \ {Root} : ~(status[c] = "absent" /\ status'[c] # "absent")
    BY <1>0, <1>1 DEF Submit, StartChat, TypeOK
  <2>m. Minded(Root) = {}
    <3>1. pc[Root] = "idle" /\ status[Root] # "waiting"
      BY <1>0, <1>1, AllIdle DEF Core, Submit, StartChat
    <3>2. pc[Root] \notin Handling
      BY <3>1 DEF Handling
    <3> QED
      BY <1>0, <3>1, <3>2, MindsNothing
  <2>4. Stores(Root, <<User>>)
    BY <2>m, <2>r, <2>1, <2>2, <2>3, WordsDiffer DEF Stores
  <2> QED
    BY <1>0, <2>4, WordsDiffer
<1>2. ASSUME NEW b \in Agents, NEW e \in waiting[b], DeliverResult(b, e)
      PROVE  \E x \in Agents, new \in Seq(NewRows) : Stores(x, new)
  <2>1. Deliver(b, e) /\ Store(b, Logged(b)) /\ Next /\ queued' = queued
    BY <1>2 DEF DeliverResult, Deliver, Next
  <2>2. e.call \in Open(b) /\ e.call \in Calls /\ StoreToolOutput(b, e.call)
    BY <2>1 DEF Core, Deliver, WaitsAreOpen, WaitCalls, Open, Issued
  <2>3. Logged(b) = <<Output(e.call)>>
    BY <1>0, <2>1, <2>2, LoggedOutput
  <2>4. Output(e.call) \in NewRows
    BY <2>2, RowTypes
  <2>5. <<Output(e.call)>> \in Seq(NewRows)
    BY <2>4
  <2>6. Store(b, <<Output(e.call)>>) /\ Storing(b, <<Output(e.call)>>)
    BY <2>1, <2>2, <2>3 DEF Storing
  <2>r. \A c \in Agents \ {Root} : ~(status[c] = "absent" /\ status'[c] # "absent")
    BY <1>0, <2>1 DEF Deliver, TypeOK
  <2>m. \E c \in Open(b) : <<Output(e.call)>> = <<Output(c)>>
    BY <2>2
  <2>7. Stores(b, <<Output(e.call)>>)
    BY <2>m, <2>1, <2>r, <2>6, WordsDiffer DEF Stores
  <2> QED
    BY <2>5, <2>7
<1> QED
  BY <1>1, <1>2

(* The log follows the items. *)
LEMMA StoreLogs ==
  ASSUME TypeOK, ItemsTyped, LogsKept, NEW a \in Agents, NEW new \in Seq(NewRows),
         Store(a, new), Storing(a, new)
  PROVE  LogsKept'
<1>1. ASSUME NEW x \in Agents
      PROVE  LogOf(items'[x]) = LogOf(items[x]) \o LogOf(IF x = a THEN Stamped(new) ELSE <<>>)
  <2> DEFINE s == items[x]
             t == IF x = a THEN Stamped(new) ELSE <<>>
             m == IF x = Root /\ queued' < queued THEN Materialized ELSE <<>>
  <2>1. items'[x] = s \o t \o m
    BY DEF Store
  <2>2. s \in Seq(ItemSet) /\ t \in Seq(ItemSet) /\ m \in Seq(ItemSet)
    BY StampedType, EmptySeq DEF ItemsTyped
  <2>3. \A i \in DOMAIN m : ~Logs(m[i])
    BY DEF Materialized, Item, Logs
  <2> HIDE DEF s, t, m
  <2>4. LogOf(m) = <<>>
    BY <2>2, <2>3, LogNothing
  <2>5. s \o t \in Seq(ItemSet)
    BY <2>2, ConcatProperties
  <2>6. LogOf(s \o t \o m) = LogOf(s \o t) \o LogOf(m) /\ LogOf(s \o t) = LogOf(s) \o LogOf(t)
    BY <2>2, <2>5, LogConcat
  <2>7. LogOf(s \o t) \in Seq(LogRows)
    BY <2>5, LogPieces
  <2>8. LogOf(s \o t) \o <<>> = LogOf(s \o t)
    BY <2>7, ConcatEmptySeq
  <2> QED
    BY <2>1, <2>4, <2>6, <2>8 DEF s, t
<1>2. LogOf(<<>>) = <<>>
  <2>1. <<>> \in Seq(ItemSet) /\ DOMAIN <<>> = {}
    BY EmptySeq
  <2> QED
    BY <2>1, LogNothing
<1>3. \A x \in Agents : log[x] \in Seq(Items) /\ log[x] \o <<>> = log[x]
  BY ConcatEmptySeq DEF TypeOK
<1>4. \A x \in Agents \ {a} : LogOf(items'[x]) = log[x]
  BY <1>1, <1>2, <1>3 DEF LogsKept
<1>5. /\ Stamped(new) \in Seq(ItemSet) /\ Len(Stamped(new)) = Len(new)
      /\ \A j \in 1..Len(new) : Stamped(new)[j] = Item(new[j].kind, new[j].call, clock + j)
  BY StampedType
<1>6. LogOf(items'[a]) = log[a] \o LogOf(Stamped(new))
  BY <1>1 DEF LogsKept
<1>7. CASE log' = log /\ new \in Words
  <2>1. \A j \in DOMAIN Stamped(new) : ~Logs(Stamped(new)[j])
    <3>1. \A j \in 1..Len(new) : ~Logs(new[j])
      BY <1>7, RowTypes
    <3>2. \A j \in 1..Len(new) : ~Logs(Stamped(new)[j])
      <4> SUFFICES ASSUME NEW j \in 1..Len(new) PROVE ~Logs(Stamped(new)[j])
        OBVIOUS
      <4>1. Stamped(new)[j] = Item(new[j].kind, new[j].call, clock + j)
        BY <1>5
      <4>2. Item(new[j].kind, new[j].call, clock + j).kind = new[j].kind
        BY DEF Item
      <4> QED
        BY <3>1, <4>1, <4>2 DEF Logs
    <3>3. DOMAIN Stamped(new) = 1..Len(new)
      BY DEF Stamped
    <3> QED
      BY <3>2, <3>3
  <2>2. LogOf(Stamped(new)) = <<>>
    BY <1>5, <2>1, LogNothing
  <2> QED
    BY <1>3, <1>4, <1>6, <1>7, <2>2 DEF LogsKept
<1>8. ASSUME NEW c \in Open(a), StoreToolOutput(a, c), new = <<Output(c)>>
      PROVE  LogsKept'
  <2>1. Len(new) = 1 /\ new[1] = Output(c)
    BY <1>8
  <2>2. Stamped(new)[1] = Item("out", c, clock + 1) /\ DOMAIN Stamped(new) = 1..1
    BY <1>5, <2>1 DEF Output
  <2>3. LogOf(Stamped(new)) = [i \in 1..1 |-> OutputItem(c)]
    <3>1. \A i \in DOMAIN Stamped(new) : Logs(Stamped(new)[i]) /\ LogRow(Stamped(new)[i]) = OutputItem(c)
      BY <2>2 DEF Item, Logs, LogRow
    <3> QED
      BY <1>5, <2>2, <3>1, LogSame
  <2>4. LogOf(Stamped(new)) = <<OutputItem(c)>>
    BY <2>3
  <2>5. log[a] \o <<OutputItem(c)>> = Append(log[a], OutputItem(c))
    BY <1>3
  <2>6. log' = [log EXCEPT ![a] = Append(log[a], OutputItem(c))]
    BY <1>8 DEF StoreToolOutput
  <2>7. \A x \in Agents : LogOf(items'[x]) = log'[x]
    BY <1>4, <1>6, <2>4, <2>5, <2>6 DEF TypeOK
  <2> QED
    BY <2>7 DEF LogsKept
<1>9. ASSUME NEW cs \in Batches, NEW text \in TextParts,
             StoreCalls(a, cs), new = text \o CallRows(cs)
      PROVE  LogsKept'
  <2> DEFINE w == [j \in 1..Len(text) |-> Item("text", None, clock + j)]
             k == [j \in 1..Len(cs) |-> Item("call", cs[j], clock + (Len(text) + j))]
  <2>1. cs \in Seq(Calls) /\ Len(cs) \in Nat /\ DOMAIN cs = 1..Len(cs) /\ clock \in Nat
    BY BatchType DEF ItemsTyped
  <2>2. /\ text \in Seq(NewRows) /\ Len(text) \in Nat /\ Len(new) = Len(text) + Len(cs)
        /\ \A j \in 1..Len(text) : new[j] = Text
        /\ \A j \in 1..Len(cs) : new[Len(text) + j] = Call(cs[j])
    BY <1>9, <2>1, CallRowsType
  <2>3. w \in Seq(ItemSet) /\ Len(w) = Len(text)
    BY <2>1, <2>2 DEF Item, ItemSet, Kinds
  <2>4. k \in Seq(ItemSet) /\ Len(k) = Len(cs)
    <3>1. \A j \in 1..Len(cs) : Item("call", cs[j], clock + (Len(text) + j)) \in ItemSet
      BY <2>1, <2>2 DEF Item, ItemSet, Kinds
    <3> QED
      BY <2>1, <3>1
  <2>5. Stamped(new) = w \o k
    <3>1. /\ w \o k \in Seq(ItemSet) /\ Len(w \o k) = Len(new)
          /\ \A j \in 1..Len(text) : (w \o k)[j] = w[j]
          /\ \A j \in 1..Len(cs) : (w \o k)[Len(text) + j] = k[j]
      <4> HIDE DEF w, k
      <4>1. /\ w \o k \in Seq(ItemSet) /\ Len(w \o k) = Len(w) + Len(k)
            /\ \A j \in 1..Len(w) : (w \o k)[j] = w[j]
            /\ \A j \in 1..Len(k) : (w \o k)[Len(w) + j] = k[j]
        <5>1. PICK u \in Seq(ItemSet), v \in Seq(ItemSet) : u = w /\ v = k
          BY <2>3, <2>4
        <5>2. /\ u \o v \in Seq(ItemSet) /\ Len(u \o v) = Len(u) + Len(v)
              /\ \A j \in 1..Len(u) : (u \o v)[j] = u[j]
              /\ \A j \in 1..Len(v) : (u \o v)[Len(u) + j] = v[j]
          BY JoinShape
        <5> QED
          BY <5>1, <5>2
      <4> QED
        BY <2>2, <2>3, <2>4, <4>1
    <3>2. ASSUME NEW i \in 1..Len(new) PROVE Stamped(new)[i] = (w \o k)[i]
      <4>1. CASE i \in 1..Len(text)
        <5>1. new[i] = Text /\ w[i] = Item("text", None, clock + i)
          BY <2>2, <4>1
        <5> QED
          BY <1>5, <3>1, <4>1, <5>1 DEF Text
      <4>2. CASE i \notin 1..Len(text)
        <5>1. PICK j \in 1..Len(cs) : i = Len(text) + j
          <6>1. i - Len(text) \in 1..Len(cs) /\ i = Len(text) + (i - Len(text))
            BY <2>1, <2>2, <4>2
          <6> QED
            BY <6>1
        <5>2. new[i] = Call(cs[j]) /\ k[j] = Item("call", cs[j], clock + i)
          BY <2>2, <5>1
        <5> QED
          BY <1>5, <3>1, <5>1, <5>2 DEF Call
      <4> QED
        BY <4>1, <4>2
    <3> HIDE DEF w, k
    <3> QED
      BY <1>5, <3>1, <3>2, SeqEqual
  <2>6. LogOf(w) = <<>>
    <3>1. \A i \in DOMAIN w : ~Logs(w[i])
      BY DEF Item, Logs
    <3> HIDE DEF w
    <3> QED
      BY <2>3, <3>1, LogNothing
  <2>7. LogOf(k) = [j \in 1..Len(cs) |-> CallItem(cs[j])]
    <3>1. \A j \in 1..Len(cs) : Logs(k[j]) /\ LogRow(k[j]) = CallItem(cs[j])
      BY DEF Item, Logs, LogRow
    <3>2. DOMAIN k = 1..Len(cs)
      OBVIOUS
    <3> HIDE DEF k
    <3>3. LogOf(k) = [j \in DOMAIN k |-> LogRow(k[j])]
      BY <2>4, <3>1, <3>2, LogSame
    <3> QED
      BY <3>1, <3>2, <3>3
  <2> HIDE DEF w, k
  <2>8. LogOf(Stamped(new)) = [j \in DOMAIN cs |-> CallItem(cs[j])]
    <3>1. LogOf(w \o k) = LogOf(w) \o LogOf(k) /\ LogOf(k) \in Seq(LogRows)
      BY <2>3, <2>4, LogConcat, LogPieces
    <3>2. <<>> \o LogOf(k) = LogOf(k)
      BY <3>1, ConcatEmptySeq
    <3> QED
      BY <2>1, <2>5, <2>6, <2>7, <3>1, <3>2
  <2>9. log' = [log EXCEPT ![a] = @ \o [i \in DOMAIN cs |-> CallItem(cs[i])]]
    BY <1>9 DEF StoreCalls
  <2>10. \A x \in Agents : LogOf(items'[x]) = log'[x]
    BY <1>4, <1>6, <2>8, <2>9 DEF TypeOK
  <2> QED
    BY <2>10 DEF LogsKept
<1> QED
  BY <1>7, <1>8, <1>9 DEF Storing

-------------------------------------------------------------------------------
(* What a step that stores something does to the items.                    *)

(* An item of a transcript that grew is an old one, a new one or one that  *)
(* was queued.                                                             *)
LEMMA GrowsPlaces ==
  ASSUME NEW s, NEW t, NEW new, NEW taken, clock \in Nat,
         Len(s) \in Nat, Len(t) \in Nat, Len(new) \in Nat, Len(taken) \in Nat,
         Grows(s, t, new, taken), NEW i \in 1..Len(t)
  PROVE  \/ i \in 1..Len(s) /\ t[i] = s[i]
         \/ \E j \in 1..Len(new) : i = Len(s) + j /\ t[i] = Item(new[j].kind, new[j].call, clock + j)
         \/ \E j \in 1..Len(taken) : i = Len(s) + Len(new) + j /\ t[i] = Item("user", None, taken[j])
<1>1. CASE i <= Len(s)
  <2>1. i \in 1..Len(s)
    BY <1>1
  <2> QED
    BY <2>1 DEF Grows
<1>2. CASE i > Len(s) /\ i <= Len(s) + Len(new)
  <2>0. PICK n \in Nat, m \in Nat, k \in Nat : n = Len(s) /\ m = Len(new) /\ k = i
    OBVIOUS
  <2>a. k > n /\ k <= n + m
    BY <1>2, <2>0
  <2>1. PICK j \in 1..m : k = n + j
    <3>1. k - n \in 1..m /\ k = n + (k - n)
      BY <2>a
    <3> QED
      BY <3>1
  <2>2. j \in 1..Len(new) /\ i = Len(s) + j
    BY <2>0, <2>1
  <2> QED
    BY <2>2 DEF Grows
<1>3. CASE i > Len(s) + Len(new)
  <2>0. PICK k \in Nat : k = Len(s) + Len(new)
    OBVIOUS
  <2>a. i \in Nat /\ i > k
    BY <1>3, <2>0
  <2>1. PICK j \in Nat : j = i - k
    BY <2>a
  <2>2. j \in 1..Len(taken) /\ i = Len(s) + Len(new) + j
    BY <1>3, <2>0, <2>1 DEF Grows
  <2> QED
    BY <2>2 DEF Grows
<1> QED
  BY <1>1, <1>2, <1>3

(* An item of x stands where it stood, is the j-th new one of a, or the    *)
(* j-th one that was queued.                                               *)
Old(x, i)         == i \in 1..Len(items[x]) /\ items'[x][i] = items[x][i]
New(x, a, new, i, j) ==
  /\ x = a /\ j \in 1..Len(new) /\ i = Len(items[x]) + j
  /\ items'[x][i] = Item(new[j].kind, new[j].call, clock + j)
Queued(x, a, new, i, j) ==
  /\ x = Root /\ queued' < queued /\ j \in 1..Len(pending)
  /\ i = Len(items[x]) + Len(Own(x, a, new)) + j
  /\ items'[x][i] = Item("user", None, pending[j])

(* Each item after a step was there before, is new, or was queued. *)
LEMMA StorePlaces ==
  ASSUME ItemsTyped, NEW a \in Agents, NEW new \in Seq(NewRows), Store(a, new),
         NEW x \in Agents
  PROVE  /\ Len(items[x]) \in Nat /\ DOMAIN items[x] = 1..Len(items[x]) /\ items[x] \in Seq(ItemSet)
         /\ Len(items'[x]) \in Nat /\ DOMAIN items'[x] = 1..Len(items'[x]) /\ items'[x] \in Seq(ItemSet)
         /\ \A i \in DOMAIN items[x] : i \in DOMAIN items'[x] /\ items'[x][i] = items[x][i]
         /\ Len(items'[x]) = Len(items[x]) + Len(Own(x, a, new)) + Len(Taken(x, queued' < queued))
         /\ \A i \in DOMAIN items'[x] :
              \/ Old(x, i)
              \/ \E j \in 1..Len(new) : New(x, a, new, i, j)
              \/ \E j \in 1..Len(pending) : Queued(x, a, new, i, j)
<1> DEFINE s == items[x]
           t == items'[x]
           own == Own(x, a, new)
           taken == Taken(x, queued' < queued)
<1>1. s \in Seq(ItemSet) /\ t \in Seq(ItemSet) /\ Grows(s, t, own, taken)
  BY StoreGrows DEF ItemsTyped
<1>2. clock \in Nat /\ own \in Seq(NewRows) /\ (own = new \/ own = <<>>) /\ Len(new) \in Nat
  BY EmptySeq DEF Own, ItemsTyped
<1>3. pending \in Seq(1..clock) /\ Len(pending) \in Nat
  BY DEF ItemsTyped
<1>4. taken \in Seq(1..clock) /\ (taken = pending \/ taken = <<>>)
  BY <1>3, EmptySeq DEF Taken
<1>5. Len(s) \in Nat /\ Len(t) \in Nat /\ Len(own) \in Nat /\ Len(taken) \in Nat
  BY <1>1, <1>2, <1>4
<1>6. \A i \in 1..Len(s) : i \in 1..Len(t) /\ t[i] = s[i]
  <2> HIDE DEF s, t, own, taken
  <2> QED
    BY <1>1, <1>5 DEF Grows
<1>7. ASSUME NEW i \in 1..Len(t)
      PROVE  \/ Old(x, i)
             \/ \E j \in 1..Len(new) : New(x, a, new, i, j)
             \/ \E j \in 1..Len(pending) : Queued(x, a, new, i, j)
  <2>2. \/ i \in 1..Len(s) /\ t[i] = s[i]
        \/ \E j \in 1..Len(own) : i = Len(s) + j /\ t[i] = Item(own[j].kind, own[j].call, clock + j)
        \/ \E j \in 1..Len(taken) : i = Len(s) + Len(own) + j /\ t[i] = Item("user", None, taken[j])
    <3> HIDE DEF s, t, own, taken
    <3> QED
      BY <1>1, <1>2, <1>5, GrowsPlaces
  <2>3. CASE i \in 1..Len(s) /\ t[i] = s[i]
    BY <2>3 DEF Old
  <2>4. ASSUME NEW j \in 1..Len(own), i = Len(s) + j, t[i] = Item(own[j].kind, own[j].call, clock + j)
        PROVE  New(x, a, new, i, j)
    <3>1. x = a /\ own = new
      BY <2>4 DEF Own
    <3> QED
      BY <2>4, <3>1 DEF New
  <2>5. ASSUME NEW j \in 1..Len(taken), i = Len(s) + Len(own) + j, t[i] = Item("user", None, taken[j])
        PROVE  Queued(x, a, new, i, j)
    <3>1. x = Root /\ queued' < queued /\ taken = pending
      BY <2>5 DEF Taken
    <3> QED
      BY <2>5, <3>1 DEF Queued
  <2>6. \A j \in 1..Len(own) : j \in 1..Len(new)
    BY <1>2
  <2>7. \A j \in 1..Len(taken) : j \in 1..Len(pending)
    BY <1>4
  <2> QED
    BY <2>2, <2>3, <2>4, <2>5, <2>6, <2>7
<1>8. Len(t) = Len(s) + Len(own) + Len(taken)
  BY <1>1 DEF Grows
<1>9. DOMAIN s = 1..Len(s) /\ DOMAIN t = 1..Len(t)
  BY <1>1
<1> QED
  BY <1>1, <1>5, <1>6, <1>7, <1>8, <1>9

(* The clock advances by what is stored; the queue stays or is taken as a  *)
(* whole.                                                                  *)
LEMMA StoresClock ==
  ASSUME ItemsTyped, TypeOK, NEW a \in Agents, NEW new \in Seq(NewRows), Stores(a, new)
  PROVE  /\ clock \in Nat /\ clock' = clock + Len(new) /\ Len(new) \in Nat /\ rewound' = rewound
         /\ DOMAIN pending = 1..Len(pending) /\ Len(pending) \in Nat
         /\ \A j \in 1..Len(pending) : pending[j] \in 1..clock
         /\ \/ queued' = queued /\ pending' = pending /\ ~(queued' < queued)
            \/ queued' < queued /\ pending' = <<>> /\ queued' = 0 /\ new \in TextParts
<1>1. clock \in Nat /\ pending \in Seq(1..clock) /\ queued \in Nat
  BY DEF ItemsTyped, TypeOK
<1>2. Len(new) \in Nat /\ clock' = clock + Len(new) /\ rewound' = rewound
  BY DEF Stores, Store
<1>3. pending' = IF queued' < queued THEN <<>> ELSE pending
  BY DEF Stores, Store, PendingAfter
<1>4. queued' = queued \/ (queued' = 0 /\ new \in TextParts)
  BY DEF Stores
<1>5. queued' = queued => ~(queued' < queued)
  BY <1>1
<1>6. queued' # queued => queued' = 0 /\ queued' < queued /\ new \in TextParts
  BY <1>1, <1>4
<1> QED
  BY <1>1, <1>2, <1>3, <1>5, <1>6

(* Stored items keep the types. *)
LEMMA StoresTyped ==
  ASSUME ItemsTyped, TypeOK, NEW a \in Agents, NEW new \in Seq(NewRows), Stores(a, new)
  PROVE  ItemsTyped'
<1>1. items' \in [Agents -> Seq(ItemSet)]
  BY StoreGrows DEF Stores
<1>2. clock' \in Nat /\ rewound' \in 0..clock' /\ clock <= clock'
  BY StoresClock DEF ItemsTyped
<1>3. pending' \in Seq(1..clock') /\ Len(pending') = queued'
  <2>1. pending \in Seq(1..clock) /\ Len(pending) = queued /\ clock \in Nat
    BY DEF ItemsTyped
  <2>2. pending \in Seq(1..clock')
    <3>1. 1..clock \subseteq 1..clock'
      BY <1>2, <2>1
    <3> QED
      BY <2>1, <3>1, SeqMonotonic
  <2>3. CASE queued' = queued /\ pending' = pending
    BY <2>1, <2>2, <2>3
  <2>4. CASE pending' = <<>> /\ queued' = 0
    BY <2>4, EmptySeq
  <2> QED
    BY <2>3, <2>4, StoresClock
<1>4. loose' \subseteq Calls /\ gone' \subseteq Calls
  <2>1. \A x \in Agents : Open(x)' \subseteq Calls
    BY DEF Open, Issued
  <2> QED
    BY <2>1 DEF Stores, Store, ItemsTyped
<1> QED
  BY <1>1, <1>2, <1>3, <1>4 DEF ItemsTyped

(* What is stored of the log belongs to calls. *)
LEMMA StoredCalls ==
  ASSUME NEW a \in Agents, NEW new \in Seq(NewRows), Storing(a, new), NEW j \in 1..Len(new), Logs(new[j])
  PROVE  /\ new[j].call \in Calls
         /\ new[j].kind = "call" => \E cs \in Batches : \E i \in DOMAIN cs :
                                      StoreCalls(a, cs) /\ cs[i] = new[j].call
<1>1. CASE new \in Words
  BY <1>1, RowTypes
<1>2. ASSUME NEW c \in Open(a), new = <<Output(c)>> PROVE new[j].call \in Calls /\ new[j].kind # "call"
  <2>1. Len(new) = 1
    BY <1>2
  <2>2. j = 1
    BY <2>1
  <2>3. new[1] = Output(c) /\ c \in Calls
    BY <1>2 DEF Open, Issued
  <2> QED
    BY <2>2, <2>3 DEF Output
<1>3. ASSUME NEW cs \in Batches, NEW text \in TextParts, new = text \o CallRows(cs)
      PROVE  \E i \in DOMAIN cs : new[j] = Call(cs[i]) /\ cs[i] \in Calls
  <2>1. cs \in Seq(Calls) /\ Len(cs) \in Nat /\ DOMAIN cs = 1..Len(cs)
    BY BatchType
  <2>x. /\ text \in Seq(NewRows) /\ Len(new) = Len(text) + Len(cs)
        /\ \A i \in 1..Len(text) : new[i] = Text
        /\ \A i \in 1..Len(cs) : new[Len(text) + i] = Call(cs[i])
    BY ONLY text \in TextParts, <1>3, <2>1, CallRowsType, Zenon
  <2>2. /\ text \in Seq(NewRows) /\ Len(text) \in Nat /\ Len(new) = Len(text) + Len(cs)
        /\ \A i \in 1..Len(text) : new[i] = Text
        /\ \A i \in 1..Len(cs) : new[Len(text) + i] = Call(cs[i])
    BY <2>x
  <2>3. ~(j \in 1..Len(text))
    BY <2>2 DEF Text, Logs
  <2>a. PICK l \in Nat : l = Len(text)
    BY <2>2
  <2>b. j \in Nat /\ j > l
    BY <2>2, <2>3, <2>a
  <2>c. PICK i \in Nat : i = j - l
    BY <2>b
  <2>4. i \in Nat /\ i = j - Len(text)
    BY <2>a, <2>c
  <2>5. i \in 1..Len(cs) /\ Len(text) + i = j
    BY <2>1, <2>2, <2>3, <2>4
  <2>6. new[j] = Call(cs[i]) /\ cs[i] \in Calls
    BY <2>1, <2>2, <2>5
  <2> QED
    BY <2>1, <2>5, <2>6
<1>4. \A c : Call(c).call = c
  BY DEF Call
<1> QED
  BY <1>1, <1>2, <1>3, <1>4 DEF Storing

(* A new item has a new stamp, and a queued one the stamp it was accepted  *)
(* with.                                                                   *)
LEMMA PlaceStamps ==
  ASSUME NEW x, NEW a, NEW new, NEW i, NEW j
  PROVE  /\ New(x, a, new, i, j) => /\ items'[x][i].at = clock + j
                                    /\ items'[x][i].kind = new[j].kind
                                    /\ items'[x][i].call = new[j].call
         /\ Queued(x, a, new, i, j) => /\ items'[x][i].at = pending[j]
                                       /\ items'[x][i].kind = "user"
<1>1. \A c, k, n : Item(k, c, n).at = n /\ Item(k, c, n).kind = k /\ Item(k, c, n).call = c
  BY DEF Item
<1> QED
  BY <1>1 DEF New, Queued

(* Stored items have stamps that no other item has. *)
LEMMA StoresStamps ==
  ASSUME ItemsTyped, TypeOK, StampsOK, PendingOK, NEW a \in Agents, NEW new \in Seq(NewRows),
         Stores(a, new)
  PROVE  StampsOK'
<1>0. Store(a, new)
  BY DEF Stores
<1>1. /\ clock \in Nat /\ clock' = clock + Len(new) /\ Len(new) \in Nat
      /\ DOMAIN pending = 1..Len(pending) /\ Len(pending) \in Nat
      /\ \A j \in 1..Len(pending) : pending[j] \in 1..clock
      /\ \/ queued' = queued /\ pending' = pending /\ ~(queued' < queued)
         \/ queued' < queued /\ pending' = <<>>
  BY StoresClock
<1>2. ToSet(pending') \subseteq ToSet(pending) /\ (queued' < queued => ToSet(pending') = {})
  <2>1. ToSet(<<>>) = {}
    BY DEF ToSet
  <2>2. CASE pending' = pending /\ ~(queued' < queued)
    BY <2>2
  <2>3. CASE pending' = <<>>
    BY <2>1, <2>3
  <2> QED
    BY <1>1, <2>2, <2>3
<1>3. ToSet(pending) = {pending[j] : j \in 1..Len(pending)}
  BY <1>1 DEF ToSet
<1>4. \A i, j \in 1..Len(pending) : pending[i] = pending[j] => i = j
  <2>1. \A i, j \in 1..Len(pending) : i < j => pending[i] < pending[j]
    BY <1>1 DEF PendingOK
  <2> SUFFICES ASSUME NEW i \in 1..Len(pending), NEW j \in 1..Len(pending), pending[i] = pending[j]
               PROVE  i = j
    OBVIOUS
  <2>2. ~(i < j) /\ ~(j < i)
    BY <1>1, <2>1
  <2> QED
    BY <1>1, <2>2
<1>5. ASSUME NEW x \in Agents, NEW i \in DOMAIN items'[x]
      PROVE  /\ items'[x][i].at \in 1..clock' /\ items'[x][i].at \notin ToSet(pending')
             /\ Logs(items'[x][i]) => items'[x][i].call \in Calls
  <2>1. CASE Old(x, i)
    <3>1. i \in DOMAIN items[x] /\ items'[x][i] = items[x][i]
      BY <1>0, <2>1, StorePlaces DEF Old
    <3>2. items[x][i].at \in 1..clock /\ items[x][i].at \notin ToSet(pending)
      BY <3>1 DEF StampsOK
    <3>3. Logs(items[x][i]) => items[x][i].call \in Calls
      BY <3>1 DEF StampsOK
    <3> QED
      BY <1>1, <1>2, <3>1, <3>2, <3>3
  <2>2. ASSUME NEW j \in 1..Len(new), New(x, a, new, i, j)
        PROVE  /\ items'[x][i].at \in 1..clock' /\ items'[x][i].at \notin ToSet(pending')
               /\ Logs(items'[x][i]) => items'[x][i].call \in Calls
    <3>1. items'[x][i].at = clock + j /\ items'[x][i].kind = new[j].kind /\ items'[x][i].call = new[j].call
      BY <2>2, PlaceStamps
    <3>2. clock + j \in 1..clock' /\ clock + j \notin ToSet(pending)
      BY <1>1, <1>3
    <3>3. Logs(new[j]) => new[j].call \in Calls
      BY StoredCalls DEF Stores
    <3> QED
      BY <1>2, <3>1, <3>2, <3>3 DEF Logs
  <2>3. ASSUME NEW j \in 1..Len(pending), Queued(x, a, new, i, j)
        PROVE  /\ items'[x][i].at \in 1..clock' /\ items'[x][i].at \notin ToSet(pending')
               /\ ~Logs(items'[x][i])
    <3>0. queued' < queued
      BY <2>3 DEF Queued
    <3>1. items'[x][i].at = pending[j] /\ items'[x][i].kind = "user"
      BY <2>3, PlaceStamps
    <3>2. pending[j] \in 1..clock'
      BY <1>1
    <3> QED
      BY <1>2, <3>0, <3>1, <3>2 DEF Logs
  <2> QED
    BY <1>0, <2>1, <2>2, <2>3, StorePlaces
<1>6. ASSUME NEW x \in Agents, NEW i \in DOMAIN items'[x],
             NEW y \in Agents, NEW k \in DOMAIN items'[y], items'[x][i].at = items'[y][k].at
      PROVE  x = y /\ i = k
  <2>1. \/ Old(x, i)
        \/ \E j \in 1..Len(new) : New(x, a, new, i, j)
        \/ \E j \in 1..Len(pending) : Queued(x, a, new, i, j)
    BY <1>0, StorePlaces
  <2>2. \/ Old(y, k)
        \/ \E j \in 1..Len(new) : New(y, a, new, k, j)
        \/ \E j \in 1..Len(pending) : Queued(y, a, new, k, j)
    BY <1>0, StorePlaces
  <2>3. ASSUME NEW z \in Agents, NEW m, Old(z, m)
        PROVE  /\ m \in DOMAIN items[z] /\ items'[z][m] = items[z][m]
               /\ items'[z][m].at \in 1..clock /\ items'[z][m].at \notin ToSet(pending)
    <3>1. m \in DOMAIN items[z] /\ items'[z][m] = items[z][m]
      BY <1>0, <2>3, StorePlaces DEF Old
    <3> QED
      BY <3>1 DEF StampsOK
  <2>4. CASE Old(x, i) /\ Old(y, k)
    BY <1>6, <2>3, <2>4 DEF StampsOK
  <2>5. ASSUME NEW j \in 1..Len(new), New(x, a, new, i, j) PROVE x = y /\ i = k
    <3>0. x = a /\ i = Len(items[x]) + j
      BY <2>5 DEF New
    <3>1. items'[x][i].at = clock + j
      BY <2>5, PlaceStamps
    <3>2. clock + j \notin 1..clock
      BY <1>1
    <3>3. ~Old(y, k)
      BY <1>6, <2>3, <3>1, <3>2
    <3>4. \A m \in 1..Len(pending) : ~Queued(y, a, new, k, m)
      <4> SUFFICES ASSUME NEW m \in 1..Len(pending), Queued(y, a, new, k, m) PROVE FALSE
        OBVIOUS
      <4>1. items'[y][k].at = pending[m] /\ pending[m] \in 1..clock
        BY <1>1, PlaceStamps
      <4> QED
        BY <1>6, <3>1, <3>2, <4>1
    <3>5. PICK m \in 1..Len(new) : New(y, a, new, k, m)
      BY <2>2, <3>3, <3>4
    <3>6. items'[y][k].at = clock + m
      BY <3>5, PlaceStamps
    <3>7. j = m
      <4>1. clock + j = clock + m
        BY <1>6, <3>1, <3>6
      <4>2. clock \in Nat /\ j \in Nat /\ m \in Nat
        BY <1>1
      <4> QED
        BY <4>1, <4>2
    <3>8. y = a /\ k = Len(items[y]) + m
      BY <3>5 DEF New
    <3> QED
      BY <3>0, <3>7, <3>8
  <2>6. ASSUME NEW j \in 1..Len(new), New(y, a, new, k, j) PROVE x = y /\ i = k
    <3>1. items'[y][k].at = clock + j
      BY <2>6, PlaceStamps
    <3>2. clock + j \notin 1..clock
      BY <1>1
    <3>3. ~Old(x, i)
      BY <1>6, <2>3, <3>1, <3>2
    <3>4. \A m \in 1..Len(pending) : ~Queued(x, a, new, i, m)
      <4> SUFFICES ASSUME NEW m \in 1..Len(pending), Queued(x, a, new, i, m) PROVE FALSE
        OBVIOUS
      <4>1. items'[x][i].at = pending[m] /\ pending[m] \in 1..clock
        BY <1>1, PlaceStamps
      <4> QED
        BY <1>6, <3>1, <3>2, <4>1
    <3> QED
      BY <2>1, <2>5, <3>3, <3>4
  <2>7. ASSUME NEW j \in 1..Len(pending), Queued(x, a, new, i, j), Old(y, k) PROVE FALSE
    BY <1>3, <1>6, <2>3, <2>7, PlaceStamps
  <2>8. ASSUME NEW j \in 1..Len(pending), Queued(y, a, new, k, j), Old(x, i) PROVE FALSE
    BY <1>3, <1>6, <2>3, <2>8, PlaceStamps
  <2>9. ASSUME NEW j \in 1..Len(pending), Queued(x, a, new, i, j),
               NEW m \in 1..Len(pending), Queued(y, a, new, k, m)
        PROVE  x = y /\ i = k
    <3>1. pending[j] = pending[m]
      BY <1>6, <2>9, PlaceStamps
    <3>2. j = m /\ x = Root /\ y = Root
      BY <1>4, <2>9, <3>1 DEF Queued
    <3> QED
      BY <2>9, <3>2 DEF Queued
  <2> QED
    BY <2>1, <2>2, <2>4, <2>5, <2>6, <2>7, <2>8, <2>9
<1> QED
  BY <1>5, <1>6 DEF StampsOK

(* The order of a transcript. *)
LEMMA StoresOrder ==
  ASSUME ItemsTyped, TypeOK, StampsOK, OrderOK, PendingOK, NEW a \in Agents,
         NEW new \in Seq(NewRows), Stores(a, new)
  PROVE  OrderOK'
<1>0. Store(a, new)
  BY DEF Stores
<1>1. /\ clock \in Nat /\ Len(new) \in Nat
      /\ DOMAIN pending = 1..Len(pending) /\ Len(pending) \in Nat
      /\ \A j \in 1..Len(pending) : pending[j] \in 1..clock
      /\ queued' < queued => new \in TextParts
  BY StoresClock
<1> SUFFICES ASSUME NEW x \in Agents, NEW i \in DOMAIN items'[x], NEW k \in DOMAIN items'[x], i < k,
                    items'[x][i].kind = "user" \/ items'[x][k].kind # "user"
             PROVE  items'[x][i].at < items'[x][k].at
  BY DEF OrderOK
<1>2. /\ Len(items[x]) \in Nat /\ DOMAIN items[x] = 1..Len(items[x])
      /\ i \in Nat /\ k \in Nat /\ Len(Own(x, a, new)) \in Nat /\ (x = a => Own(x, a, new) = new)
  <2>1. /\ Len(items[x]) \in Nat /\ DOMAIN items[x] = 1..Len(items[x])
        /\ Len(items'[x]) \in Nat /\ DOMAIN items'[x] = 1..Len(items'[x])
    BY <1>0, StorePlaces
  <2>2. Len(Own(x, a, new)) \in Nat
    BY <1>1 DEF Own
  <2> QED
    BY <2>1, <2>2 DEF Own
<1>3. \/ Old(x, i)
      \/ \E j \in 1..Len(new) : New(x, a, new, i, j)
      \/ \E j \in 1..Len(pending) : Queued(x, a, new, i, j)
  BY <1>0, StorePlaces
<1>4. \/ Old(x, k)
      \/ \E j \in 1..Len(new) : New(x, a, new, k, j)
      \/ \E j \in 1..Len(pending) : Queued(x, a, new, k, j)
  BY <1>0, StorePlaces
<1>5. ASSUME NEW m, Old(x, m)
      PROVE  m \in DOMAIN items[x] /\ items'[x][m] = items[x][m] /\ items'[x][m].at \in 1..clock
  <2>1. m \in DOMAIN items[x] /\ items'[x][m] = items[x][m]
    BY <1>2, <1>5 DEF Old
  <2> QED
    BY <2>1 DEF StampsOK
<1>6. CASE Old(x, i) /\ Old(x, k)
  BY <1>5, <1>6 DEF OrderOK
<1>7. ASSUME Old(x, i), NEW j \in 1..Len(new), New(x, a, new, k, j)
      PROVE  items'[x][i].at < items'[x][k].at
  <2>1. items'[x][k].at = clock + j /\ items'[x][i].at \in 1..clock
    BY <1>5, <1>7, PlaceStamps
  <2> QED
    BY <1>1, <2>1
<1>8. ASSUME Old(x, i), NEW j \in 1..Len(pending), Queued(x, a, new, k, j)
      PROVE  items'[x][i].at < items'[x][k].at
  <2>1. items'[x][k].at = pending[j] /\ items'[x][k].kind = "user"
    BY <1>8, PlaceStamps
  <2>2. x = Root /\ items'[x][i].kind = "user"
    BY <1>8, <2>1 DEF Queued
  <2>3. i \in DOMAIN items[Root] /\ items[Root][i].kind = "user" /\ items'[x][i] = items[Root][i]
    BY <1>5, <1>8, <2>2
  <2> QED
    BY <1>1, <2>1, <2>3 DEF PendingOK
<1>9. ASSUME NEW j \in 1..Len(new), New(x, a, new, i, j), Old(x, k) PROVE FALSE
  <2>1. i = Len(items[x]) + j /\ k \in 1..Len(items[x])
    BY <1>9 DEF New, Old
  <2> QED
    BY <1>1, <1>2, <2>1
<1>10. ASSUME NEW j \in 1..Len(new), New(x, a, new, i, j), NEW m \in 1..Len(new), New(x, a, new, k, m)
       PROVE  items'[x][i].at < items'[x][k].at
  <2>1. i = Len(items[x]) + j /\ k = Len(items[x]) + m
    BY <1>10 DEF New
  <2>2. items'[x][i].at = clock + j /\ items'[x][k].at = clock + m
    BY <1>10, PlaceStamps
  <2>3. j \in Nat /\ m \in Nat
    BY <1>1
  <2> QED
    BY <1>1, <1>2, <2>1, <2>2, <2>3
<1>11. ASSUME NEW j \in 1..Len(new), New(x, a, new, i, j),
              NEW m \in 1..Len(pending), Queued(x, a, new, k, m)
       PROVE  FALSE
  <2>1. queued' < queued /\ items'[x][k].kind = "user" /\ items'[x][i].kind = new[j].kind
    <3>1. queued' < queued
      BY <1>11 DEF Queued
    <3> QED
      BY <1>11, <3>1, PlaceStamps
  <2>2. new \in {<<>>, <<Text>>}
    BY <1>1, <2>1 DEF TextParts
  <2>3. new = <<Text>> /\ j = 1
    <3>1. CASE new = <<>>
      BY <3>1
    <3>2. CASE new = <<Text>>
      BY <3>2
    <3> QED
      BY <2>2, <3>1, <3>2
  <2>4. new[j].kind # "user"
    BY <2>3 DEF Text
  <2> QED
    BY <2>1, <2>4
<1>12. ASSUME NEW j \in 1..Len(pending), Queued(x, a, new, i, j), Old(x, k) PROVE FALSE
  <2>1. i = Len(items[x]) + Len(Own(x, a, new)) + j /\ k \in 1..Len(items[x])
    BY <1>12 DEF Queued, Old
  <2> QED
    BY <1>1, <1>2, <2>1
<1>13. ASSUME NEW j \in 1..Len(pending), Queued(x, a, new, i, j),
              NEW m \in 1..Len(new), New(x, a, new, k, m)
       PROVE  FALSE
  <2>1. i = Len(items[x]) + Len(Own(x, a, new)) + j /\ k = Len(items[x]) + m /\ x = a
    BY <1>13 DEF Queued, New
  <2>2. Len(Own(x, a, new)) = Len(new)
    BY <1>2, <2>1
  <2>3. m \in Nat /\ m <= Len(new) /\ j \in Nat
    BY <1>1
  <2> QED
    BY <1>1, <1>2, <2>1, <2>2, <2>3
<1>14. ASSUME NEW j \in 1..Len(pending), Queued(x, a, new, i, j),
              NEW m \in 1..Len(pending), Queued(x, a, new, k, m)
       PROVE  items'[x][i].at < items'[x][k].at
  <2>1. i = Len(items[x]) + Len(Own(x, a, new)) + j /\ k = Len(items[x]) + Len(Own(x, a, new)) + m
    BY <1>14 DEF Queued
  <2>2. items'[x][i].at = pending[j] /\ items'[x][k].at = pending[m]
    BY <1>14, PlaceStamps
  <2>3. j \in Nat /\ m \in Nat
    BY <1>1
  <2>4. j < m
    BY <1>2, <2>1, <2>3
  <2> QED
    BY <1>1, <2>2, <2>4 DEF PendingOK
<1> QED
  BY <1>3, <1>4, <1>6, <1>7, <1>8, <1>9, <1>10, <1>11, <1>12, <1>13, <1>14

(* The queue goes on standing behind the user's messages. *)
LEMMA StoresPending ==
  ASSUME ItemsTyped, TypeOK, StampsOK, PendingOK, NEW a \in Agents, NEW new \in Seq(NewRows),
         Stores(a, new)
  PROVE  PendingOK'
<1>0. Store(a, new) /\ Root \in Agents
  BY RunnerAssumption DEF Stores
<1>1. /\ clock \in Nat /\ Len(new) \in Nat
      /\ DOMAIN pending = 1..Len(pending) /\ Len(pending) \in Nat
      /\ \/ queued' = queued /\ pending' = pending /\ ~(queued' < queued)
         \/ queued' < queued /\ pending' = <<>>
  BY StoresClock
<1>2. CASE pending' = <<>>
  BY <1>2 DEF PendingOK
<1>3. CASE queued' = queued /\ pending' = pending /\ ~(queued' < queued)
  <2>1. ASSUME NEW i \in DOMAIN items'[Root], NEW j \in DOMAIN pending, items'[Root][i].kind = "user"
        PROVE  items'[Root][i].at < pending[j]
    <3>1. \/ Old(Root, i)
          \/ \E m \in 1..Len(new) : New(Root, a, new, i, m)
          \/ \E m \in 1..Len(pending) : Queued(Root, a, new, i, m)
      BY <1>0, StorePlaces
    <3>2. \A m \in 1..Len(pending) : ~Queued(Root, a, new, i, m)
      BY <1>3 DEF Queued
    <3>3. CASE Old(Root, i)
      <4>1. i \in DOMAIN items[Root] /\ items'[Root][i] = items[Root][i]
        BY <1>0, <3>3, StorePlaces DEF Old
      <4> QED
        BY <2>1, <4>1 DEF PendingOK
    <3>4. ASSUME NEW m \in 1..Len(new), New(Root, a, new, i, m) PROVE FALSE
      <4>1. a = Root /\ new[m].kind = "user"
        <5>1. items'[Root][i].kind = new[m].kind
          BY <3>4, PlaceStamps
        <5> QED
          BY <2>1, <3>4, <5>1 DEF New
      <4>2. new = <<User>>
        <5>1. \A cs \in Batches : \A text \in TextParts : new # text \o CallRows(cs)
          <6> SUFFICES ASSUME NEW cs \in Batches, NEW text \in TextParts, new = text \o CallRows(cs)
                       PROVE  FALSE
            OBVIOUS
          <6>1. cs \in Seq(Calls) /\ Len(cs) \in Nat
            BY BatchType
          <6>2. /\ text \in Seq(NewRows) /\ Len(text) \in Nat /\ Len(new) = Len(text) + Len(cs)
                /\ \A k \in 1..Len(text) : new[k] = Text
                /\ \A k \in 1..Len(cs) : new[Len(text) + k] = Call(cs[k])
            BY <6>1, CallRowsType
          <6>3. ~(m \in 1..Len(text))
            BY <4>1, <6>2 DEF Text
          <6>4. PICK l \in Nat : l = Len(text)
            BY <6>2
          <6>5. m \in Nat /\ m > l
            BY <6>2, <6>3, <6>4
          <6>6. PICK k \in Nat : k = m - l
            BY <6>5
          <6>7. k \in 1..Len(cs) /\ Len(text) + k = m
            BY <6>1, <6>2, <6>4, <6>5, <6>6
          <6>8. new[Len(text) + k] = Call(cs[k])
            BY <6>2, <6>7
          <6>9. new[m] = Call(cs[k])
            BY <6>7, <6>8
          <6> QED
            BY <4>1, <6>9 DEF Call
        <5>2. \A c : new # <<Output(c)>>
          <6> SUFFICES ASSUME NEW c, new = <<Output(c)>> PROVE FALSE
            OBVIOUS
          <6>1. m = 1 /\ new[1] = Output(c)
            OBVIOUS
          <6> QED
            BY <4>1, <6>1 DEF Output
        <5>3. new \in Words
          BY <5>1, <5>2 DEF Stores, Storing
        <5>4. new # <<>>
          OBVIOUS
        <5>5. new # <<Text>>
          <6> SUFFICES ASSUME new = <<Text>> PROVE FALSE
            OBVIOUS
          <6>1. m = 1 /\ new[1] = Text
            OBVIOUS
          <6> QED
            BY <4>1, <6>1 DEF Text
        <5> QED
          BY <5>3, <5>4, <5>5 DEF Words
      <4>3. queued = 0
        BY <4>1, <4>2 DEF Stores
      <4>4. Len(pending) = 0
        BY <4>3 DEF ItemsTyped
      <4> QED
        BY <1>1, <4>4
    <3> QED
      BY <3>1, <3>2, <3>3, <3>4
  <2> QED
    BY <1>3, <2>1 DEF PendingOK
<1> QED
  BY <1>1, <1>2, <1>3

-------------------------------------------------------------------------------
(* What a step of the runner does to the rest of the invariant.            *)

(* An agent minds what it minded before, or what it just issued. *)
Mindful(x) ==
  \A c \in Minded(x)' :
    c \in Minded(x) \/ \E cs \in Batches : StoreCalls(x, cs) /\ \E i \in DOMAIN cs : cs[i] = c

(* An agent that minds less minds what it minded before. *)
LEMMA MindedKept ==
  ASSUME NEW x \in Agents, Pending(x)' \subseteq Minded(x),
         WaitCalls(waits'[x]) \subseteq Minded(x), WaitCalls(waiting'[x]) \subseteq Minded(x)
  PROVE  Mindful(x)
<1>1. Minded(x)' \subseteq Minded(x)
  BY DEF Minded, WaitCalls
<1> QED
  BY <1>1 DEF Mindful

(* A run that returns keeps no calls but its waits. *)
LEMMA MindedReturn ==
  ASSUME TypeOK, NEW a \in Agents, NEW st, NEW W, Return(a, st, W),
         W = {} \/ W = waits[a] \/ W = waiting[a]
  PROVE  Mindful(a)
<1>1. todo'[a] = <<>> /\ waits'[a] = {} /\ waiting'[a] = W
  BY DEF Return, TypeOK
<1>2. Pending(a)' = {} /\ WaitCalls(waits'[a]) = {}
  BY <1>1 DEF Pending, WaitCalls
<1>3. WaitCalls(waiting'[a]) \subseteq Minded(a)
  BY <1>1 DEF WaitCalls, Minded
<1> QED
  BY <1>2, <1>3, MindedKept

(* A call that was handled is dropped or becomes a wait. *)
LEMMA MindedHandled ==
  ASSUME TypeOK, CallsOK, NEW a \in Agents, todo[a] # <<>>, todo' = [todo EXCEPT ![a] = Tail(@)],
         waiting'[a] = waiting[a],
         waits'[a] = waits[a] \/ \E t : waits'[a] = waits[a] \union {[call |-> Head(todo[a]), type |-> t]}
  PROVE  Mindful(a)
<1>1. Pending(a)' \subseteq Pending(a) /\ Head(todo[a]) \in Pending(a)
  BY HandledTodo
<1>2. WaitCalls(waits'[a]) \subseteq WaitCalls(waits[a]) \union {Head(todo[a])}
  BY DEF WaitCalls
<1>3. WaitCalls(waiting'[a]) \subseteq Minded(a)
  BY DEF Minded
<1> QED
  BY <1>1, <1>2, <1>3, MindedKept DEF Minded

(* An agent that loses calls or waits minds nothing new. *)
LEMMA MindedSame ==
  ASSUME NEW x \in Agents, todo'[x] = todo[x] \/ todo'[x] = <<>>, waits'[x] = waits[x] \/ waits'[x] = {},
         waiting'[x] \subseteq waiting[x]
  PROVE  Mindful(x)
<1>1. Pending(x)' \subseteq Pending(x)
  BY DEF Pending
<1>2. WaitCalls(waits'[x]) \subseteq WaitCalls(waits[x]) /\ WaitCalls(waiting'[x]) \subseteq WaitCalls(waiting[x])
  BY DEF WaitCalls
<1> QED
  BY <1>1, <1>2, MindedKept DEF Minded

(* The steps within one run mind nothing new but what they issue. *)
LEMMA MindedLocal ==
  ASSUME TypeOK, CallsOK, NEW a \in Agents, LocalStep(a)
  PROVE  Mindful(a)
<1> USE DEF agentVars
<1>t. todo \in [Agents -> Seq(Calls)] /\ waits \in [Agents -> SUBSET WaitEntries]
      /\ waiting \in [Agents -> SUBSET WaitEntries]
  BY DEF TypeOK
<1>1. CancelRun(a) \/ FailRun(a) => Mindful(a)
  BY MindedReturn DEF CancelRun, FailRun
<1>2. ASSUME todo' = todo, waits' = waits, waiting' = waiting \/ waiting' = [waiting EXCEPT ![a] = {}]
      PROVE  Mindful(a)
  <2>1. waiting'[a] \subseteq waiting[a]
    BY <1>t, <1>2
  <2> QED
    BY <1>2, <2>1, MindedSame
<1>3. CASE StartRun(a) \/ (ExecuteTurn(a) /\ Goto(a, "generate")) \/ AwaitTool(a)
  BY <1>2, <1>3 DEF StartRun, ExecuteTurn, AwaitTool, Goto
<1>4. CASE \/ StopBeforeTurn(a) \/ GenerateFails(a) \/ CancelAtCall(a)
           \/ (ExecuteTurn(a) /\ FailRun(a))
  BY <1>1, <1>4 DEF StopBeforeTurn, GenerateFails, CancelAtCall
<1>5. ASSUME ContinueRun(a) PROVE Mindful(a)
  BY <1>2, <1>5 DEF ContinueRun
<1>6. CASE FinalAnswer(a) \/ EndTurn(a)
  <2>1. ContinueRun(a) \/ \E st : \E W \in {{}, waits[a]} : Return(a, st, W)
    BY <1>6 DEF FinalAnswer, EndTurn
  <2> QED
    BY <1>5, <2>1, MindedReturn
<1>7. ASSUME NEW cs \in Batches, StoreCalls(a, cs) PROVE Mindful(a)
  <2>1. todo'[a] = cs /\ waits' = waits /\ waiting' = waiting
    BY <1>t, <1>7 DEF StoreCalls
  <2>2. Pending(a)' = {cs[i] : i \in DOMAIN cs}
    BY <2>1 DEF Pending
  <2>3. \A c \in Minded(a)' : c \in Pending(a)' \/ c \in Minded(a)
    BY <2>1 DEF Minded, WaitCalls
  <2> QED
    BY <1>7, <2>2, <2>3 DEF Mindful
<1>8. CASE RejectCall(a) \/ AskHuman(a)
  <2>1. todo[a] # <<>> /\ todo' = [todo EXCEPT ![a] = Tail(@)] /\ waiting' = waiting
    BY <1>8 DEF RejectCall, AskHuman, AtCall, CallHandled
  <2>2. waits'[a] = waits[a] \/ \E t : waits'[a] = waits[a] \union {[call |-> Head(todo[a]), type |-> t]}
    BY <1>t, <1>8 DEF RejectCall, AskHuman, CallHandled
  <2> QED
    BY <2>1, <2>2, MindedHandled
<1>9. CASE SyncToolReturns(a) \/ McpToolReturns(a)
  <2>1. todo[a] # <<>>
    BY <1>9 DEF SyncToolReturns, McpToolReturns, CallsOK, Handling
  <2>2. CASE CancelRun(a)
    BY <1>1, <2>2
  <2>3. CASE CallHandled(a, {}) /\ waiting' = waiting
    <3>1. todo' = [todo EXCEPT ![a] = Tail(@)] /\ waits'[a] = waits[a] /\ waiting'[a] = waiting[a]
      BY <1>t, <2>3 DEF CallHandled
    <3> QED
      BY <2>1, <3>1, MindedHandled
  <2> QED
    BY <1>9, <2>2, <2>3 DEF SyncToolReturns, McpToolReturns
<1>10. ExecuteTurn(a) => Goto(a, "generate") \/ FailRun(a)
  BY DEF ExecuteTurn
<1> QED
  BY <1>3, <1>4, <1>6, <1>7, <1>8, <1>9, <1>10 DEF LocalStep

(* No step of the runner minds a call that the agent neither minded nor    *)
(* issues.                                                                 *)
LEMMA MindedStep ==
  ASSUME Core, [Next]_vars, NEW x \in Agents
  PROVE  Mindful(x)
<1> USE DEF agentVars, runVars
<1>t. /\ TypeOK /\ TreeOK /\ CallsOK
      /\ todo \in [Agents -> Seq(Calls)] /\ waits \in [Agents -> SUBSET WaitEntries]
      /\ waiting \in [Agents -> SUBSET WaitEntries]
      /\ parent \in [Agents -> Agents \union {None}]
  BY DEF Core, TypeOK
<1>1. CASE StartChat
  <2>1. todo'[x] = todo[x] /\ waits'[x] = waits[x] /\ waiting'[x] \subseteq waiting[x]
    BY <1>1, <1>t DEF StartChat
  <2> QED
    BY <2>1, MindedSame
<1>2. CASE Enqueue \/ Cancel \/ UNCHANGED vars
  <2>1. todo'[x] = todo[x] /\ waits'[x] = waits[x] /\ waiting'[x] \subseteq waiting[x]
    BY <1>2 DEF Enqueue, Cancel, vars
  <2> QED
    BY <2>1, MindedSame
<1>3. ASSUME NEW a \in Agents, NEW e \in waiting[a], Deliver(a, e) PROVE Mindful(x)
  <2>1. todo'[x] = todo[x] /\ waits'[x] = waits[x] /\ waiting'[x] \subseteq waiting[x]
    BY <1>3, <1>t DEF Deliver
  <2> QED
    BY <2>1, MindedSame
<1>4. ASSUME NEW a \in Agents, LocalStep(a) PROVE Mindful(x)
  <2>1. CASE x = a
    BY <1>t, <1>4, <2>1, MindedLocal
  <2>2. CASE x # a
    <3>1. todo'[x] = todo[x] /\ waits'[x] = waits[x] /\ waiting'[x] = waiting[x]
      BY <1>t, <1>4, <2>2, LocalStepIsLocal
    <3> QED
      BY <3>1, MindedSame
  <2> QED
    BY <2>1, <2>2
<1>5. ASSUME NEW a \in Agents, NEW b \in Agents, Delegate(a, b) PROVE Mindful(x)
  <2>1. todo'[x] = todo[x] /\ waits'[x] = waits[x] /\ waiting'[x] \subseteq waiting[x]
    BY <1>5 DEF Delegate
  <2> QED
    BY <2>1, MindedSame
<1>6. ASSUME NEW a \in Agents, NEW b \in Agents, ChildReturns(a, b) PROVE Mindful(x)
  <2>1. /\ pc[a] = "child" /\ todo[a] # <<>>
        /\ \/ /\ todo' = [todo EXCEPT ![a] = <<>>] /\ waits' = [waits EXCEPT ![a] = {}]
              /\ waiting' = [waiting EXCEPT ![a] = {}]
           \/ /\ waiting' = waiting /\ todo' = [todo EXCEPT ![a] = Tail(@)]
              /\ \/ waits' = [waits EXCEPT ![a] =
                                @ \union {[call |-> Head(todo[a]), type |-> "agent"]}]
                 \/ waits' = waits
    BY <1>6, <1>t DEF ChildReturns, CallsOK, Handling
  <2>2. CASE x # a
    <3>1. todo'[x] = todo[x] /\ waits'[x] = waits[x] /\ waiting'[x] \subseteq waiting[x]
      BY <1>t, <2>1, <2>2
    <3> QED
      BY <3>1, MindedSame
  <2>3. CASE x = a /\ todo' = [todo EXCEPT ![a] = Tail(@)]
    <3>1. \/ /\ todo'[a] = <<>> /\ waits'[a] = {} /\ waiting'[a] = {}
          \/ /\ waiting'[a] = waiting[a]
             /\ \/ waits'[a] = waits[a]
                \/ \E t : waits'[a] = waits[a] \union {[call |-> Head(todo[a]), type |-> t]}
      BY <1>t, <2>1, <2>3
    <3>2. waiting'[a] = {} => waiting'[a] \subseteq waiting[a]
      OBVIOUS
    <3> QED
      BY <1>t, <2>1, <2>3, <3>1, <3>2, MindedSame, MindedHandled
  <2>4. CASE x = a /\ todo' = [todo EXCEPT ![a] = <<>>] /\ waits' = [waits EXCEPT ![a] = {}]
             /\ waiting' = [waiting EXCEPT ![a] = {}]
    <3>1. todo'[x] = <<>> /\ waits'[x] = {} /\ waiting'[x] \subseteq waiting[x]
      BY <1>t, <2>4
    <3> QED
      BY <3>1, MindedSame
  <2> QED
    BY <2>1, <2>2, <2>3, <2>4
<1>7. ASSUME NEW b \in Agents, RequestEnds(b) PROVE Mindful(x)
  <2>1. todo'[x] = todo[x] /\ waits'[x] = waits[x] /\ waiting'[x] \subseteq waiting[x]
    BY <1>7 DEF RequestEnds
  <2> QED
    BY <2>1, MindedSame
<1>8. ASSUME NEW b \in Agents, PropagateChildResult(b) PROVE Mindful(x)
  <2>1. todo'[x] = todo[x] /\ waits'[x] = waits[x] /\ waiting'[x] \subseteq waiting[x]
    BY <1>8, <1>t DEF PropagateChildResult
  <2> QED
    BY <2>1, MindedSame
<1> QED
  BY <1>1, <1>2, <1>3, <1>4, <1>5, <1>6, <1>7, <1>8 DEF Next, Step, LocalStep

Busy == {"generate"} \union Handling

(* Without turns nobody calls or waits. *)
LEMMA TurnsStep ==
  ASSUME Core, TurnsOK, [Next]_vars
  PROVE  TurnsOK'
<1> USE DEF agentVars, runVars
<1>t. /\ TypeOK /\ WaitsAreOpen
      /\ pc \in [Agents -> PCs] /\ status \in [Agents -> Statuses]
      /\ parent \in [Agents -> Agents \union {None}] /\ turns \in [Agents -> Nat]
  BY DEF Core, TypeOK
<1> SUFFICES ASSUME ~(MaxTurns > 0), NEW x \in Agents
             PROVE  status'[x] # "waiting" /\ pc'[x] \notin Busy
  BY DEF TurnsOK, Busy
<1>0. MaxTurns = 0
  BY RunnerAssumption
<1>n. \A y \in Agents : status[y] # "waiting" /\ pc[y] \notin Busy /\ waiting[y] = {}
  BY <1>t DEF TurnsOK, Busy, WaitsAreOpen
<1>p. "generate" \in Busy /\ "call" \in Busy /\ "sync" \in Busy /\ "mcp" \in Busy /\ "child" \in Busy
      /\ "idle" \notin Busy /\ "start" \notin Busy /\ "turn" \notin Busy /\ "returned" \notin Busy
  BY DEF Busy, Handling
<1> HIDE DEF Busy
<1>1. CASE StartChat
  BY <1>1, <1>n, <1>p, <1>t DEF StartChat, Enter
<1>2. CASE Enqueue \/ Cancel \/ UNCHANGED vars
  BY <1>2, <1>n DEF Enqueue, Cancel, vars
<1>3. ASSUME NEW a \in Agents, NEW e \in waiting[a], Deliver(a, e) PROVE FALSE
  BY <1>3, <1>n
<1>4. ASSUME NEW a \in Agents, StartRun(a) PROVE status'[x] # "waiting" /\ pc'[x] \notin Busy
  BY <1>4, <1>n, <1>p, <1>t DEF StartRun
<1>5. ASSUME NEW a \in Agents, StopBeforeTurn(a) PROVE status'[x] # "waiting" /\ pc'[x] \notin Busy
  BY <1>5, <1>n, <1>p, <1>t DEF StopBeforeTurn, CancelRun, FailRun, Return
<1>6. ASSUME NEW a \in Agents, ExecuteTurn(a) PROVE FALSE
  BY <1>6, <1>0, <1>t DEF ExecuteTurn
<1>7. ASSUME NEW a \in Agents, NEW b \in Agents,
             \/ GenerateFails(a) \/ FinalAnswer(a) \/ \E cs \in Batches : StoreCalls(a, cs)
             \/ CancelAtCall(a) \/ RejectCall(a) \/ AwaitTool(a) \/ AskHuman(a)
             \/ SyncToolReturns(a) \/ McpToolReturns(a) \/ EndTurn(a)
             \/ Delegate(a, b) \/ ChildReturns(b, a)
      PROVE  FALSE
  <2>1. pc[a] \in Busy \/ pc[b] \in Busy
    BY <1>7, <1>p DEF GenerateFails, FinalAnswer, StoreCalls, CancelAtCall, RejectCall, AtCall,
       AwaitTool, AskHuman, SyncToolReturns, McpToolReturns, EndTurn, Delegate, ChildReturns
  <2> QED
    BY <1>n, <2>1
<1>8. ASSUME NEW b \in Agents, RequestEnds(b) PROVE status'[x] # "waiting" /\ pc'[x] \notin Busy
  BY <1>8, <1>n, <1>p, <1>t DEF RequestEnds
<1>9. ASSUME NEW b \in Agents, PropagateChildResult(b) PROVE FALSE
  <2>1. parent[b] \in Agents /\ source[b] \in WaitCalls(waiting[parent[b]])
    BY <1>9, <1>t DEF PropagateChildResult, Propagates
  <2> QED
    BY <1>n, <2>1 DEF WaitCalls
<1> QED
  BY <1>1, <1>2, <1>3, <1>4, <1>5, <1>6, <1>7, <1>8, <1>9 DEF Next, Step

(* A queue that is not empty waits for a root that will take it. *)
LEMMA QueueStep ==
  ASSUME Core, SignalOK, TurnsOK, QueueOK, [Next]_vars
  PROVE  QueueOK'
<1> USE DEF agentVars, runVars
<1>t. /\ TypeOK /\ WaitsAreOpen /\ TreeOK /\ StackOK /\ queued \in Nat /\ Root \in Agents
      /\ pc \in [Agents -> PCs] /\ status \in [Agents -> Statuses]
      /\ parent \in [Agents -> Agents \union {None}] /\ turns \in [Agents -> Nat]
  BY RunnerAssumption DEF Core, TypeOK
<1> DEFINE Soon == delivering /\ (pc[Root] = "start" \/ (pc[Root] = "turn" /\ turns[Root] = 0))
           Takes == status[Root] = "waiting" \/ Soon
<1> SUFFICES ASSUME queued' # 0 PROVE MaxTurns > 0 /\ Takes'
  BY DEF QueueOK
<1>e. CASE Enqueue
  <2>1. status[Root] = "waiting" /\ status' = status
    BY <1>e DEF Enqueue
  <2> QED
    BY <1>t, <2>1 DEF TurnsOK
<1>q. ASSUME ~Enqueue PROVE queued' = queued /\ \A a \in Agents : ConsumeQueue(a) => a # Root
  <2>1. ASSUME NEW a \in Agents, ConsumeQueue(a) PROVE a # Root
    BY <2>1 DEF ConsumeQueue
  <2>2. ASSUME StartChat \/ Cancel \/ UNCHANGED vars PROVE queued' = queued
    BY <2>2 DEF vars, StartChat, Cancel
  <2>3. ASSUME NEW a \in Agents, NEW e \in waiting[a], Deliver(a, e) PROVE queued' = queued
    BY <2>3 DEF Deliver
  <2>4. ASSUME NEW a \in Agents,
               \/ StartRun(a) \/ StopBeforeTurn(a) \/ ExecuteTurn(a) \/ GenerateFails(a)
               \/ FinalAnswer(a) \/ \E cs \in Batches : StoreCalls(a, cs)
        PROVE  queued' = queued
    BY <2>4 DEF StartRun, StopBeforeTurn, ExecuteTurn, GenerateFails, FinalAnswer, StoreCalls, ConsumeQueue
  <2>5. ASSUME NEW a \in Agents,
               CancelAtCall(a) \/ RejectCall(a) \/ AwaitTool(a) \/ AskHuman(a)
        PROVE  queued' = queued
    BY <2>5 DEF CancelAtCall, RejectCall, AwaitTool, AskHuman
  <2>7. ASSUME NEW a \in Agents, SyncToolReturns(a) \/ McpToolReturns(a) \/ EndTurn(a)
        PROVE  queued' = queued
    BY <2>7 DEF SyncToolReturns, McpToolReturns, EndTurn, ConsumeQueue
  <2>6. ASSUME NEW a \in Agents, NEW b \in Agents,
               Delegate(a, b) \/ ChildReturns(a, b) \/ RequestEnds(a) \/ PropagateChildResult(a)
        PROVE  queued' = queued
    BY <2>6 DEF Delegate, ChildReturns, RequestEnds, PropagateChildResult
  <2> QED
    BY <1>q, <2>1, <2>2, <2>3, <2>4, <2>5, <2>6, <2>7 DEF Next, Step
<1>m. ASSUME queued' = queued PROVE MaxTurns > 0 /\ Takes
  BY <1>m, <1>t DEF QueueOK
<1>r. pc[Root] \in {"start", "turn"} => current = Root /\ status[Root] # "waiting"
  BY <1>t DEF StackOK, TreeOK
<1>1. ASSUME Takes PROVE ~StartChat
  <2> SUFFICES ASSUME StartChat PROVE FALSE
    OBVIOUS
  <2>1. current = None /\ status[Root] # "waiting"
    BY DEF StartChat
  <2> QED
    BY <1>1, <2>1 DEF SignalOK
<1>2. ASSUME Takes, Cancel \/ UNCHANGED vars PROVE Takes'
  BY <1>2 DEF Cancel, vars
<1>3. ASSUME Takes, NEW a \in Agents, NEW e \in waiting[a], Deliver(a, e) PROVE Takes'
  <2>1. current = None
    BY <1>3 DEF Deliver
  <2>2. status[Root] = "waiting"
    BY <1>3, <2>1 DEF SignalOK
  <2>3. CASE status' = status
    BY <2>2, <2>3
  <2>4. CASE status' = [status EXCEPT ![a] = "pending"] /\ delivering' = TRUE /\ pc' = [pc EXCEPT ![a] = "start"]
    <3>1. CASE a = Root
      BY <1>t, <2>4, <3>1
    <3>2. CASE a # Root
      BY <1>t, <2>2, <2>4, <3>2
    <3> QED
      BY <3>1, <3>2
  <2> QED
    BY <1>3, <2>3, <2>4 DEF Deliver, Enter
<1>4. ASSUME Takes, NEW a \in Agents, StartRun(a) PROVE Takes'
  <2>1. CASE a = Root
    <3>1. pc[Root] = "start"
      BY <1>4, <2>1 DEF StartRun
    <3>2. delivering
      BY <1>4, <1>r, <3>1
    <3> QED
      BY <1>4, <1>t, <2>1, <3>2 DEF StartRun
  <2>2. CASE a # Root
    <3>1. current = a /\ status'[Root] = status[Root]
      BY <1>4, <1>t, <2>2 DEF StartRun
    <3> QED
      BY <1>4, <1>r, <2>2, <3>1
  <2> QED
    BY <2>1, <2>2
<1>5. ASSUME Takes, MaxTurns > 0, NEW a \in Agents, StopBeforeTurn(a) PROVE Takes'
  <2>1. CASE a = Root
    <3>1. pc[Root] = "turn"
      BY <1>5, <2>1 DEF StopBeforeTurn
    <3>2. delivering /\ turns[Root] = 0
      BY <1>5, <1>r, <3>1
    <3>3. ~signal /\ ~(turns[Root] >= MaxTurns)
      BY <1>5, <3>2, RunnerAssumption DEF SignalOK
    <3> QED
      BY <1>5, <2>1, <3>3 DEF StopBeforeTurn
  <2>2. CASE a # Root
    <3>1. current = a /\ status'[Root] = status[Root]
      BY <1>5, <1>t, <2>2 DEF StopBeforeTurn, CancelRun, FailRun, Return
    <3> QED
      BY <1>5, <1>r, <2>2, <3>1
  <2> QED
    BY <2>1, <2>2
<1>6. ASSUME Takes, queued' = queued, NEW a \in Agents, LocalStep(a), ~StartRun(a), ~StopBeforeTurn(a),
             ConsumeQueue(a) => a # Root
      PROVE  Takes'
  <2>1. CASE a = Root
    <3>1. TopMoves(Root)
      BY <1>6, <1>t, <2>1, LocalStepMovesTop
    <3>2. pc[Root] \in {"generate", "call", "sync", "mcp"}
      <4>1. pc[Root] \in {"start", "turn", "generate", "call", "sync", "mcp"}
        BY <3>1 DEF TopMoves
      <4>2. ~ExecuteTurn(a)
        BY <1>6, <2>1 DEF ExecuteTurn
      <4> QED
        BY <1>6, <2>1, <4>1, <4>2 DEF LocalStep, GenerateFails, FinalAnswer, StoreCalls, CancelAtCall,
           RejectCall, AtCall, AwaitTool, AskHuman, SyncToolReturns, McpToolReturns, EndTurn
    <3>3. status[Root] = "running"
      BY <1>t, <3>2 DEF TreeOK
    <3> QED
      BY <1>6, <3>2, <3>3
  <2>2. CASE a # Root
    <3>1. current = a
      BY <1>6, <1>t, LocalStepMovesTop DEF TopMoves
    <3>2. status'[Root] = status[Root]
      BY <1>6, <1>t, <2>2, LocalStepIsLocal
    <3> QED
      BY <1>6, <1>r, <2>2, <3>1, <3>2
  <2> QED
    BY <2>1, <2>2
<1>7. ASSUME Takes, NEW a \in Agents, NEW b \in Agents, Delegate(a, b) PROVE Takes'
  <2>1. current = a /\ pc[a] = "call" /\ b # Root /\ status'[Root] = status[Root]
    BY <1>7, <1>t DEF Delegate, AtCall
  <2>2. status[Root] = "waiting"
    BY <1>7, <1>r, <2>1
  <2> QED
    BY <2>1, <2>2
<1>8. ASSUME Takes, NEW a \in Agents, NEW b \in Agents, ChildReturns(a, b) PROVE Takes'
  <2>1. current = b /\ pc[b] = "returned" /\ pc[a] = "child"
    BY <1>8 DEF ChildReturns
  <2>2. status[Root] = "waiting"
    BY <1>8, <1>r, <2>1
  <2>3. status[a] = "running"
    BY <1>t, <2>1 DEF TreeOK
  <2>4. status'[Root] = status[Root]
    BY <1>8, <1>t, <2>2, <2>3 DEF ChildReturns
  <2> QED
    BY <2>2, <2>4
<1>9. ASSUME Takes, NEW b \in Agents, RequestEnds(b) PROVE Takes'
  <2>1. current = b /\ pc[b] = "returned" /\ status' = status
    BY <1>9 DEF RequestEnds
  <2> QED
    BY <1>9, <1>r, <2>1
<1>10. ASSUME Takes, NEW b \in Agents, PropagateChildResult(b) PROVE Takes'
  <2>1. PICK p \in Agents : p = parent[b]
    BY <1>10, <1>t DEF PropagateChildResult, Propagates
  <2>2. /\ current = b /\ pc[b] = "returned" /\ delivering
        /\ \/ status' = [status EXCEPT ![p] = "waiting"]
           \/ /\ status' = [status EXCEPT ![p] = "pending"]
              /\ pc' = [pc EXCEPT ![b] = "idle", ![p] = "start"] /\ delivering' = delivering
    BY <1>10, <2>1 DEF PropagateChildResult, Propagates
  <2>3. status[Root] = "waiting"
    BY <1>10, <1>r, <2>2
  <2>4. CASE p = Root
    BY <1>t, <2>2, <2>4
  <2>5. CASE p # Root
    BY <1>t, <2>2, <2>3, <2>5
  <2> QED
    BY <2>4, <2>5
<1> HIDE DEF Soon, Takes
<1>11. ASSUME queued' = queued, Takes, MaxTurns > 0, \A a \in Agents : ConsumeQueue(a) => a # Root, ~Enqueue
       PROVE  Takes'
  BY <1>1, <1>2, <1>3, <1>4, <1>5, <1>6, <1>7, <1>8, <1>9, <1>10, <1>11 DEF Next, Step, LocalStep
<1> QED
  BY <1>e, <1>q, <1>m, <1>11

(* A call that is in the log is in the transcript. *)
LEMMA IssuedItem ==
  ASSUME ItemsTyped, LogsKept, NEW a \in Agents, NEW c \in Issued(a)
  PROVE  \E i \in DOMAIN items[a] : items[a][i].kind = "call" /\ items[a][i].call = c
<1>1. items[a] \in Seq(ItemSet) /\ LogOf(items[a]) = log[a]
  BY DEF ItemsTyped, LogsKept
<1> QED
  BY <1>1, LoggedRow DEF Issued

(* An agent without a row has no open call. *)
LEMMA AbsentIsEmpty ==
  ASSUME ItemsTyped, LogsKept, TasksOK, NEW b \in Agents \ {Root}, status[b] = "absent"
  PROVE  Open(b) = {}
<1>1. items[b] = <<>>
  BY DEF TasksOK
<1>2. DOMAIN items[b] = {}
  BY <1>1
<1>3. Issued(b) = {}
  BY <1>2, IssuedItem
<1> QED
  BY <1>3 DEF Open

(* Only an agent that was delegated to gets items. *)
LEMMA StoresTasks ==
  ASSUME Core, ItemsTyped, LogsKept, TasksOK, NEW a \in Agents, NEW new \in Seq(NewRows), Stores(a, new)
  PROVE  TasksOK'
<1>0. Store(a, new) /\ [Next]_vars /\ TypeOK /\ TreeOK
  BY DEF Stores, Core
<1>1. ASSUME NEW b \in Agents \ {Root}, status'[b] = "absent" PROVE items'[b] = <<>>
  <2>1. status[b] = "absent"
    BY <1>0, <1>1, RowsStep
  <2>2. items[b] = <<>>
    BY <2>1 DEF TasksOK
  <2>3. a = b => new = <<>>
    <3> SUFFICES ASSUME a = b PROVE new = <<>>
      OBVIOUS
    <3>1. Open(b) = {}
      BY <2>1, AbsentIsEmpty
    <3>2. \A cs \in Batches : ~StoreCalls(a, cs)
      BY <1>0, <2>1 DEF StoreCalls, TreeOK
    <3>3. new \in Words
      BY <3>1, <3>2 DEF Stores, Storing
    <3>4. new # <<User>> /\ new # <<Text>>
      BY <1>1, <2>1 DEF Stores
    <3> QED
      BY <3>3, <3>4 DEF Words
  <2>4. Len(items'[b]) = Len(items[b]) + Len(Own(b, a, new)) + Len(Taken(b, queued' < queued))
    BY <1>0, StorePlaces
  <2>5. Own(b, a, new) = <<>> /\ Taken(b, queued' < queued) = <<>>
    BY <2>3 DEF Own, Taken
  <2>6. Len(items'[b]) = 0 /\ items'[b] \in Seq(ItemSet)
    <3>1. Len(<<>>) = 0
      OBVIOUS
    <3>2. Len(items'[b]) = 0
      BY <2>2, <2>4, <2>5, <3>1
    <3> QED
      BY <1>0, <3>2, StorePlaces
  <2> QED
    BY <2>6, EmptySeq
<1>2. ASSUME NEW b \in Agents \ {Root}, status'[b] # "absent" PROVE parent'[b] # None
  <2>1. CASE status[b] # "absent"
    BY <1>0, <2>1, RowsStep DEF TasksOK
  <2>2. ASSUME NEW x \in Agents, Delegate(x, b) PROVE parent'[b] # None
    BY <1>0, <2>2, RunnerAssumption DEF Delegate, TypeOK
  <2> QED
    BY <1>0, <1>2, <2>1, <2>2, RowsStep
<1> QED
  BY <1>1, <1>2 DEF TasksOK

(* A child gets its task as its first item, after the call that creates    *)
(* it.                                                                     *)
LEMMA StoresChildren ==
  ASSUME Core, ItemsTyped, LogsKept, StampsOK, TasksOK, AgentsHaveTasks,
         NEW a \in Agents, NEW new \in Seq(NewRows), Stores(a, new)
  PROVE  AgentsHaveTasks'
<1>0. Store(a, new) /\ [Next]_vars /\ TypeOK /\ CallsOK
  BY DEF Stores, Core
<1>1. ASSUME NEW x \in Agents
      PROVE  /\ \A i \in DOMAIN items[x] : i \in DOMAIN items'[x] /\ items'[x][i] = items[x][i]
             /\ DOMAIN items[x] = 1..Len(items[x]) /\ Len(items[x]) \in Nat
             /\ DOMAIN items'[x] = 1..Len(items'[x]) /\ Len(items'[x]) \in Nat
             /\ items'[x] \in Seq(ItemSet) /\ items[x] \in Seq(ItemSet)
  BY <1>0, StorePlaces
<1> SUFFICES ASSUME NEW b \in Agents \ {Root}, status'[b] # "absent"
             PROVE  /\ items'[b] # <<>> /\ items'[b][1].kind = "user"
                    /\ \E i \in DOMAIN items'[parent'[b]] :
                         /\ items'[parent'[b]][i].kind = "call" /\ items'[parent'[b]][i].call = source'[b]
                         /\ items'[parent'[b]][i].at < items'[b][1].at
  BY DEF AgentsHaveTasks
<1>2. CASE status[b] # "absent"
  <2>1. parent'[b] = parent[b] /\ source'[b] = source[b] /\ parent[b] \in Agents
    BY <1>0, <1>2, RowsStep DEF TasksOK, TypeOK
  <2>2. /\ items[b] # <<>> /\ items[b][1].kind = "user"
        /\ \E i \in DOMAIN items[parent[b]] :
             /\ items[parent[b]][i].kind = "call" /\ items[parent[b]][i].call = source[b]
             /\ items[parent[b]][i].at < items[b][1].at
    BY <1>2 DEF AgentsHaveTasks
  <2>3. 1 \in DOMAIN items[b]
    <3>1. Len(items[b]) # 0
      BY <1>1, <2>2, EmptySeq
    <3> QED
      BY <1>1, <3>1
  <2>4. 1 \in DOMAIN items'[b] /\ items'[b][1] = items[b][1]
    BY <1>1, <2>3
  <2>5. items'[b] # <<>>
    BY <2>4
  <2> QED
    BY <1>1, <2>1, <2>2, <2>4, <2>5
<1>3. ASSUME NEW p \in Agents, Delegate(p, b)
      PROVE  /\ items'[b] # <<>> /\ items'[b][1].kind = "user"
             /\ \E i \in DOMAIN items'[parent'[b]] :
                  /\ items'[parent'[b]][i].kind = "call" /\ items'[parent'[b]][i].call = source'[b]
                  /\ items'[parent'[b]][i].at < items'[b][1].at
  <2>1. /\ parent'[b] = p /\ source'[b] = Head(todo[p]) /\ todo[p] # <<>> /\ log' = log
        /\ queued' = queued /\ status[b] = "absent" /\ p # b
    BY <1>0, <1>3 DEF Delegate, AtCall, TypeOK, Core, TreeOK
  <2>2. Head(todo[p]) \in Pending(p)
    <3>1. todo[p] \in Seq(Calls) /\ todo[p] # <<>>
      BY <1>0, <2>1 DEF TypeOK
    <3>2. 1 \in DOMAIN todo[p] /\ todo[p][1] = Head(todo[p])
      BY <3>1
    <3> QED
      BY <3>2 DEF Pending
  <2>3. Head(todo[p]) \in Issued(p)
    BY <1>0, <2>2 DEF CallsOK, Open
  <2>4. PICK i \in DOMAIN items[p] : items[p][i].kind = "call" /\ items[p][i].call = Head(todo[p])
    BY <2>3, IssuedItem
  <2>5. i \in DOMAIN items'[p] /\ items'[p][i] = items[p][i] /\ items[p][i].at \in 1..clock
    BY <1>1 DEF StampsOK
  <2>6. items[b] = <<>>
    BY <2>1 DEF TasksOK
  <2>t. status'[b] # "absent" /\ b \in Agents \ {Root}
    OBVIOUS
  <2>7. a = b /\ new = <<User>>
    BY <1>3, <2>1, <2>t DEF Stores
  <2>8. /\ items'[b] # <<>> /\ items'[b][1].kind = "user" /\ items'[b][1].at = clock + 1
    <3>1. Len(<<>>) = 0 /\ Len(<<User>>) = 1 /\ <<User>>[1] = User
      OBVIOUS
    <3>2. Len(items'[b]) = 1
      <4>1. Len(items'[b]) = Len(items[b]) + Len(Own(b, a, new)) + Len(Taken(b, queued' < queued))
        BY <1>0, StorePlaces
      <4>2. Own(b, a, new) = <<User>> /\ Taken(b, queued' < queued) = <<>>
        BY <2>7 DEF Own, Taken
      <4> QED
        BY <2>6, <3>1, <4>1, <4>2
    <3>3. 1 \in DOMAIN items'[b]
      BY <1>1, <3>2
    <3>4. ~Old(b, 1) /\ \A j \in 1..Len(pending) : ~Queued(b, a, new, 1, j)
      <4>1. ~(1 \in 1..Len(<<>>))
        BY <3>1
      <4> QED
        BY <2>6, <4>1 DEF Old, Queued
    <3>5. PICK j \in 1..Len(new) : New(b, a, new, 1, j)
      BY <1>0, <3>3, <3>4, StorePlaces
    <3>6. j = 1 /\ new[1] = User
      BY <2>7, <3>1
    <3>7. items'[b][1].at = clock + j /\ items'[b][1].kind = new[j].kind
      BY <3>5, PlaceStamps
    <3> QED
      BY <3>3, <3>6, <3>7 DEF User
  <2>9. clock \in Nat
    BY DEF ItemsTyped
  <2>10. items'[p][i].at < items'[b][1].at
    BY <2>5, <2>8, <2>9
  <2> QED
    BY <2>1, <2>4, <2>5, <2>8, <2>10
<1> QED
  BY <1>0, <1>2, <1>3, RowsStep

(* What an agent minds is in its transcript, after the last rewind. *)
LEMMA StoresRecent ==
  ASSUME Core, ItemsTyped, LogsKept, RecentOK, NEW a \in Agents, NEW new \in Seq(NewRows),
         Stores(a, new)
  PROVE  RecentOK'
<1>0. Store(a, new) /\ [Next]_vars /\ TypeOK /\ CallsOK /\ Storing(a, new)
  BY DEF Stores, Core
<1>1. LogsKept' /\ rewound' = rewound /\ rewound \in 0..clock /\ clock \in Nat /\ Len(new) \in Nat
  BY <1>0, StoreLogs, StoresClock DEF ItemsTyped
<1> SUFFICES ASSUME NEW x \in Agents, NEW c \in Minded(x)' PROVE Recent(items'[x], c, rewound)
  BY <1>1 DEF RecentOK, Minded
<1>2. /\ \A i \in DOMAIN items[x] : i \in DOMAIN items'[x] /\ items'[x][i] = items[x][i]
      /\ DOMAIN items[x] = 1..Len(items[x])
      /\ items[x] \in Seq(ItemSet) /\ items'[x] \in Seq(ItemSet)
  BY <1>0, StorePlaces
<1>3. CASE c \in Minded(x)
  <2>1. Recent(items[x], c, rewound)
    BY <1>3 DEF RecentOK, Minded
  <2> QED
    BY <1>2, <2>1 DEF Recent
<1>4. ASSUME NEW cs \in Batches, StoreCalls(x, cs), NEW k \in DOMAIN cs, cs[k] = c
      PROVE  Recent(items'[x], c, rewound)
  <2>1. c \in Issued(x)' /\ c \notin Issued(x) /\ c \in Calls
    BY <1>0, <1>4, CallsLog, BatchType DEF FreshCalls
  <2>2. PICK i \in DOMAIN items'[x] : items'[x][i].kind = "call" /\ items'[x][i].call = c
    <3>1. \E m \in DOMAIN LogOf(items'[x]) : LogOf(items'[x])[m] = CallItem(c)
      BY <1>1, <2>1 DEF LogsKept, Issued
    <3> QED
      BY <1>2, <3>1, LoggedRow
  <2>3. ~Old(x, i)
    <3> SUFFICES ASSUME Old(x, i) PROVE FALSE
      OBVIOUS
    <3>1. i \in DOMAIN items[x] /\ items[x][i].kind = "call" /\ items[x][i].call = c
      BY <1>2, <2>2 DEF Old
    <3>2. \E l \in DOMAIN items[x] : items[x][l].kind = "call" /\ items[x][l].call = c
      BY <3>1
    <3>3. \E m \in DOMAIN LogOf(items[x]) : LogOf(items[x])[m] = CallItem(c)
      <4>1. PICK s \in Seq(ItemSet) : s = items[x]
        BY <1>2
      <4>2. \E m \in DOMAIN LogOf(s) : LogOf(s)[m] = CallItem(c)
        <5>1. (\E m \in DOMAIN LogOf(s) : LogOf(s)[m] = CallItem(c)) <=>
                (\E l \in DOMAIN s : s[l].kind = "call" /\ s[l].call = c)
          BY LoggedRow
        <5> QED
          BY <3>2, <4>1, <5>1
      <4> QED
        BY <4>1, <4>2
    <3> QED
      BY <2>1, <3>3 DEF LogsKept, Issued
  <2>4. \A j \in 1..Len(pending) : ~Queued(x, a, new, i, j)
    BY <2>2, PlaceStamps
  <2>5. PICK j \in 1..Len(new) : New(x, a, new, i, j)
    BY <1>0, <2>3, <2>4, StorePlaces
  <2>6. items'[x][i].at = clock + j
    BY <2>5, PlaceStamps
  <2>7. items'[x][i].at > rewound
    BY <1>1, <2>6
  <2> QED
    BY <2>2, <2>7 DEF Recent
<1>5. Mindful(x)
  BY <1>0, MindedStep
<1> QED
  BY <1>3, <1>4, <1>5 DEF Mindful

(* The next items are not known to the request that is served. *)
LEMMA StoresRequest ==
  ASSUME ItemsTyped, TypeOK, RequestOK, request' = request, NEW a \in Agents,
         NEW new \in Seq(NewRows), Stores(a, new)
  PROVE  RequestOK'
<1>0. Store(a, new)
  BY DEF Stores
<1>1. clock \in Nat /\ clock' = clock + Len(new) /\ Len(new) \in Nat
  BY StoresClock
<1>2. request.since \in 0..clock' /\ request.known \in SUBSET (1..request.since)
  BY <1>1 DEF RequestOK
<1>3. ASSUME NEW x \in Agents, NEW i \in DOMAIN items'[x], items'[x][i].kind # "user"
      PROVE  \/ i \in DOMAIN items[x] /\ items'[x][i] = items[x][i]
             \/ i > Len(items[x]) /\ items'[x][i].at > clock
  <2>1. \A j \in 1..Len(pending) : ~Queued(x, a, new, i, j)
    BY <1>3, PlaceStamps
  <2>2. CASE Old(x, i)
    BY <1>0, <2>2, StorePlaces DEF Old
  <2>3. ASSUME NEW j \in 1..Len(new), New(x, a, new, i, j)
        PROVE  i > Len(items[x]) /\ items'[x][i].at > clock
    <3>1. items'[x][i].at = clock + j
      BY <2>3, PlaceStamps
    <3>2. i = Len(items[x]) + j /\ Len(items[x]) \in Nat
      BY <1>0, <2>3, StorePlaces DEF New
    <3> QED
      BY <1>1, <3>1, <3>2
  <2> QED
    BY <1>0, <2>1, <2>2, <2>3, StorePlaces
<1>4. ASSUME NEW x \in Agents, NEW i \in DOMAIN items'[x], items'[x][i].kind # "user"
      PROVE  items'[x][i].at \in request.known <=> items'[x][i].at <= request.since
  <2>1. CASE i \in DOMAIN items[x] /\ items'[x][i] = items[x][i]
    BY <1>4, <2>1 DEF RequestOK
  <2>2. CASE items'[x][i].at > clock
    <3>1. items'[x][i].at \notin request.known
      BY <1>1, <1>2, <2>2 DEF RequestOK
    <3>2. ~(items'[x][i].at <= request.since)
      <4>1. items'[x][i].at \in Nat
        <5>1. items'[x] \in Seq(ItemSet)
          BY <1>0, StorePlaces
        <5>2. items'[x][i] \in ItemSet
          BY <5>1
        <5> QED
          BY <5>2 DEF ItemSet
      <4>2. request.since <= clock /\ request.since \in Nat
        BY <1>1 DEF RequestOK
      <4> QED
        BY <1>1, <2>2, <4>1, <4>2
    <3> QED
      BY <3>1, <3>2
  <2> QED
    BY <1>3, <1>4, <2>1, <2>2
<1>5. ASSUME request.agent # None
      PROVE  /\ request.last <= Len(items'[request.agent])
             /\ \A i \in DOMAIN items'[request.agent] :
                  items'[request.agent][i].kind # "user" =>
                    (i <= request.last <=> items'[request.agent][i].at <= request.since)
  <2>1. PICK x \in Agents : x = request.agent
    BY <1>5 DEF RequestOK
  <2>2. /\ request.last \in Nat /\ request.last <= Len(items[x])
        /\ request.since \in Nat /\ request.since <= clock
        /\ \A i \in DOMAIN items[x] :
             items[x][i].kind # "user" => (i <= request.last <=> items[x][i].at <= request.since)
    BY <1>1, <1>5, <2>1 DEF RequestOK
  <2>3. /\ Len(items'[x]) = Len(items[x]) + Len(Own(x, a, new)) + Len(Taken(x, queued' < queued))
        /\ Len(items[x]) \in Nat /\ DOMAIN items'[x] = 1..Len(items'[x]) /\ items'[x] \in Seq(ItemSet)
    BY <1>0, StorePlaces
  <2>4. Len(Own(x, a, new)) \in Nat /\ Len(Taken(x, queued' < queued)) \in Nat
    BY <1>1, StoresClock DEF Own, Taken
  <2>5. request.last <= Len(items'[x])
    <3>1. PICK u \in Nat : u = Len(Own(x, a, new))
      BY <2>4
    <3>2. PICK v \in Nat : v = Len(Taken(x, queued' < queued))
      BY <2>4
    <3>3. PICK n \in Nat : n = Len(items[x])
      BY <2>3
    <3>4. Len(items'[x]) = n + u + v
      BY <2>3, <3>1, <3>2, <3>3
    <3> QED
      BY <2>2, <3>3, <3>4
  <2>6. ASSUME NEW i \in DOMAIN items'[x], items'[x][i].kind # "user"
        PROVE  i <= request.last <=> items'[x][i].at <= request.since
    <3>1. i \in Nat /\ items'[x][i].at \in Nat
      <4>1. PICK s \in Seq(ItemSet) : s = items'[x]
        BY <2>3
      <4>2. items'[x][i] \in ItemSet
        BY <2>6, <4>1
      <4> QED
        BY <2>3, <2>6, <4>2 DEF ItemSet
    <3>2. CASE i \in DOMAIN items[x] /\ items'[x][i] = items[x][i]
      BY <2>2, <2>6, <3>2
    <3>3. CASE i > Len(items[x]) /\ items'[x][i].at > clock
      BY <1>1, <2>2, <2>3, <3>1, <3>3
    <3> QED
      BY <1>3, <2>6, <3>2, <3>3
  <2> QED
    BY <2>1, <2>5, <2>6
<1>6. request.agent \in Agents \union {None} /\ request.last \in Nat
  BY DEF RequestOK
<1> QED
  BY <1>2, <1>4, <1>5, <1>6 DEF RequestOK

(* A new request knows everything that is there. *)
LEMMA ServedRequest ==
  ASSUME ItemsTyped, StampsOK, NEW x \in Agents, Serve(x, Len(items[x]), Stamps),
         NEW a \in Agents, NEW new \in Seq(NewRows), TypeOK, Stores(a, new)
  PROVE  RequestOK'
<1>0. Store(a, new)
  BY DEF Stores
<1>1. clock \in Nat /\ clock' = clock + Len(new) /\ Len(new) \in Nat
  BY StoresClock
<1>2. PICK r : r = request'
  OBVIOUS
<1>3. r.agent = x /\ r.last = Len(items[x]) /\ r.known = Stamps /\ r.since = clock
  BY <1>2 DEF Serve
<1>4. \A y \in Agents : \A i \in DOMAIN items[y] : items[y][i].at \in Stamps /\ items[y][i].at \in 1..clock
  BY DEF Stamps, StampsOf, StampsOK
<1>5. Stamps \in SUBSET (1..clock)
  BY DEF Stamps, StampsOf, StampsOK
<1>6. ASSUME NEW y \in Agents, NEW i \in DOMAIN items'[y], items'[y][i].kind # "user"
      PROVE  \/ i \in DOMAIN items[y] /\ items'[y][i] = items[y][i]
             \/ i > Len(items[y]) /\ items'[y][i].at \in Nat /\ items'[y][i].at > clock
  <2>1. \A j \in 1..Len(pending) : ~Queued(y, a, new, i, j)
    BY <1>6, PlaceStamps
  <2>2. CASE Old(y, i)
    BY <1>0, <2>2, StorePlaces DEF Old
  <2>3. ASSUME NEW j \in 1..Len(new), New(y, a, new, i, j)
        PROVE  i > Len(items[y]) /\ items'[y][i].at \in Nat /\ items'[y][i].at > clock
    <3>1. items'[y][i].at = clock + j
      BY <2>3, PlaceStamps
    <3>2. i = Len(items[y]) + j /\ Len(items[y]) \in Nat
      BY <1>0, <2>3, StorePlaces DEF New
    <3> QED
      BY <1>1, <3>1, <3>2
  <2> QED
    BY <1>0, <2>1, <2>2, <2>3, StorePlaces
<1>7. ASSUME NEW y \in Agents, NEW i \in DOMAIN items'[y], items'[y][i].kind # "user"
      PROVE  items'[y][i].at \in Stamps <=> items'[y][i].at <= clock
  <2>1. CASE i \in DOMAIN items[y] /\ items'[y][i] = items[y][i]
    BY <1>1, <1>4, <2>1
  <2>2. CASE items'[y][i].at \in Nat /\ items'[y][i].at > clock
    BY <1>1, <1>5, <2>2
  <2> QED
    BY <1>6, <1>7, <2>1, <2>2
<1>8. /\ Len(items'[x]) = Len(items[x]) + Len(Own(x, a, new)) + Len(Taken(x, queued' < queued))
      /\ Len(items[x]) \in Nat /\ DOMAIN items[x] = 1..Len(items[x])
  BY <1>0, StorePlaces
<1>9. Len(Own(x, a, new)) \in Nat /\ Len(Taken(x, queued' < queued)) \in Nat
  BY <1>1, StoresClock DEF Own, Taken
<1>10. Len(items[x]) <= Len(items'[x])
  <2>1. PICK u \in Nat : u = Len(Own(x, a, new))
    BY <1>9
  <2>2. PICK v \in Nat : v = Len(Taken(x, queued' < queued))
    BY <1>9
  <2>3. PICK n \in Nat : n = Len(items[x])
    BY <1>8
  <2>4. Len(items'[x]) = n + u + v
    BY <1>8, <2>1, <2>2, <2>3
  <2> QED
    BY <2>3, <2>4
<1>11. ASSUME NEW i \in DOMAIN items'[x], items'[x][i].kind # "user"
       PROVE  i <= Len(items[x]) <=> items'[x][i].at <= clock
  <2>1. CASE i \in DOMAIN items[x] /\ items'[x][i] = items[x][i]
    BY <1>1, <1>4, <1>8, <2>1
  <2>2. CASE i > Len(items[x]) /\ items'[x][i].at \in Nat /\ items'[x][i].at > clock
    <3>1. DOMAIN items'[x] = 1..Len(items'[x]) /\ items'[x] \in Seq(ItemSet)
      BY <1>0, StorePlaces
    <3>2. i \in Nat
      BY <3>1
    <3> QED
      BY <1>1, <1>8, <2>2, <3>2
  <2> QED
    BY <1>6, <1>11, <2>1, <2>2
<1>12. clock \in 0..clock'
  BY <1>1
<1> QED
  BY <1>2, <1>3, <1>5, <1>7, <1>8, <1>10, <1>11, <1>12 DEF RequestOK

-------------------------------------------------------------------------------
(* The steps that store.                                                   *)

(* The runner's own invariant, as Runner_proofs has it.                    *)
LEMMA RunnerStep ==
  ASSUME RunnerInv, [Next]_vars
  PROVE  RunnerInv'
<1>1. Core /\ SourcesOK /\ SignalOK /\ ReturnedOK /\ Chain
  BY DEF RunnerInv
<1>2. Core'
  BY <1>1, CoreStep
<1>3. SourcesOK'
  BY <1>1, SourcesStep
<1>4. SignalOK'
  BY <1>1, SignalStep
<1>5. ReturnedOK'
  BY <1>1, ReturnedStep
<1>6. Chain'
  BY <1>1, ChainStep
<1> QED
  BY <1>2, <1>3, <1>4, <1>5, <1>6 DEF RunnerInv

(* Nobody ever delegates to the root. *)
LEMMA RootStep ==
  ASSUME RootOK, [Next]_vars
  PROVE  RootOK'
<1>1. ASSUME NEW a \in Agents, NEW b \in Agents, Delegate(a, b) PROVE parent'[Root] = parent[Root]
  BY <1>1 DEF Delegate
<1>2. ASSUME StartChat \/ Enqueue \/ Cancel \/ UNCHANGED vars PROVE parent' = parent
  BY <1>2 DEF vars, agentVars, StartChat, Enqueue, Cancel
<1>3. ASSUME NEW a \in Agents, NEW e \in waiting[a], Deliver(a, e) PROVE parent' = parent
  BY <1>3 DEF agentVars, Deliver
<1>4. ASSUME NEW a \in Agents,
             \/ StartRun(a) \/ StopBeforeTurn(a) \/ ExecuteTurn(a) \/ GenerateFails(a)
             \/ FinalAnswer(a) \/ \E cs \in Batches : StoreCalls(a, cs)
      PROVE  parent' = parent
  <2>1. ASSUME StartRun(a) \/ StopBeforeTurn(a) \/ ExecuteTurn(a) PROVE parent' = parent
    BY <2>1 DEF agentVars, StartRun, StopBeforeTurn, ExecuteTurn, CancelRun, FailRun, Return, Goto
  <2>2. ASSUME GenerateFails(a) \/ FinalAnswer(a) PROVE parent' = parent
    BY <2>2 DEF agentVars, GenerateFails, FinalAnswer, CancelRun, FailRun, Return, ContinueRun
  <2>3. ASSUME NEW cs \in Batches, StoreCalls(a, cs) PROVE parent' = parent
    BY <2>3 DEF agentVars, StoreCalls
  <2> QED
    BY <1>4, <2>1, <2>2, <2>3
<1>5. ASSUME NEW a \in Agents,
             \/ CancelAtCall(a) \/ RejectCall(a) \/ AwaitTool(a) \/ AskHuman(a)
             \/ SyncToolReturns(a) \/ McpToolReturns(a) \/ EndTurn(a)
      PROVE  parent' = parent
  BY <1>5 DEF agentVars, CancelAtCall, RejectCall, AwaitTool, AskHuman, SyncToolReturns, McpToolReturns,
     EndTurn, CancelRun, Return, Goto, ContinueRun
<1>6. ASSUME NEW a \in Agents, NEW b \in Agents, ChildReturns(a, b) \/ RequestEnds(a) \/ PropagateChildResult(a)
      PROVE  parent' = parent
  BY <1>6 DEF agentVars, ChildReturns, RequestEnds, PropagateChildResult, CancelRun, Return
<1> QED
  BY <1>1, <1>2, <1>3, <1>4, <1>5, <1>6 DEF RootOK, Next, Step

(* A step that stores keeps the invariant. *)
LEMMA StoresStep ==
  ASSUME TInv, NEW a \in Agents, NEW new \in Seq(NewRows), Stores(a, new), RequestOK'
  PROVE  TInv'
<1>1. /\ RunnerInv /\ Core /\ SignalOK /\ TypeOK
      /\ ItemsTyped /\ LogsKept /\ StampsOK /\ OrderOK /\ PendingOK
      /\ TurnsOK /\ QueueOK /\ TasksOK /\ RootOK /\ AgentsHaveTasks /\ RecentOK
  BY DEF TInv, RunnerInv, Core
<1>2. [Next]_vars /\ Store(a, new) /\ Storing(a, new)
  BY DEF Stores
<1>3. RunnerInv'
  BY <1>1, <1>2, RunnerStep
<1>4. ItemsTyped'
  BY <1>1, StoresTyped
<1>5. LogsKept'
  BY <1>1, <1>2, StoreLogs
<1>6. StampsOK' /\ OrderOK' /\ PendingOK'
  BY <1>1, StoresStamps, StoresOrder, StoresPending
<1>7. TurnsOK'
  BY <1>1, <1>2, TurnsStep
<1>8. QueueOK'
  BY <1>1, <1>2, QueueStep
<1>9. TasksOK' /\ AgentsHaveTasks'
  BY <1>1, StoresTasks, StoresChildren
<1>10. RecentOK'
  BY <1>1, StoresRecent
<1>11. RootOK'
  BY <1>1, <1>2, RootStep
<1> QED
  BY <1>3, <1>4, <1>5, <1>6, <1>7, <1>8, <1>9, <1>10, <1>11 DEF TInv

(* So do the steps of a run, *)
LEMMA RunKeeps ==
  ASSUME TInv, NEW a \in Agents, RunStep(a)
  PROVE  TInv'
<1>1. Core /\ TypeOK /\ ItemsTyped /\ RequestOK
  BY DEF TInv, RunnerInv, Core
<1>2. request' = request
  BY DEF RunStep
<1>3. PICK x \in Agents, new \in Seq(NewRows) : Stores(x, new)
  BY <1>1, RunStores
<1>4. RequestOK'
  BY <1>1, <1>2, <1>3, StoresRequest
<1> QED
  BY <1>3, <1>4, StoresStep

(* and the start of a request. *)
LEMMA RequestKeeps ==
  ASSUME TInv, Submit \/ \E b \in Agents : \E e \in waiting[b] : DeliverResult(b, e)
  PROVE  TInv'
<1>1. Core /\ TypeOK /\ SignalOK /\ QueueOK /\ queued \in Nat /\ ItemsTyped /\ StampsOK
  BY DEF TInv, RunnerInv, Core, TypeOK
<1>2. PICK y \in Agents : Serve(y, Len(items[y]), Stamps)
  BY RunnerAssumption DEF Submit, DeliverResult, Addressees
<1>3. PICK x \in Agents, new \in Seq(NewRows) : Stores(x, new)
  BY <1>1, RequestStores
<1>4. RequestOK'
  BY <1>1, <1>2, <1>3, ServedRequest
<1> QED
  BY <1>3, <1>4, StoresStep


-------------------------------------------------------------------------------
(* A message is queued, a run is cancelled, nothing happens.               *)

(* What depends on the agents and their items only. *)
LEMMA SameAgents ==
  ASSUME TInv, UNCHANGED <<agentVars, log, todo, waits, items, rewound>>
  PROVE  LogsKept' /\ OrderOK' /\ TasksOK' /\ RootOK' /\ AgentsHaveTasks' /\ RecentOK'
<1> USE DEF agentVars
<1>1. LogsKept /\ OrderOK /\ TasksOK /\ RootOK /\ AgentsHaveTasks /\ RecentOK
  BY DEF TInv
<1>2. LogsKept'
  BY <1>1 DEF LogsKept, LogOf
<1>3. OrderOK'
  BY <1>1 DEF OrderOK
<1>4. TasksOK'
  BY <1>1 DEF TasksOK
<1>7. RootOK'
  BY <1>1 DEF RootOK
<1>5. AgentsHaveTasks'
  BY <1>1 DEF AgentsHaveTasks
<1>6. RecentOK'
  BY <1>1 DEF RecentOK, Recent, Pending, WaitCalls
<1> QED
  BY <1>2, <1>3, <1>4, <1>5, <1>6, <1>7

(* A cancel keeps the invariant. *)
LEMMA CancelKeeps ==
  ASSUME TInv, CancelRequest
  PROVE  TInv'
<1>1. /\ Cancel /\ UNCHANGED <<agentVars, log, queued, todo, waits>>
      /\ UNCHANGED <<items, clock, pending, request, loose, gone, rewound>>
  BY DEF CancelRequest, Cancel, itemVars, runVars
<1>2. Next /\ RunnerInv /\ Core /\ SignalOK /\ TurnsOK /\ QueueOK
  BY <1>1 DEF Next, TInv, RunnerInv
<1>3. RunnerInv' /\ TurnsOK' /\ QueueOK'
  BY <1>2, RunnerStep, TurnsStep, QueueStep
<1>4. ItemsTyped' /\ StampsOK' /\ PendingOK' /\ RequestOK'
  <2>1. ItemsTyped'
    BY <1>1 DEF TInv, ItemsTyped
  <2>2. StampsOK'
    BY <1>1 DEF TInv, StampsOK, ToSet
  <2>3. PendingOK'
    BY <1>1 DEF TInv, PendingOK
  <2>4. RequestOK'
    BY <1>1 DEF TInv, RequestOK
  <2> QED
    BY <2>1, <2>2, <2>3, <2>4
<1>5. LogsKept' /\ OrderOK' /\ TasksOK' /\ RootOK' /\ AgentsHaveTasks' /\ RecentOK'
  BY <1>1, SameAgents
<1> QED
  BY <1>3, <1>4, <1>5 DEF TInv

(* A step that changes nothing keeps it. *)
LEMMA StutterKeeps ==
  ASSUME TInv, UNCHANGED transcriptVars
  PROVE  TInv'
<1>1. /\ UNCHANGED vars /\ UNCHANGED <<agentVars, log, queued, todo, waits>>
      /\ UNCHANGED <<items, clock, pending, request, loose, gone, rewound>>
  BY DEF transcriptVars, itemVars, vars, runVars
<1>2. RunnerInv /\ Core /\ SignalOK /\ TurnsOK /\ QueueOK
  BY <1>1 DEF TInv, RunnerInv
<1>3. RunnerInv' /\ TurnsOK' /\ QueueOK'
  BY <1>1, <1>2, RunnerStep, TurnsStep, QueueStep
<1>4. ItemsTyped' /\ StampsOK' /\ PendingOK' /\ RequestOK'
  <2>1. ItemsTyped'
    BY <1>1 DEF TInv, ItemsTyped
  <2>2. StampsOK'
    BY <1>1 DEF TInv, StampsOK, ToSet
  <2>3. PendingOK'
    BY <1>1 DEF TInv, PendingOK
  <2>4. RequestOK'
    BY <1>1 DEF TInv, RequestOK
  <2> QED
    BY <2>1, <2>2, <2>3, <2>4
<1>5. LogsKept' /\ OrderOK' /\ TasksOK' /\ RootOK' /\ AgentsHaveTasks' /\ RecentOK'
  BY <1>1, SameAgents
<1> QED
  BY <1>3, <1>4, <1>5 DEF TInv

(* A queued message keeps it. *)
LEMMA QueueKeeps ==
  ASSUME TInv, QueueInput
  PROVE  TInv'
<1>1. /\ Enqueue /\ UNCHANGED <<agentVars, log, todo, waits>> /\ queued' = queued + 1
      /\ UNCHANGED <<items, request, loose, gone, rewound>>
      /\ clock' = clock + 1 /\ pending' = Append(pending, clock + 1)
  BY DEF QueueInput, Enqueue, runVars
<1>2. /\ Next /\ RunnerInv /\ Core /\ SignalOK /\ TurnsOK /\ QueueOK
      /\ ItemsTyped /\ StampsOK /\ PendingOK /\ RequestOK
  BY <1>1 DEF Next, TInv, RunnerInv
<1>3. RunnerInv' /\ TurnsOK' /\ QueueOK'
  BY <1>2, RunnerStep, TurnsStep, QueueStep
<1>4. /\ clock \in Nat /\ clock + 1 \in Nat /\ pending \in Seq(1..clock) /\ Len(pending) = queued
      /\ rewound \in 0..clock /\ rewound \in 0..(clock + 1) /\ Len(pending) \in Nat
  BY <1>2 DEF ItemsTyped
<1>5. PICK q \in Seq(1..(clock + 1)) : q = pending
  <2>1. 1..clock \subseteq 1..(clock + 1)
    BY <1>4
  <2> QED
    BY <1>4, <2>1, SeqMonotonic
<1>6. /\ pending' \in Seq(1..(clock + 1)) /\ Len(pending') = Len(pending) + 1
      /\ \A j \in 1..Len(pending') :
           pending'[j] = IF j <= Len(pending) THEN pending[j] ELSE clock + 1
  <2>1. PICK z \in 1..(clock + 1) : z = clock + 1
    BY <1>4
  <2>2. /\ Append(q, z) \in Seq(1..(clock + 1)) /\ Len(Append(q, z)) = Len(q) + 1
        /\ \A j \in 1..Len(q) + 1 : Append(q, z)[j] = IF j <= Len(q) THEN q[j] ELSE z
    OBVIOUS
  <2> QED
    BY <1>1, <1>5, <2>1, <2>2
<1>7. ItemsTyped'
  BY <1>1, <1>2, <1>4, <1>6 DEF ItemsTyped
<1>8. /\ DOMAIN pending = 1..Len(pending) /\ DOMAIN pending' = 1..Len(pending')
      /\ \A j \in 1..Len(pending) : pending[j] \in 1..clock
  BY <1>4, <1>6
<1>9. StampsOK'
  <2>1. ASSUME NEW s \in 1..clock, s \notin ToSet(pending) PROVE s \notin ToSet(pending')
    <3>1. \A j \in 1..Len(pending) : pending[j] # s
      BY <1>8, <2>1 DEF ToSet
    <3>2. s # clock + 1 /\ s \in Nat
      BY <1>4, <2>1
    <3>3. ASSUME NEW j \in 1..Len(pending') PROVE pending'[j] # s
      <4>1. CASE j <= Len(pending)
        BY <1>4, <1>6, <3>1, <4>1
      <4>2. CASE ~(j <= Len(pending))
        BY <1>6, <3>2, <4>2
      <4> QED
        BY <4>1, <4>2
    <3> QED
      BY <1>8, <3>3 DEF ToSet
  <2>2. 1..clock \subseteq 1..clock'
    BY <1>1, <1>4
  <2> QED
    BY <1>1, <1>2, <2>1, <2>2 DEF StampsOK
<1>10. PendingOK'
  <2>1. ASSUME NEW i \in DOMAIN pending', NEW j \in DOMAIN pending', i < j
        PROVE  pending'[i] < pending'[j]
    <3>1. i \in 1..Len(pending) /\ j \in 1..(Len(pending) + 1)
      BY <1>4, <1>6, <1>8, <2>1
    <3>2. CASE j \in 1..Len(pending)
      <4>1. pending[i] < pending[j]
        BY <1>2, <1>8, <2>1, <3>1, <3>2 DEF PendingOK
      <4>2. i <= Len(pending) /\ j <= Len(pending)
        BY <3>1, <3>2
      <4> QED
        BY <1>6, <1>8, <4>1, <4>2
    <3>3. CASE j = Len(pending) + 1
      <4>1. i <= Len(pending) /\ ~(j <= Len(pending))
        BY <1>4, <3>1, <3>3
      <4>2. pending'[i] = pending[i] /\ pending'[j] = clock + 1 /\ pending[i] \in 1..clock
        BY <1>6, <1>8, <3>1, <4>1
      <4> QED
        BY <1>4, <4>2
    <3>4. PICK n \in Nat : n = Len(pending)
      BY <1>4
    <3> QED
      BY <3>1, <3>2, <3>3, <3>4
  <2>2. ASSUME NEW i \in DOMAIN items[Root], NEW j \in DOMAIN pending', items[Root][i].kind = "user"
        PROVE  items[Root][i].at < pending'[j]
    <3>1. items[Root][i].at \in 1..clock
      BY <1>2, RunnerAssumption DEF StampsOK
    <3>2. CASE j <= Len(pending)
      <4>1. j \in DOMAIN pending
        BY <1>6, <1>8, <3>2
      <4>2. items[Root][i].at < pending[j]
        BY <1>2, <2>2, <4>1 DEF PendingOK
      <4> QED
        BY <1>6, <1>8, <3>2, <4>2
    <3>3. CASE ~(j <= Len(pending))
      BY <1>4, <1>6, <1>8, <3>1, <3>3
    <3> QED
      BY <3>2, <3>3
  <2> QED
    BY <1>1, <2>1, <2>2 DEF PendingOK
<1>11. RequestOK'
  <2>1. 0..clock \subseteq 0..clock'
    BY <1>1, <1>4
  <2> QED
    BY <1>1, <1>2, <2>1 DEF RequestOK
<1>12. LogsKept' /\ OrderOK' /\ TasksOK' /\ RootOK' /\ AgentsHaveTasks' /\ RecentOK'
  BY <1>1, SameAgents
<1> QED
  BY <1>3, <1>7, <1>9, <1>10, <1>11, <1>12 DEF TInv

-------------------------------------------------------------------------------
(* What a rewind leaves of a transcript.                                   *)

(* t has the items of s that are not newer than at, in their order. *)
Cut(s, t, at, e) ==
  /\ e \in [1..Len(t) -> 1..Len(s)]
  /\ \A i, j \in 1..Len(t) : i < j <=> e[i] < e[j]
  /\ \A i \in 1..Len(t) : t[i] = s[e[i]] /\ s[e[i]].at <= at
  /\ \A k \in 1..Len(s) : s[k].at <= at => \E i \in 1..Len(t) : e[i] = k

(* The kept items are a cut of the transcript. *)
LEMMA CutPlaces ==
  ASSUME ItemsTyped, NEW a \in Agents, NEW at
  PROVE  /\ items[a] \in Seq(ItemSet) /\ DOMAIN items[a] = 1..Len(items[a]) /\ Len(items[a]) \in Nat
         /\ Kept(a, at) \in Seq(ItemSet)
         /\ DOMAIN Kept(a, at) = 1..Len(Kept(a, at)) /\ Len(Kept(a, at)) \in Nat
         /\ \E e : Cut(items[a], Kept(a, at), at, e)
<1> DEFINE W == {i \in DOMAIN items[a] : items[a][i].at <= at}
<1>1. PICK s \in Seq(ItemSet) : s = items[a]
  BY DEF ItemsTyped
<1>2. PICK t : t = Kept(a, at)
  OBVIOUS
<1>3. t = Selected(s, W)
  BY <1>1, <1>2 DEF Kept
<1>4. \A k \in 1..Len(s) : k \in W <=> s[k].at <= at
  BY <1>1
<1> HIDE DEF W
<1>5. t \in Seq(ItemSet) /\ \E e : Selects(s, t, W, e)
  BY <1>3, SelectedPlaces
<1>6. PICK e : Selects(s, t, W, e)
  BY <1>5
<1>7. /\ e \in [1..Len(t) -> 1..Len(s)] /\ \A i, j \in 1..Len(t) : i < j => e[i] < e[j]
      /\ \A i \in 1..Len(t) : t[i] = s[e[i]] /\ e[i] \in W
      /\ \A k \in 1..Len(s) : k \in W => \E i \in 1..Len(t) : e[i] = k
  BY <1>6 DEF Selects
<1>8. Len(s) \in Nat /\ Len(t) \in Nat /\ DOMAIN s = 1..Len(s) /\ DOMAIN t = 1..Len(t)
  BY <1>5
<1>9. ASSUME NEW i \in 1..Len(t), NEW j \in 1..Len(t), e[i] < e[j] PROVE i < j
  <2>1. e[i] \in Nat /\ e[j] \in Nat /\ i \in Nat /\ j \in Nat
    BY <1>7, <1>8
  <2>2. ~(j < i) /\ i # j
    BY <1>7, <1>9, <2>1
  <2> QED
    BY <2>1, <2>2
<1>10. Cut(s, t, at, e)
  BY <1>4, <1>7, <1>9 DEF Cut
<1> QED
  BY <1>1, <1>2, <1>5, <1>8, <1>10

(* AnsweredOnce, of a log and of a transcript. *)
LogAnswered(l) ==
  \A i \in DOMAIN l : l[i].type = "function_call_output" =>
    /\ \E j \in 1..(i - 1) : l[j] = CallItem(l[i].call)
    /\ \A j \in DOMAIN l : l[j] = l[i] => j = i

RowsAnswered(s) ==
  \A k \in DOMAIN s : s[k].kind = "out" =>
    /\ \E m \in DOMAIN s : m < k /\ s[m].kind = "call" /\ s[m].call = s[k].call
    /\ \A m \in DOMAIN s : s[m].kind = "out" /\ s[m].call = s[k].call => m = k

(* A log answers each call once, after the call, if the transcript does. *)
LEMMA AnsweredRows ==
  ASSUME NEW s \in Seq(ItemSet)
  PROVE  LogAnswered(LogOf(s)) <=> RowsAnswered(s)
<1> DEFINE l == LogOf(s)
<1>1. /\ DOMAIN s = 1..Len(s) /\ Len(s) \in Nat /\ DOMAIN l = 1..Len(l) /\ Len(l) \in Nat
  BY LogPieces
<1>2. PICK e : Logging(s, l, e)
  BY LogPlaces
<1> HIDE DEF l
<1>3. /\ e \in [1..Len(l) -> 1..Len(s)]
      /\ \A i, j \in 1..Len(l) : i < j => e[i] < e[j]
      /\ \A k \in 1..Len(s) : Logs(s[k]) => \E i \in 1..Len(l) : e[i] = k
  BY <1>2 DEF Logging
<1>4. ASSUME NEW i \in 1..Len(l)
      PROVE  /\ e[i] \in 1..Len(s)
             /\ \/ s[e[i]].kind = "call" /\ l[i] = CallItem(s[e[i]].call)
                \/ s[e[i]].kind = "out" /\ l[i] = OutputItem(s[e[i]].call)
  <2>1. Logs(s[e[i]]) /\ l[i] = LogRow(s[e[i]])
    BY <1>2 DEF Logging
  <2> QED
    BY <1>3, <2>1 DEF Logs, LogRow
<1>5. ASSUME NEW i \in 1..Len(l), NEW j \in 1..Len(l), e[i] < e[j] PROVE i < j
  <2>1. e[i] \in Nat /\ e[j] \in Nat /\ i \in Nat /\ j \in Nat
    BY <1>1, <1>3
  <2>2. ~(j < i) /\ i # j
    BY <1>3, <1>5, <2>1
  <2> QED
    BY <2>1, <2>2
<1>6. \A c, d : /\ CallItem(c).type = "function_call" /\ CallItem(c).call = c
                /\ OutputItem(c).type = "function_call_output" /\ OutputItem(c).call = c
                /\ CallItem(c) # OutputItem(d) /\ (CallItem(c) = CallItem(d) => c = d)
                /\ (OutputItem(c) = OutputItem(d) => c = d)
  BY DEF CallItem, OutputItem
<1>7. ASSUME NEW i \in 1..Len(l), l[i].type = "function_call_output"
      PROVE  s[e[i]].kind = "out" /\ l[i] = OutputItem(s[e[i]].call) /\ l[i].call = s[e[i]].call
  BY <1>4, <1>6, <1>7
<1>8. ASSUME LogAnswered(l), NEW k \in 1..Len(s), s[k].kind = "out"
      PROVE  /\ \E m \in 1..Len(s) : m < k /\ s[m].kind = "call" /\ s[m].call = s[k].call
             /\ \A m \in 1..Len(s) : s[m].kind = "out" /\ s[m].call = s[k].call => m = k
  <2>1. PICK i \in 1..Len(l) : e[i] = k
    BY <1>3, <1>8 DEF Logs
  <2>2. l[i] = OutputItem(s[k].call) /\ l[i].type = "function_call_output" /\ l[i].call = s[k].call
    BY <1>4, <1>6, <1>8, <2>1
  <2>3. PICK j \in 1..(i - 1) : l[j] = CallItem(s[k].call)
    BY <1>1, <1>8, <2>2 DEF LogAnswered
  <2>4. j \in 1..Len(l) /\ j < i
    BY <1>1
  <2>5. e[j] \in 1..Len(s) /\ e[j] < k /\ s[e[j]].kind = "call" /\ s[e[j]].call = s[k].call
    BY <1>3, <1>4, <1>6, <2>1, <2>3, <2>4
  <2>6. ASSUME NEW m \in 1..Len(s), s[m].kind = "out", s[m].call = s[k].call PROVE m = k
    <3>1. PICK h \in 1..Len(l) : e[h] = m
      BY <1>3, <2>6 DEF Logs
    <3>2. l[h] = OutputItem(s[k].call)
      BY <1>4, <2>6, <3>1
    <3>3. h = i
      BY <1>1, <1>8, <2>2, <3>2 DEF LogAnswered
    <3> QED
      BY <2>1, <3>1, <3>3
  <2> QED
    BY <2>5, <2>6
<1>9. ASSUME RowsAnswered(s), NEW i \in 1..Len(l), l[i].type = "function_call_output"
      PROVE  /\ \E j \in 1..(i - 1) : l[j] = CallItem(l[i].call)
             /\ \A j \in 1..Len(l) : l[j] = l[i] => j = i
  <2>1. /\ e[i] \in 1..Len(s) /\ s[e[i]].kind = "out"
        /\ l[i] = OutputItem(s[e[i]].call) /\ l[i].call = s[e[i]].call
    BY <1>4, <1>7, <1>9
  <2>2. PICK k \in 1..Len(s) : k = e[i]
    BY <2>1
  <2>3. PICK m \in 1..Len(s) : m < k /\ s[m].kind = "call" /\ s[m].call = s[k].call
    BY <1>1, <1>9, <2>1, <2>2 DEF RowsAnswered
  <2>4. PICK j \in 1..Len(l) : e[j] = m
    BY <1>3, <2>3 DEF Logs
  <2>5. j < i /\ l[j] = CallItem(s[k].call)
    BY <1>4, <1>5, <2>2, <2>3, <2>4
  <2>6. j \in 1..(i - 1)
    BY <1>1, <2>5
  <2>7. ASSUME NEW h \in 1..Len(l), l[h] = l[i] PROVE h = i
    <3>1. s[e[h]].kind = "out" /\ s[e[h]].call = s[k].call /\ e[h] \in 1..Len(s)
      BY <1>4, <1>6, <2>1, <2>2, <2>7
    <3>2. e[h] = k
      BY <1>1, <1>9, <2>1, <2>2, <3>1 DEF RowsAnswered
    <3>3. ~(h < i) /\ ~(i < h)
      <4>1. h < i => e[h] < e[i]
        BY <1>3
      <4>2. i < h => e[i] < e[h]
        BY <1>3
      <4>3. ~(k < k)
        BY <1>1
      <4> QED
        BY <2>2, <3>2, <4>1, <4>2, <4>3
    <3> QED
      BY <1>1, <3>3
  <2> QED
    BY <2>1, <2>2, <2>5, <2>6, <2>7
<1>10. LogAnswered(l) => RowsAnswered(s)
  BY <1>1, <1>8 DEF RowsAnswered
<1>11. RowsAnswered(s) => LogAnswered(l)
  BY <1>1, <1>9 DEF LogAnswered
<1> QED
  BY <1>10, <1>11 DEF l

(* What is cut stands behind what is kept, but for queued messages: each   *)
(* output that is kept stands behind its call.                             *)
LEMMA CutAnswered ==
  ASSUME NEW s \in Seq(ItemSet), NEW t \in Seq(ItemSet), NEW at \in Nat, NEW e, Cut(s, t, at, e),
         \A i, j \in DOMAIN s : i < j /\ s[j].kind # "user" => s[i].at < s[j].at,
         RowsAnswered(s)
  PROVE  RowsAnswered(t)
<1>1. DOMAIN s = 1..Len(s) /\ DOMAIN t = 1..Len(t) /\ Len(s) \in Nat /\ Len(t) \in Nat
  OBVIOUS
<1>2. /\ e \in [1..Len(t) -> 1..Len(s)]
      /\ \A i, j \in 1..Len(t) : i < j <=> e[i] < e[j]
      /\ \A i \in 1..Len(t) : t[i] = s[e[i]] /\ s[e[i]].at <= at
      /\ \A k \in 1..Len(s) : s[k].at <= at => \E i \in 1..Len(t) : e[i] = k
  BY DEF Cut
<1>3. \A k \in 1..Len(s) : s[k].at \in Nat
  <2> SUFFICES ASSUME NEW k \in 1..Len(s) PROVE s[k].at \in Nat
    OBVIOUS
  <2>1. s[k] \in ItemSet
    BY <1>1
  <2> QED
    BY <2>1 DEF ItemSet
<1> SUFFICES ASSUME NEW p \in 1..Len(t), t[p].kind = "out"
             PROVE  /\ \E m \in 1..Len(t) : m < p /\ t[m].kind = "call" /\ t[m].call = t[p].call
                    /\ \A m \in 1..Len(t) : t[m].kind = "out" /\ t[m].call = t[p].call => m = p
  BY <1>1 DEF RowsAnswered
<1>4. PICK k \in 1..Len(s) : k = e[p] /\ t[p] = s[k] /\ s[k].at <= at
  BY <1>2
<1>5. PICK m \in 1..Len(s) : m < k /\ s[m].kind = "call" /\ s[m].call = s[k].call
  BY <1>1, <1>4 DEF RowsAnswered
<1>6. s[m].at < s[k].at
  BY <1>1, <1>4, <1>5
<1>7. s[m].at <= at
  BY <1>3, <1>4, <1>6
<1>8. PICK h \in 1..Len(t) : e[h] = m
  BY <1>2, <1>7
<1>9. h < p /\ t[h] = s[m]
  BY <1>2, <1>4, <1>5, <1>8
<1>10. ASSUME NEW j \in 1..Len(t), t[j].kind = "out", t[j].call = t[p].call PROVE j = p
  <2>1. e[j] \in 1..Len(s) /\ s[e[j]].kind = "out" /\ s[e[j]].call = s[k].call
    BY <1>2, <1>4, <1>10
  <2>2. e[j] = k
    BY <1>1, <1>4, <2>1 DEF RowsAnswered
  <2>3. ~(j < p) /\ ~(p < j)
    <3>1. ~(k < k)
      BY <1>1
    <3> QED
      BY <1>2, <1>4, <2>2, <3>1
  <2> QED
    BY <1>1, <2>3
<1> QED
  BY <1>4, <1>5, <1>9, <1>10

-------------------------------------------------------------------------------
(* The step of an edit, which cuts at the stamp of the edited message.     *)

EditAt(n, at) == Edit(n) /\ at = items[Root][n].at

(* What an edit does to the variables of the runner. *)
LEMMA EditFrame ==
  ASSUME TInv, NEW n \in DOMAIN items[Root], NEW at, EditAt(n, at)
  PROVE  /\ current = None /\ ~delivering /\ ~signal
         /\ \A a \in Agents : pc[a] = "idle" /\ todo[a] = <<>> /\ waits[a] = {}
         /\ items' = [a \in Agents |-> Kept(a, at)] /\ log' = [a \in Agents |-> LogOf(items'[a])]
         /\ pc' = [pc EXCEPT ![Root] = "start"] /\ current' = Root
         /\ status' \in [Agents -> Statuses] /\ status'[Root] = "pending"
         /\ waiting' = [a \in Agents |-> {}]
         /\ parent' \in [Agents -> Agents \union {None}] /\ source' \in [Agents -> Calls \union {None}]
         /\ depth' \in [Agents -> Nat]
         /\ \A a \in Agents :
              /\ a # Root /\ Kept(a, at) = <<>> =>
                   status'[a] = "absent" /\ parent'[a] = None /\ source'[a] = None /\ depth'[a] = 0
              /\ a = Root \/ Kept(a, at) # <<>> =>
                   parent'[a] = parent[a] /\ source'[a] = source[a] /\ depth'[a] = depth[a]
              /\ a # Root /\ Kept(a, at) # <<>> =>
                   status'[a] = IF status[a] = "waiting" THEN "completed" ELSE status[a]
         /\ UNCHANGED <<clock, todo, waits, turns, delivering, signal>>
         /\ queued' = 0 /\ pending' = <<>> /\ rewound' = clock
<1>t. /\ TypeOK /\ StackOK /\ CallsOK /\ WaitsAreOpen /\ SignalOK
      /\ status \in [Agents -> Statuses] /\ parent \in [Agents -> Agents \union {None}]
      /\ source \in [Agents -> Calls \union {None}] /\ depth \in [Agents -> Nat]
      /\ delivering \in BOOLEAN /\ signal \in BOOLEAN
  BY DEF TInv, RunnerInv, Core, TypeOK
<1>1. Edit(n) /\ at = items[Root][n].at
  BY DEF EditAt
<1>2. PICK stays : stays = {a \in Agents : a = Root \/ Kept(a, at) # <<>>}
  OBVIOUS
<1>3. /\ current = None
      /\ items' = [a \in Agents |-> Kept(a, at)] /\ log' = [a \in Agents |-> LogOf(items'[a])]
      /\ status' = [a \in Agents |-> Rewound(a, stays).status]
      /\ waiting' = [a \in Agents |-> Rewound(a, stays).waiting]
      /\ parent' = [a \in Agents |-> IF a \in stays THEN parent[a] ELSE None]
      /\ source' = [a \in Agents |-> IF a \in stays THEN source[a] ELSE None]
      /\ depth' = [a \in Agents |-> IF a \in stays THEN depth[a] ELSE 0]
      /\ pc' = [pc EXCEPT ![Root] = "start"] /\ current' = Root
      /\ UNCHANGED <<clock, todo, waits, turns, delivering, signal>>
      /\ queued' = 0 /\ pending' = <<>> /\ rewound' = clock
  BY <1>1, <1>2 DEF Edit, Enter, ClearPending
<1>4. ~delivering /\ ~signal
  BY <1>3, <1>t DEF SignalOK
<1>5. \A a \in Agents : pc[a] = "idle"
  BY <1>3, <1>t, AllIdle
<1>6. \A a \in Agents : todo[a] = <<>> /\ waits[a] = {}
  BY <1>5, <1>t DEF CallsOK, Handling
<1>7. ASSUME NEW a \in Agents
      PROVE  /\ waiting'[a] = {} /\ status'[a] \in Statuses
             /\ a = Root => status'[a] = "pending"
             /\ a # Root /\ a \notin stays => status'[a] = "absent"
             /\ a # Root /\ a \in stays =>
                  status'[a] = IF status[a] = "waiting" THEN "completed" ELSE status[a]
  <2>1. status[a] \in Statuses /\ (status[a] # "waiting" => waiting[a] = {})
    BY <1>t DEF WaitsAreOpen
  <2>2. status'[a] = Rewound(a, stays).status /\ waiting'[a] = Rewound(a, stays).waiting
    BY <1>3
  <2>3. CASE a = Root
    <3>1. a \in stays
      BY <1>2, <2>3
    <3> QED
      BY <2>2, <2>3, <3>1 DEF Rewound, Statuses
  <2>4. CASE a # Root /\ a \notin stays
    BY <2>2, <2>4 DEF Rewound, Statuses
  <2>5. CASE a # Root /\ a \in stays /\ status[a] = "waiting"
    BY <2>2, <2>5 DEF Rewound, Statuses
  <2>6. CASE a # Root /\ a \in stays /\ status[a] # "waiting"
    BY <2>1, <2>2, <2>6 DEF Rewound
  <2> QED
    BY <2>3, <2>4, <2>5, <2>6
<1>8. waiting' = [a \in Agents |-> {}]
  BY <1>3, <1>7
<1>9. status' \in [Agents -> Statuses]
  BY <1>3, <1>7
<1>10. /\ parent' \in [Agents -> Agents \union {None}] /\ source' \in [Agents -> Calls \union {None}]
       /\ depth' \in [Agents -> Nat]
  BY <1>3, <1>t
<1>11. ASSUME NEW a \in Agents
       PROVE  /\ a # Root /\ Kept(a, at) = <<>> =>
                   status'[a] = "absent" /\ parent'[a] = None /\ source'[a] = None /\ depth'[a] = 0
              /\ a = Root \/ Kept(a, at) # <<>> =>
                   parent'[a] = parent[a] /\ source'[a] = source[a] /\ depth'[a] = depth[a]
              /\ a # Root /\ Kept(a, at) # <<>> =>
                   status'[a] = IF status[a] = "waiting" THEN "completed" ELSE status[a]
  <2>1. a \in stays <=> a = Root \/ Kept(a, at) # <<>>
    BY <1>2
  <2>2. /\ a \in stays => parent'[a] = parent[a] /\ source'[a] = source[a] /\ depth'[a] = depth[a]
        /\ a \notin stays => parent'[a] = None /\ source'[a] = None /\ depth'[a] = 0
    BY <1>3
  <2> QED
    BY <1>7, <2>1, <2>2
<1>12. status'[Root] = "pending"
  BY <1>7, RunnerAssumption
<1> QED
  BY <1>3, <1>4, <1>5, <1>6, <1>8, <1>9, <1>10, <1>11, <1>12

(* The stamp of the edited message. *)
LEMMA EditStamp ==
  ASSUME TInv, NEW n \in DOMAIN items[Root], NEW at, EditAt(n, at)
  PROVE  /\ at \in 1..clock /\ at \in Nat /\ clock \in Nat /\ items[Root][n].kind = "user"
         /\ \A a \in Agents : /\ items'[a] = Kept(a, at) /\ log'[a] = LogOf(items'[a])
                              /\ items'[a] \in Seq(ItemSet) /\ DOMAIN items'[a] = 1..Len(items'[a])
                              /\ Len(items'[a]) \in Nat
                              /\ \E e : Cut(items[a], items'[a], at, e)
<1>1. ItemsTyped /\ StampsOK /\ clock \in Nat /\ Root \in Agents
  BY RunnerAssumption DEF TInv, ItemsTyped
<1>2. at \in 1..clock /\ items[Root][n].kind = "user"
  BY <1>1 DEF EditAt, Edit, StampsOK
<1>3. items' = [a \in Agents |-> Kept(a, at)] /\ log' = [a \in Agents |-> LogOf(items'[a])]
  BY EditFrame
<1>4. ASSUME NEW a \in Agents
      PROVE  /\ items'[a] = Kept(a, at) /\ log'[a] = LogOf(items'[a])
             /\ items'[a] \in Seq(ItemSet) /\ DOMAIN items'[a] = 1..Len(items'[a])
             /\ Len(items'[a]) \in Nat
             /\ \E e : Cut(items[a], items'[a], at, e)
  <2>1. items'[a] = Kept(a, at)
    BY <1>3
  <2> QED
    BY <1>1, <1>3, <2>1, CutPlaces
<1> QED
  BY <1>1, <1>2, <1>4

(* The transcripts after the rewind. *)
LEMMA EditItems ==
  ASSUME TInv, NEW n \in DOMAIN items[Root], NEW at, EditAt(n, at)
  PROVE  ItemsTyped' /\ LogsKept' /\ StampsOK' /\ OrderOK' /\ PendingOK'
<1>1. /\ at \in 1..clock /\ at \in Nat /\ clock \in Nat
      /\ \A a \in Agents : /\ items'[a] \in Seq(ItemSet) /\ DOMAIN items'[a] = 1..Len(items'[a])
                           /\ Len(items'[a]) \in Nat /\ log'[a] = LogOf(items'[a])
                           /\ \E e : Cut(items[a], items'[a], at, e)
  BY EditStamp
<1>2. /\ ItemsTyped /\ StampsOK /\ OrderOK
  BY DEF TInv
<1>3. /\ items' = [a \in Agents |-> Kept(a, at)] /\ UNCHANGED clock
      /\ queued' = 0 /\ pending' = <<>> /\ rewound' = clock
  BY EditFrame
<1>4. ASSUME NEW a \in Agents, NEW e, Cut(items[a], items'[a], at, e), NEW i \in DOMAIN items'[a]
      PROVE  e[i] \in DOMAIN items[a] /\ items'[a][i] = items[a][e[i]]
  <2>1. items[a] \in Seq(ItemSet)
    BY <1>2 DEF ItemsTyped
  <2> QED
    BY <1>1, <1>4, <2>1 DEF Cut
<1>5. LogsKept'
  BY <1>1 DEF LogsKept
<1>6. StampsOK'
  <2>1. ASSUME NEW a \in Agents, NEW i \in DOMAIN items'[a]
        PROVE  /\ items'[a][i].at \in 1..clock
               /\ Logs(items'[a][i]) => items'[a][i].call \in Calls
    <3>1. PICK e : Cut(items[a], items'[a], at, e)
      BY <1>1
    <3>2. e[i] \in DOMAIN items[a] /\ items'[a][i] = items[a][e[i]]
      BY <1>4, <3>1
    <3> QED
      BY <1>2, <3>2 DEF StampsOK
  <2>2. ASSUME NEW a \in Agents, NEW i \in DOMAIN items'[a], NEW b \in Agents, NEW j \in DOMAIN items'[b],
               items'[a][i].at = items'[b][j].at
        PROVE  a = b /\ i = j
    <3>1. PICK e : Cut(items[a], items'[a], at, e)
      BY <1>1
    <3>2. PICK f : Cut(items[b], items'[b], at, f)
      BY <1>1
    <3>3. e[i] \in DOMAIN items[a] /\ items'[a][i] = items[a][e[i]]
      BY <1>4, <3>1
    <3>4. f[j] \in DOMAIN items[b] /\ items'[b][j] = items[b][f[j]]
      BY <1>4, <3>2
    <3>5. a = b /\ e[i] = f[j]
      BY <1>2, <2>2, <3>3, <3>4 DEF StampsOK
    <3>6. e[j] \in DOMAIN items[a] /\ items'[a][j] = items[a][e[j]]
      BY <1>4, <3>1, <3>5
    <3>7. e[i] = e[j]
      BY <1>2, <2>2, <3>3, <3>5, <3>6 DEF StampsOK
    <3>8. ~(i < j) /\ ~(j < i)
      <4>1. items[a] \in Seq(ItemSet) /\ DOMAIN items[a] = 1..Len(items[a])
        BY <1>2 DEF ItemsTyped
      <4>2. ~(e[i] < e[j]) /\ ~(e[j] < e[i])
        BY <3>3, <3>7, <4>1
      <4> QED
        BY <1>1, <3>1, <3>5, <4>2 DEF Cut
    <3> QED
      BY <1>1, <3>5, <3>8
  <2>3. ToSet(pending') = {}
    BY <1>3 DEF ToSet
  <2> QED
    BY <1>3, <2>1, <2>2, <2>3 DEF StampsOK
<1>7. OrderOK'
  <2> SUFFICES ASSUME NEW a \in Agents, NEW i \in DOMAIN items'[a], NEW j \in DOMAIN items'[a], i < j,
                      items'[a][i].kind = "user" \/ items'[a][j].kind # "user"
               PROVE  items'[a][i].at < items'[a][j].at
    BY DEF OrderOK
  <2>1. PICK e : Cut(items[a], items'[a], at, e)
    BY <1>1
  <2>2. e[i] \in DOMAIN items[a] /\ items'[a][i] = items[a][e[i]]
    BY <1>4, <2>1
  <2>3. e[j] \in DOMAIN items[a] /\ items'[a][j] = items[a][e[j]]
    BY <1>4, <2>1
  <2>4. e[i] < e[j]
    BY <1>1, <2>1 DEF Cut
  <2> QED
    BY <1>2, <2>2, <2>3, <2>4 DEF OrderOK
<1>8. PendingOK'
  BY <1>3 DEF PendingOK
<1>9. loose' \subseteq Calls /\ gone' \subseteq Calls
  <2>1. /\ gone' = gone \union UNION {CallsOf(items[a]) \ CallsOf(items'[a]) : a \in Agents}
        /\ loose' = loose \union (IF OutOfOrder(n) THEN Open(Root)' ELSE {})
    BY DEF EditAt, Edit
  <2>2. Open(Root)' \subseteq Calls
    BY DEF Open, Issued
  <2>3. \A a \in Agents : CallsOf(items[a]) \subseteq Calls
    BY <1>2 DEF CallsOf, StampsOK, Logs
  <2>4. loose \subseteq Calls /\ gone \subseteq Calls
    BY <1>2 DEF ItemsTyped
  <2> QED
    BY <2>1, <2>2, <2>3, <2>4
<1>10. ItemsTyped'
  <2>1. items' \in [Agents -> Seq(ItemSet)]
    BY <1>1, <1>3
  <2>2. pending' \in Seq(1..clock') /\ Len(pending') = queued'
    BY <1>3, EmptySeq
  <2>3. rewound' \in 0..clock'
    BY <1>1, <1>3
  <2> QED
    BY <1>1, <1>3, <1>9, <2>1, <2>2, <2>3 DEF ItemsTyped
<1> QED
  BY <1>5, <1>6, <1>7, <1>8, <1>10

(* A child that keeps an item keeps its task, and its parent keeps the     *)
(* call.                                                                   *)
LEMMA EditChildren ==
  ASSUME TInv, NEW n \in DOMAIN items[Root], NEW at, EditAt(n, at),
         NEW b \in Agents \ {Root}, Kept(b, at) # <<>>
  PROVE  /\ status[b] # "absent" /\ parent[b] \in Agents
         /\ items'[b] # <<>> /\ items'[b][1] = items[b][1] /\ items'[b][1].kind = "user"
         /\ Kept(parent[b], at) # <<>>
         /\ \E i \in DOMAIN items'[parent[b]] :
              /\ items'[parent[b]][i].kind = "call" /\ items'[parent[b]][i].call = source[b]
              /\ items'[parent[b]][i].at < items'[b][1].at
<1>1. /\ at \in Nat /\ clock \in Nat
      /\ \A a \in Agents : /\ items'[a] \in Seq(ItemSet) /\ DOMAIN items'[a] = 1..Len(items'[a])
                           /\ Len(items'[a]) \in Nat /\ items'[a] = Kept(a, at)
                           /\ \E e : Cut(items[a], items'[a], at, e)
  BY EditStamp
<1>2. /\ ItemsTyped /\ StampsOK /\ OrderOK /\ TasksOK /\ AgentsHaveTasks /\ TypeOK
  BY DEF TInv, RunnerInv, Core
<1>3. \A a \in Agents : /\ items[a] \in Seq(ItemSet) /\ DOMAIN items[a] = 1..Len(items[a])
                        /\ Len(items[a]) \in Nat
  BY <1>2 DEF ItemsTyped
<1>4. PICK e : Cut(items[b], items'[b], at, e)
  BY <1>1
<1>5. /\ e \in [1..Len(items'[b]) -> 1..Len(items[b])]
      /\ \A i, j \in 1..Len(items'[b]) : i < j <=> e[i] < e[j]
      /\ \A i \in 1..Len(items'[b]) : items'[b][i] = items[b][e[i]] /\ items[b][e[i]].at <= at
      /\ \A k \in 1..Len(items[b]) : items[b][k].at <= at => \E i \in 1..Len(items'[b]) : e[i] = k
  BY <1>4 DEF Cut
<1>6. items'[b] # <<>> /\ 1 \in 1..Len(items'[b])
  <2>1. items'[b] # <<>>
    BY <1>1
  <2>2. Len(items'[b]) # 0
    BY <1>1, <2>1, EmptySeq
  <2> QED
    BY <1>1, <2>1, <2>2
<1>7. PICK k \in 1..Len(items[b]) : k = e[1] /\ items'[b][1] = items[b][k] /\ items[b][k].at <= at
  BY <1>5, <1>6
<1>8. status[b] # "absent"
  <2>1. items[b] # <<>>
    <3>1. Len(<<>>) = 0
      OBVIOUS
    <3> QED
      BY <1>7, <3>1
  <2> QED
    BY <1>2, <2>1 DEF TasksOK
<1>9. PICK p \in Agents : p = parent[b]
  BY <1>2, <1>8 DEF TasksOK, TypeOK
<1>10. PICK i \in DOMAIN items[p] :
         items[p][i].kind = "call" /\ items[p][i].call = source[b] /\ items[p][i].at < items[b][1].at
  BY <1>2, <1>8, <1>9 DEF AgentsHaveTasks
<1>11. items[b][1].kind = "user" /\ 1 \in DOMAIN items[b]
  <2>1. items[b][1].kind = "user"
    BY <1>2, <1>8 DEF AgentsHaveTasks
  <2>2. 1 \in 1..Len(items[b])
    BY <1>3, <1>7
  <2> QED
    BY <1>3, <2>1, <2>2
<1>12. items[b][1].at \in 1..clock /\ items[b][k].at \in 1..clock /\ items[p][i].at \in 1..clock
  BY <1>2, <1>3, <1>7, <1>10, <1>11 DEF StampsOK
<1>13. items[b][1].at <= at
  <2>1. CASE k = 1
    BY <1>7, <2>1
  <2>2. CASE 1 < k
    <3>1. items[b][1].at < items[b][k].at
      BY <1>2, <1>3, <1>7, <1>11, <2>2 DEF OrderOK
    <3> QED
      BY <1>1, <1>7, <1>12, <3>1
  <2> QED
    BY <1>7, <2>1, <2>2
<1>14. k = 1
  <2>1. PICK j \in 1..Len(items'[b]) : e[j] = 1
    BY <1>3, <1>5, <1>11, <1>13
  <2>2. ~(1 < j)
    <3>1. 1 < j => k < 1
      BY <1>5, <1>6, <1>7, <2>1
    <3> QED
      BY <1>7, <3>1
  <2>3. j = 1
    BY <2>2
  <2> QED
    BY <1>7, <2>1, <2>3
<1>15. PICK f : Cut(items[p], items'[p], at, f)
  BY <1>1
<1>16. items[p][i].at <= at
  BY <1>1, <1>10, <1>12, <1>13
<1>17. PICK h \in 1..Len(items'[p]) : f[h] = i
  BY <1>3, <1>15, <1>16 DEF Cut
<1>18. items'[p][h] = items[p][i]
  BY <1>15, <1>17 DEF Cut
<1>19. Kept(p, at) # <<>>
  <2>1. Len(<<>>) = 0
    OBVIOUS
  <2> QED
    BY <1>1, <1>17, <2>1
<1>20. h \in DOMAIN items'[p]
  BY <1>1
<1> QED
  BY <1>6, <1>7, <1>8, <1>9, <1>10, <1>11, <1>14, <1>18, <1>19, <1>20

(* The calls of the log after the rewind. *)
LEMMA EditCalls ==
  ASSUME TInv, NEW n \in DOMAIN items[Root], NEW at, EditAt(n, at), NEW a \in Agents
  PROVE  /\ Issued(a)' \subseteq Issued(a)
         /\ \A c \in Calls : (\E i \in DOMAIN items'[a] : items'[a][i].kind = "call" /\ items'[a][i].call = c)
                               => c \in Issued(a)'
<1>1. ItemsTyped /\ LogsKept
  BY DEF TInv
<1>2. /\ log'[a] = LogOf(items'[a]) /\ items'[a] \in Seq(ItemSet) /\ DOMAIN items'[a] = 1..Len(items'[a])
      /\ \E e : Cut(items[a], items'[a], at, e)
  BY EditStamp
<1>3. PICK t \in Seq(ItemSet) : t = items'[a]
  BY <1>2
<1>4. PICK s \in Seq(ItemSet) : s = items[a]
  BY <1>1 DEF ItemsTyped
<1>5. ASSUME NEW c \in Calls
      PROVE  c \in Issued(a)' <=> \E i \in DOMAIN t : t[i].kind = "call" /\ t[i].call = c
  <2>1. (\E m \in DOMAIN LogOf(t) : LogOf(t)[m] = CallItem(c)) <=>
          (\E i \in DOMAIN t : t[i].kind = "call" /\ t[i].call = c)
    BY LoggedRow
  <2>2. log'[a] = LogOf(t)
    BY <1>2, <1>3
  <2> QED
    BY <2>1, <2>2 DEF Issued
<1>6. ASSUME NEW c \in Calls
      PROVE  c \in Issued(a) <=> \E i \in DOMAIN s : s[i].kind = "call" /\ s[i].call = c
  <2>1. (\E m \in DOMAIN LogOf(s) : LogOf(s)[m] = CallItem(c)) <=>
          (\E i \in DOMAIN s : s[i].kind = "call" /\ s[i].call = c)
    BY LoggedRow
  <2>2. log[a] = LogOf(s)
    BY <1>1, <1>4 DEF LogsKept
  <2> QED
    BY <2>1, <2>2 DEF Issued
<1>7. PICK e : Cut(s, t, at, e)
  BY <1>2, <1>3, <1>4
<1>8. \A i \in DOMAIN t : e[i] \in DOMAIN s /\ t[i] = s[e[i]]
  BY <1>7 DEF Cut
<1>9. Issued(a)' \subseteq Issued(a)
  <2> SUFFICES ASSUME NEW c \in Issued(a)' PROVE c \in Issued(a)
    OBVIOUS
  <2>1. c \in Calls
    BY DEF Issued
  <2> QED
    BY <1>5, <1>6, <1>8, <2>1
<1> QED
  BY <1>3, <1>5, <1>9

(* The rewound logs still answer each call once: an output is not older    *)
(* than its call.                                                          *)
LEMMA EditLog ==
  ASSUME TInv, NEW n \in DOMAIN items[Root], NEW at, EditAt(n, at)
  PROVE  log' \in [Agents -> Seq(Items)] /\ AnsweredOnce'
<1>1. ItemsTyped /\ LogsKept /\ StampsOK /\ OrderOK /\ AnsweredOnce
  BY DEF TInv, RunnerInv, Core
<1>2. /\ at \in Nat
      /\ \A a \in Agents : /\ log'[a] = LogOf(items'[a]) /\ items'[a] \in Seq(ItemSet)
                           /\ DOMAIN items'[a] = 1..Len(items'[a])
                           /\ \E e : Cut(items[a], items'[a], at, e)
  BY EditStamp
<1>3. log' = [a \in Agents |-> LogOf(items'[a])]
  BY EditFrame
<1>4. StampsOK'
  BY EditItems
<1>5. ASSUME NEW a \in Agents PROVE log'[a] \in Seq(Items) /\ LogAnswered(log'[a])
  <2>1. PICK t \in Seq(ItemSet) : t = items'[a]
    BY <1>2
  <2>2. PICK s \in Seq(ItemSet) : s = items[a]
    BY <1>1 DEF ItemsTyped
  <2>3. PICK e : Cut(s, t, at, e)
    BY <1>2, <2>1, <2>2
  <2>4. LogOf(t) \in Seq(Items)
    <3>1. LogOf(t) \in Seq(LogRows) /\ DOMAIN t = 1..Len(t)
      <4>1. LogOf(t) \in Seq(LogRows)
        BY LogPieces
      <4> QED
        BY <4>1
    <3>2. PICK f : Logging(t, LogOf(t), f)
      BY LogPlaces
    <3>3. PICK l : l = LogOf(t)
      OBVIOUS
    <3>4. ASSUME NEW i \in 1..Len(l) PROVE l[i] \in Items
      <4>1. f[i] \in DOMAIN t /\ Logs(t[f[i]]) /\ l[i] = LogRow(t[f[i]])
        BY <3>1, <3>2, <3>3, <3>4 DEF Logging
      <4>2. t[f[i]].call \in Calls
        BY <1>4, <2>1, <4>1 DEF StampsOK
      <4> QED
        BY <4>1, <4>2 DEF LogRow, CallItem, OutputItem, Items
    <3>5. l \in Seq(LogRows)
      BY <3>1, <3>3
    <3>6. l \in Seq(Items)
      BY <3>4, <3>5
    <3> QED
      BY <3>3, <3>6
  <2>5. RowsAnswered(s)
    <3>1. LogAnswered(log[a])
      BY <1>1 DEF AnsweredOnce, LogAnswered
    <3>2. LogAnswered(LogOf(s))
      BY <1>1, <2>2, <3>1 DEF LogsKept
    <3> QED
      BY <3>2, AnsweredRows
  <2>6. \A i, j \in DOMAIN s : i < j /\ s[j].kind # "user" => s[i].at < s[j].at
    BY <1>1, <2>2 DEF OrderOK
  <2>7. RowsAnswered(t)
    BY <1>2, <2>3, <2>5, <2>6, CutAnswered
  <2>8. LogAnswered(LogOf(t))
    BY <2>7, AnsweredRows
  <2> QED
    BY <1>2, <2>1, <2>4, <2>8
<1>6. log' \in [Agents -> Seq(Items)]
  BY <1>3, <1>5
<1>7. AnsweredOnce'
  BY <1>5 DEF AnsweredOnce, LogAnswered
<1> QED
  BY <1>6, <1>7

(* The agents that survive are a tree of which only the root is active: a  *)
(* child survives only with its parent.                                    *)
LEMMA EditTree ==
  ASSUME TInv, NEW n \in DOMAIN items[Root], NEW at, EditAt(n, at)
  PROVE  TypeOK' /\ StackOK' /\ TreeOK'
<1>t. /\ TypeOK /\ TreeOK /\ RootOK /\ TasksOK /\ pc \in [Agents -> PCs]
      /\ Root \in Agents /\ None \notin Agents /\ MaxDepth \in Nat
  BY RunnerAssumption DEF TInv, RunnerInv, Core, TypeOK
<1>f. /\ \A a \in Agents : pc[a] = "idle"
      /\ pc' = [pc EXCEPT ![Root] = "start"] /\ current' = Root
      /\ status' \in [Agents -> Statuses] /\ status'[Root] = "pending"
      /\ waiting' = [a \in Agents |-> {}]
      /\ parent' \in [Agents -> Agents \union {None}] /\ source' \in [Agents -> Calls \union {None}]
      /\ depth' \in [Agents -> Nat]
      /\ UNCHANGED <<clock, todo, waits, turns, delivering, signal>> /\ queued' = 0
  BY EditFrame
<1>g. ASSUME NEW a \in Agents
      PROVE  /\ a # Root /\ Kept(a, at) = <<>> =>
                  status'[a] = "absent" /\ parent'[a] = None /\ source'[a] = None /\ depth'[a] = 0
             /\ a = Root \/ Kept(a, at) # <<>> =>
                  parent'[a] = parent[a] /\ source'[a] = source[a] /\ depth'[a] = depth[a]
             /\ a # Root /\ Kept(a, at) # <<>> =>
                  status'[a] = IF status[a] = "waiting" THEN "completed" ELSE status[a]
  BY EditFrame
<1>1. pc' \in [Agents -> PCs] /\ pc'[Root] = "start" /\ \A a \in Agents \ {Root} : pc'[a] = "idle"
  BY <1>f, <1>t DEF PCs
<1>2. TypeOK'
  <2>1. log' \in [Agents -> Seq(Items)]
    BY EditLog
  <2>2. waiting' \in [Agents -> SUBSET WaitEntries] /\ queued' \in Nat /\ current' \in Agents \union {None}
    BY <1>f, <1>t
  <2> QED
    BY <1>1, <1>f, <1>t, <2>1, <2>2 DEF TypeOK
<1>3. StackOK'
  <2>1. \A a \in Agents : pc'[a] \notin {"idle", "child"} <=> current' = a
    BY <1>1, <1>f
  <2>2. \A a \in Agents : pc'[a] # "child"
    BY <1>1
  <2>3. \A a \in Agents : pc'[a] # "idle" => a = Root
    BY <1>1
  <2>4. depth'[Root] <= depth'[Root]
    BY <1>f, <1>t
  <2> QED
    BY <2>1, <2>2, <2>3, <2>4 DEF StackOK
<1>4. ASSUME NEW a \in Agents \ {Root}, Kept(a, at) # <<>>
      PROVE  /\ status[a] # "absent" /\ status[a] \notin {"pending", "running"}
             /\ status'[a] \notin {"absent", "pending", "running"}
  <2>1. status[a] # "absent"
    BY <1>4, EditChildren
  <2>2. status[a] \notin {"pending", "running"}
    BY <1>f, <1>t DEF TreeOK
  <2> QED
    BY <1>4, <1>g, <2>1, <2>2
<1>5. TreeOK'
  <2> SUFFICES ASSUME NEW b \in Agents
               PROVE  /\ depth'[b] <= MaxDepth
                      /\ parent'[b] # None =>
                           status'[parent'[b]] # "absent" /\ depth'[b] = depth'[parent'[b]] + 1
                      /\ status'[b] = "absent" => parent'[b] = None /\ pc'[b] = "idle"
                      /\ status'[b] = "pending" <=> pc'[b] = "start"
                      /\ status'[b] = "running" <=> pc'[b] \notin {"idle", "start", "returned"}
    BY DEF TreeOK
  <2>1. CASE b = Root
    <3>1. parent'[b] = None /\ depth'[b] = depth[b]
      BY <1>g, <1>t, <2>1 DEF RootOK
    <3> QED
      BY <1>1, <1>f, <1>t, <2>1, <3>1 DEF TreeOK
  <2>2. CASE b # Root /\ Kept(b, at) = <<>>
    BY <1>1, <1>g, <1>t, <2>2
  <2>3. CASE b # Root /\ Kept(b, at) # <<>>
    <3>1. PICK p \in Agents : p = parent[b]
      BY <2>3, EditChildren
    <3>2. Kept(p, at) # <<>>
      BY <2>3, <3>1, EditChildren
    <3>3. parent'[b] = p /\ depth'[b] = depth[b] /\ depth'[p] = depth[p]
      BY <1>g, <2>3, <3>1, <3>2
    <3>4. depth[b] = depth[p] + 1 /\ depth[b] <= MaxDepth
      BY <1>t, <3>1 DEF TreeOK
    <3>5. status'[p] # "absent"
      BY <1>4, <1>f, <3>2
    <3>6. status'[b] \notin {"absent", "pending", "running"} /\ pc'[b] = "idle"
      BY <1>1, <1>4, <2>3
    <3> QED
      BY <3>3, <3>4, <3>5, <3>6
  <2> QED
    BY <2>1, <2>2, <2>3
<1> QED
  BY <1>2, <1>3, <1>5

(* The rewound rows satisfy the runner's invariant. *)
LEMMA EditRunner ==
  ASSUME TInv, NEW n \in DOMAIN items[Root], NEW at, EditAt(n, at)
  PROVE  RunnerInv'
<1>t. /\ CallsOK /\ SourcesOK /\ RootOK /\ TypeOK
      /\ Root \in Agents /\ None \notin Agents \union Calls
  BY RunnerAssumption DEF TInv, RunnerInv, Core
<1>f. /\ \A a \in Agents : todo[a] = <<>> /\ waits[a] = {}
      /\ ~delivering /\ ~signal /\ waiting' = [a \in Agents |-> {}] /\ status'[Root] = "pending"
      /\ UNCHANGED <<clock, todo, waits, turns, delivering, signal>>
      /\ pc' = [pc EXCEPT ![Root] = "start"] /\ \A a \in Agents : pc[a] = "idle"
  BY EditFrame
<1>g. ASSUME NEW a \in Agents
      PROVE  /\ a # Root /\ Kept(a, at) = <<>> =>
                  status'[a] = "absent" /\ parent'[a] = None /\ source'[a] = None /\ depth'[a] = 0
             /\ a = Root \/ Kept(a, at) # <<>> =>
                  parent'[a] = parent[a] /\ source'[a] = source[a] /\ depth'[a] = depth[a]
             /\ a # Root /\ Kept(a, at) # <<>> =>
                  status'[a] = IF status[a] = "waiting" THEN "completed" ELSE status[a]
  BY EditFrame
<1>1. \A a \in Agents : pc'[a] \in {"idle", "start"}
  BY <1>f, <1>t DEF TypeOK
<1>2. \A a \in Agents : Pending(a)' = {} /\ WaitCalls(waits'[a]) = {} /\ WaitCalls(waiting'[a]) = {}
  BY <1>f DEF Pending, WaitCalls
<1>3. \A a \in Agents : status'[a] # "waiting"
  BY <1>f, <1>g
<1>4. CallsOK'
  <2>1. \A a, b \in Agents : a # b => Issued(a)' \intersect Issued(b)' = {}
    <3>1. \A a \in Agents : Issued(a)' \subseteq Issued(a)
      BY EditCalls
    <3> QED
      BY <1>t, <3>1 DEF CallsOK
  <2>2. \A a \in Agents : todo'[a] = <<>> /\ waits'[a] = {} /\ waiting'[a] = {} /\ pc'[a] \notin Handling
    BY <1>1, <1>f DEF Handling
  <2> QED
    BY <1>2, <2>1, <2>2 DEF CallsOK
<1>5. WaitsAreOpen'
  BY <1>2, <1>3, <1>f DEF WaitsAreOpen
<1>6. Core'
  BY <1>4, <1>5, EditTree, EditLog DEF Core
<1>7. SourcesOK'
  <2>1. ASSUME NEW b \in Agents
        PROVE  /\ source'[b] = None <=> parent'[b] = None
               /\ source'[b] # None => source'[b] = source[b]
               /\ (parent[b] # None => source[b] \in Issued(parent[b]))'
    <3>1. source[b] = None <=> parent[b] = None
      BY <1>t DEF SourcesOK
    <3>2. CASE b = Root
      BY <1>g, <1>t, <3>1, <3>2 DEF RootOK
    <3>3. CASE b # Root /\ Kept(b, at) = <<>>
      BY <1>g, <3>3
    <3>4. CASE b # Root /\ Kept(b, at) # <<>>
      <4>1. PICK p \in Agents : p = parent[b]
        BY <3>4, EditChildren
      <4>2. parent'[b] = p /\ source'[b] = source[b]
        BY <1>g, <3>4, <4>1
      <4>3. source[b] \in Calls
        BY <1>t, <3>1, <4>1 DEF TypeOK
      <4>4. \E i \in DOMAIN items'[p] : items'[p][i].kind = "call" /\ items'[p][i].call = source[b]
        BY <3>4, <4>1, EditChildren
      <4>5. source[b] \in Issued(p)'
        BY <4>3, <4>4, EditCalls
      <4>6. (source[b] \in Issued(parent[b]))'
        BY <4>2, <4>5 DEF Issued
      <4> QED
        BY <1>t, <3>1, <4>1, <4>2, <4>6
    <3> QED
      BY <3>2, <3>3, <3>4
  <2>2. \A b, c \in Agents : source'[b] # None /\ source'[b] = source'[c] => b = c
    BY <1>t, <2>1 DEF SourcesOK
  <2>3. \A a \in Agents : Pending(a)' = {} /\ pc'[a] # "child"
    BY <1>1, <1>2
  <2> QED
    BY <2>1, <2>2, <2>3 DEF SourcesOK
<1>8. SignalOK' /\ ReturnedOK' /\ Chain'
  <2>1. SignalOK' /\ ReturnedOK'
    BY <1>f DEF SignalOK, ReturnedOK
  <2>2. \A x \in Agents : waits'[x] \union waiting'[x] = {}
    BY <1>f
  <2> QED
    BY <2>1, <2>2 DEF Chain
<1> QED
  BY <1>6, <1>7, <1>8 DEF RunnerInv

(* The rest of the invariant after the rewind. *)
LEMMA EditAgents ==
  ASSUME TInv, NEW n \in DOMAIN items[Root], NEW at, EditAt(n, at)
  PROVE  TurnsOK' /\ QueueOK' /\ TasksOK' /\ RootOK' /\ AgentsHaveTasks' /\ RecentOK'
<1>t. RootOK /\ TypeOK /\ TasksOK /\ Root \in Agents /\ None \notin Agents
  BY RunnerAssumption DEF TInv, RunnerInv, Core
<1>f. /\ \A a \in Agents : todo[a] = <<>> /\ waits[a] = {} /\ pc[a] = "idle"
      /\ waiting' = [a \in Agents |-> {}] /\ status'[Root] = "pending" /\ queued' = 0
      /\ todo' = todo /\ waits' = waits
      /\ pc' = [pc EXCEPT ![Root] = "start"]
  BY EditFrame
<1>g. ASSUME NEW a \in Agents
      PROVE  /\ a # Root /\ Kept(a, at) = <<>> =>
                  status'[a] = "absent" /\ parent'[a] = None /\ source'[a] = None /\ depth'[a] = 0
             /\ a = Root \/ Kept(a, at) # <<>> =>
                  parent'[a] = parent[a] /\ source'[a] = source[a] /\ depth'[a] = depth[a]
             /\ a # Root /\ Kept(a, at) # <<>> =>
                  status'[a] = IF status[a] = "waiting" THEN "completed" ELSE status[a]
  BY EditFrame
<1>1. \A a \in Agents : status'[a] # "waiting" /\ pc'[a] \in {"idle", "start"}
  BY <1>f, <1>g, <1>t DEF TypeOK
<1>2. TurnsOK'
  BY <1>1 DEF TurnsOK, Handling
<1>3. QueueOK'
  BY <1>f DEF QueueOK
<1>4. RootOK'
  BY <1>g, <1>t DEF RootOK
<1>5. RecentOK'
  <2>1. \A a \in Agents : Pending(a)' = {} /\ WaitCalls(waits'[a]) = {} /\ WaitCalls(waiting'[a]) = {}
    BY <1>f DEF Pending, WaitCalls
  <2> QED
    BY <2>1 DEF RecentOK
<1>6. ASSUME NEW b \in Agents \ {Root}, Kept(b, at) # <<>>
      PROVE  /\ status'[b] # "absent" /\ parent'[b] = parent[b] /\ parent[b] \in Agents
             /\ source'[b] = source[b]
  <2>1. status[b] # "absent" /\ parent[b] \in Agents
    BY <1>6, EditChildren
  <2> QED
    BY <1>6, <1>g, <2>1
<1>7. \A b \in Agents : items'[b] = Kept(b, at)
  BY EditStamp
<1>8. TasksOK'
  <2>1. \A b \in Agents \ {Root} : status'[b] = "absent" => items'[b] = <<>>
    BY <1>6, <1>7
  <2>2. \A b \in Agents \ {Root} : status'[b] # "absent" => parent'[b] # None
    BY <1>6, <1>g, <1>t
  <2> QED
    BY <2>1, <2>2 DEF TasksOK
<1>9. AgentsHaveTasks'
  <2> SUFFICES ASSUME NEW b \in Agents \ {Root}, status'[b] # "absent"
               PROVE  /\ items'[b] # <<>> /\ items'[b][1].kind = "user"
                      /\ \E i \in DOMAIN items'[parent'[b]] :
                           /\ items'[parent'[b]][i].kind = "call"
                           /\ items'[parent'[b]][i].call = source'[b]
                           /\ items'[parent'[b]][i].at < items'[b][1].at
    BY DEF AgentsHaveTasks
  <2>1. Kept(b, at) # <<>>
    BY <1>g
  <2>2. parent'[b] = parent[b] /\ source'[b] = source[b]
    BY <1>6, <2>1
  <2>3. /\ items'[b] # <<>> /\ items'[b][1].kind = "user"
        /\ \E i \in DOMAIN items'[parent[b]] :
             /\ items'[parent[b]][i].kind = "call" /\ items'[parent[b]][i].call = source[b]
             /\ items'[parent[b]][i].at < items'[b][1].at
    BY <2>1, EditChildren
  <2> QED
    BY <2>2, <2>3
<1> QED
  BY <1>2, <1>3, <1>4, <1>5, <1>8, <1>9

(* The edited message is the last one that is kept of the root: what is    *)
(* behind it and not newer is a queued message that was accepted before,   *)
(* of which there is none.                                                 *)
LEMMA EditRequest ==
  ASSUME TInv, NEW n \in DOMAIN items[Root], NEW at, EditAt(n, at)
  PROVE  RequestOK'
<1>1. /\ at \in 1..clock /\ at \in Nat /\ clock \in Nat /\ items[Root][n].kind = "user"
      /\ \A a \in Agents : /\ items'[a] = Kept(a, at) /\ DOMAIN items'[a] = 1..Len(items'[a])
                           /\ items'[a] \in Seq(ItemSet) /\ Len(items'[a]) \in Nat
                           /\ \E e : Cut(items[a], items'[a], at, e)
  BY EditStamp
<1>2. ItemsTyped /\ StampsOK /\ OrderOK /\ Root \in Agents /\ StampsOK'
  BY RunnerAssumption, EditItems DEF TInv
<1>3. clock' = clock
  BY EditFrame
<1>4. PICK r : r = request'
  OBVIOUS
<1>5. /\ r.agent = Root /\ r.last = AnchorSequence(n, at)
      /\ r.known = {s \in Stamps : s <= at} /\ r.since = clock
  BY <1>4 DEF EditAt, Edit, Serve
<1>6. PICK s \in Seq(ItemSet) : s = items[Root]
  BY <1>2 DEF ItemsTyped
<1>7. DOMAIN s = 1..Len(s) /\ Len(s) \in Nat /\ n \in 1..Len(s)
  BY <1>6
<1>8. \A i \in 1..Len(s) : s[i].at \in 1..clock
  BY <1>2, <1>6, <1>7 DEF StampsOK
<1>9. \A j \in 1..Len(s) : n < j => at < s[j].at
  BY <1>1, <1>2, <1>6, <1>7 DEF OrderOK, EditAt
<1>10. AnchorSequence(n, at) = Len(items'[Root])
  <2> DEFINE W == {i \in DOMAIN s : s[i].at <= at}
  <2>1. {i \in 1..n : s[i].at <= at} = {k \in 1..Len(s) : k \in W}
    <3>1. ASSUME NEW k \in 1..Len(s), s[k].at <= at PROVE k \in 1..n
      <4>1. s[k].at \in 1..clock /\ ~(at < s[k].at)
        BY <1>1, <1>8, <3>1
      <4> QED
        BY <1>7, <1>9, <4>1
    <3>2. \A k \in 1..n : k \in 1..Len(s)
      BY <1>7
    <3> QED
      BY <1>7, <3>1, <3>2
  <2>2. Kept(Root, at) = Selected(s, W)
    BY <1>6 DEF Kept
  <2> HIDE DEF W
  <2>3. Cardinality({k \in 1..Len(s) : k \in W}) = Len(Selected(s, W))
    BY SelectedPlaces
  <2>4. AnchorSequence(n, at) = Cardinality({i \in 1..n : s[i].at <= at})
    BY <1>6 DEF AnchorSequence
  <2> QED
    BY <1>1, <1>2, <2>1, <2>2, <2>3, <2>4
<1>11. r.last \in Nat /\ r.last <= Len(items'[Root])
  BY <1>1, <1>2, <1>5, <1>10
<1>12. r.known \in SUBSET (1..clock)
  BY <1>2, <1>5 DEF Stamps, StampsOf, StampsOK
<1>13. ASSUME NEW a \in Agents, NEW i \in DOMAIN items'[a]
       PROVE  items'[a][i].at \in r.known /\ items'[a][i].at <= clock
  <2>1. PICK e : Cut(items[a], items'[a], at, e)
    BY <1>1
  <2>2. items[a] \in Seq(ItemSet) /\ DOMAIN items[a] = 1..Len(items[a])
    BY <1>2 DEF ItemsTyped
  <2>3. e[i] \in DOMAIN items[a] /\ items'[a][i] = items[a][e[i]] /\ items[a][e[i]].at <= at
    BY <1>1, <2>1, <2>2 DEF Cut
  <2>4. items[a][e[i]].at \in 1..clock /\ items[a][e[i]].at \in Stamps
    BY <1>2, <2>3 DEF StampsOK, Stamps, StampsOf
  <2> QED
    BY <1>1, <1>5, <2>3, <2>4
<1>14. \A i \in DOMAIN items'[Root] : i <= r.last
  BY <1>1, <1>2, <1>5, <1>10
<1>15. clock \in 0..clock
  BY <1>1
<1> QED
  BY <1>2, <1>3, <1>4, <1>5, <1>11, <1>12, <1>13, <1>14, <1>15 DEF RequestOK

(* An edit keeps the invariant. *)
LEMMA EditKeeps ==
  ASSUME TInv, NEW n \in DOMAIN items[Root], Edit(n)
  PROVE  TInv'
<1>1. PICK at : EditAt(n, at)
  BY DEF EditAt
<1>2. RunnerInv'
  BY <1>1, EditRunner
<1>3. ItemsTyped' /\ LogsKept' /\ StampsOK' /\ OrderOK' /\ PendingOK'
  BY <1>1, EditItems
<1>4. TurnsOK' /\ QueueOK' /\ TasksOK' /\ RootOK' /\ AgentsHaveTasks' /\ RecentOK'
  BY <1>1, EditAgents
<1>5. RequestOK'
  BY <1>1, EditRequest
<1> QED
  BY <1>2, <1>3, <1>4, <1>5 DEF TInv

-------------------------------------------------------------------------------
(* The invariant holds.                                                    *)

(* The invariant holds at the start, *)
LEMMA TInvInit == TranscriptInit => TInv
<1> SUFFICES ASSUME TranscriptInit PROVE TInv
  OBVIOUS
<1>1. /\ Init /\ items = [a \in Agents |-> <<>>] /\ clock = 0 /\ pending = <<>>
      /\ request = [agent |-> None, last |-> 0, known |-> {}, since |-> 0, number |-> 0]
      /\ loose = {} /\ gone = {} /\ rewound = 0
      /\ Root \in Agents /\ None \notin Agents \union Calls
  BY RunnerAssumption DEF TranscriptInit
<1>2. /\ \A a \in Agents : /\ status[a] = "absent" /\ parent[a] = None /\ source[a] = None
                           /\ waiting[a] = {} /\ log[a] = <<>> /\ pc[a] = "idle"
                           /\ todo[a] = <<>> /\ waits[a] = {} /\ items[a] = <<>>
      /\ queued = 0 /\ current = None /\ ~delivering /\ ~signal
  BY <1>1 DEF Init
<1>3. \A a \in Agents : Pending(a) = {} /\ WaitCalls(waits[a]) = {} /\ WaitCalls(waiting[a]) = {}
  BY <1>2 DEF Pending, WaitCalls
<1>4. RunnerInv
  <2>1. Core
    BY <1>1, CoreInit
  <2>2. SourcesOK
    BY <1>2, <1>3 DEF SourcesOK
  <2>3. SignalOK /\ ReturnedOK /\ Chain
    BY <1>2 DEF SignalOK, ReturnedOK, Chain
  <2> QED
    BY <2>1, <2>2, <2>3 DEF RunnerInv
<1>5. ItemsTyped
  BY <1>1, <1>2, EmptySeq DEF ItemsTyped
<1>6. LogsKept
  <2>1. LogOf(<<>>) = <<>>
    <3>1. PICK s \in Seq(ItemSet) : s = <<>>
      BY EmptySeq
    <3>2. \A i \in DOMAIN s : ~Logs(s[i])
      BY <3>1
    <3>3. LogOf(s) = <<>>
      BY <3>2, LogNothing
    <3> QED
      BY <3>1, <3>3
  <2> QED
    BY <1>2, <2>1 DEF LogsKept
<1>7. \A a \in Agents : DOMAIN items[a] = {}
  BY <1>2
<1>8. StampsOK /\ OrderOK
  BY <1>7 DEF StampsOK, OrderOK
<1>9. PendingOK
  BY <1>1 DEF PendingOK
<1>10. TurnsOK /\ QueueOK
  BY <1>2 DEF TurnsOK, QueueOK, Handling
<1>11. TasksOK /\ RootOK /\ AgentsHaveTasks
  BY <1>1, <1>2 DEF TasksOK, RootOK, AgentsHaveTasks
<1>12. RecentOK
  BY <1>3 DEF RecentOK
<1>13. RequestOK
  BY <1>1, <1>7 DEF RequestOK
<1> QED
  BY <1>4, <1>5, <1>6, <1>8, <1>9, <1>10, <1>11, <1>12, <1>13 DEF TInv

(* every step keeps it, *)
LEMMA TInvStep == TInv /\ [TranscriptNext]_transcriptVars => TInv'
<1> SUFFICES ASSUME TInv, [TranscriptNext]_transcriptVars PROVE TInv'
  OBVIOUS
<1>1. CASE Submit \/ \E b \in Agents : \E e \in waiting[b] : DeliverResult(b, e)
  BY <1>1, RequestKeeps
<1>2. CASE QueueInput
  BY <1>2, QueueKeeps
<1>3. CASE CancelRequest
  BY <1>3, CancelKeeps
<1>4. CASE \E n \in DOMAIN items[Root] : Edit(n)
  BY <1>4, EditKeeps
<1>5. CASE \E a \in Agents : RunStep(a)
  BY <1>5, RunKeeps
<1>6. CASE UNCHANGED transcriptVars
  BY <1>6, StutterKeeps
<1> QED
  BY <1>1, <1>2, <1>3, <1>4, <1>5, <1>6 DEF TranscriptNext, AtRest

(* and so it always holds. *)
LEMMA TInvAlways == TranscriptSpec => []TInv
BY TInvInit, TInvStep, PTL DEF TranscriptSpec

(* The transcripts have their types and carry the runner's log and queue. *)
THEOREM TypesHold == TranscriptSpec => []TranscriptTypeOK
<1>1. TInv => TranscriptTypeOK
  <2> SUFFICES ASSUME TInv PROVE TranscriptTypeOK
    OBVIOUS
  <2>1. TypeOK /\ ItemsTyped /\ LogsKept /\ RequestOK
    BY DEF TInv, RunnerInv, Core
  <2>2. request.known \subseteq 1..clock
    <3>1. request.since \in 0..clock /\ request.known \subseteq 1..request.since /\ clock \in Nat
      BY <2>1 DEF RequestOK, ItemsTyped
    <3>2. 1..request.since \subseteq 1..clock
      BY <3>1
    <3> QED
      BY <3>1, <3>2
  <2> QED
    BY <2>1, <2>2 DEF TranscriptTypeOK, ItemsTyped, LogsKept, RequestOK
<1> QED
  BY <1>1, TInvAlways, PTL

(* What the runner guarantees of one request after the other it also       *)
(* guarantees when edits rewind the transcripts in between: the rewound    *)
(* rows, logs and waits are such that no call gets a second output, every  *)
(* wait is an open call, delegation builds a tree and every wait leads     *)
(* down to one that a person can answer.                                   *)
THEOREM RunnerSurvivesRewinds ==
  TranscriptSpec => [](AnsweredOnce /\ WaitsAreOpen /\ DelegationTree /\ WaitChain /\ NoneLeftRunning)
<1>1. TInv => AnsweredOnce /\ WaitsAreOpen
  BY DEF TInv, RunnerInv, Core
<1>2. TInv => DelegationTree
  <2> SUFFICES ASSUME TInv, NEW b \in Agents
               PROVE  /\ depth[b] <= MaxDepth
                      /\ parent[b] # None =>
                           /\ depth[b] = depth[parent[b]] + 1
                           /\ source[b] \in Issued(parent[b])
                           /\ \A c \in Agents : source[c] = source[b] => c = b
    BY DEF DelegationTree
  <2>1. TreeOK /\ SourcesOK
    BY DEF TInv, RunnerInv, Core
  <2>2. depth[b] <= MaxDepth /\ (parent[b] # None => depth[b] = depth[parent[b]] + 1)
    BY <2>1 DEF TreeOK
  <2>3. parent[b] # None => /\ source[b] \in Issued(parent[b])
                            /\ \A c \in Agents : source[c] = source[b] => c = b
    BY <2>1 DEF SourcesOK
  <2> QED
    BY <2>2, <2>3
<1>3. TInv => WaitChain
  <2> SUFFICES ASSUME TInv, current = None, NEW a \in Agents, NEW e \in waiting[a], e.type = "agent"
               PROVE  \E b \in Agents : parent[b] = a /\ source[b] = e.call /\ status[b] = "waiting"
    BY DEF WaitChain
  <2>1. TypeOK /\ StackOK /\ Chain
    BY DEF TInv, RunnerInv, Core
  <2>2. PICK b \in Agents : Leads(a, e, b)
    BY <2>1 DEF Chain
  <2>3. status[b] = "waiting"
    BY <2>1, <2>2, ChainAtRest
  <2> QED
    BY <2>2, <2>3 DEF Leads
<1>4. TInv => NoneLeftRunning
  <2> SUFFICES ASSUME TInv, current = None, NEW a \in Agents PROVE status[a] \notin {"pending", "running"}
    BY DEF NoneLeftRunning
  <2>1. TypeOK /\ StackOK /\ TreeOK
    BY DEF TInv, RunnerInv, Core
  <2>2. pc[a] = "idle"
    BY <2>1, AllIdle
  <2> QED
    BY <2>1, <2>2 DEF TreeOK
<1> QED
  BY <1>1, <1>2, <1>3, <1>4, TInvAlways, PTL

(* A child that survives a rewind has kept its task and the call that      *)
(* created it.                                                             *)
THEOREM ChildrenKeepTasks == TranscriptSpec => []AgentsHaveTasks
<1>1. TInv => AgentsHaveTasks
  BY DEF TInv
<1> QED
  BY <1>1, TInvAlways, PTL

(* Every wait is for a call that is younger than the last rewind. *)
THEOREM NoOldQuestions == TranscriptSpec => []RewindEndsWaits
<1>1. TInv => RewindEndsWaits
  <2> SUFFICES ASSUME TInv, NEW a \in Agents, NEW e \in waiting[a]
               PROVE  \E i \in DOMAIN items[a] :
                        items[a][i].kind = "call" /\ items[a][i].call = e.call /\ items[a][i].at > rewound
    BY DEF RewindEndsWaits
  <2>1. e.call \in WaitCalls(waiting[a])
    BY DEF WaitCalls
  <2> QED
    BY <2>1 DEF TInv, RecentOK, Recent
<1> QED
  BY <1>1, TInvAlways, PTL

(* What was pending and was taken stands in the root's transcript. *)
LEMMA StoresQueue ==
  ASSUME TypeOK, ItemsTyped, NEW a \in Agents, NEW new \in Seq(NewRows), Stores(a, new)
  PROVE  ToSet(pending) \subseteq ToSet(pending') \union Stamps'
<1>1. /\ queued' = queued /\ pending' = pending
      \/ queued' < queued
  BY StoresClock
<1>2. CASE queued' < queued
  <2>1. /\ items' \in [Agents -> Seq(ItemSet)]
        /\ Grows(items[Root], items'[Root], Own(Root, a, new), Taken(Root, queued' < queued))
    BY StoreGrows, RunnerAssumption DEF Stores
  <2>2. Taken(Root, queued' < queued) = pending
    BY <1>2 DEF Taken
  <2>3. PICK own : own = Own(Root, a, new)
    OBVIOUS
  <2>4. /\ Len(items'[Root]) = Len(items[Root]) + Len(own) + Len(pending)
        /\ \A j \in 1..Len(pending) :
             items'[Root][Len(items[Root]) + Len(own) + j] = Item("user", None, pending[j])
    BY <2>1, <2>2, <2>3 DEF Grows
  <2>5. Len(own) \in Nat /\ Len(items[Root]) \in Nat /\ Len(pending) \in Nat /\ DOMAIN pending = 1..Len(pending)
    <3>1. items[Root] \in Seq(ItemSet) /\ pending \in Seq(1..clock)
      BY RunnerAssumption DEF ItemsTyped
    <3>2. own \in Seq(NewRows)
      BY <2>3, EmptySeq DEF Own
    <3> QED
      BY <3>1, <3>2
  <2>6. PICK t \in Seq(ItemSet) : t = items'[Root]
    BY <2>1, RunnerAssumption
  <2>7. ASSUME NEW j \in 1..Len(pending) PROVE pending[j] \in Stamps'
    <3>1. PICK i \in Nat : i = Len(items[Root]) + Len(own) + j
      BY <2>5
    <3>2. i \in 1..Len(t)
      BY <2>4, <2>5, <2>6, <3>1
    <3>3. i \in DOMAIN t
      BY <3>2
    <3>4. t[i].at = pending[j]
      <4>1. t[i] = Item("user", None, pending[j])
        BY <2>4, <2>6, <3>1
      <4> QED
        BY <4>1 DEF Item
    <3>5. pending[j] \in StampsOf(items'[Root])
      BY <2>6, <3>3, <3>4 DEF StampsOf
    <3> QED
      BY <3>5, RunnerAssumption DEF Stamps
  <2> QED
    BY <2>5, <2>7 DEF ToSet
<1> QED
  BY <1>1, <1>2

(* Only an edit drops a queued message. *)
LEMMA QueueTaken ==
  ASSUME TInv, [TranscriptNext]_transcriptVars, \A n \in DOMAIN items[Root] : ~Edit(n)
  PROVE  ToSet(pending) \subseteq ToSet(pending') \union Stamps'
<1>1. Core /\ TypeOK /\ SignalOK /\ QueueOK /\ queued \in Nat /\ ItemsTyped
  BY DEF TInv, RunnerInv, Core, TypeOK
<1>2. CASE Submit \/ \E b \in Agents : \E e \in waiting[b] : DeliverResult(b, e)
  <2>1. PICK x \in Agents, new \in Seq(NewRows) : Stores(x, new)
    BY <1>1, <1>2, RequestStores
  <2> QED
    BY <1>1, <2>1, StoresQueue
<1>3. ASSUME NEW a \in Agents, RunStep(a) PROVE ToSet(pending) \subseteq ToSet(pending') \union Stamps'
  <2>1. PICK x \in Agents, new \in Seq(NewRows) : Stores(x, new)
    BY <1>1, <1>3, RunStores
  <2> QED
    BY <1>1, <2>1, StoresQueue
<1>4. CASE QueueInput
  <2>1. pending' = Append(pending, clock + 1)
    BY <1>4 DEF QueueInput
  <2>2. pending \in Seq(1..clock) /\ clock \in Nat
    BY <1>1 DEF ItemsTyped
  <2>3. /\ DOMAIN pending = 1..Len(pending) /\ DOMAIN pending' = 1..(Len(pending) + 1)
        /\ Len(pending) \in Nat /\ \A i \in 1..Len(pending) : pending'[i] = pending[i]
    BY <2>1, <2>2
  <2> QED
    BY <2>3 DEF ToSet
<1>5. CASE CancelRequest \/ UNCHANGED transcriptVars
  BY <1>5 DEF CancelRequest, transcriptVars, itemVars
<1> QED
  BY <1>2, <1>3, <1>4, <1>5 DEF TranscriptNext, AtRest

(* An accepted message is pending or in the transcript, never both, and    *)
(* nothing but an edit drops it.                                           *)
THEOREM QueueIsTaken == TranscriptSpec => QueueIsTakenOnce
<1> DEFINE Q == /\ \A s \in ToSet(pending) : s \notin Stamps
                /\ \A i, j \in DOMAIN items[Root] :
                     items[Root][i].kind = "user" /\ items[Root][j].kind = "user" /\ i < j =>
                       items[Root][i].at < items[Root][j].at
<1>1. TInv => Q
  <2> SUFFICES ASSUME TInv PROVE Q
    OBVIOUS
  <2>1. StampsOK /\ OrderOK /\ Root \in Agents
    BY RunnerAssumption DEF TInv
  <2>2. \A s \in ToSet(pending) : s \notin Stamps
    BY <2>1 DEF StampsOK, Stamps, StampsOf
  <2> QED
    BY <2>1, <2>2 DEF OrderOK
<1>2. TInv /\ [TranscriptNext]_transcriptVars =>
        ((\A n \in DOMAIN items[Root] : ~Edit(n)) => ToSet(pending) \subseteq ToSet(pending') \union Stamps')
  BY QueueTaken
<1> QED
  BY <1>1, <1>2, TInvAlways, PTL DEF TranscriptSpec, QueueIsTakenOnce

-------------------------------------------------------------------------------
(* The answer.                                                             *)

(* Empty pieces in front of others leave nothing. *)
LEMMA FlattenPrefix ==
  ASSUME NEW R, NEW l \in Nat, NEW q \in [1..l -> {<<>>}], NEW m \in Nat, NEW r \in [1..m -> Seq(R)]
  PROVE  FlattenSeq(q \o r) = FlattenSeq(r)
<1>1. PICK x \in [1..l -> Seq(R)] : x = q
  BY EmptySeq
<1>2. FlattenSeq(x \o r) = FlattenSeq(x) \o FlattenSeq(r)
  <2>1. \A i, j \in Nat : \A y \in [1..i -> Seq(R)] : \A z \in [1..j -> Seq(R)] :
          FlattenSeq(y \o z) = FlattenSeq(y) \o FlattenSeq(z)
    BY ONLY FlattenConcat
  <2>2. l \in Nat /\ m \in Nat /\ x \in [1..l -> Seq(R)] /\ r \in [1..m -> Seq(R)]
    OBVIOUS
  <2>3. \A z \in [1..m -> Seq(R)] : FlattenSeq(x \o z) = FlattenSeq(x) \o FlattenSeq(z)
    BY ONLY <2>1, <2>2, Zenon
  <2> QED
    BY ONLY <2>2, <2>3, Zenon
<1>3. FlattenSeq(q) = <<>>
  BY FlattenEmpty
<1>4. PICK y \in Seq(R) : y = FlattenSeq(r)
  BY FlattenType
<1>5. <<>> \o y = y
  BY ConcatEmptySeq
<1> QED
  BY <1>1, <1>2, <1>3, <1>4, <1>5

(* What is selected behind a place is selected from the rest. *)
LEMMA SelectedSuffix ==
  ASSUME NEW R, NEW s \in Seq(R), NEW l \in Nat, l <= Len(s), NEW V, NEW W,
         \A k \in 1..Len(s) : k \in V => l < k,
         \A j \in 1..(Len(s) - l) : (l + j) \in V <=> j \in W
  PROVE  Selected(s, V) = Selected(SubSeq(s, l + 1, Len(s)), W)
<1> DEFINE t == SubSeq(s, l + 1, Len(s))
<1>1. PICK n \in Nat : n = Len(s)
  OBVIOUS
<1>2. PICK m \in Nat : m = n - l /\ n = l + m
  <2>1. l <= n
    BY <1>1
  <2>2. n - l \in Nat /\ n = l + (n - l)
    BY <2>1
  <2> QED
    BY <2>2
<1>3. t \in Seq(R) /\ Len(t) = m /\ \A j \in 1..m : t[j] = s[l + j]
  <2>1. \A i \in (l + 1)..Len(s) : s[i] \in R
    OBVIOUS
  <2>2. t = [j \in 1..m |-> s[l + j]]
    BY <1>1, <1>2
  <2>3. \A j \in 1..m : l + j \in 1..Len(s)
    BY <1>1, <1>2
  <2> HIDE DEF t
  <2> QED
    BY <2>2, <2>3
<1> HIDE DEF t
<1>4. PICK u \in Seq(R) : u = t
  BY <1>3
<1> DEFINE p == [i \in 1..n |-> IF i \in V THEN <<s[i]>> ELSE <<>>]
           q == [i \in 1..l |-> <<>>]
           r == [i \in 1..m |-> IF i \in W THEN <<u[i]>> ELSE <<>>]
<1>5. /\ \A i \in 1..n : s[i] \in R /\ <<s[i]>> \in Seq(R)
      /\ \A i \in 1..m : u[i] \in R /\ <<u[i]>> \in Seq(R)
      /\ <<>> \in Seq(R)
      /\ DOMAIN s = 1..n /\ DOMAIN u = 1..m
  BY <1>1, <1>3, <1>4, EmptySeq
<1>6. /\ p \in [1..n -> Seq(R)] /\ q \in [1..l -> Seq(R)] /\ r \in [1..m -> Seq(R)]
      /\ q \in [1..l -> {<<>>}]
  BY <1>5
<1>7. Selected(s, V) = FlattenSeq(p) /\ Selected(u, W) = FlattenSeq(r)
  BY <1>5 DEF Selected
<1>8. /\ \A i \in 1..l : p[i] = <<>> /\ q[i] = <<>>
      /\ \A j \in 1..m : p[l + j] = r[j]
  <2>1. ASSUME NEW i \in 1..l PROVE p[i] = <<>> /\ q[i] = <<>>
    <3>1. i \in 1..n /\ ~(l < i)
      BY <1>2
    <3>2. i \notin V
      BY <1>1, <3>1
    <3> QED
      BY <3>1, <3>2
  <2>2. ASSUME NEW j \in 1..m PROVE p[l + j] = r[j]
    <3>1. PICK k \in 1..n : k = l + j
      BY <1>2
    <3>2. k \in V <=> j \in W
      BY <1>1, <1>2, <3>1
    <3>3. u[j] = s[k]
      BY <1>3, <1>4, <3>1
    <3>4. p[k] = IF k \in V THEN <<s[k]>> ELSE <<>>
      OBVIOUS
    <3>5. r[j] = IF j \in W THEN <<u[j]>> ELSE <<>>
      OBVIOUS
    <3> QED
      BY <3>1, <3>2, <3>3, <3>4, <3>5
  <2> QED
    BY <2>1, <2>2
<1> HIDE DEF p, q, r
<1>9. p = q \o r
  <2>1. /\ p \in Seq(Seq(R)) /\ Len(p) = n /\ q \in Seq(Seq(R)) /\ Len(q) = l
        /\ r \in Seq(Seq(R)) /\ Len(r) = m
    BY <1>6
  <2>2. /\ q \o r \in Seq(Seq(R)) /\ Len(q \o r) = Len(q) + Len(r)
        /\ \A i \in 1..Len(q) + Len(r) : (q \o r)[i] = IF i <= Len(q) THEN q[i] ELSE r[i - Len(q)]
    BY ONLY <2>1, ConcatProperties
  <2>3. \A i \in 1..l + m : (q \o r)[i] = IF i <= l THEN q[i] ELSE r[i - l]
    BY ONLY <2>1, <2>2
  <2>4. ASSUME NEW i \in 1..Len(p) PROVE p[i] = (q \o r)[i]
    <3>1. i \in 1..l + m
      BY <1>2, <2>1
    <3>2. CASE i <= l
      <4>1. i \in 1..l
        BY <3>1, <3>2
      <4>2. (q \o r)[i] = q[i]
        BY <2>3, <3>1, <3>2
      <4> QED
        BY <1>8, <4>1, <4>2
    <3>3. CASE ~(i <= l)
      <4>1. PICK j \in 1..m : j = i - l /\ i = l + j
        BY <3>1, <3>3
      <4> QED
        BY <1>8, <2>3, <3>1, <3>3, <4>1
    <3> QED
      BY <3>2, <3>3
  <2> QED
    BY <1>2, <2>1, <2>2, <2>4, SeqEqual
<1>10. FlattenSeq(q \o r) = FlattenSeq(r)
  BY <1>6, FlattenPrefix
<1>11. FlattenSeq(p) = FlattenSeq(r)
  BY <1>9, <1>10
<1> QED
  BY <1>4, <1>7, <1>11 DEF t

(* The plain answer is what the run stored for its agent. *)
LEMMA PlainIsTheRun ==
  ASSUME TInv, request.agent # None
  PROVE  PlainAnswer = Selected(items[request.agent],
                         {i \in DOMAIN items[request.agent] :
                            /\ items[request.agent][i].at > request.since
                            /\ items[request.agent][i].kind \in {"text", "call"}})
<1>1. RequestOK /\ ItemsTyped /\ StampsOK
  BY DEF TInv
<1>2. PICK a \in Agents : a = request.agent
  BY <1>1 DEF RequestOK
<1>3. PICK s \in Seq(ItemSet) : s = items[a]
  BY <1>1 DEF ItemsTyped
<1>4. PICK l \in Nat : l = request.last /\ l <= Len(s)
  BY <1>1, <1>2, <1>3 DEF RequestOK
<1>5. request.since \in Nat
  BY <1>1 DEF RequestOK, ItemsTyped
<1>6. \A i \in DOMAIN s : s[i].kind # "user" => (i <= l <=> s[i].at <= request.since)
  BY <1>1, <1>2, <1>3, <1>4 DEF RequestOK
<1>7. DOMAIN s = 1..Len(s) /\ Len(s) \in Nat /\ \A i \in 1..Len(s) : s[i].at \in Nat
  <2>1. DOMAIN s = 1..Len(s) /\ Len(s) \in Nat /\ \A i \in 1..Len(s) : s[i] \in ItemSet
    OBVIOUS
  <2> QED
    BY <2>1 DEF ItemSet
<1> DEFINE t == SubSeq(s, l + 1, Len(s))
           V == {i \in DOMAIN s : s[i].at > request.since /\ s[i].kind \in {"text", "call"}}
           W == {i \in DOMAIN t : t[i].kind \in {"text", "call"}}
<1>8. DOMAIN t = 1..(Len(s) - l) /\ \A j \in 1..(Len(s) - l) : t[j] = s[l + j]
  <2>1. t = [j \in 1..(Len(s) - l) |-> s[l + j]]
    <3>1. PICK n \in Nat : n = Len(s) /\ l <= n
      BY <1>4, <1>7
    <3>2. n - l \in Nat /\ (n - (l + 1)) + 1 = n - l /\ \A j \in Nat : ((l + 1) + j) - 1 = l + j
      BY <3>1
    <3>3. SubSeq(s, l + 1, n) = [j \in 1..(n - l) |-> s[l + j]]
      BY <3>1, <3>2
    <3> QED
      BY <3>1, <3>3
  <2> HIDE DEF t
  <2> QED
    BY <2>1
<1> HIDE DEF t
<1>9. \A i \in 1..Len(s) : i \in V => l < i
  <2> SUFFICES ASSUME NEW i \in 1..Len(s), i \in V PROVE l < i
    OBVIOUS
  <2>1. s[i].at > request.since /\ s[i].kind # "user"
    OBVIOUS
  <2>2. ~(s[i].at <= request.since)
    BY <1>5, <1>7, <2>1
  <2>3. ~(i <= l)
    BY <1>6, <1>7, <2>1, <2>2
  <2> QED
    BY <1>4, <2>3
<1>10. ASSUME NEW j \in 1..(Len(s) - l) PROVE (l + j) \in V <=> j \in W
  <2>1. PICK i \in 1..Len(s) : i = l + j
    BY <1>4, <1>7
  <2>2. t[j] = s[i] /\ j \in DOMAIN t /\ i \in DOMAIN s /\ ~(i <= l)
    BY <1>4, <1>7, <1>8, <2>1
  <2>3. s[i].kind # "user" => s[i].at > request.since
    BY <1>5, <1>6, <1>7, <2>2
  <2> QED
    BY <2>1, <2>2, <2>3
<1> HIDE DEF V, W
<1>11. Selected(s, V) = Selected(t, W)
  BY <1>4, <1>9, <1>10, SelectedSuffix DEF t
<1>12. PlainAnswer = Selected(t, W)
  BY <1>2, <1>3, <1>4 DEF PlainAnswer, t, W
<1>13. Selected(s, V) = Selected(items[request.agent],
                         {i \in DOMAIN items[request.agent] :
                            /\ items[request.agent][i].at > request.since
                            /\ items[request.agent][i].kind \in {"text", "call"}})
  BY <1>2, <1>3 DEF V
<1> QED
  BY <1>11, <1>12, <1>13

(* Items with distinct stamps are ranked by them from the first to the     *)
(* last.                                                                   *)
LEMMA Ranks ==
  ASSUME NEW S, NEW n \in Nat, \A i \in S : i.at \in 1..n, \A i, j \in S : i.at = j.at => i = j
  PROVE  \A m \in 1..Cardinality(S) : \E i \in S : Cardinality({j \in S : j.at <= i.at}) = m
<1> DEFINE f == [i \in S |-> i.at]
           Upto(i) == {j \in S : j.at <= i.at}
           rank == [i \in S |-> Cardinality(Upto(i))]
<1>1. IsFiniteSet(S) /\ Cardinality(S) \in Nat
  <2>1. f \in Injection(S, 1..n)
    BY DEF Injection, IsInjective
  <2>2. IsFiniteSet(1..n)
    BY FS_Interval
  <2> HIDE DEF f
  <2>3. IsFiniteSet(S)
    BY <2>1, <2>2, FS_Injection
  <2> QED
    BY <2>3, FS_CardinalityType
<1>2. ASSUME NEW i \in S
      PROVE  /\ i \in Upto(i) /\ Upto(i) \subseteq S
             /\ IsFiniteSet(Upto(i)) /\ Cardinality(Upto(i)) \in 1..Cardinality(S)
  <2>1. i \in Upto(i) /\ Upto(i) \in SUBSET S
    OBVIOUS
  <2> HIDE DEF Upto
  <2>2. IsFiniteSet(Upto(i)) /\ Cardinality(Upto(i)) <= Cardinality(S)
    BY <1>1, <2>1, FS_Subset
  <2>3. Cardinality(Upto(i)) \in Nat /\ Cardinality(Upto(i)) # 0
    BY <2>1, <2>2, FS_CardinalityType, FS_EmptySet
  <2> QED
    BY <1>1, <2>1, <2>2, <2>3
<1>3. ASSUME NEW i \in S, NEW j \in S, i.at < j.at PROVE Cardinality(Upto(i)) # Cardinality(Upto(j))
  <2>1. Upto(i) \in SUBSET Upto(j) /\ j \notin Upto(i)
    BY <1>3
  <2>2. j \in Upto(j) /\ IsFiniteSet(Upto(j))
    BY <1>2
  <2> HIDE DEF Upto
  <2> QED
    BY <2>1, <2>2, FS_Subset
<1>4. ASSUME NEW i \in S, NEW j \in S, Cardinality(Upto(i)) = Cardinality(Upto(j)) PROVE i = j
  <2>1. ~(i.at < j.at) /\ ~(j.at < i.at)
    BY <1>3, <1>4
  <2>2. i.at = j.at
    BY <2>1
  <2> QED
    BY <2>2
<1>5. rank \in Injection(S, 1..Cardinality(S))
  <2> HIDE DEF Upto
  <2> QED
    BY <1>2, <1>4 DEF Injection, IsInjective
<1>6. rank \in Surjection(S, 1..Cardinality(S))
  <2>1. IsFiniteSet(1..Cardinality(S)) /\ Cardinality(1..Cardinality(S)) = Cardinality(S)
    BY <1>1, FS_Interval
  <2> HIDE DEF rank
  <2> QED
    BY <1>5, <2>1, FS_Injection
<1> HIDE DEF Upto
<1>7. \A m \in 1..Cardinality(S) : \E i \in S : Cardinality(Upto(i)) = m
  BY <1>6 DEF Surjection
<1> QED
  BY <1>7 DEF Upto

(* The session's items, one after the other, are items of its agents. *)
LEMMA ChronologicalItems ==
  ASSUME ItemsTyped, StampsOK
  PROVE  \A m \in DOMAIN Chronological :
           \E a \in Agents : \E i \in DOMAIN items[a] : Chronological[m] = items[a][i]
<1> DEFINE all == UNION {ToSet(items[a]) : a \in Agents}
<1>1. \A x \in all : \E a \in Agents : \E i \in DOMAIN items[a] : x = items[a][i]
  BY DEF ToSet
<1>2. \A x \in all : x.at \in 1..clock
  BY <1>1 DEF StampsOK
<1>3. \A x, y \in all : x.at = y.at => x = y
  <2> SUFFICES ASSUME NEW x \in all, NEW y \in all, x.at = y.at PROVE x = y
    OBVIOUS
  <2> HIDE DEF all
  <2>1. PICK a \in Agents : \E i \in DOMAIN items[a] : x = items[a][i]
    BY <1>1
  <2>2. PICK i \in DOMAIN items[a] : x = items[a][i]
    BY <2>1
  <2>3. PICK b \in Agents : \E j \in DOMAIN items[b] : y = items[b][j]
    BY <1>1
  <2>4. PICK j \in DOMAIN items[b] : y = items[b][j]
    BY <2>3
  <2>5. a = b /\ i = j
    BY <2>2, <2>4 DEF StampsOK
  <2> QED
    BY <2>2, <2>4, <2>5
<1>4. clock \in Nat
  BY DEF ItemsTyped
<1> HIDE DEF all
<1>5. \A m \in 1..Cardinality(all) : \E i \in all : Cardinality({j \in all : j.at <= i.at}) = m
  BY <1>2, <1>3, <1>4, Ranks
<1>6. Chronological = [m \in 1..Cardinality(all) |->
                         CHOOSE i \in all : Cardinality({j \in all : j.at <= i.at}) = m]
  BY DEF Chronological, all
<1>7. ASSUME NEW m \in DOMAIN Chronological PROVE Chronological[m] \in all
  <2>1. m \in 1..Cardinality(all)
    BY <1>6
  <2>2. Chronological[m] = CHOOSE i \in all : Cardinality({j \in all : j.at <= i.at}) = m
    BY <1>6, <2>1
  <2> QED
    BY <1>5, <2>1, <2>2
<1> QED
  BY <1>1, <1>7

(* The answer with tool results is what the run stored for all agents. *)
LEMMA FullIsTheRun ==
  ASSUME TInv
  PROVE  FullAnswer = Selected(Chronological,
                        {i \in DOMAIN Chronological :
                           Chronological[i].at > request.since /\ Chronological[i].kind # "user"})
<1>1. RequestOK /\ ItemsTyped /\ StampsOK
  BY DEF TInv
<1>2. PICK s : s = Chronological
  OBVIOUS
<1>3. ASSUME NEW m \in DOMAIN s, s[m].kind # "user"
      PROVE  s[m].at \notin request.known <=> s[m].at > request.since
  <2>1. PICK a \in Agents : \E i \in DOMAIN items[a] : s[m] = items[a][i]
    BY <1>1, <1>2, ChronologicalItems
  <2>2. PICK i \in DOMAIN items[a] : s[m] = items[a][i]
    BY <2>1
  <2>3. s[m].at \in request.known <=> s[m].at <= request.since
    BY <1>1, <1>3, <2>2 DEF RequestOK
  <2>4. s[m].at \in Nat /\ request.since \in Nat
    BY <1>1, <2>2 DEF StampsOK, RequestOK, ItemsTyped
  <2> QED
    BY <2>3, <2>4
<1>4. {i \in DOMAIN s : s[i].at \notin request.known /\ s[i].kind # "user"}
        = {i \in DOMAIN s : s[i].at > request.since /\ s[i].kind # "user"}
  BY <1>3
<1> QED
  BY <1>2, <1>4 DEF FullAnswer

(* The chain of parents above an agent. *)
Ups(b, up, n) == up = [m \in 0..n |-> IF m = 0 THEN b ELSE parent[up[m - 1]]]

(* The chain can be followed as far as one likes. *)
LEMMA UpsExist ==
  ASSUME NEW b, NEW n \in Nat
  PROVE  \E up : Ups(b, up, n)
<1> DEFINE T == {m \in Nat : \E up : Ups(b, up, m)}
<1>1. 0 \in T
  <2> DEFINE up == [m \in 0..0 |-> b]
  <2>1. Ups(b, up, 0)
    BY DEF Ups
  <2> QED
    BY <2>1
<1>2. ASSUME NEW m \in 1..n, m - 1 \in T PROVE m \in T
  <2>1. PICK up : Ups(b, up, m - 1)
    BY <1>2
  <2> DEFINE h == [i \in 0..m |-> IF i = m THEN parent[up[m - 1]] ELSE up[i]]
  <2>2. ASSUME NEW i \in 0..m PROVE h[i] = IF i = 0 THEN b ELSE parent[h[i - 1]]
    <3>1. CASE i = m
      BY <3>1
    <3>2. CASE i # m
      <4>1. i \in 0..m - 1 /\ i - 1 # m /\ h[i] = up[i] /\ (i # 0 => h[i - 1] = up[i - 1])
        BY <3>2
      <4>2. up[i] = IF i = 0 THEN b ELSE parent[up[i - 1]]
        BY <2>1, <4>1 DEF Ups
      <4> QED
        BY <4>1, <4>2
    <3> QED
      BY <3>1, <3>2
  <2>3. h = [i \in 0..m |-> h[i]]
    OBVIOUS
  <2> HIDE DEF h
  <2>4. h = [i \in 0..m |-> IF i = 0 THEN b ELSE parent[h[i - 1]]]
    BY <2>2, <2>3
  <2>5. Ups(b, h, m)
    BY <2>4, Zenon DEF Ups
  <2>6. m \in Nat
    OBVIOUS
  <2> QED
    BY <2>5, <2>6
<1> HIDE DEF T
<1>3. n \in T
  BY <1>1, <1>2, UpTo
<1> QED
  BY <1>3 DEF T

(* A path of delegate waits, along the chain of parents. *)
Leading(a, b, up, n) ==
  /\ up[n] = a
  /\ \A m \in 0..n : status[up[m]] = "waiting"
  /\ \A m \in 0..(n - 1) :
       up[m] \in Agents /\ [call |-> source[up[m]], type |-> "agent"] \in waiting[up[m + 1]]

(* What a path of delegate waits is, without its recursion. *)
LEMMA WaitPathUps ==
  ASSUME NEW a, NEW b, depth[b] \in Nat
  PROVE  \E up : /\ Ups(b, up, depth[b])
                 /\ WaitPath(a, b, Agents) <=> \E n \in 0..depth[b] : Leading(a, b, up, n)
<1> DEFINE up == CHOOSE f : Ups(b, f, depth[b])
<1>1. Ups(b, up, depth[b])
  BY UpsExist
<1>2. WaitPath(a, b, Agents) <=> \E n \in 0..depth[b] : Leading(a, b, up, n)
  BY DEF WaitPath, Ups, Leading
<1> QED
  BY <1>1, <1>2

(* Who waits is at the end of its own path. *)
LEMMA WaitPathStarts ==
  ASSUME NEW a, depth[a] \in Nat, status[a] = "waiting"
  PROVE  WaitPath(a, a, Agents)
<1>1. PICK up : /\ Ups(a, up, depth[a])
                /\ WaitPath(a, a, Agents) <=> \E n \in 0..depth[a] : Leading(a, a, up, n)
  BY WaitPathUps
<1>2. up[0] = a
  BY <1>1 DEF Ups
<1>3. 0..0 = {0} /\ 0..(0 - 1) = {} /\ 0 \in 0..depth[a]
  OBVIOUS
<1>4. Leading(a, a, up, 0)
  BY <1>2, <1>3 DEF Leading
<1> QED
  BY <1>1, <1>3, <1>4

(* A path goes on to a waiting child that a delegate wait leads to. *)
LEMMA WaitPathGrows ==
  ASSUME NEW a, NEW b, NEW c \in Agents, depth[b] \in Nat, depth[c] = depth[b] + 1, parent[c] = b,
         status[c] = "waiting", [call |-> source[c], type |-> "agent"] \in waiting[b],
         WaitPath(a, b, Agents)
  PROVE  WaitPath(a, c, Agents)
<1>1. PICK d \in Nat : d = depth[b] /\ d + 1 = depth[c]
  OBVIOUS
<1>2. PICK up : Ups(b, up, d) /\ \E n \in 0..d : Leading(a, b, up, n)
  BY <1>1, WaitPathUps
<1>3. PICK n \in 0..d : Leading(a, b, up, n)
  BY <1>2
<1>h. PICK h \in Nat : h = depth[c]
  BY <1>1
<1>i. h = d + 1
  BY <1>1, <1>h
<1>4. PICK v : /\ Ups(c, v, h)
               /\ WaitPath(a, c, Agents) <=> \E m \in 0..h : Leading(a, c, v, m)
  BY <1>h, WaitPathUps
<1>5. up[0] = b /\ \A m \in 1..d : up[m] = parent[up[m - 1]]
  BY <1>2 DEF Ups
<1>6. v[0] = c /\ \A m \in 1..(d + 1) : v[m] = parent[v[m - 1]]
  BY <1>4, <1>i DEF Ups
<1>7. \A m \in 0..d : v[m + 1] = up[m]
  <2> DEFINE T == {m \in 0..d : v[m + 1] = up[m]}
  <2>1. 0 \in T
    <3>1. 1 \in 1..(d + 1) /\ 1 - 1 = 0
      OBVIOUS
    <3>2. v[1] = parent[v[1 - 1]]
      BY <1>6, <3>1
    <3> QED
      BY <1>5, <1>6, <3>1, <3>2
  <2>2. ASSUME NEW m \in 1..d, m - 1 \in T PROVE m \in T
    <3>1. m + 1 \in 1..(d + 1) /\ (m + 1) - 1 = m /\ (m - 1) + 1 = m
      OBVIOUS
    <3>2. v[m] = up[m - 1]
      BY <2>2, <3>1
    <3>3. v[m + 1] = parent[v[m]] /\ up[m] = parent[up[m - 1]]
      BY <1>5, <1>6, <3>1
    <3> QED
      BY <3>2, <3>3
  <2> HIDE DEF T
  <2>3. \A m \in 0..d : m \in T
    BY <2>1, <2>2, UpTo
  <2> QED
    BY <2>3 DEF T
<1>8. v[n + 1] = a
  BY <1>3, <1>7 DEF Leading
<1>9. ASSUME NEW m \in 0..(n + 1) PROVE status[v[m]] = "waiting"
  <2>1. CASE m = 0
    BY <1>6, <2>1
  <2>2. CASE m # 0
    <3>1. PICK k \in 0..n : m = k + 1
      <4>1. m - 1 \in 0..n /\ m = (m - 1) + 1
        BY <2>2
      <4> QED
        BY <4>1
    <3>2. v[m] = up[k]
      BY <1>7, <3>1
    <3> QED
      BY <1>3, <3>2 DEF Leading
  <2> QED
    BY <2>1, <2>2
<1>10. ASSUME NEW m \in 0..n
       PROVE  v[m] \in Agents /\ [call |-> source[v[m]], type |-> "agent"] \in waiting[v[m + 1]]
  <2>1. CASE m = 0
    BY <1>5, <1>6, <1>7, <2>1
  <2>2. CASE m # 0
    <3>1. PICK k \in 0..(n - 1) : m = k + 1
      <4>1. m - 1 \in 0..(n - 1) /\ m = (m - 1) + 1
        BY <2>2
      <4> QED
        BY <4>1
    <3>2. v[k + 1] = up[k] /\ v[m + 1] = up[k + 1]
      BY <1>7, <3>1
    <3>3. up[k] \in Agents /\ [call |-> source[up[k]], type |-> "agent"] \in waiting[up[k + 1]]
      BY <1>3, <3>1 DEF Leading
    <3> QED
      BY <3>1, <3>2, <3>3
  <2> QED
    BY <2>1, <2>2
<1>11. Leading(a, c, v, n + 1)
  <2>1. (n + 1) - 1 = n
    OBVIOUS
  <2> QED
    BY <1>8, <1>9, <1>10, <2>1 DEF Leading
<1>12. n + 1 \in 0..h
  BY <1>i
<1> QED
  BY <1>4, <1>11, <1>12

(* Below an agent that waits between requests somebody waits for a person: *)
(* the deepest agent on its paths of delegate waits does.                  *)
LEMMA SomebodyIsAsked ==
  ASSUME RunnerInv, current = None, NEW a \in Agents, status[a] = "waiting"
  PROVE  \E b \in ActiveWaiting(a) : \E e \in waiting[b] : e.type = "human"
<1>1. /\ TypeOK /\ StackOK /\ TreeOK /\ WaitsAreOpen /\ Chain
      /\ MaxDepth \in Nat /\ None \notin Agents
  BY RunnerAssumption DEF RunnerInv, Core
<1>2. \A b \in Agents : depth[b] \in Nat /\ depth[b] <= MaxDepth
  BY <1>1 DEF TypeOK, TreeOK
<1> DEFINE below == ActiveWaiting(a)
           left == {MaxDepth - depth[b] : b \in below}
<1>3. a \in below /\ below \subseteq Agents
  BY <1>2, WaitPathStarts DEF ActiveWaiting
<1>4. \A b \in below : WaitPath(a, b, Agents)
  BY DEF ActiveWaiting
<1>5. \A c \in Agents : WaitPath(a, c, Agents) => c \in below
  BY DEF ActiveWaiting
<1> HIDE DEF below
<1>6. left \in SUBSET Nat /\ left # {}
  <2>1. ASSUME NEW b \in below PROVE MaxDepth - depth[b] \in Nat
    <3>1. depth[b] \in Nat /\ depth[b] <= MaxDepth
      BY <1>2, <1>3
    <3> QED
      BY <1>1, <3>1
  <2> QED
    BY <1>3, <2>1
<1>7. PICK b \in below : \A c \in below : MaxDepth - depth[b] <= MaxDepth - depth[c]
  <2>1. \E x \in left : \A y \in left : x <= y
    <3> HIDE DEF left
    <3> QED
      BY <1>6, LeastNumber
  <2> QED
    BY <2>1
<1>8. b \in Agents /\ status[b] = "waiting"
  <2>1. b \in Agents /\ depth[b] \in Nat
    BY <1>2, <1>3
  <2>2. PICK up : /\ Ups(b, up, depth[b])
                  /\ WaitPath(a, b, Agents) <=> \E n \in 0..depth[b] : Leading(a, b, up, n)
    BY <2>1, WaitPathUps
  <2>3. PICK n \in 0..depth[b] : Leading(a, b, up, n)
    BY <1>4, <2>2
  <2>4. 0 \in 0..n /\ up[0] = b
    BY <2>1, <2>2 DEF Ups
  <2> QED
    BY <2>1, <2>3, <2>4 DEF Leading
<1>9. PICK e \in waiting[b] : TRUE
  BY <1>1, <1>8 DEF WaitsAreOpen
<1>10. e \in WaitEntries
  BY <1>1, <1>8 DEF TypeOK
<1>11. ASSUME e.type = "agent" PROVE FALSE
  <2>1. PICK c \in Agents : Leads(b, e, c)
    BY <1>1, <1>8, <1>11 DEF Chain
  <2>2. status[c] = "waiting" /\ parent[c] = b /\ source[c] = e.call
    BY <1>1, <1>8, <2>1, ChainAtRest DEF Leads
  <2>3. depth[c] = depth[b] + 1
    BY <1>1, <1>8, <2>2 DEF TreeOK
  <2>4. e = [call |-> source[c], type |-> "agent"]
    BY <1>10, <1>11, <2>2 DEF WaitEntries
  <2>5. [call |-> source[c], type |-> "agent"] \in waiting[b] /\ depth[b] \in Nat /\ WaitPath(a, b, Agents)
    BY <1>2, <1>4, <1>8, <2>4
  <2>6. WaitPath(a, c, Agents)
    BY <2>2, <2>3, <2>5, WaitPathGrows
  <2>7. c \in below
    BY <1>5, <2>6
  <2>8. PICK i \in Nat, j \in Nat : i = depth[b] /\ j = depth[c]
    BY <1>2, <1>8
  <2>9. MaxDepth - i <= MaxDepth - j /\ j = i + 1
    BY <1>7, <2>3, <2>7, <2>8
  <2> QED
    BY <1>1, <2>9
<1> QED
  BY <1>9, <1>10, <1>11 DEF WaitEntries, below

(* The answer to a request is what its run stored, and an answer that says *)
(* "waiting" names a question that a person can answer.                    *)
THEOREM AnswersAreTheRun == TranscriptSpec => []AnswerIsTheRun
<1>1. TInv => AnswerIsTheRun
  <2> SUFFICES ASSUME TInv, current = None, request.agent # None
               PROVE  /\ LET own == items[request.agent]
                         IN PlainAnswer = Selected(own, {i \in DOMAIN own :
                                             own[i].at > request.since /\ own[i].kind \in {"text", "call"}})
                      /\ LET all == Chronological
                         IN FullAnswer = Selected(all, {i \in DOMAIN all :
                                             all[i].at > request.since /\ all[i].kind # "user"})
                      /\ status[request.agent] = "waiting" => \E e \in AnswerWaits : e.type = "human"
    BY DEF AnswerIsTheRun
  <2>1. status[request.agent] = "waiting" => \E e \in AnswerWaits : e.type = "human"
    <3>1. request.agent \in Agents /\ RunnerInv
      BY DEF TInv, RequestOK
    <3> QED
      BY <3>1, SomebodyIsAsked DEF AnswerWaits
  <2> QED
    BY <2>1, PlainIsTheRun, FullIsTheRun
<1> QED
  BY <1>1, TInvAlways, PTL

-------------------------------------------------------------------------------
(* What becomes of the calls that an agent minds.                          *)

(* An agent forgets no call: it minds it still, or the call is answered,   *)
(* or the run has just been cancelled.                                     *)
Careful(x) ==
  \A c \in Minded(x) :
    c \in Minded(x)' \/ c \in Answered(x)' \/ (status'[x] = "cancelled" /\ status[x] # "cancelled")

(* An agent whose calls and waits stay forgets none. *)
LEMMA CarefulKept ==
  ASSUME NEW x, todo'[x] = todo[x], waits'[x] = waits[x], waiting'[x] = waiting[x]
  PROVE  Careful(x)
<1>1. Minded(x)' = Minded(x)
  BY DEF Minded, Pending, WaitCalls
<1> QED
  BY <1>1 DEF Careful

(* The call that is handled is answered or waited for. *)
LEMMA CarefulHandled ==
  ASSUME TypeOK, CallsOK, NEW a \in Agents, todo[a] # <<>>, todo' = [todo EXCEPT ![a] = Tail(@)],
         waits[a] \subseteq waits'[a], waiting'[a] = waiting[a],
         Head(todo[a]) \in WaitCalls(waits'[a]) \union Answered(a)'
  PROVE  Careful(a)
<1>1. Pending(a) \subseteq Pending(a)' \union {Head(todo[a])}
  BY HandledTodo
<1>2. WaitCalls(waits[a]) \subseteq WaitCalls(waits'[a]) /\ WaitCalls(waiting'[a]) = WaitCalls(waiting[a])
  BY DEF WaitCalls
<1>3. Minded(a)' = Pending(a)' \union WaitCalls(waits'[a]) \union WaitCalls(waiting'[a])
  BY DEF Minded, WaitCalls
<1> QED
  BY <1>1, <1>2, <1>3 DEF Careful, Minded

(* The wait that is resolved is answered. *)
LEMMA CarefulResolved ==
  ASSUME TypeOK, NEW x \in Agents, NEW c \in Calls, StoreToolOutput(x, c),
         todo'[x] = todo[x], waits'[x] = waits[x],
         \A e \in waiting[x] : e \in waiting'[x] \/ e.call = c
  PROVE  Careful(x)
<1>1. c \in Answered(x)'
  BY OutputLog
<1>2. ASSUME NEW d \in WaitCalls(waiting[x]) PROVE d \in WaitCalls(waiting'[x]) \/ d = c
  BY DEF WaitCalls
<1>3. Pending(x)' = Pending(x) /\ WaitCalls(waits'[x]) = WaitCalls(waits[x])
  BY DEF Pending, WaitCalls
<1>4. Minded(x)' = Pending(x)' \union WaitCalls(waits'[x]) \union WaitCalls(waiting'[x])
  BY DEF Minded, WaitCalls
<1> QED
  BY <1>1, <1>2, <1>3, <1>4 DEF Careful, Minded

(* The steps within one run are careful. *)
LEMMA CarefulLocal ==
  ASSUME Core, NEW a \in Agents, LocalStep(a)
  PROVE  Careful(a)
<1> USE DEF agentVars
<1>t. /\ TypeOK /\ CallsOK /\ TreeOK
      /\ todo \in [Agents -> Seq(Calls)] /\ waits \in [Agents -> SUBSET WaitEntries]
      /\ waiting \in [Agents -> SUBSET WaitEntries] /\ status \in [Agents -> Statuses]
  BY DEF Core, TypeOK
<1>0. status[a] \in {"pending", "running"}
  BY <1>t, LocalStepMovesTop DEF TopMoves, TreeOK
<1>1. ASSUME pc[a] \notin Handling PROVE Careful(a)
  <2>1. Minded(a) = {}
    BY <1>0, <1>1, MindsNothing
  <2> QED
    BY <2>1 DEF Careful
<1>2. ASSUME CancelRun(a) PROVE Careful(a)
  <2>1. status'[a] = "cancelled" /\ status[a] # "cancelled"
    BY <1>0, <1>2, <1>t DEF CancelRun, Return
  <2> QED
    BY <2>1 DEF Careful
<1>3. CASE \/ StartRun(a) \/ StopBeforeTurn(a) \/ ExecuteTurn(a) \/ GenerateFails(a) \/ FinalAnswer(a)
           \/ \E cs \in Batches : StoreCalls(a, cs)
  <2>1. pc[a] \in {"start", "turn", "generate"}
    BY <1>3 DEF StartRun, StopBeforeTurn, ExecuteTurn, GenerateFails, FinalAnswer, StoreCalls
  <2> QED
    BY <1>1, <2>1 DEF Handling
<1>4. CASE CancelAtCall(a)
  BY <1>2, <1>4 DEF CancelAtCall
<1>5. CASE AwaitTool(a)
  BY <1>5, CarefulKept DEF AwaitTool, Goto
<1>6. ASSUME todo[a] # <<>>, StoreToolOutput(a, Head(todo[a])), CallHandled(a, {}), waiting' = waiting
      PROVE  Careful(a)
  <2>1. Head(todo[a]) \in Calls
    BY <1>6, <1>t, TodoType
  <2>2. Head(todo[a]) \in Answered(a)'
    BY <1>6, <1>t, <2>1, OutputLog
  <2>3. todo' = [todo EXCEPT ![a] = Tail(@)] /\ waits[a] \subseteq waits'[a]
    BY <1>6, <1>t DEF CallHandled
  <2> QED
    BY <1>6, <1>t, <2>2, <2>3, CarefulHandled
<1>7. CASE RejectCall(a)
  BY <1>6, <1>7 DEF RejectCall, AtCall
<1>8. CASE AskHuman(a)
  <2>1. /\ todo[a] # <<>> /\ waiting' = waiting /\ todo' = [todo EXCEPT ![a] = Tail(@)]
        /\ waits'[a] = waits[a] \union {[call |-> Head(todo[a]), type |-> "human"]}
    BY <1>8, <1>t DEF AskHuman, AtCall, CallHandled
  <2>2. Head(todo[a]) \in WaitCalls(waits'[a])
    <3>1. [call |-> Head(todo[a]), type |-> "human"].call = Head(todo[a])
      OBVIOUS
    <3> QED
      BY <2>1, <3>1 DEF WaitCalls
  <2> QED
    BY <1>t, <2>1, <2>2, CarefulHandled
<1>9. CASE SyncToolReturns(a) \/ McpToolReturns(a)
  <2>1. todo[a] # <<>>
    BY <1>9, <1>t DEF SyncToolReturns, McpToolReturns, CallsOK, Handling
  <2>2. CASE CancelRun(a)
    BY <1>2, <2>2
  <2>3. CASE ~CancelRun(a)
    <3>1. StoreToolOutput(a, Head(todo[a])) /\ CallHandled(a, {}) /\ waiting' = waiting
      BY <1>9, <2>3 DEF SyncToolReturns, McpToolReturns
    <3> QED
      BY <1>6, <2>1, <3>1
  <2> QED
    BY <2>2, <2>3
<1>10. CASE EndTurn(a)
  <2>1. todo[a] = <<>> /\ waiting[a] = {}
    BY <1>0, <1>10 DEF EndTurn, Core, WaitsAreOpen
  <2>2. Minded(a) = WaitCalls(waits[a])
    BY <2>1 DEF Minded, Pending, WaitCalls
  <2>3. CASE waits[a] = {}
    BY <2>2, <2>3 DEF Careful, WaitCalls
  <2>4. CASE Return(a, "waiting", waits[a])
    <3>1. waiting'[a] = waits[a]
      BY <1>t, <2>4 DEF Return
    <3>2. WaitCalls(waits[a]) \subseteq Minded(a)'
      BY <3>1 DEF Minded, WaitCalls
    <3> QED
      BY <2>2, <3>2 DEF Careful
  <2> QED
    BY <1>10, <2>3, <2>4 DEF EndTurn
<1> QED
  BY <1>3, <1>4, <1>5, <1>7, <1>8, <1>9, <1>10 DEF LocalStep

(* So is every step of the runner, for every agent. *)
LEMMA CarefulStep ==
  ASSUME Core, [Next]_vars, NEW x \in Agents
  PROVE  Careful(x)
<1> USE DEF agentVars, runVars
<1>t. /\ TypeOK /\ StackOK /\ TreeOK /\ CallsOK /\ None \notin Agents
      /\ todo \in [Agents -> Seq(Calls)] /\ waits \in [Agents -> SUBSET WaitEntries]
      /\ waiting \in [Agents -> SUBSET WaitEntries] /\ log \in [Agents -> Seq(Items)]
      /\ parent \in [Agents -> Agents \union {None}] /\ status \in [Agents -> Statuses]
  BY RunnerAssumption DEF Core, TypeOK
<1>1. CASE StartChat
  <2>1. CASE x = Root
    <3>1. pc[x] = "idle" /\ status[x] # "waiting"
      BY <1>1, <1>t, <2>1, AllIdle DEF StartChat
    <3>2. pc[x] \notin Handling
      BY <3>1 DEF Handling
    <3>3. Minded(x) = {}
      BY <3>1, <3>2, MindsNothing
    <3> QED
      BY <3>3 DEF Careful
  <2>2. CASE x # Root
    <3>1. todo'[x] = todo[x] /\ waits'[x] = waits[x] /\ waiting'[x] = waiting[x]
      BY <1>1, <1>t, <2>2 DEF StartChat
    <3> QED
      BY <3>1, CarefulKept
  <2> QED
    BY <2>1, <2>2
<1>2. CASE Enqueue \/ Cancel \/ UNCHANGED vars
  <2>1. todo'[x] = todo[x] /\ waits'[x] = waits[x] /\ waiting'[x] = waiting[x]
    BY <1>2 DEF Enqueue, Cancel, vars
  <2> QED
    BY <2>1, CarefulKept
<1>3. ASSUME NEW a \in Agents, NEW e \in waiting[a], Deliver(a, e) PROVE Careful(x)
  <2>1. /\ StoreToolOutput(a, e.call) /\ waiting' = [waiting EXCEPT ![a] = @ \ {e}]
        /\ todo' = todo /\ waits' = waits
    BY <1>3 DEF Deliver
  <2>2. e.call \in Calls
    BY <1>t DEF WaitEntries
  <2>3. CASE x = a
    <3>1. \A f \in waiting[x] : f \in waiting'[x] \/ f.call = e.call
      BY <1>t, <2>1, <2>3
    <3> QED
      BY <1>t, <2>1, <2>2, <2>3, <3>1, CarefulResolved
  <2>4. CASE x # a
    <3>1. waiting'[x] = waiting[x]
      BY <1>t, <2>1, <2>4
    <3> QED
      BY <2>1, <3>1, CarefulKept
  <2> QED
    BY <2>3, <2>4
<1>4. ASSUME NEW a \in Agents, LocalStep(a) PROVE Careful(x)
  <2>1. CASE x = a
    BY <1>4, <2>1, CarefulLocal
  <2>2. CASE x # a
    <3>1. todo'[x] = todo[x] /\ waits'[x] = waits[x] /\ waiting'[x] = waiting[x]
      BY <1>t, <1>4, <2>2, LocalStepIsLocal
    <3> QED
      BY <3>1, CarefulKept
  <2> QED
    BY <2>1, <2>2
<1>5. ASSUME NEW a \in Agents, NEW b \in Agents, Delegate(a, b) PROVE Careful(x)
  <2>1. todo'[x] = todo[x] /\ waits'[x] = waits[x] /\ waiting'[x] = waiting[x]
    BY <1>5 DEF Delegate
  <2> QED
    BY <2>1, CarefulKept
<1>6. ASSUME NEW a \in Agents, NEW b \in Agents, ChildReturns(a, b) PROVE Careful(x)
  <2>1. /\ pc[a] = "child" /\ todo[a] # <<>>
        /\ \/ /\ status' = [status EXCEPT ![a] = "cancelled"]
              /\ todo' = [todo EXCEPT ![a] = <<>>] /\ waits' = [waits EXCEPT ![a] = {}]
              /\ waiting' = [waiting EXCEPT ![a] = {}]
           \/ /\ waiting' = waiting /\ todo' = [todo EXCEPT ![a] = Tail(@)]
              /\ \/ waits' = [waits EXCEPT ![a] =
                                @ \union {[call |-> Head(todo[a]), type |-> "agent"]}]
                 \/ StoreToolOutput(a, Head(todo[a])) /\ waits' = waits
    BY <1>6, <1>t DEF ChildReturns, CallsOK, Handling
  <2>2. status[a] # "cancelled"
    BY <1>t, <2>1 DEF TreeOK
  <2>3. CASE x # a
    <3>1. todo'[x] = todo[x] /\ waits'[x] = waits[x] /\ waiting'[x] = waiting[x]
      BY <1>t, <2>1, <2>3
    <3> QED
      BY <3>1, CarefulKept
  <2>4. CASE x = a /\ status' = [status EXCEPT ![a] = "cancelled"]
    BY <1>t, <2>2, <2>4 DEF Careful
  <2>5. CASE /\ x = a /\ waiting' = waiting /\ todo' = [todo EXCEPT ![a] = Tail(@)]
             /\ waits' = [waits EXCEPT ![a] = @ \union {[call |-> Head(todo[a]), type |-> "agent"]}]
    <3>1. waits'[a] = waits[a] \union {[call |-> Head(todo[a]), type |-> "agent"]}
      BY <1>t, <2>5
    <3>2. [call |-> Head(todo[a]), type |-> "agent"].call = Head(todo[a])
      OBVIOUS
    <3>3. Head(todo[a]) \in WaitCalls(waits'[a]) /\ waits[a] \subseteq waits'[a]
      BY <3>1, <3>2 DEF WaitCalls
    <3> QED
      BY <1>t, <2>1, <2>5, <3>3, CarefulHandled
  <2>6. CASE /\ x = a /\ waiting' = waiting /\ todo' = [todo EXCEPT ![a] = Tail(@)]
             /\ StoreToolOutput(a, Head(todo[a])) /\ waits' = waits
    <3>1. Head(todo[a]) \in Calls
      BY <1>t, <2>1, TodoType
    <3>2. Head(todo[a]) \in Answered(a)'
      BY <1>t, <2>6, <3>1, OutputLog
    <3> QED
      BY <1>t, <2>1, <2>6, <3>2, CarefulHandled
  <2> QED
    BY <2>1, <2>3, <2>4, <2>5, <2>6
<1>7. ASSUME NEW b \in Agents, RequestEnds(b) PROVE Careful(x)
  <2>1. todo'[x] = todo[x] /\ waits'[x] = waits[x] /\ waiting'[x] = waiting[x]
    BY <1>7 DEF RequestEnds
  <2> QED
    BY <2>1, CarefulKept
<1>8. ASSUME NEW b \in Agents, PropagateChildResult(b) PROVE Careful(x)
  <2>0. PICK p \in Agents, c \in Calls :
          p = parent[b] /\ c = source[b] /\ c \in WaitCalls(waiting[p])
    BY <1>8, <1>t DEF PropagateChildResult, Propagates, WaitCalls, WaitEntries
  <2>1. /\ StoreToolOutput(p, c)
        /\ waiting' = [waiting EXCEPT ![p] = {e \in waiting[p] : e.call # c}]
        /\ todo' = todo /\ waits' = waits
    BY <1>8, <2>0 DEF PropagateChildResult
  <2>2. CASE x = p
    <3>1. \A e \in waiting[x] : e \in waiting'[x] \/ e.call = c
      BY <1>t, <2>1, <2>2
    <3> QED
      BY <1>t, <2>0, <2>1, <2>2, <3>1, CarefulResolved
  <2>3. CASE x # p
    <3>1. waiting'[x] = waiting[x]
      BY <1>t, <2>1, <2>3
    <3> QED
      BY <2>1, <3>1, CarefulKept
  <2> QED
    BY <2>2, <2>3
<1> QED
  BY <1>1, <1>2, <1>3, <1>4, <1>5, <1>6, <1>7, <1>8 DEF Next, Step, LocalStep

(* The queue is taken when the root minds nothing. *)
LEMMA QueueTakenFree ==
  ASSUME Core, [Next]_vars, queued' < queued
  PROVE  Minded(Root) = {}
<1> USE DEF agentVars, runVars
<1>t. TypeOK /\ TreeOK /\ Root \in Agents /\ queued \in Nat /\ ~(queued < queued) /\ ~(queued + 1 < queued)
  BY RunnerAssumption DEF Core, TypeOK
<1>1. ASSUME NEW a \in Agents, ConsumeQueue(a) PROVE a = Root
  BY <1>1, <1>t DEF ConsumeQueue
<1>2. ASSUME pc[Root] \in {"turn", "generate"} PROVE Minded(Root) = {}
  <2>1. pc[Root] \notin Handling /\ status[Root] # "waiting"
    BY <1>2, <1>t DEF Handling, TreeOK
  <2> QED
    BY <1>t, <2>1, MindsNothing
<1>3. ASSUME NEW a \in Agents, ExecuteTurn(a) \/ FinalAnswer(a) PROVE Minded(Root) = {}
  BY <1>1, <1>2, <1>3 DEF ExecuteTurn, FinalAnswer
<1>4. ASSUME NEW a \in Agents, EndTurn(a) PROVE Minded(Root) = {}
  <2>1. a = Root /\ todo[a] = <<>> /\ waits[a] = {} /\ pc[a] = "call"
    BY <1>1, <1>4, <1>t DEF EndTurn
  <2>2. waiting[a] = {}
    BY <1>t, <2>1 DEF Core, WaitsAreOpen, TreeOK
  <2> QED
    BY <2>1, <2>2 DEF Minded, Pending, WaitCalls
<1>5. StartChat \/ Enqueue \/ Cancel \/ UNCHANGED vars => FALSE
  BY <1>t DEF StartChat, Enqueue, Cancel, vars
<1>6. ASSUME NEW a \in Agents, NEW e \in waiting[a], Deliver(a, e) PROVE FALSE
  BY <1>6, <1>t DEF Deliver
<1>7. ASSUME NEW a \in Agents,
             \/ StartRun(a) \/ StopBeforeTurn(a) \/ GenerateFails(a) \/ \E cs \in Batches : StoreCalls(a, cs)
             \/ CancelAtCall(a) \/ RejectCall(a) \/ AwaitTool(a) \/ AskHuman(a)
      PROVE  FALSE
  BY <1>7, <1>t DEF StartRun, StopBeforeTurn, GenerateFails, StoreCalls, CancelAtCall, RejectCall,
     AwaitTool, AskHuman
<1>8. ASSUME NEW a \in Agents, NEW b \in Agents,
             \/ SyncToolReturns(a) \/ McpToolReturns(a) \/ Delegate(a, b) \/ ChildReturns(a, b)
             \/ RequestEnds(a) \/ PropagateChildResult(a)
      PROVE  FALSE
  BY <1>8, <1>t DEF SyncToolReturns, McpToolReturns, Delegate, ChildReturns, RequestEnds, PropagateChildResult
<1> QED
  BY <1>3, <1>4, <1>5, <1>6, <1>7, <1>8 DEF Next, Step

-------------------------------------------------------------------------------
(* The shape of a transcript.                                              *)

(* From k to m there are calls, and then outputs. *)
Stretch(s, k, m) ==
  \A q \in k..m : /\ s[q].kind \in {"call", "out"}
                  /\ s[q].kind = "call" => \A p \in k..q : s[p].kind = "call"

(* The output of the call at k follows it, behind calls and outputs only. *)
OutAt(s, k, m)    == m \in DOMAIN s /\ k < m /\ s[m].kind = "out" /\ s[m].call = s[k].call
Followed(s, k)    == \E m \in DOMAIN s : OutAt(s, k, m) /\ Stretch(s, k, m)

(* A call is followed by its output, or it is minded and nothing but calls *)
(* and outputs has been stored since.                                      *)
Shaped(s, k, minded) ==
  Followed(s, k) \/ (s[k].call \in minded /\ Stretch(s, k, Len(s)))

(* An agent that may still be given to a provider. *)
Runs(a) == a = Root \/ status[a] \notin Terminal

ShapeOK ==
  \A a \in Agents : Runs(a) =>
    \A k \in DOMAIN items[a] :
      items[a][k].kind = "call" /\ items[a][k].call \notin loose => Shaped(items[a], k, Minded(a))

(* A stretch stays one while the items stay, and outputs make it longer. *)
LEMMA StretchGrows ==
  ASSUME NEW s, NEW t, NEW k \in Nat, NEW n \in Nat, NEW m \in Nat, Stretch(s, k, n),
         \A q \in k..n : t[q] = s[q], \A q \in k..m : q > n => t[q].kind = "out"
  PROVE  Stretch(t, k, m)
<1> SUFFICES ASSUME NEW q \in k..m
             PROVE  /\ t[q].kind \in {"call", "out"}
                    /\ t[q].kind = "call" => \A p \in k..q : t[p].kind = "call"
  BY DEF Stretch
<1>1. CASE q > n
  BY <1>1
<1>2. CASE q <= n
  <2>1. q \in k..n /\ \A p \in k..q : p \in k..n
    BY <1>2
  <2>2. t[q] = s[q] /\ \A p \in k..q : t[p] = s[p]
    BY <2>1
  <2>3. s[q].kind \in {"call", "out"} /\ (s[q].kind = "call" => \A p \in k..q : s[p].kind = "call")
    BY <2>1 DEF Stretch
  <2> QED
    BY <2>2, <2>3
<1> QED
  BY <1>1, <1>2

(* A part of a stretch is one. *)
LEMMA StretchPart ==
  ASSUME NEW s, NEW k \in Nat, NEW n \in Nat, NEW m \in Nat, m <= n, Stretch(s, k, n)
  PROVE  Stretch(s, k, m)
<1>1. \A q \in k..m : q \in k..n
  OBVIOUS
<1> QED
  BY <1>1 DEF Stretch

(* What is followed by its output stays so while the transcript grows. *)
LEMMA FollowedStays ==
  ASSUME NEW s, NEW t, NEW k \in DOMAIN s, DOMAIN s \subseteq DOMAIN t, DOMAIN s = 1..Len(s), Len(s) \in Nat,
         \A q \in DOMAIN s : t[q] = s[q], Followed(s, k)
  PROVE  Followed(t, k)
<1>1. PICK m \in DOMAIN s : OutAt(s, k, m) /\ Stretch(s, k, m)
  BY DEF Followed
<1>2. \A q \in k..m : t[q] = s[q]
  <2>1. \A q \in k..m : q \in 1..Len(s)
    OBVIOUS
  <2> QED
    BY <2>1
<1>3. k \in Nat /\ m \in Nat /\ \A q \in k..m : ~(q > m)
  OBVIOUS
<1>4. Stretch(t, k, m)
  BY <1>1, <1>2, <1>3, StretchGrows
<1>5. OutAt(t, k, m)
  BY <1>1 DEF OutAt
<1> QED
  BY <1>4, <1>5 DEF Followed

(* The calls of a response are stored last. *)
LEMMA CallsAreLast ==
  ASSUME NEW a \in Agents, NEW new \in Seq(NewRows), Storing(a, new), NEW j \in 1..Len(new), new[j].kind = "call"
  PROVE  \E cs \in Batches :
           /\ StoreCalls(a, cs) /\ \E i \in DOMAIN cs : cs[i] = new[j].call
           /\ \A h \in j..Len(new) : new[h].kind = "call"
<1>1. Logs(new[j])
  BY DEF Logs
<1>2. new \notin Words
  BY <1>1, RowTypes
<1>3. ASSUME NEW c \in Open(a), new = <<Output(c)>> PROVE FALSE
  <2>1. j = 1 /\ new[1] = Output(c)
    BY <1>3
  <2> QED
    BY <2>1 DEF Output
<1>4. PICK cs \in Batches, text \in TextParts : StoreCalls(a, cs) /\ new = text \o CallRows(cs)
  BY <1>2, <1>3 DEF Storing
<1>5. cs \in Seq(Calls) /\ Len(cs) \in Nat /\ DOMAIN cs = 1..Len(cs)
  BY BatchType
<1>6. /\ Len(text) \in Nat /\ Len(new) = Len(text) + Len(cs)
      /\ \A i \in 1..Len(text) : new[i] = Text
      /\ \A i \in 1..Len(cs) : new[Len(text) + i] = Call(cs[i])
  BY <1>4, <1>5, CallRowsType
<1>7. PICK l \in Nat : l = Len(text)
  BY <1>6
<1>8. ASSUME NEW h \in 1..Len(new), h > l PROVE \E i \in DOMAIN cs : new[h] = Call(cs[i])
  <2>1. PICK i \in Nat : i = h - l
    BY <1>8
  <2>2. i \in 1..Len(cs) /\ l + i = h
    BY <1>5, <1>6, <1>7, <1>8, <2>1
  <2>3. new[h] = Call(cs[i])
    BY <1>6, <1>7, <2>2
  <2> QED
    BY <1>5, <2>2, <2>3
<1>9. j > l
  <2>1. Text.kind # "call"
    BY DEF Text
  <2>2. ~(j \in 1..l)
    BY <1>6, <1>7, <2>1
  <2> QED
    BY <2>2
<1>10. \A c : Call(c).kind = "call" /\ Call(c).call = c
  BY DEF Call
<1>11. \A h \in j..Len(new) : h \in 1..Len(new) /\ h > l
  BY <1>6, <1>9
<1>12. \A h \in j..Len(new) : new[h].kind = "call"
  BY <1>8, <1>10, <1>11
<1>13. \E i \in DOMAIN cs : cs[i] = new[j].call
  BY <1>8, <1>9, <1>10
<1> QED
  BY <1>4, <1>12, <1>13

(* While an agent minds a call, it is given outputs only. *)
LEMMA OutputsOnly ==
  ASSUME TInv, NEW a \in Agents, NEW new \in Seq(NewRows), Stores(a, new), NEW x \in Agents, Minded(x) # {},
         NEW q \in DOMAIN items'[x], ~(q \in 1..Len(items[x]))
  PROVE  items'[x][q].kind = "out"
<1>1. ItemsTyped /\ Core /\ [Next]_vars /\ Store(a, new)
  BY DEF TInv, RunnerInv, Stores
<1>2. \/ Old(x, q)
      \/ \E j \in 1..Len(new) : New(x, a, new, q, j)
      \/ \E j \in 1..Len(pending) : Queued(x, a, new, q, j)
  BY <1>1, StorePlaces
<1>3. ASSUME NEW j \in 1..Len(new), New(x, a, new, q, j) PROVE items'[x][q].kind = "out"
  <2>1. x = a /\ items'[x][q] = Item(new[j].kind, new[j].call, clock + j)
    BY <1>3 DEF New
  <2>2. new # <<>>
    OBVIOUS
  <2>3. PICK c \in Open(a) : new = <<Output(c)>>
    BY <2>1, <2>2 DEF Stores
  <2>4. j = 1 /\ new[1] = Output(c)
    BY <2>3
  <2> QED
    BY <2>1, <2>4 DEF Output, Item
<1>4. ASSUME NEW j \in 1..Len(pending), Queued(x, a, new, q, j) PROVE FALSE
  BY <1>1, <1>4, QueueTakenFree DEF Queued
<1> QED
  BY <1>2, <1>3, <1>4 DEF Old

(* An output is in the log if it is in the transcript. *)
LEMMA AnsweredItem ==
  ASSUME ItemsTyped, LogsKept, NEW a \in Agents, NEW c \in Calls
  PROVE  c \in Answered(a) <=> \E i \in DOMAIN items[a] : items[a][i].kind = "out" /\ items[a][i].call = c
<1>1. items[a] \in Seq(ItemSet) /\ LogOf(items[a]) = log[a]
  BY DEF ItemsTyped, LogsKept
<1> QED
  BY <1>1, LoggedRow DEF Answered

(* Minded calls are open. *)
LEMMA MindedOpen ==
  ASSUME Core, NEW x \in Agents
  PROVE  Minded(x) \subseteq Open(x)
BY DEF Core, CallsOK, WaitsAreOpen, Minded

(* An old call keeps its shape, *)
LEMMA ShapeOld ==
  ASSUME TInv, TInv', ShapeOK, NEW a \in Agents, NEW new \in Seq(NewRows), Stores(a, new),
         NEW x \in Agents, Runs(x)', NEW k \in DOMAIN items'[x], Old(x, k),
         items'[x][k].kind = "call", items'[x][k].call \notin loose'
  PROVE  Shaped(items'[x], k, Minded(x)')
<1>1. /\ ItemsTyped /\ Core /\ [Next]_vars /\ Store(a, new) /\ LogsKept /\ TypeOK
      /\ ItemsTyped' /\ LogsKept' /\ Core'
  BY DEF TInv, RunnerInv, Stores, Core
<1> PICK s : s = items[x]
  OBVIOUS
<1> PICK t : t = items'[x]
  OBVIOUS
<1> PICK c : c = t[k].call
  OBVIOUS
<1> PICK now : now = Minded(x)'
  OBVIOUS
<1>2. /\ Len(s) \in Nat /\ DOMAIN s = 1..Len(s) /\ Len(t) \in Nat /\ DOMAIN t = 1..Len(t)
      /\ \A i \in DOMAIN s : i \in DOMAIN t /\ t[i] = s[i]
  BY <1>1, StorePlaces
<1>3. k \in DOMAIN s /\ k \in Nat /\ t[k] = s[k] /\ s[k].kind = "call" /\ s[k].call = c
  BY <1>2 DEF Old
<1>4. c \notin loose
  BY <1>1 DEF Store
<1>5. Runs(x)
  BY <1>1, EndedStays DEF Runs
<1>6. Shaped(s, k, Minded(x))
  BY <1>3, <1>4, <1>5 DEF ShapeOK
<1>7. CASE Followed(s, k)
  <2>1. Followed(t, k)
    BY <1>2, <1>3, <1>7, FollowedStays
  <2> QED
    BY <2>1 DEF Shaped
<1>8. CASE c \in Minded(x) /\ Stretch(s, k, Len(s))
  <2>1. c \in Open(x) /\ c \in Calls /\ c \in Issued(x) /\ c \notin Answered(x)
    BY <1>1, <1>8, MindedOpen DEF Open, Issued
  <2>2. \A q \in k..Len(s) : t[q] = s[q]
    <3>1. \A q \in k..Len(s) : q \in DOMAIN s
      BY <1>2, <1>3
    <3> QED
      BY <1>2, <3>1
  <2>3. \A q \in k..Len(t) : q > Len(s) => t[q].kind = "out"
    <3>1. \A q \in k..Len(t) : q > Len(s) => q \in DOMAIN t /\ ~(q \in 1..Len(s))
      BY <1>2, <1>3
    <3>2. \A q \in DOMAIN t : ~(q \in 1..Len(s)) => t[q].kind = "out"
      BY <1>8, OutputsOnly
    <3> QED
      BY <3>1, <3>2
  <2>4. Stretch(t, k, Len(t))
    <3> PICK n \in Nat, l \in Nat : n = Len(s) /\ l = Len(t)
      BY <1>2
    <3>1. Stretch(s, k, n) /\ (\A q \in k..n : t[q] = s[q]) /\ (\A q \in k..l : q > n => t[q].kind = "out")
      BY <1>8, <2>2, <2>3
    <3>2. Stretch(t, k, l)
      BY ONLY k \in Nat, n \in Nat, l \in Nat, <1>3, <3>1, StretchGrows
    <3> QED
      BY <3>2
  <2>5. CASE c \in now
    BY <2>4, <2>5 DEF Shaped
  <2>6. CASE c \in Answered(x)'
    <3>1. PICK m \in DOMAIN t : t[m].kind = "out" /\ t[m].call = c
      <4>1. t \in Seq(ItemSet) /\ LogOf(t) = log'[x]
        BY <1>1 DEF ItemsTyped, LogsKept
      <4>2. \E i \in DOMAIN LogOf(t) : LogOf(t)[i] = OutputItem(c)
        BY <2>6, <4>1 DEF Answered
      <4> QED
        BY <4>1, <4>2, LoggedRow
    <3>2. ~(m \in DOMAIN s)
      <4>1. ~(\E i \in DOMAIN items[x] : items[x][i].kind = "out" /\ items[x][i].call = c)
        BY <1>1, <2>1, AnsweredItem
      <4> QED
        BY <1>2, <3>1, <4>1
    <3>3. k < m /\ m \in Nat /\ m <= Len(t)
      BY <1>2, <1>3, <3>2
    <3>4. Stretch(t, k, m)
      BY <1>2, <1>3, <2>4, <3>3, StretchPart
    <3>5. OutAt(t, k, m)
      BY <3>1, <3>3 DEF OutAt
    <3> QED
      BY <3>4, <3>5 DEF Shaped, Followed
  <2>7. CASE c \notin Answered(x)' /\ status'[x] = "cancelled" /\ status[x] # "cancelled"
    <3>1. c \in Issued(x)'
      <4>1. (\E i \in DOMAIN items[x] : items[x][i].kind = "call" /\ items[x][i].call = c)'
        BY <1>3
      <4>2. items'[x] \in Seq(ItemSet) /\ LogOf(items'[x]) = log'[x]
        BY <1>1 DEF ItemsTyped, LogsKept
      <4> QED
        BY <2>1, <4>1, <4>2, LoggedRow DEF Issued
    <3>2. c \in Open(x)'
      BY <2>7, <3>1 DEF Open
    <3>3. Open(x)' \subseteq loose'
      BY <1>1, <2>7 DEF Store
    <3> QED
      BY <3>2, <3>3
  <2> QED
    BY <1>1, <1>8, <2>5, <2>6, <2>7, CarefulStep DEF Careful
<1> QED
  BY <1>3, <1>6, <1>7, <1>8 DEF Shaped

(* and a new one has its shape. *)
LEMMA ShapeNew ==
  ASSUME TInv, NEW a \in Agents, NEW new \in Seq(NewRows), Stores(a, new),
         NEW x \in Agents, NEW k \in DOMAIN items'[x], items'[x][k].kind = "call",
         NEW j \in 1..Len(new), New(x, a, new, k, j)
  PROVE  Shaped(items'[x], k, Minded(x)')
<1>1. ItemsTyped /\ TypeOK /\ Store(a, new) /\ Storing(a, new)
  BY DEF TInv, RunnerInv, Stores, Core
<1> PICK n : n = Len(items[x])
  OBVIOUS
<1> PICK t : t = items'[x]
  OBVIOUS
<1>2. /\ n \in Nat /\ Len(t) \in Nat /\ DOMAIN t = 1..Len(t)
      /\ \A i \in DOMAIN t :
           \/ Old(x, i)
           \/ \E h \in 1..Len(new) : New(x, a, new, i, h)
           \/ \E h \in 1..Len(pending) : Queued(x, a, new, i, h)
  BY <1>1, StorePlaces
<1>3. x = a /\ k = n + j /\ new[j].kind = "call" /\ t[k].call = new[j].call
  BY DEF New, Item
<1>4. PICK cs \in Batches :
        /\ StoreCalls(a, cs) /\ \E i \in DOMAIN cs : cs[i] = new[j].call
        /\ \A h \in j..Len(new) : new[h].kind = "call"
  BY <1>1, <1>3, CallsAreLast
<1>5. queued' = queued /\ ~(queued' < queued) /\ todo'[a] = cs
  BY <1>1, <1>4 DEF StoreCalls, TypeOK
<1>6. t[k].call \in Minded(x)'
  <2>1. t[k].call \in Pending(a)'
    BY <1>3, <1>4, <1>5 DEF Pending
  <2> QED
    BY <1>3, <2>1 DEF Minded
<1>7. ASSUME NEW q \in k..Len(t) PROVE t[q].kind = "call"
  <2>1. q \in DOMAIN t /\ ~(q \in 1..n) /\ q \in Nat
    BY <1>2, <1>3
  <2>2. PICK h \in 1..Len(new) : New(x, a, new, q, h)
    BY <1>2, <1>5, <2>1 DEF Old, Queued
  <2>3. q = n + h /\ t[q].kind = new[h].kind
    BY <2>2 DEF New, Item
  <2>4. h \in j..Len(new)
    <3>1. n + j <= n + h
      BY <1>2, <1>3, <2>3
    <3>2. j <= h
      BY <1>2, <3>1
    <3> QED
      BY <3>2
  <2> QED
    BY <1>4, <2>3, <2>4
<1>8. Stretch(t, k, Len(t))
  <2>1. \A q \in k..Len(t) : \A p \in k..q : p \in k..Len(t)
    BY <1>2
  <2> QED
    BY <1>7, <2>1 DEF Stretch
<1> QED
  BY <1>6, <1>8 DEF Shaped

(* The steps that store keep the shapes. *)
LEMMA ShapeStores ==
  ASSUME TInv, TInv', ShapeOK, NEW a \in Agents, NEW new \in Seq(NewRows), Stores(a, new)
  PROVE  ShapeOK'
<1> SUFFICES ASSUME NEW x \in Agents, Runs(x)', NEW k \in DOMAIN items'[x],
                    items'[x][k].kind = "call", items'[x][k].call \notin loose'
             PROVE  Shaped(items'[x], k, Minded(x)')
  BY DEF ShapeOK
<1>1. ItemsTyped /\ Store(a, new)
  BY DEF TInv, Stores
<1>2. \/ Old(x, k)
      \/ \E j \in 1..Len(new) : New(x, a, new, k, j)
      \/ \E j \in 1..Len(pending) : Queued(x, a, new, k, j)
  BY <1>1, StorePlaces
<1>3. ASSUME NEW j \in 1..Len(pending), Queued(x, a, new, k, j) PROVE FALSE
  BY <1>3 DEF Queued, Item
<1> QED
  BY <1>2, <1>3, ShapeOld, ShapeNew

(* A rewind that keeps an output keeps what stands between it and its call. *)
LEMMA CutFollowed ==
  ASSUME NEW s \in Seq(ItemSet), NEW t \in Seq(ItemSet), NEW at, NEW e, Cut(s, t, at, e),
         NEW h \in 1..Len(t), NEW m \in 1..Len(s), OutAt(s, e[h], m), Stretch(s, e[h], m), s[m].at <= at
  PROVE  Followed(t, h)
<1>1. DOMAIN s = 1..Len(s) /\ DOMAIN t = 1..Len(t) /\ Len(s) \in Nat /\ Len(t) \in Nat
  OBVIOUS
<1>2. /\ e \in [1..Len(t) -> 1..Len(s)]
      /\ \A i, j \in 1..Len(t) : i < j <=> e[i] < e[j]
      /\ \A i \in 1..Len(t) : t[i] = s[e[i]]
      /\ \A k \in 1..Len(s) : s[k].at <= at => \E i \in 1..Len(t) : e[i] = k
  BY DEF Cut
<1>3. PICK k \in 1..Len(s) : k = e[h]
  BY <1>2
<1>4. t[h] = s[k] /\ OutAt(s, k, m) /\ Stretch(s, k, m) /\ k < m
  BY <1>2, <1>3 DEF OutAt
<1>5. PICK o \in 1..Len(t) : e[o] = m
  BY <1>2
<1>6. h < o /\ t[o] = s[m]
  BY <1>2, <1>3, <1>4, <1>5
<1>7. OutAt(t, h, o)
  BY <1>1, <1>4, <1>6 DEF OutAt
<1>8. ASSUME NEW p \in 1..Len(t), NEW q \in 1..Len(t), p <= q PROVE e[p] <= e[q]
  <2>1. p < q => e[p] < e[q]
    BY <1>2
  <2>2. e[p] \in 1..Len(s) /\ e[q] \in 1..Len(s)
    BY <1>2
  <2>3. e[p] \in Nat /\ e[q] \in Nat /\ p \in Nat /\ q \in Nat
    BY ONLY <2>2, Len(s) \in Nat, Len(t) \in Nat, p \in 1..Len(t), q \in 1..Len(t)
  <2> QED
    BY <1>8, <2>1, <2>3
<1>9. ASSUME NEW q \in h..o PROVE q \in 1..Len(t) /\ e[q] \in k..m /\ t[q] = s[e[q]]
  <2>1. q \in 1..Len(t) /\ h <= q /\ q <= o
    BY <1>1
  <2>2. k <= e[q] /\ e[q] <= m
    BY <1>3, <1>5, <1>8, <2>1
  <2>3. e[q] \in k..m
    BY <1>1, <1>2, <2>1, <2>2
  <2> QED
    BY <1>2, <2>1, <2>3
<1>10. ASSUME NEW q \in h..o, t[q].kind = "call", NEW p \in h..q PROVE t[p].kind = "call"
  <2>1. p \in h..o /\ p <= q /\ q \in 1..Len(t) /\ p \in 1..Len(t)
    BY <1>1, <1>9
  <2>2. PICK i \in k..m : i = e[q]
    BY <1>9
  <2>3. PICK j \in k..m : j = e[p]
    BY <1>9, <2>1
  <2>4. j <= i
    BY <1>8, <2>1, <2>2, <2>3
  <2>5. j \in k..i
    BY <2>4
  <2>6. s[i].kind = "call"
    BY <1>9, <1>10, <2>2
  <2>7. s[j].kind = "call"
    BY <1>4, <2>5, <2>6 DEF Stretch
  <2> QED
    BY <1>9, <2>1, <2>3, <2>7
<1>11. ASSUME NEW q \in h..o PROVE t[q].kind \in {"call", "out"}
  BY <1>4, <1>9 DEF Stretch
<1>12. Stretch(t, h, o)
  BY <1>10, <1>11 DEF Stretch
<1> QED
  BY <1>1, <1>7, <1>12 DEF Followed

(* Only an edit of a queued message removes an output without its call,    *)
(* and it gives the call up.                                               *)
LEMMA EditFollowed ==
  ASSUME TInv, TInv', ShapeOK, NEW n \in DOMAIN items[Root], NEW at, EditAt(n, at),
         NEW s, s = items[Root], NEW t, t = items'[Root], NEW e, Cut(s, t, at, e),
         NEW h \in DOMAIN t, t[h].kind = "call", t[h].call \notin loose'
  PROVE  \E m \in 1..Len(s) : OutAt(s, e[h], m) /\ Stretch(s, e[h], m) /\ s[m].at <= at
<1>t. /\ ItemsTyped /\ LogsKept /\ OrderOK /\ StampsOK /\ Core /\ AnsweredOnce /\ Root \in Agents
      /\ ItemsTyped' /\ LogsKept' /\ StampsOK'
  BY RunnerAssumption DEF TInv, RunnerInv, Core
<1>1. s \in Seq(ItemSet) /\ DOMAIN s = 1..Len(s) /\ Len(s) \in Nat /\ LogOf(s) = log[Root]
  BY <1>t DEF ItemsTyped, LogsKept
<1>2. t \in Seq(ItemSet) /\ DOMAIN t = 1..Len(t) /\ Len(t) \in Nat /\ LogOf(t) = log'[Root]
  BY <1>t DEF ItemsTyped, LogsKept
<1>3. n \in 1..Len(s) /\ s[n].kind = "user" /\ s[n].at = at /\ at \in Nat
  BY <1>1, EditStamp DEF EditAt
<1>4. PICK c : c = t[h].call
  OBVIOUS
<1>5. PICK k \in 1..Len(s) : k = e[h]
  BY <1>2 DEF Cut
<1>6. s[k].kind = "call" /\ s[k].call = c /\ s[k].at <= at /\ k # n
  BY <1>2, <1>3, <1>4, <1>5 DEF Cut
<1>7. c \in Calls
  BY <1>t, <1>1, <1>6 DEF StampsOK, Logs
<1>8. c \notin loose /\ (OutOfOrder(n) => c \notin Open(Root)')
  BY <1>4 DEF EditAt, Edit
<1>9. Shaped(s, k, Minded(Root))
  BY <1>t, <1>1, <1>6, <1>8 DEF ShapeOK, Runs
<1>10. ASSUME NEW i \in 1..Len(s) PROVE s[i].at \in Nat
  BY <1>t, <1>1, EditStamp DEF StampsOK
<1>11. CASE OutOfOrder(n)
  <2>1. c \in Answered(Root)'
    <3>1. c \in Issued(Root)'
      BY <1>t, <1>2, <1>4, <1>7, EditCalls
    <3> QED
      BY <1>8, <1>11, <3>1 DEF Open
  <2>2. PICK o \in DOMAIN t : t[o].kind = "out" /\ t[o].call = c
    <3>1. \E i \in DOMAIN LogOf(t) : LogOf(t)[i] = OutputItem(c)
      BY <1>2, <2>1 DEF Answered
    <3> QED
      BY <1>2, <1>7, <3>1, LoggedRow
  <2>3. PICK l \in 1..Len(s) : l = e[o] /\ s[l].kind = "out" /\ s[l].call = c /\ s[l].at <= at
    <3>1. e[o] \in 1..Len(s) /\ t[o] = s[e[o]] /\ s[e[o]].at <= at
      BY <1>2 DEF Cut
    <3>2. s[e[o]].kind = "out" /\ s[e[o]].call = c
      BY <2>2, <3>1
    <3> QED
      BY <3>1, <3>2
  <2>4. c \in Answered(Root)
    BY <1>t, <1>1, <1>7, <2>3, AnsweredItem
  <2>5. c \notin Minded(Root)
    BY <1>t, <2>4, MindedOpen DEF Open
  <2>6. Followed(s, k)
    BY <1>6, <1>9, <2>5 DEF Shaped
  <2>7. PICK m \in 1..Len(s) : OutAt(s, k, m) /\ Stretch(s, k, m)
    BY <1>1, <2>6 DEF Followed
  <2>8. RowsAnswered(s)
    <3>1. LogAnswered(log[Root])
      BY <1>t DEF AnsweredOnce, LogAnswered
    <3>2. LogAnswered(LogOf(s))
      BY <1>1, <3>1
    <3> QED
      BY <1>1, <3>2, AnsweredRows
  <2>9. m = l
    BY <1>1, <1>6, <2>3, <2>7, <2>8 DEF RowsAnswered, OutAt
  <2> QED
    BY <1>5, <2>3, <2>7, <2>9
<1>12. CASE ~OutOfOrder(n)
  <2>1. k < n
    <3>1. n < k => s[n].at < s[k].at
      BY <1>t, <1>1, <1>3 DEF OrderOK
    <3>2. ~(n < k)
      BY <1>3, <1>6, <1>10, <3>1
    <3> QED
      BY <1>1, <1>6, <3>2
  <2>2. ASSUME NEW m \in 1..Len(s), Stretch(s, k, m) PROVE m < n
    <3>1. n \in k..m => s[n].kind \in {"call", "out"}
      BY <2>2 DEF Stretch
    <3>2. n \notin k..m
      BY <1>3, <3>1
    <3> QED
      BY <1>1, <2>1, <3>2
  <2>3. ~Stretch(s, k, Len(s))
    <3>1. Len(s) \in 1..Len(s) /\ ~(Len(s) < n)
      BY <1>1, <1>3
    <3> QED
      BY <2>2, <3>1
  <2>4. Followed(s, k)
    BY <1>9, <2>3 DEF Shaped
  <2>5. PICK m \in 1..Len(s) : OutAt(s, k, m) /\ Stretch(s, k, m)
    BY <1>1, <2>4 DEF Followed
  <2>6. m \in 1..(n - 1)
    BY <1>1, <2>2, <2>5
  <2>7. ~(s[m].at > s[n].at)
    BY <1>12, <2>6 DEF OutOfOrder
  <2>8. s[m].at <= at
    BY <1>3, <1>10, <2>5, <2>7
  <2> QED
    BY <1>5, <2>5, <2>8
<1> QED
  BY <1>11, <1>12

(* An edit keeps the shapes. *)
LEMMA ShapeEdit ==
  ASSUME TInv, TInv', ShapeOK, NEW n \in DOMAIN items[Root], Edit(n)
  PROVE  ShapeOK'
<1>1. PICK at : EditAt(n, at)
  BY DEF EditAt
<1>t. /\ TypeOK /\ TreeOK /\ Root \in Agents /\ status \in [Agents -> Statuses]
  BY RunnerAssumption DEF TInv, RunnerInv, Core, TypeOK
<1> SUFFICES ASSUME NEW x \in Agents, Runs(x)', NEW h \in DOMAIN items'[x],
                    items'[x][h].kind = "call", items'[x][h].call \notin loose'
             PROVE  Followed(items'[x], h)
  BY DEF ShapeOK, Shaped
<1>2. /\ items'[x] = Kept(x, at) /\ items'[x] \in Seq(ItemSet) /\ DOMAIN items'[x] = 1..Len(items'[x])
      /\ \E e : Cut(items[x], items'[x], at, e)
  BY <1>1, EditStamp
<1>3. x = Root
  <2> SUFFICES ASSUME x # Root PROVE FALSE
    OBVIOUS
  <2>1. Kept(x, at) # <<>>
    BY <1>2
  <2>2. status[x] # "absent"
    BY <1>1, <2>1, EditChildren
  <2>3. status[x] \notin {"pending", "running"}
    <3>1. pc[x] = "idle"
      BY <1>1, EditFrame
    <3> QED
      BY <1>t, <3>1 DEF TreeOK
  <2>4. status'[x] = IF status[x] = "waiting" THEN "completed" ELSE status[x]
    BY <1>1, <2>1, EditFrame
  <2>5. status'[x] \in Terminal
    BY <1>t, <2>2, <2>3, <2>4 DEF Statuses, Terminal
  <2> QED
    BY <2>5 DEF Runs
<1> PICK s : s = items[Root]
  OBVIOUS
<1> PICK t : t = items'[Root]
  OBVIOUS
<1>4. PICK e : Cut(s, t, at, e)
  BY <1>2, <1>3
<1>5. /\ s \in Seq(ItemSet) /\ t \in Seq(ItemSet) /\ h \in 1..Len(t) /\ h \in DOMAIN t
      /\ t[h].kind = "call" /\ t[h].call \notin loose'
  BY <1>2, <1>3 DEF TInv, ItemsTyped
<1>6. PICK m \in 1..Len(s) : OutAt(s, e[h], m) /\ Stretch(s, e[h], m) /\ s[m].at <= at
  BY <1>1, <1>4, <1>5, EditFollowed
<1>7. Followed(t, h)
  BY <1>4, <1>5, <1>6, CutFollowed
<1> QED
  BY <1>3, <1>7

(* Steps that leave the agents and their items alone keep the shapes. *)
LEMMA ShapeSame ==
  ASSUME ShapeOK, UNCHANGED <<agentVars, log, todo, waits, items, loose>>
  PROVE  ShapeOK'
<1>1. /\ status' = status /\ waiting' = waiting /\ todo' = todo /\ waits' = waits
      /\ items' = items /\ loose' = loose
  BY DEF agentVars
<1>2. \A x : Minded(x)' = Minded(x) /\ (Runs(x)' <=> Runs(x))
  BY <1>1 DEF Minded, Pending, WaitCalls, Runs
<1> QED
  BY <1>1, <1>2 DEF ShapeOK

(* Every step keeps the shapes, *)
LEMMA ShapeStep == TInv /\ ShapeOK /\ [TranscriptNext]_transcriptVars => ShapeOK'
<1> SUFFICES ASSUME TInv, ShapeOK, [TranscriptNext]_transcriptVars PROVE ShapeOK'
  OBVIOUS
<1>i. TInv'
  BY TInvStep
<1>t. Core /\ TypeOK /\ SignalOK /\ QueueOK /\ queued \in Nat /\ ItemsTyped
  BY DEF TInv, RunnerInv, Core, TypeOK
<1>1. CASE Submit \/ \E b \in Agents : \E e \in waiting[b] : DeliverResult(b, e)
  <2>1. PICK a \in Agents, new \in Seq(NewRows) : Stores(a, new)
    BY <1>1, <1>t, RequestStores
  <2> QED
    BY <1>i, <2>1, ShapeStores
<1>2. CASE QueueInput
  BY <1>2, ShapeSame DEF QueueInput, Enqueue, runVars
<1>3. CASE CancelRequest
  BY <1>3, ShapeSame DEF CancelRequest, Cancel, itemVars, runVars
<1>4. CASE \E n \in DOMAIN items[Root] : Edit(n)
  BY <1>i, <1>4, ShapeEdit
<1>5. CASE \E a \in Agents : RunStep(a)
  <2>1. PICK a \in Agents, new \in Seq(NewRows) : Stores(a, new)
    BY <1>5, <1>t, RunStores
  <2> QED
    BY <1>i, <2>1, ShapeStores
<1>6. CASE UNCHANGED transcriptVars
  BY <1>6, ShapeSame DEF transcriptVars, itemVars, vars, runVars
<1> QED
  BY <1>1, <1>2, <1>3, <1>4, <1>5, <1>6 DEF TranscriptNext, AtRest

(* and so each call always has its shape. *)
LEMMA ShapeAlways == TranscriptSpec => []ShapeOK
<1>1. TranscriptInit => ShapeOK
  BY DEF TranscriptInit, ShapeOK
<1> QED
  BY <1>1, ShapeStep, TInvAlways, PTL DEF TranscriptSpec

-------------------------------------------------------------------------------
(* The messages that a provider is given.                                  *)

MessageSet == [role : {"calls", "tool", "assistant", "user"}, calls : SUBSET (Calls \union {None})]

RoleOf(kind) ==
  CASE kind = "call" -> "calls" [] kind = "out" -> "tool" [] kind = "text" -> "assistant" [] kind = "user" -> "user"

(* The call joins the last message, or the item becomes a message. *)
Joining(ms, i) == i.kind = "call" /\ ms # <<>> /\ ms[Len(ms)].role = "calls"
JoinsLast(ms, new, i) ==
  /\ Len(new) = Len(ms)
  /\ \A p \in 1..Len(ms) : p # Len(ms) => new[p] = ms[p]
  /\ new[Len(ms)].role = "calls" /\ new[Len(ms)].calls = ms[Len(ms)].calls \union {i.call}
Appends(ms, new, i) ==
  /\ Len(new) = Len(ms) + 1
  /\ \A p \in 1..Len(ms) : new[p] = ms[p]
  /\ new[Len(ms) + 1].role = RoleOf(i.kind)
  /\ new[Len(ms) + 1].calls = IF Logs(i) THEN {i.call} ELSE {}

LEMMA AddMessageCases ==
  ASSUME NEW ms \in Seq(MessageSet), NEW i \in ItemSet
  PROVE  /\ AddMessage(ms, i) \in Seq(MessageSet)
         /\ Joining(ms, i) => JoinsLast(ms, AddMessage(ms, i), i)
         /\ ~Joining(ms, i) => Appends(ms, AddMessage(ms, i), i)
<1>1. i.kind \in {"call", "out", "text", "user"} /\ i.call \in Calls \union {None}
  BY DEF ItemSet, Kinds
<1>2. Len(ms) \in Nat /\ DOMAIN ms = 1..Len(ms) /\ (ms # <<>> => Len(ms) \in 1..Len(ms))
  BY EmptySeq
<1>3. CASE Joining(ms, i)
  <2>1. Len(ms) \in 1..Len(ms) /\ ms[Len(ms)] \in MessageSet
    BY <1>2, <1>3 DEF Joining
  <2>2. AddMessage(ms, i) = [ms EXCEPT ![Len(ms)].calls = @ \union {i.call}]
    BY <1>3 DEF AddMessage, Joining, Last
  <2> PICK last : last = [ms[Len(ms)] EXCEPT !.calls = @ \union {i.call}]
    OBVIOUS
  <2>3. last \in MessageSet /\ last.role = "calls" /\ last.calls = ms[Len(ms)].calls \union {i.call}
    BY <1>1, <1>3, <2>1 DEF MessageSet, Joining
  <2>4. AddMessage(ms, i) = [ms EXCEPT ![Len(ms)] = last]
    BY <2>2
  <2> QED
    BY <1>2, <1>3, <2>1, <2>3, <2>4 DEF JoinsLast
<1>4. CASE ~Joining(ms, i)
  <2> PICK m : m = CASE i.kind = "call" -> [role |-> "calls", calls |-> {i.call}]
                     [] i.kind = "out"  -> [role |-> "tool", calls |-> {i.call}]
                     [] i.kind = "text" -> [role |-> "assistant", calls |-> {}]
                     [] i.kind = "user" -> [role |-> "user", calls |-> {}]
    OBVIOUS
  <2>1. AddMessage(ms, i) = Append(ms, m)
    BY <1>4 DEF AddMessage, Joining, Last
  <2>2. m \in MessageSet /\ m.role = RoleOf(i.kind) /\ m.calls = IF Logs(i) THEN {i.call} ELSE {}
    <3>1. CASE i.kind = "call"
      BY <1>1, <3>1 DEF MessageSet, RoleOf, Logs
    <3>2. CASE i.kind = "out"
      BY <1>1, <3>2 DEF MessageSet, RoleOf, Logs
    <3>3. CASE i.kind = "text"
      BY <1>1, <3>3 DEF MessageSet, RoleOf, Logs
    <3>4. CASE i.kind = "user"
      BY <1>1, <3>4 DEF MessageSet, RoleOf, Logs
    <3> QED
      BY <1>1, <3>1, <3>2, <3>3, <3>4
  <2> HIDE DEF MessageSet
  <2>3. m \in MessageSet
    BY <2>2
  <2>4. /\ Append(ms, m) \in Seq(MessageSet) /\ Len(Append(ms, m)) = Len(ms) + 1
        /\ Append(ms, m)[Len(ms) + 1] = m /\ \A p \in 1..Len(ms) : Append(ms, m)[p] = ms[p]
    BY ONLY ms \in Seq(MessageSet), <2>3
  <2> QED
    BY <1>4, <2>1, <2>2, <2>4 DEF Appends
<1> QED
  BY <1>3, <1>4

(* The first n items stand in the messages, each at its place: neighbours  *)
(* share a message if they are calls.                                      *)
Placed(s, n, ms, g) ==
  /\ g \in [1..n -> 1..Len(ms)]
  /\ \A p \in 1..Len(ms) : \E i \in 1..n : g[i] = p
  /\ n > 0 => g[n] = Len(ms)
Told(s, n, ms, g) ==
  /\ \A i \in 1..n : /\ s[i].kind = "call" <=> ms[g[i]].role = "calls"
                     /\ s[i].kind = "out" <=> ms[g[i]].role = "tool"
                     /\ s[i].kind = "call" => s[i].call \in ms[g[i]].calls
                     /\ s[i].kind = "out" => ms[g[i]].calls = {s[i].call}
  /\ \A p \in 1..Len(ms) : ms[p].role = "calls" =>
       \A c \in ms[p].calls : \E i \in 1..n : g[i] = p /\ s[i].kind = "call" /\ s[i].call = c
InOrder(s, n, g) ==
  \A i, j \in 1..n : i < j =>
    /\ g[i] <= g[j]
    /\ s[i].kind # "call" \/ s[j].kind # "call" => g[i] < g[j]
    /\ (\A q \in i..j : s[q].kind = "call") => g[i] = g[j]
Fits(s, n, ms, g) == Placed(s, n, ms, g) /\ Told(s, n, ms, g) /\ InOrder(s, n, g)

(* One item more. *)
LEMMA FitsNext ==
  ASSUME NEW s \in Seq(ItemSet), NEW k \in 1..Len(s), NEW n \in Nat, k = n + 1,
         NEW ms \in Seq(MessageSet), NEW g, Fits(s, n, ms, g), NEW new, new = AddMessage(ms, s[k])
  PROVE  \E h : Fits(s, k, new, h)
<1>1. s[k] \in ItemSet /\ k \in Nat /\ Len(ms) \in Nat
  OBVIOUS
<1>2. s[k].kind \in {"call", "out", "text", "user"}
  BY <1>1 DEF ItemSet, Kinds
<1>3. PICK l \in Nat : l = Len(ms)
  BY <1>1
<1>4. /\ new \in Seq(MessageSet)
      /\ Joining(ms, s[k]) => JoinsLast(ms, new, s[k])
      /\ ~Joining(ms, s[k]) => Appends(ms, new, s[k])
  BY <1>1, AddMessageCases
<1>5. PICK d \in Nat : d = Len(new)
  BY <1>4
<1>6. /\ g \in [1..n -> 1..l] /\ \A p \in 1..l : \E i \in 1..n : g[i] = p
      /\ n > 0 => g[n] = l
  BY <1>3 DEF Fits, Placed
<1>7. /\ d = l \/ d = l + 1
      /\ Joining(ms, s[k]) => d = l
      /\ ~Joining(ms, s[k]) => d = l + 1
  BY <1>3, <1>4, <1>5 DEF JoinsLast, Appends
<1>8. PICK h : h = [i \in 1..k |-> IF i = k THEN d ELSE g[i]]
  OBVIOUS
<1>9. h[k] = d /\ \A i \in 1..n : i \in 1..k /\ h[i] = g[i] /\ i # k
  BY <1>8
<1>10. \A i \in 1..k : i = k \/ i \in 1..n
  OBVIOUS
<1>11. d > 0 /\ (Joining(ms, s[k]) => l > 0 /\ n > 0 /\ s[n].kind = "call" /\ ms[l].role = "calls")
  <2>1. CASE Joining(ms, s[k])
    <3>1. l > 0 /\ ms[l].role = "calls"
      BY <1>3, <2>1, EmptySeq DEF Joining
    <3>2. l \in 1..l
      BY <3>1
    <3>3. n > 0
      BY <1>6, <3>2
    <3>4. n \in 1..n /\ g[n] = l
      BY <1>6, <3>3
    <3>5. s[n].kind = "call"
      BY <3>1, <3>4 DEF Fits, Told
    <3> QED
      BY <1>7, <2>1, <3>1, <3>3, <3>5
  <2> QED
    BY <1>7, <2>1
<1>12. Placed(s, k, new, h)
  <2>1. h \in [1..k -> 1..d]
    <3>1. d \in 1..d /\ \A p \in 1..l : p \in 1..d
      BY <1>7, <1>11
    <3> QED
      BY <1>6, <1>8, <1>10, <3>1
  <2>2. ASSUME NEW p \in 1..d PROVE \E i \in 1..k : h[i] = p
    <3>1. CASE p = d
      BY <1>9, <3>1
    <3>2. CASE p # d
      <4>1. p \in 1..l
        BY <1>7, <3>2
      <4> QED
        BY <1>6, <1>9, <4>1
    <3> QED
      BY <3>1, <3>2
  <2> QED
    BY <1>5, <1>9, <2>1, <2>2 DEF Placed
<1>13. ASSUME NEW i \in 1..n
       PROVE  /\ g[i] \in 1..l /\ new[g[i]].role = ms[g[i]].role
              /\ ms[g[i]].calls \subseteq new[g[i]].calls
              /\ ms[g[i]].role # "calls" => new[g[i]] = ms[g[i]]
  <2>1. PICK p \in 1..l : p = g[i]
    BY <1>6
  <2>2. CASE Joining(ms, s[k])
    <3>1. CASE p = l
      BY <1>3, <1>4, <1>11, <2>1, <2>2, <3>1 DEF JoinsLast
    <3>2. CASE p # l
      BY <1>3, <1>4, <2>1, <2>2, <3>2 DEF JoinsLast
    <3> QED
      BY <3>1, <3>2
  <2>3. CASE ~Joining(ms, s[k])
    BY <1>3, <1>4, <2>1, <2>3 DEF Appends
  <2> QED
    BY <2>2, <2>3
<1>14. /\ s[k].kind = "call" <=> new[d].role = "calls"
       /\ s[k].kind = "out" <=> new[d].role = "tool"
       /\ s[k].kind = "call" => s[k].call \in new[d].calls
       /\ s[k].kind = "out" => new[d].calls = {s[k].call}
  <2>1. CASE Joining(ms, s[k])
    <3>1. new[d].role = "calls" /\ s[k].call \in new[d].calls
      BY <1>3, <1>4, <1>7, <2>1 DEF JoinsLast
    <3>2. s[k].kind = "call"
      BY <2>1 DEF Joining
    <3> QED
      BY <3>1, <3>2
  <2>2. CASE ~Joining(ms, s[k])
    <3>1. new[d].role = RoleOf(s[k].kind) /\ new[d].calls = IF Logs(s[k]) THEN {s[k].call} ELSE {}
      BY <1>3, <1>4, <1>7, <2>2 DEF Appends
    <3>2. CASE s[k].kind = "call"
      BY <3>1, <3>2 DEF RoleOf, Logs
    <3>3. CASE s[k].kind = "out"
      BY <3>1, <3>3 DEF RoleOf, Logs
    <3>4. CASE s[k].kind \in {"text", "user"}
      BY <3>1, <3>4 DEF RoleOf
    <3> QED
      BY <1>2, <3>2, <3>3, <3>4
  <2> QED
    BY <2>1, <2>2
<1>15. Told(s, k, new, h)
  <2>1. ASSUME NEW i \in 1..k
        PROVE  /\ s[i].kind = "call" <=> new[h[i]].role = "calls"
               /\ s[i].kind = "out" <=> new[h[i]].role = "tool"
               /\ s[i].kind = "call" => s[i].call \in new[h[i]].calls
               /\ s[i].kind = "out" => new[h[i]].calls = {s[i].call}
    <3>1. CASE i = k
      BY <1>9, <1>14, <3>1
    <3>2. CASE i \in 1..n
      <4>1. /\ s[i].kind = "call" <=> ms[g[i]].role = "calls"
            /\ s[i].kind = "out" <=> ms[g[i]].role = "tool"
            /\ s[i].kind = "call" => s[i].call \in ms[g[i]].calls
            /\ s[i].kind = "out" => ms[g[i]].calls = {s[i].call}
        BY <3>2 DEF Fits, Told
      <4>2. h[i] = g[i]
        BY <1>9, <3>2
      <4>3. /\ new[g[i]].role = ms[g[i]].role /\ ms[g[i]].calls \subseteq new[g[i]].calls
            /\ ms[g[i]].role # "calls" => new[g[i]] = ms[g[i]]
        BY <1>13, <3>2
      <4> QED
        BY <4>1, <4>2, <4>3
    <3> QED
      BY <1>10, <3>1, <3>2
  <2>2. ASSUME NEW p \in 1..d, new[p].role = "calls", NEW c \in new[p].calls
        PROVE  \E i \in 1..k : h[i] = p /\ s[i].kind = "call" /\ s[i].call = c
    <3>1. ASSUME p \in 1..l, ms[p].role = "calls", c \in ms[p].calls
          PROVE  \E i \in 1..k : h[i] = p /\ s[i].kind = "call" /\ s[i].call = c
      <4>1. PICK i \in 1..n : g[i] = p /\ s[i].kind = "call" /\ s[i].call = c
        BY <1>3, <3>1 DEF Fits, Told
      <4> QED
        BY <1>9, <4>1
    <3>2. CASE p # d \/ c # s[k].call
      <4>1. CASE Joining(ms, s[k])
        <5>1. p \in 1..l
          BY <1>7, <4>1
        <5>2. CASE p = l
          BY <1>3, <1>4, <1>7, <1>11, <2>2, <3>1, <3>2, <4>1, <5>1, <5>2 DEF JoinsLast
        <5>3. CASE p # l
          BY <1>3, <1>4, <2>2, <3>1, <4>1, <5>1, <5>3 DEF JoinsLast
        <5> QED
          BY <5>2, <5>3
      <4>2. CASE ~Joining(ms, s[k])
        <5>1. CASE p = d
          <6>1. new[d].calls = IF Logs(s[k]) THEN {s[k].call} ELSE {}
            BY <1>3, <1>4, <1>7, <4>2 DEF Appends
          <6> QED
            BY <2>2, <3>2, <5>1, <6>1
        <5>2. CASE p # d
          <6>1. p \in 1..l
            BY <1>7, <5>2
          <6>2. new[p] = ms[p]
            BY <1>3, <1>4, <4>2, <6>1 DEF Appends
          <6> QED
            BY <2>2, <3>1, <6>1, <6>2
        <5> QED
          BY <5>1, <5>2
      <4> QED
        BY <4>1, <4>2
    <3>3. CASE p = d /\ c = s[k].call
      <4>1. s[k].kind = "call"
        BY <1>14, <2>2, <3>3
      <4> QED
        BY <1>9, <3>3, <4>1
    <3> QED
      BY <3>2, <3>3
  <2> QED
    BY <1>5, <2>1, <2>2 DEF Told
<1>16. InOrder(s, k, h)
  <2> SUFFICES ASSUME NEW i \in 1..k, NEW j \in 1..k, i < j
               PROVE  /\ h[i] <= h[j]
                      /\ s[i].kind # "call" \/ s[j].kind # "call" => h[i] < h[j]
                      /\ (\A q \in i..j : s[q].kind = "call") => h[i] = h[j]
    BY DEF InOrder
  <2>1. i \in 1..n /\ i <= n /\ n \in 1..n /\ h[i] = g[i] /\ g[i] \in 1..l /\ g[n] = l
    <3>1. i \in 1..n /\ i <= n /\ n \in 1..n /\ n > 0
      OBVIOUS
    <3> QED
      BY <1>6, <1>9, <3>1
  <2>2. CASE j \in 1..n
    <3>1. h[j] = g[j]
      BY <1>9, <2>2
    <3>2. /\ g[i] <= g[j] /\ (s[i].kind # "call" \/ s[j].kind # "call" => g[i] < g[j])
          /\ (\A q \in i..j : s[q].kind = "call") => g[i] = g[j]
      BY <2>1, <2>2 DEF Fits, InOrder
    <3> QED
      BY <2>1, <3>1, <3>2
  <2>3. CASE j = k /\ Joining(ms, s[k])
    <3>1. h[j] = l /\ s[n].kind = "call" /\ s[k].kind = "call"
      BY <1>7, <1>9, <1>11, <2>3 DEF Joining
    <3>2. s[i].kind # "call" => g[i] < l
      <4>1. s[i].kind # "call" => i < n
        BY <2>1, <3>1
      <4> QED
        BY <2>1, <4>1 DEF Fits, InOrder
    <3>3. (\A q \in i..j : s[q].kind = "call") => g[i] = l
      <4>1. CASE i = n
        BY <2>1, <4>1
      <4>2. CASE i < n
        <5>1. \A q \in i..n : q \in i..j
          BY <2>3
        <5> QED
          BY <2>1, <4>2, <5>1 DEF Fits, InOrder
      <4> QED
        BY <2>1, <4>1, <4>2
    <3> QED
      BY <2>1, <2>3, <3>1, <3>2, <3>3
  <2>4. CASE j = k /\ ~Joining(ms, s[k])
    <3>1. h[j] = l + 1 /\ h[i] < h[j] /\ h[i] <= h[j]
      BY <1>7, <1>9, <2>1, <2>4
    <3>2. ASSUME \A q \in i..j : s[q].kind = "call" PROVE FALSE
      <4>1. n \in i..j /\ k \in i..j
        BY <2>1, <2>4
      <4>2. s[n].kind = "call" /\ s[k].kind = "call"
        BY <3>2, <4>1
      <4>3. ms[l].role = "calls"
        BY <2>1, <4>2 DEF Fits, Told
      <4>4. ms # <<>>
        <5>1. l # 0
          BY <2>1
        <5> QED
          BY <1>3, <5>1
      <4> QED
        BY <1>3, <2>4, <4>2, <4>3, <4>4 DEF Joining
    <3> QED
      BY <3>1, <3>2
  <2> QED
    BY <1>10, <2>2, <2>3, <2>4
<1> QED
  BY <1>12, <1>15, <1>16 DEF Fits

(* The messages of the first items, one item after the other. *)
Folded(s, f, n) == f = [m \in 0..n |-> IF m = 0 THEN <<>> ELSE AddMessage(f[m - 1], s[m])]

(* The recursion has a solution. *)
LEMMA FoldedExists ==
  ASSUME NEW s, NEW n \in Nat
  PROVE  \E f : Folded(s, f, n)
<1> DEFINE T == {m \in Nat : \E f : Folded(s, f, m)}
<1>1. 0 \in T
  <2> DEFINE f == [m \in 0..0 |-> <<>>]
  <2>1. Folded(s, f, 0)
    BY DEF Folded
  <2> QED
    BY <2>1
<1>2. ASSUME NEW m \in 1..n, m - 1 \in T PROVE m \in T
  <2>1. PICK f : Folded(s, f, m - 1)
    BY <1>2
  <2> DEFINE h == [i \in 0..m |-> IF i = m THEN AddMessage(f[m - 1], s[m]) ELSE f[i]]
  <2>2. ASSUME NEW i \in 0..m PROVE h[i] = IF i = 0 THEN <<>> ELSE AddMessage(h[i - 1], s[i])
    <3>1. CASE i = m
      <4>1. h[i] = AddMessage(f[m - 1], s[m]) /\ h[i - 1] = f[m - 1] /\ i # 0
        BY <3>1
      <4> QED
        BY <3>1, <4>1
    <3>2. CASE i # m
      <4>1. i \in 0..m - 1 /\ i - 1 # m /\ h[i] = f[i] /\ (i # 0 => h[i - 1] = f[i - 1])
        BY <3>2
      <4>2. f[i] = IF i = 0 THEN <<>> ELSE AddMessage(f[i - 1], s[i])
        BY <2>1, <4>1 DEF Folded
      <4> QED
        BY <4>1, <4>2
    <3> QED
      BY <3>1, <3>2
  <2>3. h = [i \in 0..m |-> h[i]]
    OBVIOUS
  <2> HIDE DEF h
  <2>4. h = [i \in 0..m |-> IF i = 0 THEN <<>> ELSE AddMessage(h[i - 1], s[i])]
    BY <2>2, <2>3
  <2>5. Folded(s, h, m)
    BY <2>4, Zenon DEF Folded
  <2>6. m \in Nat
    OBVIOUS
  <2> QED
    BY <2>5, <2>6
<1> HIDE DEF T
<1>3. n \in T
  BY <1>1, <1>2, UpTo
<1> QED
  BY <1>3 DEF T

(* Every item has its place in the messages of its transcript. *)
LEMMA MessagesFit ==
  ASSUME NEW a, NEW s \in Seq(ItemSet), s = items[a], NEW n \in Nat, n = Len(s)
  PROVE  Messages(a) \in Seq(MessageSet) /\ \E g : Fits(s, n, Messages(a), g)
<1> DEFINE f == CHOOSE x : Folded(s, x, n)
           T == {m \in Nat : m <= n => f[m] \in Seq(MessageSet) /\ \E g : Fits(s, m, f[m], g)}
<1>1. Folded(s, f, n)
  BY FoldedExists
<1>2. Messages(a) = f[n]
  BY DEF Messages, Folded
<1> HIDE DEF f
<1>3. /\ f[0] = <<>>
      /\ \A m \in 1..n : f[m] = AddMessage(f[m - 1], s[m])
  BY <1>1 DEF Folded
<1>4. 0 \in T
  <2>1. f[0] \in Seq(MessageSet) /\ Len(f[0]) = 0
    BY <1>3, EmptySeq
  <2>2. PICK g : g = [i \in 1..0 |-> i]
    OBVIOUS
  <2>3. 1..0 = {} /\ g \in [1..0 -> 1..0]
    BY <2>2
  <2>4. Fits(s, 0, f[0], g)
    BY <2>1, <2>3 DEF Fits, Placed, Told, InOrder
  <2> QED
    BY <2>1, <2>4
<1>5. ASSUME NEW m \in 1..n, m - 1 \in T PROVE m \in T
  <2>1. PICK l \in Nat : l = m - 1
    OBVIOUS
  <2>2. f[l] \in Seq(MessageSet) /\ \E g : Fits(s, l, f[l], g)
    BY <1>5, <2>1
  <2>3. m \in 1..Len(s) /\ m = l + 1 /\ f[m] = AddMessage(f[l], s[m]) /\ m \in Nat
    BY <1>3, <2>1
  <2>4. f[m] \in Seq(MessageSet)
    <3>1. s[m] \in ItemSet
      BY <2>3
    <3> QED
      BY <2>2, <2>3, <3>1, AddMessageCases
  <2>5. \E g : Fits(s, m, f[m], g)
    BY <2>2, <2>3, FitsNext
  <2> QED
    BY <2>3, <2>4, <2>5
<1> HIDE DEF T
<1>6. \A m \in 0..n : m \in T
  BY ONLY n \in Nat, <1>4, <1>5, UpTo
<1>7. n \in T
  BY <1>6
<1> QED
  BY <1>2, <1>7 DEF T

(* The results of the calls at p follow it at once, up to those in L; a    *)
(* result at p stands behind its call.                                     *)
Paired(ms, p, L) ==
  /\ ms[p].role = "calls" => \A c \in ms[p].calls \ L :
       \E j \in (p + 1)..Len(ms) : c \in ms[j].calls /\ \A k \in (p + 1)..j : ms[k].role = "tool"
  /\ ms[p].role = "tool" => \E j \in 1..(p - 1) : ms[j].role = "calls" /\ ms[p].calls \subseteq ms[j].calls

(* The messages of a transcript in which every call that is not given up   *)
(* is followed by its output, and every output answers a call.             *)
LEMMA MessagesPair ==
  ASSUME NEW s \in Seq(ItemSet), NEW n \in Nat, n = Len(s), NEW ms \in Seq(MessageSet), NEW g, Fits(s, n, ms, g),
         NEW L, RowsAnswered(s),
         \A i \in DOMAIN s : s[i].kind = "call" /\ s[i].call \notin L => Followed(s, i),
         NEW p \in DOMAIN ms
  PROVE  Paired(ms, p, L)
<1>1. DOMAIN s = 1..n /\ DOMAIN ms = 1..Len(ms)
  OBVIOUS
<1>2. PICK l \in Nat : l = Len(ms)
  OBVIOUS
<1>3. p \in 1..l /\ g \in [1..n -> 1..l] /\ \A q \in 1..l : \E i \in 1..n : g[i] = q
  BY <1>1, <1>2 DEF Fits, Placed
<1>4. ASSUME NEW i \in 1..n
      PROVE  /\ s[i].kind = "call" <=> ms[g[i]].role = "calls"
             /\ s[i].kind = "out" <=> ms[g[i]].role = "tool"
             /\ s[i].kind = "call" => s[i].call \in ms[g[i]].calls
             /\ s[i].kind = "out" => ms[g[i]].calls = {s[i].call}
  BY DEF Fits, Told
<1>5. ASSUME NEW i \in 1..n, NEW j \in 1..n, i < j
      PROVE  /\ g[i] <= g[j] /\ (s[i].kind # "call" \/ s[j].kind # "call" => g[i] < g[j])
             /\ (\A q \in i..j : s[q].kind = "call") => g[i] = g[j]
  BY <1>5 DEF Fits, InOrder
<1>6. ASSUME ms[p].role = "calls", NEW c \in ms[p].calls, c \notin L
      PROVE  \E j \in (p + 1)..l : c \in ms[j].calls /\ \A k \in (p + 1)..j : ms[k].role = "tool"
  <2>1. PICK i \in 1..n : g[i] = p /\ s[i].kind = "call" /\ s[i].call = c
    BY <1>2, <1>3, <1>6 DEF Fits, Told
  <2>2. PICK m \in 1..n : OutAt(s, i, m) /\ Stretch(s, i, m)
    BY <1>1, <1>6, <2>1 DEF Followed
  <2>3. i < m /\ s[m].kind = "out" /\ s[m].call = c
    BY <2>1, <2>2 DEF OutAt
  <2>4. PICK j \in 1..l : j = g[m]
    BY <1>3
  <2>5. p < j /\ c \in ms[j].calls /\ ms[j].role = "tool"
    BY <1>4, <1>5, <2>1, <2>3, <2>4
  <2>6. ASSUME NEW k \in (p + 1)..j PROVE ms[k].role = "tool"
    <3>1. k \in 1..l /\ p < k /\ k <= j
      BY <1>2, <1>3, <2>4
    <3>2. PICK q \in 1..n : g[q] = k
      BY <1>3, <3>1
    <3>3. i < q
      <4>1. q < i => k <= p
        BY <1>5, <2>1, <3>2
      <4>2. q # i
        BY <1>3, <2>1, <3>1, <3>2
      <4>3. ~(k <= p)
        BY <1>3, <3>1
      <4> QED
        BY <4>1, <4>2, <4>3
    <3>4. CASE m < q
      <4>1. j <= k
        BY <1>5, <2>4, <3>2, <3>4
      <4>2. k = j
        BY <2>4, <3>1, <4>1
      <4> QED
        BY <2>5, <4>2
    <3>5. CASE q <= m
      <4>1. q \in i..m
        BY <3>3, <3>5
      <4>2. s[q].kind # "call"
        <5> SUFFICES ASSUME s[q].kind = "call" PROVE FALSE
          OBVIOUS
        <5>1. \A r \in i..q : s[r].kind = "call"
          BY <2>2, <4>1 DEF Stretch
        <5>2. g[i] = g[q]
          BY <1>5, <3>3, <5>1
        <5>3. k = p
          BY <2>1, <3>2, <5>2
        <5> QED
          BY <1>3, <3>1, <5>3
      <4>3. s[q].kind = "out"
        BY <2>2, <4>1, <4>2 DEF Stretch
      <4> QED
        BY <1>4, <3>2, <4>3
    <3> QED
      BY <3>4, <3>5
  <2>7. j \in (p + 1)..l
    BY <1>3, <2>4, <2>5
  <2> QED
    BY <2>5, <2>6, <2>7
<1>7. ASSUME ms[p].role = "tool"
      PROVE  \E j \in 1..(p - 1) : ms[j].role = "calls" /\ ms[p].calls \subseteq ms[j].calls
  <2>1. PICK i \in 1..n : g[i] = p
    BY <1>3
  <2>2. s[i].kind = "out" /\ ms[p].calls = {s[i].call}
    BY <1>4, <1>7, <2>1
  <2>3. PICK m \in 1..n : m < i /\ s[m].kind = "call" /\ s[m].call = s[i].call
    BY <1>1, <2>2 DEF RowsAnswered
  <2>4. PICK j \in 1..l : j = g[m]
    BY <1>3
  <2>5. j < p /\ ms[j].role = "calls" /\ s[i].call \in ms[j].calls
    BY <1>4, <1>5, <2>1, <2>2, <2>3, <2>4
  <2>6. j \in 1..(p - 1)
    BY <1>3, <2>4, <2>5
  <2> QED
    BY <2>2, <2>5, <2>6
<1> QED
  BY <1>2, <1>6, <1>7 DEF Paired

(* Whatever the order in which tools, children, people and queued messages *)
(* answered, a provider is given each result after its call, and each      *)
(* group of calls with all its results.                                    *)
THEOREM CallsArePaired == TranscriptSpec => []ToolCallsArePaired
<1>1. TInv /\ ShapeOK => ToolCallsArePaired
  <2> SUFFICES ASSUME TInv, ShapeOK, NEW a \in Agents, pc[a] = "generate", NEW p \in DOMAIN Messages(a)
               PROVE  Paired(Messages(a), p, loose)
    BY DEF ToolCallsArePaired, Paired
  <2>t. TypeOK /\ TreeOK /\ AnsweredOnce /\ ItemsTyped /\ LogsKept
    BY DEF TInv, RunnerInv, Core
  <2>1. status[a] = "running"
    BY <2>t DEF TreeOK
  <2>2. Runs(a)
    BY <2>1 DEF Runs, Terminal
  <2>3. Minded(a) = {}
    <3>1. pc[a] \notin Handling /\ status[a] # "waiting"
      BY <2>1 DEF Handling
    <3> QED
      BY <3>1, MindsNothing DEF TInv, RunnerInv
  <2>4. PICK s \in Seq(ItemSet) : s = items[a]
    BY <2>t DEF ItemsTyped
  <2>5. PICK n \in Nat : n = Len(s)
    OBVIOUS
  <2>6. PICK ms \in Seq(MessageSet) : ms = Messages(a) /\ \E g : Fits(s, n, ms, g)
    BY <2>4, <2>5, MessagesFit
  <2>7. PICK g : Fits(s, n, ms, g)
    BY <2>6
  <2>8. PICK L : L = loose
    OBVIOUS
  <2>9. \A i \in DOMAIN s : s[i].kind = "call" /\ s[i].call \notin L => Followed(s, i)
    BY <2>2, <2>3, <2>4, <2>8 DEF ShapeOK, Shaped
  <2>10. RowsAnswered(s)
    <3>1. LogAnswered(log[a])
      BY <2>t DEF AnsweredOnce, LogAnswered
    <3>2. LogAnswered(LogOf(s))
      BY <2>t, <2>4, <3>1 DEF LogsKept
    <3> QED
      BY <3>2, AnsweredRows
  <2>11. p \in DOMAIN ms
    BY <2>6
  <2>12. Paired(ms, p, L)
    BY ONLY n \in Nat, s \in Seq(ItemSet), ms \in Seq(MessageSet),
            <2>5, <2>7, <2>9, <2>10, <2>11, MessagesPair
  <2> QED
    BY <2>6, <2>8, <2>12
<1> QED
  BY <1>1, TInvAlways, ShapeAlways, PTL
===============================================================================
