-------------------------- MODULE Filesystem_proofs --------------------------
(***************************************************************************)
(* Theorems of Filesystem, for any names, texts, mounts, requests and      *)
(* trees.                                                                  *)
(***************************************************************************)
EXTENDS Filesystem, FiniteSetTheorems, SequenceTheorems, WellFoundedInduction, TLAPS

-------------------------------------------------------------------------------
(* Numbers.                                                                *)

(* A set of numbers has a least one: the intervals from 1 to its elements  *)
(* have one that is smallest by inclusion.                                 *)
LEMMA LeastNumber ==
  ASSUME NEW T \in SUBSET Nat, T # {}
  PROVE  \E x \in T : \A y \in T : x <= y
<1> DEFINE U == {1..x : x \in T}
           R == StrictSubsetOrdering(Nat)
<1>1. IsWellFoundedOn(R, FiniteSubsetsOf(Nat))
  BY FS_StrictSubsetOrderingWellFounded
<1>2. U \subseteq FiniteSubsetsOf(Nat) /\ U # {}
  <2>1. ASSUME NEW x \in T PROVE 1..x \in FiniteSubsetsOf(Nat)
    <3>1. 1..x \subseteq Nat /\ IsFiniteSet(1..x)
      BY FS_Interval
    <3> QED
      BY <3>1 DEF FiniteSubsetsOf
  <2> QED
    BY <2>1
<1>3. \E u \in U : \A v \in U : ~ (<<v, u>> \in R)
  <2> HIDE DEF U, R
  <2> QED
    BY <1>1, <1>2, WFMin
<1>4. PICK x \in T : \A y \in T : ~ (<<1..y, 1..x>> \in R)
  BY <1>3
<1>5. ASSUME NEW y \in T, y < x PROVE FALSE
  <2>1. 1..y \subseteq 1..x /\ x \in 1..x /\ x \notin 1..y
    BY <1>5
  <2>2. <<1..y, 1..x>> \in R
    BY <2>1 DEF StrictSubsetOrdering
  <2> QED
    BY <1>4, <2>2
<1> QED
  BY <1>5

(* What holds at 0 and goes on from each number to the next holds up to n. *)
LEMMA UpTo ==
  ASSUME NEW n \in Nat, NEW T, 0 \in T, \A m \in 1..n : m - 1 \in T => m \in T
  PROVE  \A m \in 0..n : m \in T
<1> DEFINE Left == {m \in 0..n : m \notin T}
<1> SUFFICES ASSUME Left # {} PROVE FALSE
  OBVIOUS
<1>1. PICK m \in Left : \A y \in Left : m <= y
  <2>1. Left \in SUBSET Nat
    OBVIOUS
  <2> HIDE DEF Left
  <2> QED
    BY <2>1, LeastNumber
<1>2. m \in 1..n /\ m - 1 \in 0..n /\ m - 1 \notin Left
  BY <1>1
<1> QED
  BY <1>1, <1>2

-------------------------------------------------------------------------------
(* Paths.                                                                  *)

(* What Front leaves. *)
LEMMA FrontParts ==
  ASSUME NEW S, NEW s \in Seq(S), s # <<>>
  PROVE  /\ Front(s) \in Seq(S) /\ Len(s) \in Nat /\ Len(s) # 0
         /\ Len(Front(s)) = Len(s) - 1
         /\ \A i \in 1..Len(s) - 1 : Front(s)[i] = s[i]
<1>1. Len(s) \in Nat /\ Len(s) # 0 /\ \A i \in 1..Len(s) : s[i] \in S
  BY EmptySeq, LenProperties
<1> PICK n \in Nat : n = Len(s)
  BY <1>1
<1>2. \A i \in 1..n - 1 : s[i] \in S
  BY <1>1
<1>3. /\ SubSeq(s, 1, n - 1) \in Seq(S)
      /\ Len(SubSeq(s, 1, n - 1)) = IF 1 <= n - 1 THEN n - 1 - 1 + 1 ELSE 0
      /\ \A i \in 1..(n - 1) - 1 + 1 : SubSeq(s, 1, n - 1)[i] = s[1 + i - 1]
  BY <1>2, SubSeqProperties
<1> QED
  BY <1>1, <1>3 DEF Front

(* A prefix has the same elements at its places. *)
LEMMA PrefixPlaces ==
  ASSUME NEW S, NEW s \in Seq(S), NEW t \in Seq(S)
  PROVE  /\ Len(s) \in Nat /\ Len(t) \in Nat
         /\ IsPrefix(s, t) <=> Len(s) <= Len(t) /\ \A i \in 1..Len(s) : s[i] = t[i]
<1>1. /\ Len(s) \in Nat /\ \A i \in 1..Len(s) : s[i] \in S
      /\ Len(t) \in Nat /\ \A i \in 1..Len(t) : t[i] \in S
  BY LenProperties
<1>2. SubSeq(s, 1, Len(s)) = s
  BY SubSeqFull
<1> SUFFICES ASSUME Len(s) <= Len(t)
             PROVE  s = SubSeq(t, 1, Len(s)) <=> \A i \in 1..Len(s) : s[i] = t[i]
  BY <1>1, <1>2 DEF IsPrefix
<1>3. /\ SubSeq(t, 1, Len(s)) \in Seq(S) /\ Len(SubSeq(t, 1, Len(s))) = Len(s)
      /\ \A i \in 1..Len(s) : SubSeq(t, 1, Len(s))[i] = t[i]
  BY <1>1, SubSeqProperties
<1> QED
  BY <1>1, <1>3, SeqEqual

(* The prefixes of a path. *)
LEMMA PrefixesArePrefixes ==
  ASSUME NEW S, NEW p \in Seq(S), NEW q
  PROVE  q \in Prefixes(p) <=> q \in Seq(S) /\ IsPrefix(q, p)
<1>1. Len(p) \in Nat /\ \A i \in 1..Len(p) : p[i] \in S
  BY LenProperties
<1>2. ASSUME NEW l \in 0..Len(p), q = SubSeq(p, 1, l) PROVE q \in Seq(S) /\ IsPrefix(q, p)
  <2>1. q \in Seq(S) /\ Len(q) = l /\ \A i \in 1..l : q[i] = p[i]
    BY <1>1, <1>2, SubSeqProperties
  <2> QED
    BY <1>1, <2>1, PrefixPlaces
<1>3. ASSUME q \in Seq(S), IsPrefix(q, p) PROVE \E l \in 0..Len(p) : q = SubSeq(p, 1, l)
  <2>1. Len(q) \in 0..Len(p) /\ q = SubSeq(p, 1, Len(q))
    BY <1>1, <1>3, SubSeqFull, LenProperties DEF IsPrefix
  <2> QED
    BY <2>1
<1> QED
  BY <1>2, <1>3 DEF Prefixes

(* A proper prefix is one of the parent, *)
LEMMA PrefixOfParent ==
  ASSUME NEW S, NEW s \in Seq(S), NEW t \in Seq(S), IsPrefix(s, t), s # t
  PROVE  t # <<>> /\ IsPrefix(s, Front(t))
<1>1. /\ Len(s) \in Nat /\ Len(t) \in Nat /\ Len(s) <= Len(t)
      /\ \A i \in 1..Len(s) : s[i] = t[i]
  BY PrefixPlaces
<1>2. Len(s) # Len(t)
  BY <1>1, SeqEqual
<1>3. t # <<>>
  BY <1>1, <1>2, EmptySeq
<1>4. /\ Front(t) \in Seq(S) /\ Len(Front(t)) = Len(t) - 1
      /\ \A i \in 1..Len(t) - 1 : Front(t)[i] = t[i]
  BY <1>3, FrontParts
<1> QED
  BY <1>1, <1>2, <1>3, <1>4, PrefixPlaces

(* and what begins the parent begins the path. *)
LEMMA ParentIsPrefix ==
  ASSUME NEW S, NEW s \in Seq(S), NEW t \in Seq(S), t # <<>>
  PROVE  /\ IsPrefix(Front(t), t) /\ Front(t) # t /\ Front(t) \in Seq(S)
         /\ IsPrefix(s, Front(t)) => IsPrefix(s, t) /\ s # t
<1>1. /\ Front(t) \in Seq(S) /\ Len(t) \in Nat /\ Len(t) # 0 /\ Len(Front(t)) = Len(t) - 1
      /\ \A i \in 1..Len(t) - 1 : Front(t)[i] = t[i]
  BY FrontParts
<1> PICK f \in Seq(S) : f = Front(t)
  BY <1>1
<1>2. IsPrefix(f, t) /\ f # t
  <2>1. IsPrefix(f, t) <=> Len(f) <= Len(t) /\ \A i \in 1..Len(f) : f[i] = t[i]
    BY ONLY f \in Seq(S), t \in Seq(S), PrefixPlaces
  <2> QED
    BY <1>1, <2>1
<1>3. ASSUME IsPrefix(s, f) PROVE IsPrefix(s, t) /\ s # t
  <2>1. Len(s) \in Nat /\ Len(s) <= Len(f) /\ \A i \in 1..Len(s) : s[i] = f[i]
    BY <1>3, PrefixPlaces
  <2>2. IsPrefix(s, t) <=> Len(s) <= Len(t) /\ \A i \in 1..Len(s) : s[i] = t[i]
    BY PrefixPlaces
  <2> QED
    BY <1>1, <2>1, <2>2
<1> QED
  BY <1>1, <1>2, <1>3

(* Being a prefix is a partial order, in which the prefixes of a path are  *)
(* comparable.                                                             *)
LEMMA PrefixOrder ==
  ASSUME NEW S, NEW r \in Seq(S), NEW s \in Seq(S), NEW t \in Seq(S)
  PROVE  /\ IsPrefix(s, s) /\ IsPrefix(<<>>, s)
         /\ IsPrefix(s, <<>>) => s = <<>>
         /\ IsPrefix(r, s) /\ IsPrefix(s, t) => IsPrefix(r, t)
         /\ IsPrefix(s, t) /\ IsPrefix(t, s) => s = t
         /\ IsPrefix(r, t) /\ IsPrefix(s, t) => IsPrefix(r, s) \/ IsPrefix(s, r)
<1>0. Len(r) \in Nat /\ Len(s) \in Nat /\ Len(t) \in Nat /\ <<>> \in Seq(S) /\ Len(<<>>) = 0
  BY LenProperties, EmptySeq
<1> PICK e \in Seq(S) : e = <<>>
  BY <1>0
<1>1. IsPrefix(s, s) /\ IsPrefix(e, s)
  <2>1. IsPrefix(s, s)
    BY <1>0, PrefixPlaces
  <2>2. IsPrefix(e, s) <=> Len(e) <= Len(s) /\ \A i \in 1..Len(e) : e[i] = s[i]
    BY ONLY e \in Seq(S), s \in Seq(S), PrefixPlaces
  <2> QED
    BY <1>0, <2>1, <2>2
<1>2. IsPrefix(s, e) => s = e
  <2>1. IsPrefix(s, e) <=> Len(s) <= Len(e) /\ \A i \in 1..Len(s) : s[i] = e[i]
    BY ONLY e \in Seq(S), s \in Seq(S), PrefixPlaces
  <2> QED
    BY <1>0, <2>1, EmptySeq
<1>3. IsPrefix(r, s) /\ IsPrefix(s, t) => IsPrefix(r, t)
  BY <1>0, PrefixPlaces
<1>4. ASSUME IsPrefix(s, t), IsPrefix(t, s) PROVE s = t
  <2>1. Len(s) = Len(t) /\ \A i \in 1..Len(s) : s[i] = t[i]
    BY <1>0, <1>4, PrefixPlaces
  <2> QED
    BY <2>1, SeqEqual
<1>5. IsPrefix(r, t) /\ IsPrefix(s, t) => IsPrefix(r, s) \/ IsPrefix(s, r)
  BY <1>0, PrefixPlaces
<1> QED
  BY <1>1, <1>2, <1>3, <1>4, <1>5

(* The path q, with dst in the place of what begins it. *)
Rebased(src, dst, q) == dst \o SubSeq(q, Len(src) + 1, Len(q))

RebasedAs(src, dst, q, m) ==
  /\ Len(m) = Len(dst) + (Len(q) - Len(src))
  /\ IsPrefix(dst, m)
  /\ \A i \in 1..Len(q) - Len(src) : m[Len(dst) + i] = q[Len(src) + i]

(* What rebasing makes of a path. *)
LEMMA RebasedPath ==
  ASSUME NEW S, NEW src \in Seq(S), NEW dst \in Seq(S), NEW q \in Seq(S), IsPrefix(src, q)
  PROVE  /\ Rebased(src, dst, q) \in Seq(S)
         /\ RebasedAs(src, dst, q, Rebased(src, dst, q))
<1>1. /\ Len(src) \in Nat /\ Len(q) \in Nat /\ Len(src) <= Len(q)
      /\ \A i \in 1..Len(q) : q[i] \in S
  BY PrefixPlaces, LenProperties
<1> PICK l \in Nat, n \in Nat : l = Len(src) /\ n = Len(q)
  BY <1>1
<1> DEFINE rest == SubSeq(q, l + 1, n)
<1>2. \A i \in (l + 1)..n : q[i] \in S
  BY <1>1
<1>3. rest \in Seq(S) /\ Len(rest) = n - l /\ \A i \in 1..n - l : rest[i] = q[l + i]
  <2>1. /\ rest \in Seq(S)
        /\ Len(rest) = IF l + 1 <= n THEN n - (l + 1) + 1 ELSE 0
        /\ \A i \in 1..n - (l + 1) + 1 : rest[i] = q[(l + 1) + i - 1]
    BY <1>2, SubSeqProperties
  <2> QED
    BY <1>1, <2>1
<1> HIDE DEF rest
<1>4. /\ dst \o rest \in Seq(S) /\ Len(dst \o rest) = Len(dst) + Len(rest)
      /\ \A i \in 1..Len(dst) + Len(rest) :
           (dst \o rest)[i] = IF i <= Len(dst) THEN dst[i] ELSE rest[i - Len(dst)]
  BY <1>3, ConcatProperties
<1>5. Rebased(src, dst, q) = dst \o rest
  BY DEF Rebased, rest
<1>6. Len(dst) \in Nat
  BY LenProperties
<1>7. IsPrefix(dst, dst \o rest)
  <2> PICK m \in Seq(S) : m = dst \o rest
    BY <1>4
  <2>1. IsPrefix(dst, m) <=> Len(dst) <= Len(m) /\ \A i \in 1..Len(dst) : dst[i] = m[i]
    BY ONLY dst \in Seq(S), m \in Seq(S), PrefixPlaces
  <2> QED
    BY <1>1, <1>3, <1>4, <1>6, <2>1
<1>8. \A i \in 1..Len(q) - Len(src) : (dst \o rest)[Len(dst) + i] = q[Len(src) + i]
  BY <1>1, <1>3, <1>4, <1>6
<1> QED
  BY <1>1, <1>3, <1>4, <1>5, <1>6, <1>7, <1>8 DEF RebasedAs

(* Rebasing can be undone, *)
LEMMA RebasedBack ==
  ASSUME NEW S, NEW src \in Seq(S), NEW dst \in Seq(S), NEW q \in Seq(S), IsPrefix(src, q)
  PROVE  Rebased(dst, src, Rebased(src, dst, q)) = q
<1>1. /\ Len(src) \in Nat /\ Len(q) \in Nat /\ Len(dst) \in Nat /\ Len(src) <= Len(q)
      /\ \A i \in 1..Len(src) : src[i] = q[i]
  BY PrefixPlaces
<1> PICK l \in Nat, n \in Nat, k \in Nat : l = Len(src) /\ n = Len(q) /\ k = Len(dst)
  BY <1>1
<1>2. PICK m \in Seq(S) : m = Rebased(src, dst, q)
  BY RebasedPath
<1>3. /\ Len(m) = k + (n - l) /\ IsPrefix(dst, m)
      /\ \A i \in 1..n - l : m[k + i] = q[l + i]
  <2>1. RebasedAs(src, dst, q, m)
    BY <1>2, RebasedPath
  <2> QED
    BY <2>1 DEF RebasedAs
<1>4. PICK b \in Seq(S) : b = Rebased(dst, src, m)
  BY <1>3, RebasedPath
<1>5. /\ Len(b) = l + (Len(m) - k) /\ IsPrefix(src, b)
      /\ \A i \in 1..Len(m) - k : b[l + i] = m[k + i]
  <2>1. RebasedAs(dst, src, m, b)
    BY <1>3, <1>4, RebasedPath
  <2> QED
    BY <2>1 DEF RebasedAs
<1>6. Len(b) = n /\ \A i \in 1..n - l : b[l + i] = q[l + i]
  <2>1. Len(m) - k = n - l
    BY <1>1, <1>3
  <2>2. \A i \in 1..n - l : b[l + i] = m[k + i]
    BY <1>5, <2>1
  <2>3. Len(b) = n
    BY <1>5, <2>1
  <2>4. \A i \in 1..n - l : b[l + i] = q[l + i]
    BY <1>3, <2>2
  <2> QED
    BY <2>3, <2>4
<1>7. \A i \in 1..l : b[i] = q[i]
  BY <1>1, <1>5, PrefixPlaces
<1>8. \A i \in 1..n : b[i] = q[i]
  <2> TAKE i \in 1..n
  <2>1. CASE i <= l
    BY <1>7, <2>1
  <2>2. CASE l < i
    <3>1. i - l \in 1..n - l /\ l + (i - l) = i
      BY <2>2
    <3> QED
      BY <1>6, <3>1
  <2> QED
    BY <2>1, <2>2
<1>9. b = q
  BY <1>6, <1>8, SeqEqual
<1> QED
  BY <1>2, <1>4, <1>9

(* and goes on from a path to its parent. *)
LEMMA RebasedParent ==
  ASSUME NEW S, NEW src \in Seq(S), NEW dst \in Seq(S), NEW q \in Seq(S), IsPrefix(src, q)
  PROVE  /\ q = src <=> Rebased(src, dst, q) = dst
         /\ q # src => /\ Rebased(src, dst, q) # <<>>
                       /\ Front(Rebased(src, dst, q)) = Rebased(src, dst, Front(q))
<1>1. /\ Len(src) \in Nat /\ Len(q) \in Nat /\ Len(dst) \in Nat /\ Len(src) <= Len(q)
      /\ \A i \in 1..Len(src) : src[i] = q[i]
  BY PrefixPlaces
<1> PICK l \in Nat, n \in Nat, k \in Nat : l = Len(src) /\ n = Len(q) /\ k = Len(dst)
  BY <1>1
<1>2. PICK m \in Seq(S) : m = Rebased(src, dst, q)
  BY RebasedPath
<1>3. /\ Len(m) = k + (n - l) /\ IsPrefix(dst, m)
      /\ \A i \in 1..n - l : m[k + i] = q[l + i]
  <2>1. RebasedAs(src, dst, q, m)
    BY <1>2, RebasedPath
  <2> QED
    BY <2>1 DEF RebasedAs
<1>4. \A i \in 1..k : m[i] = dst[i]
  BY <1>3, PrefixPlaces
<1>5. q = src <=> m = dst
  <2>1. ASSUME q = src PROVE m = dst
    <3>1. Len(m) = Len(dst)
      BY <1>3, <2>1
    <3> QED
      BY <1>4, <3>1, SeqEqual
  <2>2. ASSUME m = dst PROVE q = src
    <3>1. n = l
      BY <1>1, <1>3, <2>2
    <3> QED
      BY <1>1, <3>1, SeqEqual
  <2> QED
    BY <2>1, <2>2
<1>6. ASSUME q # src PROVE m # <<>> /\ Front(m) = Rebased(src, dst, Front(q))
  <2>1. q # <<>> /\ IsPrefix(src, Front(q)) /\ l < n
    <3>1. q # <<>> /\ IsPrefix(src, Front(q))
      BY <1>6, PrefixOfParent
    <3>2. l # n
      BY <1>1, <1>6, SeqEqual
    <3> QED
      BY <1>1, <3>1, <3>2
  <2>2. /\ Front(q) \in Seq(S) /\ Len(Front(q)) = n - 1
        /\ \A i \in 1..n - 1 : Front(q)[i] = q[i]
    BY <2>1, FrontParts
  <2>3. m # <<>>
    BY <1>3, <2>1, EmptySeq
  <2>4. /\ Front(m) \in Seq(S) /\ Len(Front(m)) = Len(m) - 1
        /\ \A i \in 1..Len(m) - 1 : Front(m)[i] = m[i]
    BY <2>3, FrontParts
  <2> PICK p \in Seq(S), g \in Seq(S) : p = Front(q) /\ g = Front(m)
    BY <2>2, <2>4
  <2>5. PICK r \in Seq(S) : r = Rebased(src, dst, p)
    BY <2>1, RebasedPath
  <2>6. /\ Len(r) = k + (n - 1 - l) /\ IsPrefix(dst, r)
        /\ \A i \in 1..n - 1 - l : r[k + i] = p[l + i]
    <3>1. RebasedAs(src, dst, p, r)
      BY <2>1, <2>5, RebasedPath
    <3>2. Len(p) = n - 1
      BY <2>2
    <3> QED
      BY <3>1, <3>2 DEF RebasedAs
  <2>7. \A i \in 1..k : r[i] = dst[i]
    BY <2>6, PrefixPlaces
  <2>8. Len(r) = Len(g) /\ Len(g) = k + (n - 1 - l)
    BY <1>3, <2>4, <2>6
  <2>9. \A i \in 1..Len(g) : r[i] = g[i]
    <3> TAKE i \in 1..Len(g)
    <3>1. i \in 1..Len(m) - 1 /\ g[i] = m[i]
      BY <1>3, <2>4, <2>8
    <3>2. CASE i <= k
      BY <1>4, <2>7, <3>1, <3>2
    <3>3. CASE k < i
      <4>1. i - k \in 1..n - 1 - l /\ k + (i - k) = i
        BY <2>1, <2>8, <3>3
      <4>2. i - k \in 1..n - l /\ l + (i - k) \in 1..n - 1
        BY <2>1, <4>1
      <4>3. r[i] = p[l + (i - k)] /\ m[i] = q[l + (i - k)]
        BY <1>3, <2>6, <4>1, <4>2
      <4> QED
        BY <2>2, <3>1, <4>2, <4>3
    <3> QED
      BY <3>2, <3>3
  <2>10. r = g
    BY <2>8, <2>9, SeqEqual
  <2> QED
    BY <2>3, <2>5, <2>10
<1> QED
  BY <1>2, <1>5, <1>6

-------------------------------------------------------------------------------
(* Trees.                                                                  *)

Node == Seq(Tokens) \union {Dir}

(* What stands at a path. *)
LEMMA NodeKinds ==
  ASSUME NEW t, IsTree(t), NEW p \in DOMAIN t
  PROVE  /\ p \in Seq(Names) /\ p # <<>> /\ t[p] \in Node
         /\ Front(p) \in Seq(Names) /\ IsDir(t, Front(p))
         /\ IsDir(t, p) <=> t[p] = Dir
         /\ IsFile(t, p) <=> t[p] # Dir
         /\ IsFile(t, p) => t[p] \in Seq(Tokens)
<1>1. p \in Seq(Names) /\ p # <<>> /\ t[p] \in Node /\ IsDir(t, Front(p))
  BY DEF IsTree, Node, Parent
<1>2. Front(p) \in Seq(Names)
  BY <1>1, FrontParts
<1> QED
  BY <1>1, <1>2 DEF IsDir, IsFile, Node

(* Whatever begins a path that exists is a directory, for its parent is    *)
(* one.                                                                    *)
LEMMA AncestorsExist ==
  ASSUME NEW t, IsTree(t), NEW p \in DOMAIN t, NEW q \in Seq(Names), IsPrefix(q, p), q # p
  PROVE  IsDir(t, q)
<1> DEFINE Behind(m) == \A r \in DOMAIN t : IsPrefix(q, r) /\ q # r /\ Len(r) <= m => IsDir(t, q)
           T == {m \in Nat : Behind(m)}
<1>1. 0 \in T
  <2> SUFFICES ASSUME NEW r \in DOMAIN t, IsPrefix(q, r), q # r, Len(r) <= 0 PROVE FALSE
    OBVIOUS
  <2>1. r \in Seq(Names) /\ r # <<>>
    BY NodeKinds
  <2> QED
    BY <2>1, EmptySeq
<1>2. ASSUME NEW m \in Nat, m # 0, m - 1 \in T PROVE m \in T
  <2> SUFFICES ASSUME NEW r \in DOMAIN t, IsPrefix(q, r), q # r, Len(r) <= m PROVE IsDir(t, q)
    OBVIOUS
  <2>1. r \in Seq(Names) /\ r # <<>> /\ IsDir(t, Front(r))
    BY NodeKinds
  <2>2. IsPrefix(q, Front(r))
    BY <2>1, PrefixOfParent
  <2>3. Front(r) \in Seq(Names) /\ Len(r) \in Nat /\ Len(Front(r)) = Len(r) - 1
    BY <2>1, FrontParts
  <2>4. CASE q = Front(r)
    BY <2>1, <2>4
  <2>5. CASE q # Front(r)
    <3>1. Front(r) # <<>>
      BY <2>2, <2>3, <2>5, PrefixOrder
    <3>2. Front(r) \in DOMAIN t /\ Len(Front(r)) <= m - 1
      BY <2>1, <2>3, <3>1 DEF IsDir
    <3>3. Behind(m - 1)
      BY <1>2
    <3> HIDE DEF T
    <3> QED
      BY <2>2, <2>5, <3>2, <3>3
  <2> QED
    BY <2>4, <2>5
<1> PICK n \in Nat : n = Len(p)
  BY NodeKinds, LenProperties
<1>3. n \in T
  <2>1. \A m \in 1..n : m - 1 \in T => m \in T
    <3> HIDE DEF T
    <3> QED
      BY <1>2
  <2> HIDE DEF T
  <2>2. \A m \in 0..n : m \in T
    BY <1>1, <2>1, UpTo
  <2> QED
    BY <2>2
<1> QED
  BY <1>3

(* Nothing is below a path that does not exist, and nothing else below a   *)
(* file.                                                                   *)
LEMMA NothingBelow ==
  ASSUME NEW t, IsTree(t), NEW p \in Seq(Names)
  PROVE  /\ ~Exists(t, p) => Below(t, p) = {}
         /\ IsFile(t, p) => Below(t, p) = {p}
<1>1. ASSUME NEW q \in Below(t, p), q # p PROVE IsDir(t, p)
  BY <1>1, AncestorsExist DEF Below
<1>2. p \in Below(t, p) => p \in DOMAIN t
  BY DEF Below
<1>3. ASSUME ~Exists(t, p) PROVE Below(t, p) = {}
  BY <1>1, <1>2, <1>3 DEF Exists, IsDir
<1>4. ASSUME IsFile(t, p) PROVE Below(t, p) = {p}
  <2>1. p \in DOMAIN t /\ p # <<>>
    BY <1>4, NodeKinds DEF IsFile
  <2>2. ~IsDir(t, p)
    BY <1>4, <2>1 DEF IsFile, IsDir
  <2>3. p \in Below(t, p)
    BY <2>1, PrefixOrder DEF Below
  <2> QED
    BY <1>1, <2>2, <2>3
<1> QED
  BY <1>3, <1>4

(* Directories are made where nothing stands, up to a path that no file    *)
(* begins, and change nothing else.                                        *)
LEMMA DirsAreMade ==
  ASSUME NEW t, IsTree(t), NEW p \in Seq(Names), CanMakeDirs(t, p)
  PROVE  /\ IsTree(WithDirs(t, p))
         /\ \A q \in DOMAIN t : q \in DOMAIN WithDirs(t, p) /\ WithDirs(t, p)[q] = t[q]
         /\ \A q \in DOMAIN WithDirs(t, p) \ DOMAIN t :
              q \in Seq(Names) /\ IsPrefix(q, p) /\ WithDirs(t, p)[q] = Dir
         /\ IsDir(WithDirs(t, p), p)
<1> DEFINE u == WithDirs(t, p)
<1>1. DOMAIN u = DOMAIN t \union (Prefixes(p) \ {<<>>})
  BY DEF WithDirs
<1>2. \A q \in DOMAIN u : u[q] = IF q \in DOMAIN t THEN t[q] ELSE Dir
  BY DEF WithDirs
<1>3. \A q \in DOMAIN u \ DOMAIN t :
        q \in Seq(Names) /\ q # <<>> /\ IsPrefix(q, p) /\ u[q] = Dir
  BY <1>1, <1>2, PrefixesArePrefixes
<1>4. \A q \in Seq(Names) : IsPrefix(q, p) => IsDir(u, q)
  <2> TAKE q \in Seq(Names)
  <2> HAVE IsPrefix(q, p)
  <2>1. q \in Prefixes(p)
    BY PrefixesArePrefixes
  <2>2. q \in DOMAIN t => IsDir(t, q)
    BY <2>1 DEF CanMakeDirs, Exists
  <2> HIDE DEF u
  <2> QED
    BY <1>1, <1>2, <2>1, <2>2 DEF IsDir
<1>5. IsDir(u, p)
  BY <1>4, PrefixOrder
<1> HIDE DEF u
<1>6. ASSUME NEW q \in DOMAIN u
      PROVE  q \in Seq(Names) /\ q # <<>> /\ u[q] \in Node /\ IsDir(u, Front(q))
  <2>1. CASE q \in DOMAIN t
    <3>1. q \in Seq(Names) /\ q # <<>> /\ t[q] \in Node /\ IsDir(t, Front(q))
      BY <2>1, NodeKinds
    <3> QED
      BY <1>1, <1>2, <2>1, <3>1 DEF IsDir
  <2>2. CASE q \notin DOMAIN t
    <3>1. q \in Seq(Names) /\ q # <<>> /\ IsPrefix(q, p) /\ u[q] = Dir
      BY <1>3, <2>2
    <3>2. Front(q) \in Seq(Names) /\ IsPrefix(Front(q), q)
      BY <3>1, ParentIsPrefix
    <3>3. IsPrefix(Front(q), p)
      BY <3>1, <3>2, PrefixOrder
    <3> QED
      BY <1>4, <3>1, <3>2, <3>3 DEF Node
  <2> QED
    BY <2>1, <2>2
<1>7. IsTree(u)
  BY <1>6 DEF IsTree, Node, Parent
<1> QED
  BY <1>1, <1>2, <1>3, <1>5, <1>7 DEF u

(* A file is put into a directory, or in the place of a file. *)
LEMMA FileIsPut ==
  ASSUME NEW t, IsTree(t), NEW p \in Seq(Names), p # <<>>, IsDir(t, Front(p)), ~IsDir(t, p),
         NEW text \in Seq(Tokens)
  PROVE  /\ IsTree(Put(t, p, text))
         /\ DOMAIN Put(t, p, text) = DOMAIN t \union {p} /\ Put(t, p, text)[p] = text
         /\ \A q \in DOMAIN t \ {p} : Put(t, p, text)[q] = t[q]
<1> DEFINE u == Put(t, p, text)
<1>1. DOMAIN u = DOMAIN t \union {p} /\ u[p] = text /\ \A q \in DOMAIN t \ {p} : u[q] = t[q]
  BY DEF Put
<1> HIDE DEF u
<1>2. Front(p) # p /\ Dir \notin Seq(Tokens)
  BY ParentIsPrefix, FilesystemAssumption
<1>3. ASSUME NEW q \in DOMAIN u
      PROVE  q \in Seq(Names) /\ q # <<>> /\ u[q] \in Node /\ IsDir(u, Front(q))
  <2>1. CASE q = p
    <3>1. IsDir(u, Front(p))
      BY <1>1, <1>2 DEF IsDir
    <3> QED
      BY <1>1, <2>1, <3>1 DEF Node
  <2>2. CASE q # p
    <3>1. q \in Seq(Names) /\ q # <<>> /\ t[q] \in Node /\ IsDir(t, Front(q))
      BY <1>1, <2>2, NodeKinds
    <3>2. Front(q) # p
      BY <3>1
    <3> QED
      BY <1>1, <2>2, <3>1, <3>2 DEF IsDir
  <2> QED
    BY <2>1, <2>2
<1>4. IsTree(u)
  BY <1>3 DEF IsTree, Node, Parent
<1> QED
  BY <1>1, <1>4 DEF u

(* What is below a path can be cut off. *)
LEMMA CutOff ==
  ASSUME NEW t, IsTree(t), NEW p \in Seq(Names)
  PROVE  /\ IsTree(Without(t, p))
         /\ DOMAIN Without(t, p) = {q \in DOMAIN t : ~IsPrefix(p, q)}
         /\ \A q \in DOMAIN Without(t, p) : Without(t, p)[q] = t[q]
<1> DEFINE u == Without(t, p)
<1>1. DOMAIN u = {q \in DOMAIN t : ~IsPrefix(p, q)} /\ \A q \in DOMAIN u : u[q] = t[q]
  BY DEF Without, Below, Restrict
<1> HIDE DEF u
<1>2. ASSUME NEW q \in DOMAIN u
      PROVE  q \in Seq(Names) /\ q # <<>> /\ u[q] \in Node /\ IsDir(u, Front(q))
  <2>1. q \in Seq(Names) /\ q # <<>> /\ t[q] \in Node /\ IsDir(t, Front(q))
    BY <1>1, NodeKinds
  <2>2. ~IsPrefix(p, Front(q))
    BY <1>1, <2>1, ParentIsPrefix
  <2> QED
    BY <1>1, <2>1, <2>2 DEF IsDir
<1>3. IsTree(u)
  BY <1>2 DEF IsTree, Node, Parent
<1> QED
  BY <1>1, <1>3 DEF u

(* What is grafted onto dst: a file where no directory is, or anything     *)
(* where nothing is.                                                       *)
LEMMA GraftGrows ==
  ASSUME NEW t, IsTree(t), NEW src \in DOMAIN t, NEW dst \in Seq(Names), dst # <<>>,
         IsDir(t, Front(dst)), (IsFile(t, src) /\ ~IsDir(t, dst)) \/ ~Exists(t, dst)
  PROVE  /\ IsTree(Grafted(t, src, dst))
         /\ \A q \in DOMAIN t : q \in DOMAIN Grafted(t, src, dst)
         /\ \A q \in DOMAIN Grafted(t, src, dst) : q \notin DOMAIN t => IsPrefix(dst, q)
         /\ \A q \in DOMAIN t : ~IsPrefix(dst, q) => Grafted(t, src, dst)[q] = t[q]
         /\ ~Exists(t, dst) => \A q \in DOMAIN t : Grafted(t, src, dst)[q] = t[q]
<1> DEFINE u   == Grafted(t, src, dst)
           new == {Rebased(src, dst, q) : q \in Below(t, src)}
<1>0. src \in Seq(Names) /\ src # <<>>
  BY NodeKinds
<1>1. DOMAIN u = DOMAIN t \union new
  BY DEF Grafted, Rebased
<1>2. \A p \in DOMAIN u : u[p] = IF p \in new THEN t[Rebased(dst, src, p)] ELSE t[p]
  BY DEF Grafted, Rebased
<1>3. ASSUME NEW q \in Below(t, src)
      PROVE  /\ q \in DOMAIN t /\ q \in Seq(Names) /\ IsPrefix(src, q)
             /\ Rebased(src, dst, q) \in Seq(Names) /\ IsPrefix(dst, Rebased(src, dst, q))
             /\ Rebased(src, dst, q) \in DOMAIN u /\ u[Rebased(src, dst, q)] = t[q]
  <2>1. q \in DOMAIN t /\ q \in Seq(Names) /\ IsPrefix(src, q)
    BY NodeKinds DEF Below
  <2>2. Rebased(src, dst, q) \in Seq(Names) /\ IsPrefix(dst, Rebased(src, dst, q))
    BY <1>0, <2>1, RebasedPath DEF RebasedAs
  <2>3. Rebased(dst, src, Rebased(src, dst, q)) = q
    BY <1>0, <2>1, RebasedBack
  <2>4. Rebased(src, dst, q) \in new
    OBVIOUS
  <2> HIDE DEF u, new
  <2> QED
    BY <1>1, <1>2, <2>1, <2>2, <2>3, <2>4
<1>4. \A p \in new : IsPrefix(dst, p) /\ p \in Seq(Names) /\ p # <<>>
  <2> SUFFICES ASSUME NEW q \in Below(t, src)
               PROVE  /\ IsPrefix(dst, Rebased(src, dst, q)) /\ Rebased(src, dst, q) \in Seq(Names)
                      /\ Rebased(src, dst, q) # <<>>
    OBVIOUS
  <2> PICK p : p = Rebased(src, dst, q)
    OBVIOUS
  <2>1. p \in Seq(Names) /\ IsPrefix(dst, p)
    BY <1>3
  <2> QED
    BY <2>1, PrefixOrder
<1>5. \A p \in DOMAIN t : IsPrefix(dst, p) /\ p # dst => IsDir(t, dst)
  BY AncestorsExist, NodeKinds
<1>6. ~Exists(t, dst) => \A p \in DOMAIN t : ~IsPrefix(dst, p)
  BY NothingBelow DEF Below
<1>7. ASSUME NEW p \in DOMAIN t, p \notin new PROVE u[p] = t[p] /\ Front(p) \notin new
  <2>1. u[p] = t[p]
    BY <1>1, <1>2, <1>7
  <2>2. ASSUME Front(p) \in new PROVE FALSE
    <3>1. p \in Seq(Names) /\ p # <<>> /\ IsPrefix(dst, Front(p))
      BY <1>4, <2>2, NodeKinds
    <3>2. IsPrefix(dst, p) /\ dst # p
      BY <3>1, ParentIsPrefix
    <3>3. IsDir(t, dst)
      BY <1>5, <3>2
    <3> QED
      BY <3>3 DEF IsDir, Exists
  <2> QED
    BY <2>1, <2>2
<1>8. ASSUME NEW q \in Below(t, src) PROVE IsDir(u, Front(Rebased(src, dst, q)))
  <2>1. CASE q = src
    <3>1. Rebased(src, dst, q) = dst
      BY <1>0, <1>3, <2>1, RebasedParent
    <3>2. Front(dst) \in Seq(Names) /\ ~IsPrefix(dst, Front(dst))
      BY ParentIsPrefix
    <3>3. Front(dst) \notin new
      BY <1>4, <3>2
    <3> HIDE DEF u, new
    <3>4. Front(dst) # <<>> => u[Front(dst)] = Dir /\ Front(dst) \in DOMAIN u
      BY <1>1, <1>2, <3>3 DEF IsDir
    <3> QED
      BY <3>1, <3>4 DEF IsDir
  <2>2. CASE q # src
    <3>1. q \in DOMAIN t /\ q \in Seq(Names) /\ q # <<>> /\ IsDir(t, Front(q)) /\ Front(q) \in Seq(Names)
      BY <1>3, NodeKinds
    <3>2. IsPrefix(src, Front(q))
      BY <1>0, <1>3, <2>2, <3>1, PrefixOfParent
    <3>3. Front(q) # <<>>
      BY <1>0, <3>1, <3>2, PrefixOrder
    <3>4. Front(q) \in Below(t, src) /\ t[Front(q)] = Dir
      BY <3>1, <3>2, <3>3 DEF Below, IsDir
    <3>5. Front(Rebased(src, dst, q)) = Rebased(src, dst, Front(q))
      BY <1>0, <1>3, <2>2, RebasedParent
    <3>6. Rebased(src, dst, Front(q)) \in DOMAIN u /\ u[Rebased(src, dst, Front(q))] = Dir
      BY <1>3, <3>4
    <3> QED
      BY <3>5, <3>6 DEF IsDir
  <2> QED
    BY <2>1, <2>2
<1>9. ASSUME NEW p \in DOMAIN u
      PROVE  p \in Seq(Names) /\ p # <<>> /\ u[p] \in Node /\ IsDir(u, Front(p))
  <2>1. CASE p \in new
    <3> PICK q \in Below(t, src) : p = Rebased(src, dst, q)
      BY <2>1
    <3>1. u[p] = t[q] /\ q \in DOMAIN t
      BY <1>3
    <3>2. IsDir(u, Front(p))
      BY <1>8
    <3> HIDE DEF u, new
    <3> QED
      BY <1>4, <2>1, <3>1, <3>2, NodeKinds
  <2>2. CASE p \notin new
    <3>0. p \in DOMAIN t
      BY <1>1, <2>2
    <3>1. u[p] = t[p] /\ Front(p) \notin new
      BY <1>7, <2>2, <3>0
    <3>2. p \in Seq(Names) /\ p # <<>> /\ t[p] \in Node /\ IsDir(t, Front(p))
      BY <3>0, NodeKinds
    <3> HIDE DEF u, new
    <3>3. IsDir(u, Front(p))
      BY <1>1, <1>2, <3>1, <3>2 DEF IsDir
    <3> QED
      BY <3>1, <3>2, <3>3
  <2> QED
    BY <2>1, <2>2
<1> HIDE DEF u, new
<1>10. IsTree(u)
  BY <1>9 DEF IsTree, Node, Parent
<1>11. \A q \in DOMAIN t : ~IsPrefix(dst, q) => u[q] = t[q]
  BY <1>4, <1>7
<1>12. \A q \in DOMAIN u : q \notin DOMAIN t => IsPrefix(dst, q)
  BY <1>1, <1>4
<1>13. \A q \in DOMAIN t : q \in DOMAIN u
  BY <1>1
<1> QED
  BY <1>6, <1>10, <1>11, <1>12, <1>13 DEF u

-------------------------------------------------------------------------------
(* What each operation does to the tree.                                   *)

Refusals == {"refused", "mismatch", "os"}

Ends == {"done", "io"} \union Refusals

(* Every file of t is in u as it was. *)
KeepsFiles(t, u) == \A q \in Files(t) : q \in Files(u) /\ u[q] = t[q]

(* Both have the same files. *)
SameFiles(t, u) == Files(u) = Files(t) /\ \A q \in Files(t) : q \in Files(u) /\ u[q] = t[q]

(* A tree has its own files, *)
LEMMA SameIsKept ==
  ASSUME NEW t, NEW u
  PROVE  SameFiles(t, t) /\ (SameFiles(t, u) => KeepsFiles(t, u))
BY DEF SameFiles, KeepsFiles

(* and directories are no files. *)
LEMMA DirsKeepFiles ==
  ASSUME NEW t, IsTree(t), NEW p \in Seq(Names), CanMakeDirs(t, p)
  PROVE  SameFiles(t, WithDirs(t, p))
<1> PICK u : u = WithDirs(t, p)
  OBVIOUS
<1>1. /\ \A q \in DOMAIN t : q \in DOMAIN u /\ u[q] = t[q]
      /\ \A q \in DOMAIN u \ DOMAIN t : u[q] = Dir
  BY DirsAreMade
<1>2. SameFiles(t, u)
  BY <1>1 DEF SameFiles, Files
<1> QED
  BY <1>2

(* A create makes one file, where nothing was. *)
LEMMA Created ==
  ASSUME NEW t, IsTree(t), NEW p \in Seq(Names), NEW content \in Seq(Tokens),
         NEW dirs \in BOOLEAN, NEW dry \in BOOLEAN
  PROVE  LET out == Create(t, p, content, dirs, dry)
         IN  /\ IsTree(out.tree) /\ out.end \in Ends /\ KeepsFiles(t, out.tree)
             /\ out.end # "done" \/ dry => SameFiles(t, out.tree)
             /\ out.end = "done" /\ ~dry => out.tree[p] \in Seq(Tokens)
<1> DEFINE out == Create(t, p, content, dirs, dry)
           u   == IF dirs THEN WithDirs(t, Front(p)) ELSE t
<1>0. KeepsFiles(t, t) /\ SameFiles(t, t)
  BY SameIsKept
<1>1. CASE out.tree = t /\ out.end \in Ends /\ (out.end = "done" => dry)
  BY <1>0, <1>1
<1>2. CASE ~(out.tree = t /\ out.end \in Ends /\ (out.end = "done" => dry))
  <2>1. /\ ~Exists(t, p) /\ (dirs => CanMakeDirs(t, Front(p)))
        /\ (~dirs => Exists(t, Front(p)))
        /\ out = IF dry THEN Done(u) ELSE IF ~IsDir(u, Front(p)) THEN Fail(t, "os") ELSE Done(Put(u, p, content))
    BY <1>2 DEF Create, Fail, Ends, Refusals, Parent
  <2>2. p # <<>> /\ Front(p) \in Seq(Names) /\ p \notin DOMAIN t /\ ~IsPrefix(p, Front(p))
    BY <2>1, ParentIsPrefix DEF Exists
  <2>3. IsTree(u) /\ SameFiles(t, u)
    <3>1. dirs => IsTree(u) /\ SameFiles(t, u)
      BY <2>1, <2>2, DirsAreMade, DirsKeepFiles
    <3> QED
      BY <1>0, <3>1
  <2>4. p \notin DOMAIN u
    <3>1. dirs => \A q \in DOMAIN u \ DOMAIN t : IsPrefix(q, Front(p))
      BY <2>1, <2>2, DirsAreMade
    <3> QED
      BY <2>2, <3>1
  <2> HIDE DEF u, out
  <2>5. CASE dry
    <3>1. out.tree = u /\ out.end = "done"
      BY <2>1, <2>5 DEF Done
    <3> QED
      BY <2>3, <2>5, <3>1, SameIsKept DEF Ends, Refusals, out
  <2>6. CASE ~dry /\ ~IsDir(u, Front(p))
    <3>1. out.tree = t /\ out.end = "os"
      BY <2>1, <2>6 DEF Fail
    <3> QED
      BY <1>0, <3>1 DEF Ends, Refusals, out
  <2>7. CASE ~dry /\ IsDir(u, Front(p))
    <3>1. out.tree = Put(u, p, content) /\ out.end = "done"
      BY <2>1, <2>7 DEF Done
    <3>2. ~IsDir(u, p)
      BY <2>2, <2>4 DEF IsDir
    <3> PICK x, w : x = u /\ w = Put(x, p, content)
      OBVIOUS
    <3>3. /\ IsTree(w) /\ DOMAIN w = DOMAIN x \union {p} /\ w[p] = content
          /\ \A q \in DOMAIN x \ {p} : w[q] = x[q]
      <4>1. p # <<>> /\ IsTree(x) /\ IsDir(x, Front(p)) /\ ~IsDir(x, p)
        BY <2>2, <2>3, <2>7, <3>2
      <4>2. \A text \in Seq(Tokens) :
              /\ IsTree(Put(x, p, text))
              /\ DOMAIN Put(x, p, text) = DOMAIN x \union {p} /\ Put(x, p, text)[p] = text
              /\ \A q \in DOMAIN x \ {p} : Put(x, p, text)[q] = x[q]
        BY ONLY p \in Seq(Names), <4>1, FileIsPut, Zenon
      <4> QED
        BY <4>2
    <3>4. KeepsFiles(t, w)
      BY <2>3, <2>4, <3>3 DEF KeepsFiles, SameFiles, Files
    <3> QED
      BY <2>7, <3>1, <3>3, <3>4 DEF Ends, Refusals, out
  <2> QED
    BY <2>5, <2>6, <2>7
<1> QED
  BY <1>1, <1>2

(* A mkdir makes directories. *)
LEMMA DirectoryMade ==
  ASSUME NEW t, IsTree(t), NEW p \in Seq(Names), NEW recursive \in BOOLEAN
  PROVE  LET out == Mkdir(t, p, recursive)
         IN  IsTree(out.tree) /\ out.end \in Ends /\ SameFiles(t, out.tree)
<1> DEFINE out == Mkdir(t, p, recursive)
<1>0. SameFiles(t, t)
  BY SameIsKept
<1>1. \/ out.tree = t /\ out.end \in Ends
      \/ out.tree = WithDirs(t, p) /\ out.end = "done" /\ ~IsDir(t, p)
         /\ (CanMakeDirs(t, p) \/ (~Exists(t, p) /\ IsDir(t, Front(p))))
  BY DEF Mkdir, Done, Fail, Ends, Refusals, Parent
<1>2. ASSUME ~Exists(t, p), IsDir(t, Front(p)) PROVE CanMakeDirs(t, p)
  <2> SUFFICES ASSUME NEW q \in Prefixes(p), Exists(t, q) PROVE IsDir(t, q)
    BY DEF CanMakeDirs
  <2>1. q \in Seq(Names) /\ IsPrefix(q, p) /\ q # p /\ p # <<>>
    BY <1>2, PrefixesArePrefixes DEF Exists
  <2>2. IsPrefix(q, Front(p)) /\ Front(p) \in Seq(Names)
    BY <2>1, PrefixOfParent, FrontParts
  <2>3. CASE q = Front(p)
    BY <1>2, <2>3
  <2>4. CASE q # Front(p)
    <3>1. Front(p) # <<>>
      BY <2>1, <2>2, <2>4, PrefixOrder
    <3>2. Front(p) \in DOMAIN t
      BY <1>2, <3>1 DEF IsDir
    <3> QED
      BY <2>1, <2>2, <2>4, <3>2, AncestorsExist
  <2> QED
    BY <2>3, <2>4
<1> HIDE DEF out
<1>3. CASE out.tree = t /\ out.end \in Ends
  BY <1>0, <1>3 DEF out
<1>4. CASE out.tree = WithDirs(t, p) /\ out.end = "done" /\ CanMakeDirs(t, p)
  BY <1>4, DirsAreMade, DirsKeepFiles DEF Ends, Refusals, out
<1> QED
  BY <1>1, <1>2, <1>3, <1>4

(* A delete that fails leaves the tree alone. *)
LEMMA Deleted ==
  ASSUME NEW t, IsTree(t), NEW p \in Seq(Names), NEW isRoot \in BOOLEAN,
         NEW recursive \in BOOLEAN, NEW force \in BOOLEAN
  PROVE  LET out == Delete(t, p, isRoot, recursive, force)
         IN  /\ IsTree(out.tree) /\ out.end \in Ends
             /\ out.end # "done" => SameFiles(t, out.tree)
<1> DEFINE out == Delete(t, p, isRoot, recursive, force)
<1>1. \/ out.tree = t /\ out.end \in Ends
      \/ out.tree = Without(t, p) /\ out.end = "done"
  BY DEF Delete, Done, Fail, Ends, Refusals
<1> HIDE DEF out
<1>2. SameFiles(t, t) /\ IsTree(Without(t, p))
  BY SameIsKept, CutOff
<1> QED
  BY <1>1, <1>2 DEF Ends, Refusals, out

(* What the parent of a path is, the empty one's too. *)
LEMMA ParentIsPath ==
  ASSUME NEW p \in Seq(Names)
  PROVE  Front(p) \in Seq(Names) /\ (p = <<>> => Front(p) = <<>>)
<1>1. p = <<>> => Front(p) = <<>>
  BY SubSeqEmpty, EmptySeq DEF Front
<1> QED
  BY <1>1, FrontParts

(* shutil.move onto a file or to where nothing is leaves a tree. *)
LEMMA MovedOn ==
  ASSUME NEW t, IsTree(t), NEW src \in DOMAIN t, NEW dst \in Seq(Names), IsDir(t, Front(dst))
  PROVE  LET out == Moved(t, src, dst)
         IN  /\ IsTree(out.tree) /\ out.end \in Ends
             /\ out.end # "done" => out.tree = t
<1> DEFINE out  == Moved(t, src, dst)
           into == IsDir(t, dst) /\ dst # src
           real == IF into THEN Append(dst, Last(src)) ELSE dst
<1>1. CASE out.tree = t /\ out.end \in Ends
  BY <1>1
<1>2. CASE ~(out.tree = t /\ out.end \in Ends)
  <2>1. /\ ~(into /\ Exists(t, real)) /\ real # src
        /\ ~(IsDir(t, src) /\ (IsPrefix(src, real) \/ IsFile(t, real)))
        /\ out.tree = Without(Grafted(t, src, real), src) /\ out.end = "done"
    BY <1>2 DEF Moved, Done, Fail, Ends, Refusals
  <2>2. src \in Seq(Names) /\ src # <<>>
    BY NodeKinds
  <2>3. into => real \in Seq(Names) /\ real # <<>> /\ IsDir(t, Front(real)) /\ ~Exists(t, real)
    <3> SUFFICES ASSUME into PROVE real \in Seq(Names) /\ real # <<>> /\ IsDir(t, Front(real))
      BY <2>1
    <3>1. Last(src) \in Names
      BY <2>2, LenProperties, EmptySeq DEF Last
    <3>2. /\ real \in Seq(Names) /\ real # <<>> /\ Len(real) = Len(dst) + 1
          /\ \A i \in 1..Len(dst) : real[i] = dst[i]
      BY <3>1, AppendProperties
    <3>3. /\ Front(real) \in Seq(Names) /\ Len(Front(real)) = Len(dst)
          /\ \A i \in 1..Len(dst) : Front(real)[i] = dst[i]
      <4> HIDE DEF real
      <4>1. /\ Front(real) \in Seq(Names) /\ Len(Front(real)) = Len(real) - 1
            /\ \A i \in 1..Len(real) - 1 : Front(real)[i] = real[i]
        BY <3>2, FrontParts
      <4>2. Len(dst) \in Nat
        BY LenProperties
      <4>3. Len(real) - 1 = Len(dst)
        BY <3>2, <4>2
      <4> QED
        BY <3>2, <4>1, <4>3
    <3> HIDE DEF real
    <3>4. Front(real) = dst
      BY <3>3, SeqEqual
    <3> QED
      BY <3>2, <3>4
  <2>4. ~into => real \in Seq(Names) /\ real # <<>> /\ IsDir(t, Front(real)) /\ ~IsDir(t, real)
    BY <2>1 DEF IsDir
  <2>5. (IsFile(t, src) /\ ~IsDir(t, real)) \/ ~Exists(t, real)
    <3> HIDE DEF real, into
    <3>1. IsDir(t, src) \/ IsFile(t, src)
      BY NodeKinds
    <3>2. ~IsDir(t, real)
      BY <2>3, <2>4 DEF IsDir, Exists
    <3>3. ~IsFile(t, real) => ~Exists(t, real)
      BY <3>2 DEF IsDir, IsFile, Exists
    <3> QED
      BY <2>1, <3>1, <3>2, <3>3
  <2> HIDE DEF real, into, out
  <2>6. IsTree(Grafted(t, src, real))
    BY <2>3, <2>4, <2>5, GraftGrows
  <2>7. IsTree(out.tree)
    BY <2>1, <2>2, <2>6, CutOff
  <2> QED
    BY <2>1, <2>7 DEF Ends, Refusals, out
<1> QED
  BY <1>1, <1>2

(* A move that fails has made directories at most. *)
LEMMA MovedAway ==
  ASSUME NEW t, IsTree(t), NEW src \in Seq(Names), src # <<>>, NEW dst \in Seq(Names)
  PROVE  LET out == Move(t, src, dst)
         IN  /\ IsTree(out.tree) /\ out.end \in Ends
             /\ out.end # "done" => SameFiles(t, out.tree)
<1> DEFINE out == Move(t, src, dst)
<1>0. SameFiles(t, t) /\ Front(dst) \in Seq(Names)
  BY SameIsKept, ParentIsPath
<1>1. \/ out.tree = t /\ out.end \in Ends
      \/ /\ Exists(t, src) /\ CanMakeDirs(t, Front(dst))
         /\ out = Moved(WithDirs(t, Front(dst)), src, dst)
  BY DEF Move, Fail, Ends, Refusals, Parent
<1> HIDE DEF out
<1>2. CASE out.tree = t /\ out.end \in Ends
  BY <1>0, <1>2 DEF out
<1>3. CASE /\ Exists(t, src) /\ CanMakeDirs(t, Front(dst))
           /\ out = Moved(WithDirs(t, Front(dst)), src, dst)
  <2> PICK u : u = WithDirs(t, Front(dst))
    OBVIOUS
  <2>1. /\ IsTree(u) /\ IsDir(u, Front(dst)) /\ SameFiles(t, u)
        /\ \A q \in DOMAIN t : q \in DOMAIN u
    BY <1>0, <1>3, DirsAreMade, DirsKeepFiles
  <2>2. src \in DOMAIN u
    BY <1>3, <2>1 DEF Exists
  <2>3. /\ IsTree(out.tree) /\ out.end \in Ends
        /\ out.end # "done" => out.tree = u
    BY <1>3, <2>1, <2>2, MovedOn
  <2> QED
    BY <2>1, <2>3 DEF out
<1> QED
  BY <1>1, <1>2, <1>3

(* A copy without force changes no file, and one that fails none either. *)
LEMMA Copied ==
  ASSUME NEW t, IsTree(t), NEW src \in Seq(Names), src # <<>>, NEW dst \in Seq(Names), dst # <<>>,
         NEW recursive \in BOOLEAN, NEW force \in BOOLEAN
  PROVE  LET out == Copy(t, src, dst, recursive, force)
         IN  /\ IsTree(out.tree) /\ out.end \in Ends
             /\ ~force => KeepsFiles(t, out.tree)
             /\ ~force /\ out.end \in Refusals => SameFiles(t, out.tree)
             /\ ~force /\ out.end \notin Refusals => ~Exists(t, dst)
<1> DEFINE out == Copy(t, src, dst, recursive, force)
<1> PICK c : c = Without(t, dst)
  OBVIOUS
<1> PICK u : u = WithDirs(c, Front(dst))
  OBVIOUS
<1>0. SameFiles(t, t) /\ KeepsFiles(t, t) /\ Front(dst) \in Seq(Names) /\ ~IsPrefix(dst, Front(dst))
  BY SameIsKept, ParentIsPrefix
<1>1. \/ out.tree = t /\ out.end \in Refusals
      \/ /\ Exists(t, dst) => force
         /\ \/ out.tree = c /\ out.end = "os"
            \/ /\ CanMakeDirs(c, Front(dst))
               /\ \/ out.tree = u /\ out.end \in Refusals
                  \/ Exists(u, src) /\ out.tree = Grafted(u, src, dst) /\ out.end \in {"done", "io"}
  BY DEF Copy, Done, Fail, Refusals, Parent
<1> HIDE DEF out
<1>2. /\ IsTree(c) /\ DOMAIN c = {q \in DOMAIN t : ~IsPrefix(dst, q)}
      /\ \A q \in DOMAIN c : c[q] = t[q]
  BY CutOff
<1>3. ASSUME Exists(t, dst) => force PROVE ~force => SameFiles(t, c)
  <2> SUFFICES ASSUME ~force PROVE SameFiles(t, c)
    OBVIOUS
  <2>1. \A q \in DOMAIN t : ~IsPrefix(dst, q)
    BY <1>3, NothingBelow DEF Below
  <2> QED
    BY <1>2, <2>1 DEF SameFiles, Files
<1>4. CASE out.tree = t /\ out.end \in Refusals
  BY <1>0, <1>4 DEF Ends, Refusals, out
<1>5. CASE (Exists(t, dst) => force) /\ out.tree = c /\ out.end = "os"
  BY <1>2, <1>3, <1>5, SameIsKept DEF Ends, Refusals, out
<1>6. CASE (Exists(t, dst) => force) /\ CanMakeDirs(c, Front(dst))
  <2>1. /\ IsTree(u) /\ SameFiles(c, u) /\ IsDir(u, Front(dst))
        /\ \A q \in DOMAIN u \ DOMAIN c : q \in Seq(Names) /\ IsPrefix(q, Front(dst))
    BY <1>0, <1>2, <1>6, DirsAreMade, DirsKeepFiles
  <2>2. ~force => SameFiles(t, u)
    BY <1>3, <1>6, <2>1 DEF SameFiles
  <2>3. ~Exists(u, dst)
    <3>1. dst \notin DOMAIN c
      BY <1>2, PrefixOrder
    <3>2. ASSUME dst \in DOMAIN u PROVE FALSE
      BY <1>0, <2>1, <3>1, <3>2
    <3> QED
      BY <3>2 DEF Exists
  <2>4. CASE out.tree = u /\ out.end \in Refusals
    BY <2>1, <2>2, <2>4, SameIsKept DEF Ends, Refusals, out
  <2>5. CASE Exists(u, src) /\ out.tree = Grafted(u, src, dst) /\ out.end \in {"done", "io"}
    <3>1. src \in DOMAIN u
      BY <2>5 DEF Exists
    <3> PICK g : g = Grafted(u, src, dst)
      OBVIOUS
    <3>2. /\ IsTree(g) /\ \A q \in DOMAIN u : q \in DOMAIN g /\ g[q] = u[q]
      BY <2>1, <2>3, <3>1, GraftGrows
    <3>3. ~force => KeepsFiles(t, g)
      BY <2>2, <3>2 DEF SameFiles, KeepsFiles, Files
    <3> QED
      BY <1>6, <2>5, <3>2, <3>3 DEF Ends, Refusals, out
  <2> QED
    BY <1>1, <1>4, <1>5, <1>6, <2>4, <2>5
<1> QED
  BY <1>1, <1>4, <1>5, <1>6

-------------------------------------------------------------------------------
(* What breaks off.                                                        *)

(* A tree that something is gone from, with all that was below it. *)
LEMMA ThinnedTree ==
  ASSUME NEW t, IsTree(t), NEW p \in Seq(Names), NEW u \in Thinned(t, p)
  PROVE  /\ IsTree(u) /\ DOMAIN u \subseteq DOMAIN t /\ (\A q \in DOMAIN u : u[q] = t[q])
         /\ \A q \in DOMAIN t : ~IsPrefix(p, q) => q \in DOMAIN u
<1>1. PICK gone \in SUBSET Below(t, p) :
        (\A q \in gone : Below(t, q) \subseteq gone) /\ u = Restrict(t, DOMAIN t \ gone)
  BY DEF Thinned
<1>2. DOMAIN u = DOMAIN t \ gone /\ \A q \in DOMAIN u : u[q] = t[q]
  BY <1>1 DEF Restrict
<1>3. \A q \in gone : IsPrefix(p, q)
  BY DEF Below
<1>4. ASSUME NEW q \in DOMAIN u
      PROVE  q \in Seq(Names) /\ q # <<>> /\ u[q] \in Node /\ IsDir(u, Front(q))
  <2>1. q \in DOMAIN t /\ q \in Seq(Names) /\ q # <<>> /\ t[q] \in Node /\ IsDir(t, Front(q)) /\ Front(q) \in Seq(Names)
    BY <1>2, NodeKinds
  <2>2. Front(q) \notin gone
    <3>1. IsPrefix(Front(q), q)
      BY <2>1, ParentIsPrefix
    <3>2. Front(q) \in gone => q \in Below(t, Front(q))
      BY <2>1, <3>1 DEF Below
    <3> QED
      BY <1>1, <1>2, <3>2
  <2> QED
    BY <1>2, <2>1, <2>2 DEF IsDir
<1>5. IsTree(u)
  BY <1>4 DEF IsTree, Node, Parent
<1> QED
  BY <1>2, <1>3, <1>5

(* A tree in which texts are cut. *)
LEMMA ShortenedTree ==
  ASSUME NEW t, IsTree(t), NEW p \in Seq(Names), NEW u \in Shortened(t, p)
  PROVE  /\ IsTree(u) /\ DOMAIN u = DOMAIN t /\ Files(u) = Files(t)
         /\ \A q \in DOMAIN t : ~IsPrefix(p, q) => u[q] = t[q]
<1> PICK files : files = Below(t, p) \intersect Files(t)
  OBVIOUS
<1>1. PICK n \in [files -> 0..MaxTokens] :
        /\ \A q \in files : n[q] <= Len(t[q])
        /\ u = [q \in DOMAIN t |-> IF q \in files THEN SubSeq(t[q], 1, n[q]) ELSE t[q]]
  BY DEF Shortened
<1>2. DOMAIN u = DOMAIN t /\ \A q \in DOMAIN t : u[q] = IF q \in files THEN SubSeq(t[q], 1, n[q]) ELSE t[q]
  BY <1>1
<1>3. \A q \in files : IsPrefix(p, q) /\ q \in DOMAIN t /\ t[q] # Dir
  BY DEF Below, Files
<1>4. ASSUME NEW q \in files PROVE u[q] \in Seq(Tokens) /\ u[q] # Dir
  <2> PICK text \in Seq(Tokens) : text = t[q]
    BY <1>3, NodeKinds
  <2> PICK m \in Nat : m = n[q]
    <3>1. n[q] \in 0..MaxTokens
      BY <1>1
    <3> QED
      BY <3>1
  <2>1. m <= Len(text) /\ u[q] = SubSeq(text, 1, m)
    BY <1>1, <1>2, <1>3
  <2>2. \A i \in 1..m : text[i] \in Tokens
    <3>1. Len(text) \in Nat /\ text \in [1..Len(text) -> Tokens]
      BY LenProperties
    <3> QED
      BY <2>1, <3>1
  <2>3. SubSeq(text, 1, m) \in Seq(Tokens)
    BY <2>2, SubSeqProperties
  <2> QED
    BY <2>1, <2>3, FilesystemAssumption DEF FilesystemAssumption
<1>5. \A q \in DOMAIN t : u[q] = Dir <=> t[q] = Dir
  BY <1>2, <1>3, <1>4
<1>6. ASSUME NEW q \in DOMAIN u
      PROVE  q \in Seq(Names) /\ q # <<>> /\ u[q] \in Node /\ IsDir(u, Front(q))
  <2>1. q \in Seq(Names) /\ q # <<>> /\ t[q] \in Node /\ IsDir(t, Front(q))
    BY <1>2, NodeKinds
  <2>2. u[q] \in Node
    BY <1>2, <1>4, <2>1 DEF Node
  <2> QED
    BY <1>2, <1>5, <2>1, <2>2 DEF IsDir
<1>7. IsTree(u)
  BY <1>6 DEF IsTree, Node, Parent
<1>8. Files(u) = Files(t)
  BY <1>2, <1>5 DEF Files
<1> QED
  BY <1>2, <1>3, <1>7, <1>8

(* What a write or a copy leaves that breaks off. *)
LEMMA FragmentsTree ==
  ASSUME NEW t, IsTree(t), NEW p \in Seq(Names), NEW u \in Fragments(t, p)
  PROVE  IsTree(u) /\ \A q \in DOMAIN t : ~IsPrefix(p, q) => q \in DOMAIN u /\ u[q] = t[q]
<1>1. PICK w \in Thinned(t, p) : u \in Shortened(w, p)
  BY DEF Fragments
<1>2. /\ IsTree(w) /\ (\A q \in DOMAIN w : w[q] = t[q])
      /\ \A q \in DOMAIN t : ~IsPrefix(p, q) => q \in DOMAIN w
  BY ThinnedTree
<1>3. /\ IsTree(u) /\ DOMAIN u = DOMAIN w
      /\ \A q \in DOMAIN w : ~IsPrefix(p, q) => u[q] = w[q]
  BY <1>1, <1>2, ShortenedTree
<1> QED
  BY <1>2, <1>3

(* How an operation ends: as it should, or in the middle. *)
LEMMA EitherEnd ==
  ASSUME NEW out, NEW trees, NEW result \in Outcomes(out, trees)
  PROVE  \/ result = out
         \/ out.end \in {"done", "io"} /\ result.end = "io" /\ result.tree \in trees
<1> SUFFICES ASSUME result # out
             PROVE  out.end \in {"done", "io"} /\ result.end = "io" /\ result.tree \in trees
  OBVIOUS
<1>1. out.end \in {"done", "io"} /\ result \in Broken(trees)
  BY DEF Outcomes
<1>2. PICK u \in trees : result = [tree |-> u, end |-> "io"]
  BY <1>1 DEF Broken
<1> QED
  BY <1>1, <1>2

(* A create that breaks off changes no file. *)
LEMMA CreateEnds ==
  ASSUME NEW t, IsTree(t), NEW p \in Seq(Names), NEW content \in Seq(Tokens),
         NEW dirs \in BOOLEAN, NEW dry \in BOOLEAN, NEW out \in CreateOutcomes(t, p, content, dirs, dry)
  PROVE  /\ IsTree(out.tree) /\ out.end \in Ends /\ KeepsFiles(t, out.tree)
         /\ out.end \in Refusals \/ dry => SameFiles(t, out.tree)
         /\ out.end = "done" /\ ~dry => out.tree[p] \in Seq(Tokens)
<1> PICK whole : whole = Create(t, p, content, dirs, dry)
  OBVIOUS
<1> PICK trees : trees = IF dry THEN {} ELSE Fragments(whole.tree, p)
  OBVIOUS
<1>1. /\ IsTree(whole.tree) /\ whole.end \in Ends /\ KeepsFiles(t, whole.tree)
      /\ whole.end # "done" \/ dry => SameFiles(t, whole.tree)
      /\ whole.end = "done" /\ ~dry => whole.tree[p] \in Seq(Tokens)
  BY Created
<1>2. whole.end \in {"done", "io"} => ~Exists(t, p)
  BY DEF Create, Fail
<1>3. out \in Outcomes(whole, trees)
  BY DEF CreateOutcomes
<1>4. out = whole \/ (whole.end \in {"done", "io"} /\ out.end = "io" /\ out.tree \in trees)
  BY <1>3, EitherEnd
<1>5. CASE out = whole
  BY <1>1, <1>5 DEF Refusals
<1>6. CASE whole.end \in {"done", "io"} /\ out.end = "io" /\ out.tree \in trees
  <2>1. ~dry /\ out.tree \in Fragments(whole.tree, p)
    BY <1>6
  <2>2. IsTree(out.tree) /\ \A q \in DOMAIN whole.tree : ~IsPrefix(p, q) => q \in DOMAIN out.tree /\ out.tree[q] = whole.tree[q]
    BY <1>1, <2>1, FragmentsTree
  <2>3. \A q \in DOMAIN t : ~IsPrefix(p, q)
    BY <1>2, <1>6, NothingBelow DEF Below
  <2>4. KeepsFiles(t, out.tree)
    BY <1>1, <2>2, <2>3 DEF KeepsFiles, Files
  <2> QED
    BY <1>6, <2>1, <2>2, <2>4 DEF Ends, Refusals
<1> QED
  BY <1>4, <1>5, <1>6

(* A delete that breaks off leaves a tree, *)
LEMMA DeleteEnds ==
  ASSUME NEW t, IsTree(t), NEW p \in Seq(Names), NEW isRoot \in BOOLEAN,
         NEW recursive \in BOOLEAN, NEW force \in BOOLEAN, NEW out \in DeleteOutcomes(t, p, isRoot, recursive, force)
  PROVE  /\ IsTree(out.tree) /\ out.end \in Ends
         /\ out.end \in Refusals => SameFiles(t, out.tree)
<1> PICK whole : whole = Delete(t, p, isRoot, recursive, force)
  OBVIOUS
<1>1. /\ IsTree(whole.tree) /\ whole.end \in Ends
      /\ whole.end # "done" => SameFiles(t, whole.tree)
  BY Deleted
<1>2. out = whole \/ (out.end = "io" /\ out.tree \in Thinned(t, p))
  BY EitherEnd DEF DeleteOutcomes
<1>3. out.tree \in Thinned(t, p) => IsTree(out.tree)
  BY ThinnedTree
<1> QED
  BY <1>1, <1>2, <1>3 DEF Ends, Refusals

(* and a copy that does so too, and changes no file without force. *)
LEMMA CopyEnds ==
  ASSUME NEW t, IsTree(t), NEW src \in Seq(Names), src # <<>>, NEW dst \in Seq(Names), dst # <<>>,
         NEW recursive \in BOOLEAN, NEW force \in BOOLEAN, NEW out \in CopyOutcomes(t, src, dst, recursive, force)
  PROVE  /\ IsTree(out.tree) /\ out.end \in Ends
         /\ ~force => KeepsFiles(t, out.tree)
         /\ ~force /\ out.end \in Refusals => SameFiles(t, out.tree)
<1> PICK whole : whole = Copy(t, src, dst, recursive, force)
  OBVIOUS
<1>1. /\ IsTree(whole.tree) /\ whole.end \in Ends
      /\ ~force => KeepsFiles(t, whole.tree)
      /\ ~force /\ whole.end \in Refusals => SameFiles(t, whole.tree)
      /\ ~force /\ whole.end \notin Refusals => ~Exists(t, dst)
  BY Copied
<1>2. out \in Outcomes(whole, Fragments(whole.tree, dst)) \/ (force /\ out \in Broken(Thinned(t, dst)))
  BY DEF CopyOutcomes
<1>3. \/ out = whole
      \/ whole.end \in {"done", "io"} /\ out.end = "io" /\ out.tree \in Fragments(whole.tree, dst)
      \/ force /\ out.end = "io" /\ out.tree \in Thinned(t, dst)
  <2>1. force /\ out \in Broken(Thinned(t, dst)) => out.end = "io" /\ out.tree \in Thinned(t, dst)
    BY DEF Broken
  <2> QED
    BY <1>2, <2>1, EitherEnd
<1>4. CASE out = whole
  BY <1>1, <1>4
<1>5. CASE whole.end \in {"done", "io"} /\ out.end = "io" /\ out.tree \in Fragments(whole.tree, dst)
  <2>1. IsTree(out.tree) /\ \A q \in DOMAIN whole.tree : ~IsPrefix(dst, q) => q \in DOMAIN out.tree /\ out.tree[q] = whole.tree[q]
    BY <1>1, <1>5, FragmentsTree
  <2>2. ASSUME ~force PROVE KeepsFiles(t, out.tree)
    <3>1. ~Exists(t, dst) /\ KeepsFiles(t, whole.tree)
      BY <1>1, <1>5, <2>2 DEF Refusals
    <3>2. \A q \in DOMAIN t : ~IsPrefix(dst, q)
      BY <3>1, NothingBelow DEF Below
    <3> QED
      BY <2>1, <3>1, <3>2 DEF KeepsFiles, Files
  <2> QED
    BY <1>5, <2>1, <2>2 DEF Ends, Refusals
<1>6. CASE force /\ out.end = "io" /\ out.tree \in Thinned(t, dst)
  BY <1>6, ThinnedTree DEF Ends, Refusals
<1> QED
  BY <1>3, <1>4, <1>5, <1>6

-------------------------------------------------------------------------------
(* Joining texts.                                                          *)

(* What FlattenSeq joins, piece by piece. *)
Joins(s, f, n) == f[0] = <<>> /\ \A i \in 1..n : f[i] = f[i - 1] \o s[i]

Joined(s, g, m) == g = [i \in 1..m |-> IF i = 1 THEN s[i] ELSE g[i - 1] \o s[i]]

(* Its recursion has a solution for every sequence. *)
LEMMA JoinedExists ==
  ASSUME NEW n \in Nat, NEW s
  PROVE  \E g : Joined(s, g, n)
<1> DEFINE T == {m \in Nat : \E g : Joined(s, g, m)}
<1>1. 0 \in T
  <2> DEFINE g == [i \in 1..0 |-> s[i]]
  <2>1. Joined(s, g, 0)
    BY DEF Joined
  <2> QED
    BY <2>1
<1>2. ASSUME NEW m \in 1..n, m - 1 \in T PROVE m \in T
  <2>1. PICK g : Joined(s, g, m - 1)
    BY <1>2
  <2> DEFINE last == IF m = 1 THEN s[1] ELSE g[m - 1] \o s[m]
             h == [i \in 1..m |-> IF i = m THEN last ELSE g[i]]
  <2>2. ASSUME NEW i \in 1..m PROVE h[i] = IF i = 1 THEN s[i] ELSE h[i - 1] \o s[i]
    <3>1. CASE i = m
      BY <3>1
    <3>2. CASE i # m
      <4>1. i \in 1..m - 1 /\ i - 1 # m /\ h[i] = g[i] /\ (i # 1 => h[i - 1] = g[i - 1])
        BY <3>2
      <4>2. g[i] = IF i = 1 THEN s[i] ELSE g[i - 1] \o s[i]
        BY <2>1, <4>1 DEF Joined
      <4> QED
        BY <4>1, <4>2
    <3> QED
      BY <3>1, <3>2
  <2>3. DOMAIN h = 1..m /\ h = [i \in 1..m |-> h[i]]
    OBVIOUS
  <2> HIDE DEF h
  <2>4. h = [i \in 1..m |-> IF i = 1 THEN s[i] ELSE h[i - 1] \o s[i]]
    BY <2>2, <2>3
  <2>5. Joined(s, h, m)
    BY <2>4, Zenon DEF Joined
  <2>6. m \in Nat
    OBVIOUS
  <2> QED
    BY <2>5, <2>6
<1> HIDE DEF T
<1>3. n \in T
  BY <1>1, <1>2, UpTo
<1> QED
  BY <1>3 DEF T

(* FlattenSeq is where joining the pieces ends. *)
LEMMA FlattenJoins ==
  ASSUME NEW S, NEW n \in Nat, NEW s \in [1..n -> Seq(S)]
  PROVE  \E f \in [0..n -> Seq(S)] : Joins(s, f, n) /\ FlattenSeq(s) = f[n]
<1>1. s \in Seq(Seq(S)) /\ Len(s) = n
  OBVIOUS
<1>2. CASE n = 0
  <2> DEFINE f == [i \in 0..0 |-> <<>>]
  <2>1. FlattenSeq(s) = <<>>
    BY <1>1, <1>2, EmptySeq DEF FlattenSeq
  <2>2. f \in [0..n -> Seq(S)] /\ Joins(s, f, n) /\ f[n] = <<>>
    BY <1>2 DEF Joins
  <2> QED
    BY <2>1, <2>2
<1>3. CASE n # 0
  <2> DEFINE g == CHOOSE h : Joined(s, h, n)
  <2>1. Joined(s, g, n)
    BY JoinedExists
  <2>2. FlattenSeq(s) = g[n]
    BY <1>1, <1>3 DEF FlattenSeq, Joined
  <2> HIDE DEF g
  <2>3. \A i \in 1..n : g[i] = IF i = 1 THEN s[i] ELSE g[i - 1] \o s[i]
    BY <2>1 DEF Joined
  <2> DEFINE f == [i \in 0..n |-> IF i = 0 THEN <<>> ELSE g[i]]
             T == {m \in 0..n : f[m] \in Seq(S)}
  <2>4. ASSUME NEW i \in 1..n PROVE f[i] = g[i] /\ (i # 1 => f[i] = f[i - 1] \o s[i]) /\ (i = 1 => f[i] = s[i])
    <3>1. i \in 0..n /\ i # 0 /\ (i # 1 => i - 1 \in 0..n /\ i - 1 # 0)
      OBVIOUS
    <3>2. f[i] = g[i] /\ (i # 1 => f[i - 1] = g[i - 1])
      BY <3>1
    <3> QED
      BY <2>3, <3>2
  <2>5. f[0] = <<>> /\ f[n] = g[n]
    BY <1>3
  <2>6. f = [i \in 0..n |-> f[i]]
    OBVIOUS
  <2> HIDE DEF f
  <2>7. \A m \in 0..n : m \in T
    <3>1. 0 \in T
      <4>1. <<>> \in Seq(S)
        BY EmptySeq
      <4>2. f[0] \in Seq(S)
        BY <2>5, <4>1
      <4> QED
        BY <4>2
    <3>2. ASSUME NEW m \in 1..n, m - 1 \in T PROVE m \in T
      <4>1. f[m - 1] \in Seq(S) /\ s[m] \in Seq(S)
        BY <3>2
      <4>2. f[m - 1] \o s[m] \in Seq(S)
        BY <4>1, ConcatProperties
      <4>3. f[m] \in Seq(S)
        BY <2>4, <4>1, <4>2
      <4> QED
        BY <4>3
    <3> HIDE DEF T
    <3> QED
      BY <3>1, <3>2, UpTo
  <2>8. f \in [0..n -> Seq(S)]
    BY <2>6, <2>7
  <2>9. Joins(s, f, n)
    <3>1. ASSUME n # 0 PROVE f[1] = f[0] \o s[1]
      <4>1. f[1] = s[1] /\ s[1] \in Seq(S)
        BY <2>4, <3>1
      <4> QED
        BY <2>5, <4>1, ConcatEmptySeq
    <3>2. ASSUME NEW i \in 1..n PROVE f[i] = f[i - 1] \o s[i]
      <4>1. CASE i = 1
        <5>1. i - 1 = 0
          BY <4>1
        <5> QED
          BY <1>3, <3>1, <4>1, <5>1
      <4>2. CASE i # 1
        BY <2>4, <4>2
      <4> QED
        BY <4>1, <4>2
    <3> QED
      BY <2>5, <3>2 DEF Joins
  <2> QED
    BY <2>2, <2>5, <2>8, <2>9
<1> QED
  BY <1>2, <1>3

(* What is known of two sequences that are joined. *)
LEMMA JoinShape ==
  ASSUME NEW R, NEW u \in Seq(R), NEW v \in Seq(R)
  PROVE  /\ u \o v \in Seq(R) /\ Len(u \o v) = Len(u) + Len(v)
         /\ \A i \in 1..Len(u) : (u \o v)[i] = u[i]
         /\ \A j \in 1..Len(v) : (u \o v)[Len(u) + j] = v[j]
<1>1. u \o v \in Seq(R) /\ Len(u \o v) = Len(u) + Len(v) /\ Len(u) \in Nat /\ Len(v) \in Nat
  BY ConcatProperties
<1>2. \A i \in 1..Len(u) + Len(v) : (u \o v)[i] = IF i <= Len(u) THEN u[i] ELSE v[i - Len(u)]
  BY ConcatProperties
<1>3. \A i \in 1..Len(u) : (u \o v)[i] = u[i]
  BY <1>1, <1>2
<1>4. ASSUME NEW j \in 1..Len(v) PROVE (u \o v)[Len(u) + j] = v[j]
  <2>1. PICK i \in Nat : i = Len(u) + j
    BY <1>1
  <2>2. i \in 1..Len(u) + Len(v) /\ ~(i <= Len(u)) /\ i - Len(u) = j
    BY <1>1, <2>1
  <2> QED
    BY <1>2, <2>1, <2>2
<1> QED
  BY <1>1, <1>3, <1>4

(* Joining is associative. *)
LEMMA JoinTwice ==
  ASSUME NEW R, NEW x \in Seq(R), NEW y \in Seq(R), NEW z \in Seq(R)
  PROVE  (x \o y) \o z = x \o (y \o z)
BY ConcatAssociative

(* FlattenSeq is a sequence. *)
LEMMA FlattenType ==
  ASSUME NEW S, NEW n \in Nat, NEW s \in [1..n -> Seq(S)]
  PROVE  FlattenSeq(s) \in Seq(S)
BY FlattenJoins

(* It joins the pieces of two sequences one after the other. *)
LEMMA FlattenConcat ==
  ASSUME NEW R, NEW n \in Nat, NEW s \in [1..n -> Seq(R)],
         NEW m \in Nat, NEW t \in [1..m -> Seq(R)]
  PROVE  FlattenSeq(s \o t) = FlattenSeq(s) \o FlattenSeq(t)
<1>a. \A x, y, z \in Seq(R) : (x \o y) \o z = x \o (y \o z)
  BY JoinTwice
<1> DEFINE st == s \o t
<1>1. s \in Seq(Seq(R)) /\ t \in Seq(Seq(R)) /\ Len(s) = n /\ Len(t) = m
  OBVIOUS
<1>0. PICK k \in Nat : k = n + m
  OBVIOUS
<1>2. /\ st \in [1..k -> Seq(R)]
      /\ \A i \in 1..n : st[i] = s[i]
      /\ \A i \in 1..m : st[n + i] = t[i]
  <2>1. st \in Seq(Seq(R)) /\ Len(st) = k
    BY <1>0, <1>1, ConcatProperties
  <2>2. \A i \in 1..k : st[i] = IF i <= n THEN s[i] ELSE t[i - n]
    BY <1>0, <1>1, ConcatProperties
  <2>3. \A i \in 1..m : n + i \in 1..k /\ ~(n + i <= n) /\ (n + i) - n = i
    BY <1>0
  <2> HIDE DEF st
  <2>4. st \in [1..k -> Seq(R)]
    BY <2>1
  <2>5. \A i \in 1..n : st[i] = s[i]
    BY <1>0, <2>2
  <2>6. \A i \in 1..m : st[n + i] = t[i]
    BY <2>2, <2>3
  <2> QED
    BY <2>4, <2>5, <2>6
<1> HIDE DEF st
<1>3. PICK f \in [0..k -> Seq(R)] : Joins(st, f, k) /\ FlattenSeq(st) = f[k]
  BY <1>2, FlattenJoins
<1>4. PICK g \in [0..n -> Seq(R)] : Joins(s, g, n) /\ FlattenSeq(s) = g[n]
  BY FlattenJoins
<1>5. PICK h \in [0..m -> Seq(R)] : Joins(t, h, m) /\ FlattenSeq(t) = h[m]
  BY FlattenJoins
<1>6. f[n] = g[n]
  <2> DEFINE T == {i \in 0..n : f[i] = g[i]}
  <2>1. 0 \in T
    BY <1>3, <1>4 DEF Joins
  <2>2. ASSUME NEW i \in 1..n, i - 1 \in T PROVE i \in T
    <3>1. i \in 1..k
      BY <1>0
    <3>2. f[i] = f[i - 1] \o st[i]
      BY <1>3, <3>1 DEF Joins
    <3>3. g[i] = g[i - 1] \o s[i]
      BY <1>4 DEF Joins
    <3>4. f[i - 1] = g[i - 1] /\ st[i] = s[i]
      BY <1>2, <2>2
    <3>5. f[i] = g[i]
      BY <3>2, <3>3, <3>4
    <3> QED
      BY <3>5
  <2>3. n \in 0..n
    OBVIOUS
  <2> HIDE DEF T
  <2>4. \A i \in 0..n : i \in T
    BY <2>1, <2>2, UpTo
  <2>5. n \in T
    BY <2>3, <2>4
  <2> QED
    BY <2>5 DEF T
<1>7. f[k] = g[n] \o h[m]
  <2> DEFINE T == {i \in 0..m : f[n + i] = g[n] \o h[i]}
  <2>1. 0 \in T
    <3>1. h[0] = <<>> /\ g[n] \in Seq(R) /\ n + 0 = n
      BY <1>5 DEF Joins
    <3>2. g[n] \o <<>> = g[n]
      BY <3>1, ConcatEmptySeq
    <3>3. f[n + 0] = g[n] \o h[0]
      BY <1>6, <3>1, <3>2
    <3> QED
      BY <3>3
  <2>2. ASSUME NEW i \in 1..m, i - 1 \in T PROVE i \in T
    <3>1. f[n + i] = f[n + i - 1] \o st[n + i]
      <4>1. n + i \in 1..k
        BY <1>0
      <4>2. \A j \in 1..k : f[j] = f[j - 1] \o st[j]
        BY <1>3 DEF Joins
      <4>3. PICK j \in 1..k : j = n + i
        BY <4>1
      <4>4. f[j] = f[j - 1] \o st[j]
        BY <4>2
      <4>5. j - 1 = n + i - 1
        BY <4>3
      <4> QED
        BY ONLY <4>3, <4>4, <4>5
    <3>2. h[i] = h[i - 1] \o t[i] /\ st[n + i] = t[i]
      BY <1>2, <1>5 DEF Joins
    <3>3. f[n + i - 1] = g[n] \o h[i - 1]
      BY <2>2
    <3>4. g[n] \in Seq(R) /\ h[i - 1] \in Seq(R) /\ t[i] \in Seq(R)
      OBVIOUS
    <3>5. (g[n] \o h[i - 1]) \o t[i] = g[n] \o (h[i - 1] \o t[i])
      BY ONLY <1>a, <3>4
    <3>6. f[n + i] = g[n] \o h[i] /\ i \in 0..m
      <4>1. PICK x, y, z, u, w : /\ x = f[n + i] /\ y = g[n] /\ z = h[i - 1]
                                 /\ u = t[i] /\ w = h[i]
        OBVIOUS
      <4>2. x = (y \o z) \o u /\ w = z \o u /\ (y \o z) \o u = y \o (z \o u)
        BY <3>1, <3>2, <3>3, <3>5, <4>1
      <4>3. x = y \o w
        BY <4>2
      <4>4. i \in 0..m
        OBVIOUS
      <4> QED
        BY <4>1, <4>3, <4>4
    <3> QED
      BY <3>6
  <2>3. m \in 0..m
    OBVIOUS
  <2> HIDE DEF T
  <2>4. \A i \in 0..m : i \in T
    BY <2>1, <2>2, UpTo
  <2>5. m \in T
    BY <2>3, <2>4
  <2> QED
    BY <1>0, <2>5 DEF T
<1> QED
  BY <1>3, <1>4, <1>5, <1>7 DEF st

StartsWith(t, u) == Len(u) <= Len(t) /\ \A j \in 1..Len(u) : t[j] = u[j]

JoinsIn(S, s, f, n) ==
  n \in Nat /\ s \in [1..n -> Seq(S)] /\ f \in [0..n -> Seq(S)] /\ Joins(s, f, n)

(* What has been joined stays in front. *)
LEMMA JoinsPrefix ==
  ASSUME NEW S, NEW n, NEW s, NEW f, JoinsIn(S, s, f, n), NEW k \in 0..n
  PROVE  StartsWith(f[n], f[k])
<1>0. n \in Nat /\ s \in [1..n -> Seq(S)] /\ f \in [0..n -> Seq(S)] /\ Joins(s, f, n)
  BY DEF JoinsIn
<1> USE <1>0
<1> DEFINE InFront(m) == StartsWith(f[m], f[k])
           T == {m \in 0..n : k <= m => InFront(m)}
<1>1. 0 \in T
  <2>1. k <= 0 => k = 0
    OBVIOUS
  <2>2. Len(f[0]) \in Nat
    OBVIOUS
  <2> QED
    BY <2>1, <2>2 DEF StartsWith
<1>2. ASSUME NEW m \in 1..n, m - 1 \in T PROVE m \in T
  <2> SUFFICES ASSUME k <= m PROVE InFront(m)
    OBVIOUS
  <2>0. m - 1 \in 0..n /\ m \in 0..n
    OBVIOUS
  <2>1. f[m - 1] \in Seq(S) /\ s[m] \in Seq(S) /\ f[k] \in Seq(S) /\ f[m] = f[m - 1] \o s[m]
    <3> HIDE DEF T, InFront
    <3> QED
      BY <2>0 DEF Joins
  <2>2. /\ Len(f[m - 1]) \in Nat /\ Len(s[m]) \in Nat /\ Len(f[k]) \in Nat
        /\ Len(f[m]) = Len(f[m - 1]) + Len(s[m])
        /\ \A j \in 1..Len(f[m - 1]) : f[m][j] = f[m - 1][j]
    <3>1. Len(f[m - 1]) \in Nat /\ Len(s[m]) \in Nat /\ Len(f[k]) \in Nat
      BY <2>1, LenProperties
    <3>2. /\ Len(f[m - 1] \o s[m]) = Len(f[m - 1]) + Len(s[m])
          /\ \A j \in 1..Len(f[m - 1]) : (f[m - 1] \o s[m])[j] = f[m - 1][j]
      BY <2>1, <3>1, ConcatProperties
    <3> QED
      BY <2>1, <3>1, <3>2
  <2>3. CASE k = m
    BY <2>2, <2>3 DEF StartsWith
  <2>4. CASE k # m
    <3>1. InFront(m - 1)
      BY <1>2, <2>4
    <3> QED
      BY <2>2, <3>1 DEF StartsWith
  <2> QED
    BY <2>3, <2>4
<1> HIDE DEF T
<1>3. \A m \in 0..n : m \in T
  BY ONLY n \in Nat, <1>1, <1>2, UpTo
<1>4. n \in T
  BY <1>3
<1> QED
  BY <1>4 DEF T

(* One more piece is joined at the end. *)
LEMMA FlattenAppend ==
  ASSUME NEW S, NEW s \in Seq(Seq(S)), NEW l \in Seq(S)
  PROVE  FlattenSeq(Append(s, l)) = FlattenSeq(s) \o l /\ FlattenSeq(s) \in Seq(S)
<1>1. PICK n \in Nat : n = Len(s) /\ s \in [1..n -> Seq(S)]
  BY LenProperties
<1>o. <<l>> \in Seq(Seq(S)) /\ Len(<<l>>) = 1 /\ <<l>>[1] = l
  OBVIOUS
<1> PICK o : o = <<l>>
  OBVIOUS
<1> PICK m \in Nat : m = 1
  OBVIOUS
<1>p. o \in [1..m -> Seq(S)] /\ o[1] = l
  BY <1>o, LenProperties
<1>2. Append(s, l) = s \o o
  BY AppendIsConcat
<1>3. FlattenSeq(s \o o) = FlattenSeq(s) \o FlattenSeq(o)
  BY ONLY <1>1, <1>p, n \in Nat, m \in Nat, FlattenConcat
<1>4. FlattenSeq(o) = l
  <2>1. PICK f \in [0..m -> Seq(S)] : Joins(o, f, m) /\ FlattenSeq(o) = f[m]
    BY ONLY <1>p, m \in Nat, FlattenJoins
  <2>2. f[0] = <<>> /\ f[1] = f[0] \o l
    BY <1>p, <2>1 DEF Joins
  <2>3. <<>> \o l = l
    BY ConcatEmptySeq
  <2> QED
    BY <2>1, <2>2, <2>3
<1>5. FlattenSeq(s) \in Seq(S)
  BY <1>1, FlattenType
<1> QED
  BY <1>2, <1>3, <1>4, <1>5

(* A longer last piece makes a longer text. *)
LEMMA FlattenLonger ==
  ASSUME NEW S, NEW s \in Seq(Seq(S)), s # <<>>, NEW x \in S
  PROVE  LET m == Len(s)
         IN  FlattenSeq([s EXCEPT ![m] = Append(@, x)]) = Append(FlattenSeq(s), x)
<1>1. Len(s) \in Nat /\ Len(s) # 0
  BY EmptySeq
<1> PICK m \in Nat : m = Len(s)
  BY <1>1
<1>2. PICK f \in Seq(Seq(S)), l \in Seq(S) : s = Append(f, l)
  BY SequenceEmptyOrAppend
<1>3. Len(s) = Len(f) + 1 /\ s[m] = l /\ \A i \in 1..Len(f) : s[i] = f[i]
  BY <1>2, AppendProperties
<1> PICK k \in Seq(S) : k = Append(l, x)
  BY AppendProperties
<1> PICK t : t = [s EXCEPT ![m] = Append(@, x)]
  OBVIOUS
<1>4. /\ t \in Seq(Seq(S)) /\ Len(t) = m
      /\ \A i \in 1..m : t[i] = IF i = m THEN k ELSE s[i]
  <2>1. s[m] = l /\ m \in 1..Len(s)
    BY <1>1, <1>3
  <2>2. t = [s EXCEPT ![m] = k]
    BY <2>1
  <2>3. /\ [s EXCEPT ![m] = k] \in Seq(Seq(S)) /\ Len([s EXCEPT ![m] = k]) = Len(s)
        /\ \A i \in 1..Len(s) : [s EXCEPT ![m] = k][i] = IF i = m THEN k ELSE s[i]
    BY ONLY <2>1, s \in Seq(Seq(S)), k \in Seq(S), ExceptSeq
  <2> QED
    BY <2>2, <2>3
<1>5. t = Append(f, k)
  <2>1. /\ Append(f, k) \in Seq(Seq(S)) /\ Len(Append(f, k)) = Len(f) + 1 /\ Len(f) \in Nat
        /\ \A i \in 1..Len(f) : Append(f, k)[i] = f[i]
        /\ Append(f, k)[Len(f) + 1] = k
    BY AppendProperties, LenProperties
  <2>2. \A i \in 1..m : t[i] = Append(f, k)[i]
    BY <1>3, <1>4, <2>1
  <2>3. Len(t) = Len(Append(f, k))
    BY <1>3, <1>4, <2>1
  <2> PICK w \in Seq(Seq(S)) : w = Append(f, k)
    BY <2>1
  <2>4. t \in Seq(Seq(S)) /\ Len(t) = Len(w) /\ \A i \in 1..Len(t) : t[i] = w[i]
    BY <1>4, <2>2, <2>3
  <2>5. t = w
    BY ONLY w \in Seq(Seq(S)), <2>4, SeqEqual
  <2> QED
    BY <2>5
<1>6. /\ FlattenSeq(t) = FlattenSeq(f) \o k /\ FlattenSeq(s) = FlattenSeq(f) \o l
      /\ FlattenSeq(f) \in Seq(S)
  <2>1. \A x1 \in Seq(S) : FlattenSeq(Append(f, x1)) = FlattenSeq(f) \o x1 /\ FlattenSeq(f) \in Seq(S)
    BY ONLY f \in Seq(Seq(S)), FlattenAppend
  <2> QED
    BY ONLY k \in Seq(S), l \in Seq(S), <1>2, <1>5, <2>1
<1> PICK g \in Seq(S) : g = FlattenSeq(f)
  BY <1>6
<1>7. g \o Append(l, x) = Append(g \o l, x)
  <2>1. <<x>> \in Seq(S)
    OBVIOUS
  <2>2. Append(l, x) = l \o <<x>> /\ Append(g \o l, x) = (g \o l) \o <<x>>
    <3>1. g \o l \in Seq(S)
      BY ConcatProperties
    <3> QED
      BY <3>1, AppendIsConcat
  <2>3. (g \o l) \o <<x>> = g \o (l \o <<x>>)
    BY ONLY <2>1, g \in Seq(S), l \in Seq(S), JoinTwice
  <2> QED
    BY <2>2, <2>3
<1>8. FlattenSeq(t) = Append(FlattenSeq(s), x)
  BY <1>6, <1>7
<1> QED
  BY <1>8

-------------------------------------------------------------------------------
(* The lines of a text.                                                    *)

(* Lines with their ends: no line is empty, none goes on behind its end,   *)
(* and all but the last have one.                                          *)
LineParts(ls) ==
  \A i \in 1..Len(ls) : ls[i] # <<>> /\ \A j \in 1..Len(ls[i]) - 1 : ls[i][j] \notin Newlines
EndsBefore(ls, m) == \A i \in 1..m : ls[i][Len(ls[i])] \in Newlines
WellLined(ls)     == ls \in Seq(Seq(Tokens)) /\ LineParts(ls) /\ EndsBefore(ls, Len(ls) - 1)
AllEnded(ls)      == WellLined(ls) /\ EndsBefore(ls, Len(ls))

NextLines(text, i, before) ==
  IF i = 1 \/ text[i - 1] \in Newlines THEN Append(before, <<text[i]>>)
  ELSE [before EXCEPT ![Len(before)] = Append(@, text[i])]

LinesUpTo(text, g, n) ==
  g = [i \in 0..n |-> IF i = 0 THEN <<>>
                       ELSE IF i = 1 \/ text[i - 1] \in Newlines THEN Append(g[i - 1], <<text[i]>>)
                       ELSE [g[i - 1] EXCEPT ![Len(g[i - 1])] = Append(@, text[i])]]

(* The recursion of Lines has a solution for every text. *)
LEMMA LinesExist ==
  ASSUME NEW n \in Nat, NEW text
  PROVE  \E g : LinesUpTo(text, g, n)
<1> DEFINE T == {m \in Nat : \E g : LinesUpTo(text, g, m)}
<1>1. 0 \in T
  <2> DEFINE g == [i \in 0..0 |-> <<>>]
  <2>1. LinesUpTo(text, g, 0)
    BY DEF LinesUpTo
  <2> QED
    BY <2>1
<1>2. ASSUME NEW m \in 1..n, m - 1 \in T PROVE m \in T
  <2>1. PICK g : LinesUpTo(text, g, m - 1)
    BY <1>2
  <2> DEFINE h == [i \in 0..m |-> IF i = m THEN NextLines(text, m, g[m - 1]) ELSE g[i]]
  <2>2. ASSUME NEW i \in 0..m
        PROVE  h[i] = IF i = 0 THEN <<>> ELSE NextLines(text, i, h[i - 1])
    <3>1. CASE i = m
      BY <3>1
    <3>2. CASE i # m
      <4>1. i \in 0..m - 1 /\ i - 1 # m /\ h[i] = g[i] /\ (i # 0 => h[i - 1] = g[i - 1])
        BY <3>2
      <4>2. g[i] = IF i = 0 THEN <<>> ELSE NextLines(text, i, g[i - 1])
        BY <2>1, <4>1 DEF LinesUpTo, NextLines
      <4> QED
        BY <4>1, <4>2
    <3> QED
      BY <3>1, <3>2
  <2>3. DOMAIN h = 0..m /\ h = [i \in 0..m |-> h[i]]
    OBVIOUS
  <2> HIDE DEF h
  <2>4. h = [i \in 0..m |-> IF i = 0 THEN <<>> ELSE NextLines(text, i, h[i - 1])]
    BY <2>2, <2>3
  <2>5. LinesUpTo(text, h, m)
    BY <2>4, Zenon DEF LinesUpTo, NextLines
  <2>6. m \in Nat
    OBVIOUS
  <2> QED
    BY <2>5, <2>6
<1> HIDE DEF T
<1>3. n \in T
  BY <1>1, <1>2, UpTo
<1> QED
  BY <1>3 DEF T

(* Lines is where the recursion ends. *)
LEMMA LinesSteps ==
  ASSUME NEW text \in Seq(Tokens), NEW n \in Nat, n = Len(text)
  PROVE  \E g : /\ g[0] = <<>> /\ \A i \in 1..n : g[i] = NextLines(text, i, g[i - 1])
                /\ Lines(text) = g[n]
<1> DEFINE g == CHOOSE h : LinesUpTo(text, h, n)
<1>1. LinesUpTo(text, g, n)
  BY LinesExist
<1>2. Lines(text) = g[n]
  BY DEF Lines, LinesUpTo
<1> HIDE DEF g
<1>3. \A i \in 0..n : g[i] = IF i = 0 THEN <<>> ELSE NextLines(text, i, g[i - 1])
  BY <1>1 DEF LinesUpTo, NextLines
<1>4. g[0] = <<>> /\ \A i \in 1..n : g[i] = NextLines(text, i, g[i - 1])
  BY <1>3
<1> QED
  BY <1>2, <1>4

(* The text ends in x. *)
EndsIn(ls, x) == ls # <<>> /\ ls[Len(ls)][Len(ls[Len(ls)])] = x

(* A token behind the end of a line starts the next one, *)
LEMMA LineStarts ==
  ASSUME NEW ls, WellLined(ls), NEW x \in Tokens, ls = <<>> \/ (\E c \in Newlines : EndsIn(ls, c))
  PROVE  /\ WellLined(Append(ls, <<x>>)) /\ EndsIn(Append(ls, <<x>>), x)
         /\ FlattenSeq(Append(ls, <<x>>)) = Append(FlattenSeq(ls), x)
<1>1. ls \in Seq(Seq(Tokens)) /\ LineParts(ls) /\ EndsBefore(ls, Len(ls) - 1)
  BY DEF WellLined
<1> PICK l : l = <<x>>
  OBVIOUS
<1>2. l \in Seq(Tokens) /\ Len(l) = 1 /\ l[1] = x /\ l # <<>>
  OBVIOUS
<1> PICK n \in Nat : n = Len(ls)
  BY <1>1, LenProperties
<1> PICK u : u = Append(ls, l)
  OBVIOUS
<1>3. /\ u \in Seq(Seq(Tokens)) /\ u # <<>> /\ Len(u) = n + 1
      /\ \A i \in 1..n : u[i] = ls[i]
      /\ u[n + 1] = l
  BY <1>1, <1>2, AppendProperties
<1>4. EndsIn(u, x)
  BY <1>2, <1>3 DEF EndsIn
<1>5. LineParts(u)
  <2>1. ASSUME NEW i \in 1..n + 1
        PROVE  u[i] # <<>> /\ \A j \in 1..Len(u[i]) - 1 : u[i][j] \notin Newlines
    <3>1. CASE i = n + 1
      BY <1>2, <1>3, <3>1
    <3>2. CASE i # n + 1
      <4>1. i \in 1..n /\ u[i] = ls[i]
        BY <1>3, <3>2
      <4> QED
        BY <1>1, <4>1 DEF LineParts
    <3> QED
      BY <3>1, <3>2
  <2> QED
    BY <1>3, <2>1 DEF LineParts
<1>6. EndsBefore(u, n)
  <2>1. ASSUME NEW i \in 1..n PROVE ls[i][Len(ls[i])] \in Newlines
    <3>1. CASE i = n
      <4>1. ls # <<>>
        BY <3>1, EmptySeq
      <4> QED
        BY <3>1, <4>1 DEF EndsIn
    <3>2. CASE i # n
      BY <1>1, <3>2 DEF EndsBefore
    <3> QED
      BY <3>1, <3>2
  <2> QED
    BY <1>3, <2>1 DEF EndsBefore
<1>7. WellLined(u)
  <2>1. Len(u) - 1 = n
    BY <1>3
  <2> QED
    BY <1>3, <1>5, <1>6, <2>1 DEF WellLined
<1>8. FlattenSeq(u) = Append(FlattenSeq(ls), x)
  <2>1. FlattenSeq(u) = FlattenSeq(ls) \o l /\ FlattenSeq(ls) \in Seq(Tokens)
    BY <1>1, <1>2, FlattenAppend
  <2> PICK t \in Seq(Tokens) : t = FlattenSeq(ls)
    BY <2>1
  <2>2. Append(t, x) = t \o <<x>>
    BY AppendIsConcat
  <2> QED
    BY <2>1, <2>2
<1> QED
  BY <1>4, <1>7, <1>8

(* and any other goes on with the last one. *)
LEMMA LineGoesOn ==
  ASSUME NEW ls, WellLined(ls), NEW x \in Tokens, NEW c, EndsIn(ls, c), c \notin Newlines
  PROVE  LET u == [ls EXCEPT ![Len(ls)] = Append(@, x)]
         IN  WellLined(u) /\ Len(u) = Len(ls) /\ EndsIn(u, x) /\ FlattenSeq(u) = Append(FlattenSeq(ls), x)
<1>1. ls \in Seq(Seq(Tokens)) /\ LineParts(ls) /\ EndsBefore(ls, Len(ls) - 1) /\ ls # <<>>
  BY DEF WellLined, EndsIn
<1> PICK n \in Nat : n = Len(ls)
  BY <1>1, LenProperties
<1>2. n \in 1..n /\ ls[n] \in Seq(Tokens) /\ ls[n] # <<>>
  BY <1>1, EmptySeq DEF LineParts
<1> PICK k \in Nat : k = Len(ls[n])
  BY <1>2, LenProperties
<1> PICK l : l = Append(ls[n], x)
  OBVIOUS
<1>3. /\ l \in Seq(Tokens) /\ l # <<>> /\ Len(l) = k + 1 /\ l[k + 1] = x
      /\ \A i \in 1..k : l[i] = ls[n][i]
  BY <1>2, AppendProperties
<1> PICK u : u = [ls EXCEPT ![Len(ls)] = Append(@, x)]
  OBVIOUS
<1>4. /\ u \in Seq(Seq(Tokens)) /\ Len(u) = n
      /\ \A i \in 1..n : u[i] = IF i = n THEN l ELSE ls[i]
  <2>1. u = [ls EXCEPT ![n] = l]
    BY <1>2
  <2>2. /\ [ls EXCEPT ![n] = l] \in Seq(Seq(Tokens)) /\ Len([ls EXCEPT ![n] = l]) = Len(ls)
        /\ \A i \in 1..Len(ls) : [ls EXCEPT ![n] = l][i] = IF i = n THEN l ELSE ls[i]
    BY ONLY <1>1, <1>2, <1>3, n = Len(ls), ExceptSeq
  <2> QED
    BY <2>1, <2>2
<1>5. EndsIn(u, x)
  BY <1>2, <1>3, <1>4, EmptySeq DEF EndsIn
<1>6. LineParts(u)
  <2>1. ASSUME NEW i \in 1..n
        PROVE  u[i] # <<>> /\ \A j \in 1..Len(u[i]) - 1 : u[i][j] \notin Newlines
    <3>1. CASE i = n
      <4>1. u[i] = l /\ \A j \in 1..k - 1 : ls[n][j] \notin Newlines
        BY <1>1, <1>2, <1>4, <3>1 DEF LineParts
      <4>2. ls[n][k] \notin Newlines
        BY DEF EndsIn
      <4>3. ASSUME NEW j \in 1..k PROVE l[j] \notin Newlines
        <5>1. l[j] = ls[n][j]
          BY <1>3
        <5>2. j = k \/ j \in 1..k - 1
          OBVIOUS
        <5> QED
          BY <4>1, <4>2, <5>1, <5>2
      <4>4. Len(u[i]) - 1 = k /\ u[i] # <<>>
        BY <1>3, <4>1
      <4> QED
        BY <4>1, <4>3, <4>4
    <3>2. CASE i # n
      BY <1>1, <1>4, <3>2 DEF LineParts
    <3> QED
      BY <3>1, <3>2
  <2> QED
    BY <1>4, <2>1 DEF LineParts
<1>7. EndsBefore(u, n - 1)
  BY <1>1, <1>4 DEF EndsBefore
<1>8. WellLined(u)
  BY <1>4, <1>6, <1>7 DEF WellLined
<1>9. FlattenSeq(u) = Append(FlattenSeq(ls), x)
  BY <1>1, FlattenLonger
<1> QED
  BY <1>4, <1>5, <1>8, <1>9

(* Lines cuts a text into lines, and joined they are the text. *)
LEMMA LinesOfText ==
  ASSUME NEW text \in Seq(Tokens)
  PROVE  /\ WellLined(Lines(text)) /\ FlattenSeq(Lines(text)) = text
         /\ text # <<>> => EndsIn(Lines(text), text[Len(text)])
         /\ text = <<>> => Lines(text) = <<>>
<1> PICK n \in Nat : n = Len(text)
  BY LenProperties
<1>1. PICK g : /\ g[0] = <<>> /\ \A i \in 1..n : g[i] = NextLines(text, i, g[i - 1])
               /\ Lines(text) = g[n]
  BY LinesSteps
<1> DEFINE Cut(m) == /\ WellLined(g[m]) /\ FlattenSeq(g[m]) = SubSeq(text, 1, m)
                     /\ m # 0 => EndsIn(g[m], text[m])
           T == {m \in 0..n : Cut(m)}
<1>2. 0 \in T
  <2>1. SubSeq(text, 1, 0) = <<>>
    BY SubSeqEmpty
  <2>2. <<>> \in Seq(Seq(Tokens)) /\ Len(<<>>) = 0
    BY EmptySeq
  <2>3. FlattenSeq(<<>>) = <<>>
    BY <2>2 DEF FlattenSeq
  <2>4. WellLined(<<>>)
    BY <2>2 DEF WellLined, LineParts, EndsBefore
  <2>5. Cut(0)
    <3> PICK e : e = g[0]
      OBVIOUS
    <3>1. e = <<>>
      BY <1>1
    <3>2. WellLined(e) /\ FlattenSeq(e) = SubSeq(text, 1, 0)
      BY ONLY <2>1, <2>3, <2>4, <3>1
    <3> QED
      BY <3>2
  <2> HIDE DEF Cut
  <2> QED
    BY <2>5
<1>3. ASSUME NEW m \in 1..n, m - 1 \in T PROVE m \in T
  <2> PICK before : before = g[m - 1]
    OBVIOUS
  <2> PICK x \in Tokens : x = text[m]
    OBVIOUS
  <2>1. WellLined(before) /\ FlattenSeq(before) = SubSeq(text, 1, m - 1) /\ (m # 1 => EndsIn(before, text[m - 1]))
    BY <1>3
  <2>2. g[m] = NextLines(text, m, before)
    BY <1>1
  <2>3. SubSeq(text, 1, m) = Append(SubSeq(text, 1, m - 1), x)
    <3>1. 1 \in 1..Len(text) /\ m \in 1..Len(text)
      OBVIOUS
    <3>2. SubSeq(text, 1, m) = SubSeq(text, 1, m - 1) \o <<text[m]>>
      BY <3>1, SubSeqRecursiveSecond
    <3>3. SubSeq(text, 1, m - 1) \in Seq(Tokens)
      <4>1. \A i \in 1..m - 1 : text[i] \in Tokens
        BY <3>1, LenProperties
      <4> QED
        BY <4>1, SubSeqProperties
    <3> QED
      BY <3>2, <3>3, AppendIsConcat
  <2>4. WellLined(g[m]) /\ EndsIn(g[m], x) /\ FlattenSeq(g[m]) = Append(FlattenSeq(before), x)
    <3>1. CASE m = 1
      <4>1. before = <<>>
        BY <1>1, <3>1
      <4>2. g[m] = Append(before, <<x>>)
        BY <2>2, <3>1 DEF NextLines
      <4> QED
        BY <2>1, <4>1, <4>2, LineStarts
    <3>2. CASE m # 1 /\ text[m - 1] \in Newlines
      <4>1. g[m] = Append(before, <<x>>)
        BY <2>2, <3>2 DEF NextLines
      <4> QED
        BY <2>1, <3>2, <4>1, LineStarts
    <3>3. CASE m # 1 /\ text[m - 1] \notin Newlines
      <4>1. g[m] = [before EXCEPT ![Len(before)] = Append(@, x)]
        BY <2>2, <3>3 DEF NextLines
      <4> PICK c : c = text[m - 1]
        OBVIOUS
      <4> PICK u : u = g[m]
        OBVIOUS
      <4>2. EndsIn(before, c) /\ c \notin Newlines /\ WellLined(before)
        BY <2>1, <3>3
      <4>3. u = [before EXCEPT ![Len(before)] = Append(@, x)]
        BY <4>1
      <4>4. WellLined(u) /\ EndsIn(u, x) /\ FlattenSeq(u) = Append(FlattenSeq(before), x)
        BY ONLY x \in Tokens, <4>2, <4>3, LineGoesOn
      <4> QED
        BY <4>4
    <3> QED
      BY <3>1, <3>2, <3>3
  <2>5. Cut(m)
    BY <2>1, <2>3, <2>4
  <2> HIDE DEF Cut
  <2> QED
    BY <2>5
<1> HIDE DEF T
<1>4. \A m \in 0..n : m \in T
  BY <1>2, <1>3, UpTo
<1>5. Cut(n)
  BY <1>4 DEF T
<1>6. SubSeq(text, 1, n) = text
  BY SubSeqFull
<1>7. text # <<>> <=> n # 0
  BY EmptySeq
<1> QED
  BY <1>1, <1>5, <1>6, <1>7

(* A text that is cut: its lines, and what they join to one by one. *)
Cutting(ls, f, n) == WellLined(ls) /\ n = Len(ls) /\ JoinsIn(Tokens, ls, f, n)

(* Every well-formed sequence of lines is cut from what it joins to. *)
LEMMA CuttingExists ==
  ASSUME NEW ls, WellLined(ls)
  PROVE  \E f, n : Cutting(ls, f, n) /\ f[n] = FlattenSeq(ls)
<1>1. ls \in Seq(Seq(Tokens))
  BY DEF WellLined
<1> PICK n \in Nat : n = Len(ls)
  BY <1>1, LenProperties
<1>2. ls \in [1..n -> Seq(Tokens)]
  BY <1>1, LenProperties
<1>3. PICK f \in [0..n -> Seq(Tokens)] : Joins(ls, f, n) /\ FlattenSeq(ls) = f[n]
  BY ONLY n \in Nat, <1>2, FlattenJoins
<1> QED
  BY <1>2, <1>3 DEF Cutting, JoinsIn

LineAt(ls, f, n, i) ==
  /\ Len(f[i - 1]) \in Nat /\ Len(ls[i]) \in Nat \ {0} /\ Len(f[n]) \in Nat
  /\ ls[i] \in Seq(Tokens) /\ f[i] = f[i - 1] \o ls[i]
  /\ Len(f[i - 1]) + Len(ls[i]) <= Len(f[n])
  /\ \A j \in 1..Len(ls[i]) : f[n][Len(f[i - 1]) + j] = ls[i][j]
  /\ \A j \in 1..Len(ls[i]) - 1 : ls[i][j] \notin Newlines
  /\ i # n => ls[i][Len(ls[i])] \in Newlines
  /\ i = n => Len(f[n]) = Len(f[i - 1]) + Len(ls[i])

(* Each line is in its place in the text. *)
LEMMA LineInText ==
  ASSUME NEW ls, NEW f, NEW n, Cutting(ls, f, n), NEW i \in 1..n
  PROVE  LineAt(ls, f, n, i)
<1>1. /\ n \in Nat /\ ls \in [1..n -> Seq(Tokens)] /\ f \in [0..n -> Seq(Tokens)] /\ Joins(ls, f, n)
      /\ LineParts(ls) /\ EndsBefore(ls, n - 1) /\ n = Len(ls)
  BY DEF Cutting, JoinsIn, WellLined
<1>i. i \in 0..n /\ i - 1 \in 0..n /\ n \in 0..n
  BY <1>1
<1>j. f[i] = f[i - 1] \o ls[i]
  BY <1>1 DEF Joins
<1>2. f[i - 1] \in Seq(Tokens) /\ f[i] = f[i - 1] \o ls[i] /\ ls[i] \in Seq(Tokens) /\ f[n] \in Seq(Tokens)
  BY ONLY <1>1, <1>i, <1>j, i \in 1..n
<1> PICK u \in Seq(Tokens) : u = f[i - 1]
  BY <1>2
<1> PICK l \in Seq(Tokens) : l = ls[i]
  BY <1>2
<1> PICK w \in Seq(Tokens) : w = f[n]
  BY <1>2
<1>3. /\ Len(u) \in Nat /\ Len(l) \in Nat /\ Len(u \o l) = Len(u) + Len(l)
      /\ \A j \in 1..Len(l) : (u \o l)[Len(u) + j] = l[j]
  BY ONLY u \in Seq(Tokens), l \in Seq(Tokens), JoinShape, LenProperties
<1>4. l # <<>> /\ \A j \in 1..Len(l) - 1 : l[j] \notin Newlines
  BY <1>1 DEF LineParts
<1>5. Len(l) # 0
  BY <1>4, EmptySeq
<1>6. StartsWith(w, u \o l)
  <2>1. JoinsIn(Tokens, ls, f, n)
    BY DEF Cutting
  <2>2. StartsWith(f[n], f[i])
    BY ONLY <2>1, <1>i, JoinsPrefix
  <2> QED
    BY <1>2, <2>2
<1>7. Len(w) \in Nat /\ Len(u) + Len(l) <= Len(w) /\ \A j \in 1..Len(l) : w[Len(u) + j] = l[j]
  <2>1. Len(w) \in Nat
    BY LenProperties
  <2>2. ASSUME NEW j \in 1..Len(l) PROVE w[Len(u) + j] = l[j]
    <3> PICK m \in Nat : m = Len(u) + j
      BY <1>3
    <3>1. m \in 1..Len(u \o l)
      BY ONLY <1>3, j \in 1..Len(l), m = Len(u) + j, m \in Nat
    <3> QED
      BY <1>3, <1>6, <3>1 DEF StartsWith
  <2> QED
    BY <1>3, <1>6, <2>1, <2>2 DEF StartsWith
<1>8. i # n => l[Len(l)] \in Newlines
  <2>1. i # n => i \in 1..n - 1
    <3>1. n \in Nat
      BY <1>1
    <3> QED
      BY ONLY <3>1, i \in 1..n
  <2> QED
    BY <1>1, <2>1 DEF EndsBefore
<1>9. i = n => Len(w) = Len(u) + Len(l)
  BY <1>2, <1>3
<1> QED
  BY <1>2, <1>3, <1>4, <1>5, <1>7, <1>8, <1>9 DEF LineAt

(* Of two ways to cut a text, neither has a line that is shorter. *)
LEMMA NotShorter ==
  ASSUME NEW a, NEW f, NEW n, Cutting(a, f, n), NEW b, NEW g, NEW m, Cutting(b, g, m), f[n] = g[m],
         NEW i \in 1..n, i \in 1..m, f[i - 1] = g[i - 1]
  PROVE  ~(Len(a[i]) < Len(b[i]))
<1> SUFFICES ASSUME Len(a[i]) < Len(b[i]) PROVE FALSE
  OBVIOUS
<1>1. LineAt(a, f, n, i) /\ LineAt(b, g, m, i)
  BY LineInText
<1> PICK k : k = Len(a[i])
  OBVIOUS
<1> PICK o : o = Len(b[i])
  OBVIOUS
<1> PICK p : p = Len(f[i - 1])
  OBVIOUS
<1>2. k \in Nat /\ k # 0 /\ o \in Nat /\ p \in Nat /\ k < o
  BY <1>1 DEF LineAt
<1>3. a[i][k] = b[i][k] /\ b[i][k] \notin Newlines
  <2>1. k \in 1..k /\ k \in 1..o - 1 /\ k \in 1..o
    BY <1>2
  <2>2. f[n][p + k] = a[i][k] /\ g[m][p + k] = b[i][k] /\ b[i][k] \notin Newlines
    BY <1>1, <2>1 DEF LineAt
  <2> QED
    BY <2>2
<1>4. i = n
  BY <1>1, <1>3 DEF LineAt
<1>5. Len(f[n]) = p + k /\ p + o <= Len(f[n])
  BY <1>1, <1>4 DEF LineAt
<1> QED
  BY <1>2, <1>5

(* So they are the same, line by line. *)
LEMMA CutTheSame ==
  ASSUME NEW a, NEW f, NEW n, Cutting(a, f, n), NEW b, NEW g, NEW m, Cutting(b, g, m), f[n] = g[m],
         NEW i \in 1..n, i - 1 <= m, f[i - 1] = g[i - 1]
  PROVE  i \in 1..m /\ a[i] = b[i] /\ f[i] = g[i]
<1>0. n \in Nat /\ m \in Nat
  BY DEF Cutting, JoinsIn
<1>1. LineAt(a, f, n, i)
  BY LineInText
<1>2. i \in 1..m
  <2>1. CASE i - 1 = m
    <3>1. g[m] = f[i - 1]
      BY <2>1
    <3>2. Len(f[i - 1]) = Len(f[n])
      BY <3>1
    <3>3. Len(f[i - 1]) \in Nat /\ Len(a[i]) \in Nat \ {0} /\ Len(f[i - 1]) + Len(a[i]) <= Len(f[n])
      BY <1>1 DEF LineAt
    <3> PICK x : x = Len(f[i - 1])
      OBVIOUS
    <3> PICK y : y = Len(a[i])
      OBVIOUS
    <3>4. x \in Nat /\ y \in Nat \ {0} /\ x + y <= x
      BY <3>2, <3>3
    <3> QED
      BY ONLY <3>4
  <2> QED
    BY <1>0, <2>1
<1>3. LineAt(b, g, m, i)
  BY <1>2, LineInText
<1>4. ~(Len(a[i]) < Len(b[i])) /\ ~(Len(b[i]) < Len(a[i]))
  BY <1>2, NotShorter
<1> PICK u \in Seq(Tokens) : u = a[i]
  BY <1>1 DEF LineAt
<1> PICK v \in Seq(Tokens) : v = b[i]
  BY <1>3 DEF LineAt
<1>5. Len(u) = Len(v)
  <2>1. Len(u) \in Nat /\ Len(v) \in Nat
    BY LenProperties
  <2> QED
    BY <1>4, <2>1
<1>6. \A j \in 1..Len(u) : u[j] = v[j]
  BY <1>1, <1>3, <1>5 DEF LineAt
<1>7. u = v
  BY <1>5, <1>6, SeqEqual
<1> QED
  BY <1>1, <1>2, <1>3, <1>7 DEF LineAt

(* There is one way to cut a text into lines. *)
LEMMA OneCut ==
  ASSUME NEW a, WellLined(a), NEW b, WellLined(b), FlattenSeq(a) = FlattenSeq(b)
  PROVE  a = b
<1>1. PICK f, n : Cutting(a, f, n) /\ f[n] = FlattenSeq(a)
  BY CuttingExists
<1>2. PICK g, m : Cutting(b, g, m) /\ g[m] = FlattenSeq(b)
  BY CuttingExists
<1>3. /\ n \in Nat /\ a \in Seq(Seq(Tokens)) /\ Len(a) = n /\ f[0] = <<>>
      /\ m \in Nat /\ b \in Seq(Seq(Tokens)) /\ Len(b) = m /\ g[0] = <<>>
  BY <1>1, <1>2 DEF Cutting, JoinsIn, Joins, WellLined
<1> DEFINE T == {i \in 0..n : i <= m /\ f[i] = g[i] /\ \A j \in 1..i : a[j] = b[j]}
<1>4. 0 \in T
  BY <1>3
<1>5. ASSUME NEW i \in 1..n, i - 1 \in T PROVE i \in T
  <2>1. i - 1 <= m /\ f[i - 1] = g[i - 1] /\ \A j \in 1..i - 1 : a[j] = b[j]
    BY <1>5
  <2>2. i \in 1..m /\ a[i] = b[i] /\ f[i] = g[i]
    BY <1>1, <1>2, <2>1, CutTheSame
  <2>3. \A j \in 1..i : j \in 1..i - 1 \/ j = i
    OBVIOUS
  <2> QED
    BY <2>1, <2>2, <2>3
<1> HIDE DEF T
<1>6. \A i \in 0..n : i \in T
  BY ONLY <1>3, <1>4, <1>5, UpTo
<1>7. n <= m /\ f[n] = g[n] /\ \A j \in 1..n : a[j] = b[j]
  <2>1. n \in T
    BY <1>3, <1>6
  <2> QED
    BY <2>1 DEF T
<1>8. n = m
  <2> SUFFICES ASSUME n # m PROVE FALSE
    OBVIOUS
  <2> PICK i \in Nat : i = n + 1
    BY <1>3
  <2>1. i \in 1..m /\ i - 1 = n
    BY <1>3, <1>7
  <2>2. LineAt(b, g, m, i)
    BY <1>2, <2>1, LineInText
  <2>3. g[i - 1] = g[m]
    BY <1>1, <1>2, <1>7, <2>1
  <2>4. Len(g[i - 1]) \in Nat /\ Len(b[i]) \in Nat \ {0} /\ Len(g[i - 1]) + Len(b[i]) <= Len(g[m])
    BY <2>2 DEF LineAt
  <2> PICK x : x = Len(g[i - 1])
    OBVIOUS
  <2> PICK y : y = Len(b[i])
    OBVIOUS
  <2>5. x \in Nat /\ y \in Nat \ {0} /\ x + y <= x
    BY <2>3, <2>4
  <2> QED
    BY ONLY <2>5
<1> QED
  BY <1>3, <1>7, <1>8, SeqEqual

(* The lines of what well-formed lines join to are those lines. *)
LEMMA LinesOfJoined ==
  ASSUME NEW ls, WellLined(ls)
  PROVE  Lines(FlattenSeq(ls)) = ls /\ FlattenSeq(ls) \in Seq(Tokens)
<1>1. FlattenSeq(ls) \in Seq(Tokens)
  BY LenProperties, FlattenType DEF WellLined
<1> PICK t \in Seq(Tokens) : t = FlattenSeq(ls)
  BY <1>1
<1>2. WellLined(Lines(t)) /\ FlattenSeq(Lines(t)) = t
  BY LinesOfText
<1> QED
  BY <1>1, <1>2, OneCut

(* Universal keeps the length, and what is an end of a line. *)
LEMMA UniversalText ==
  ASSUME NEW t \in Seq(Tokens)
  PROVE  /\ Universal(t) \in Seq(Tokens) /\ Len(Universal(t)) = Len(t)
         /\ \A i \in 1..Len(t) : /\ Universal(t)[i] = IF t[i] = CRLF THEN LF ELSE t[i]
                                 /\ Universal(t)[i] \in Newlines <=> t[i] \in Newlines
<1> PICK n \in Nat : n = Len(t)
  BY LenProperties
<1>1. t \in [1..n -> Tokens] /\ DOMAIN t = 1..n
  BY LenProperties
<1>2. Universal(t) = [i \in 1..n |-> IF t[i] = CRLF THEN LF ELSE t[i]]
  BY <1>1 DEF Universal
<1>3. Universal(t) \in [1..n -> Tokens]
  BY <1>1, <1>2, FilesystemAssumption DEF FilesystemAssumption
<1>4. Universal(t) \in Seq(Tokens) /\ Len(Universal(t)) = n
  BY <1>3
<1>5. ASSUME NEW i \in 1..n
      PROVE  /\ Universal(t)[i] = IF t[i] = CRLF THEN LF ELSE t[i]
             /\ Universal(t)[i] \in Newlines <=> t[i] \in Newlines
  <2>1. Universal(t)[i] = IF t[i] = CRLF THEN LF ELSE t[i]
    BY <1>2
  <2> QED
    BY <2>1 DEF Newlines
<1> QED
  BY <1>4, <1>5

(* It is done piece by piece, *)
LEMMA UniversalJoin ==
  ASSUME NEW u \in Seq(Tokens), NEW v \in Seq(Tokens)
  PROVE  Universal(u \o v) = Universal(u) \o Universal(v)
<1> PICK a \in Seq(Tokens) : a = Universal(u)
  BY UniversalText
<1> PICK b \in Seq(Tokens) : b = Universal(v)
  BY UniversalText
<1> PICK w \in Seq(Tokens) : w = u \o v
  BY ConcatProperties
<1> PICK c \in Seq(Tokens) : c = Universal(w)
  BY UniversalText
<1> PICK d \in Seq(Tokens) : d = a \o b
  BY ConcatProperties
<1>1. /\ Len(u) \in Nat /\ Len(v) \in Nat /\ Len(a) = Len(u) /\ Len(b) = Len(v) /\ Len(c) = Len(w)
      /\ Len(w) = Len(u) + Len(v) /\ Len(d) = Len(u) + Len(v)
  <2>1. Len(u) \in Nat /\ Len(v) \in Nat
    BY LenProperties
  <2>2. Len(a) = Len(u) /\ Len(b) = Len(v) /\ Len(c) = Len(w)
    BY UniversalText
  <2>3. Len(w) = Len(u) + Len(v)
    BY ONLY u \in Seq(Tokens), v \in Seq(Tokens), w = u \o v, ConcatProperties
  <2>4. Len(d) = Len(a) + Len(b)
    BY ONLY a \in Seq(Tokens), b \in Seq(Tokens), d = a \o b, ConcatProperties
  <2> QED
    BY <2>1, <2>2, <2>3, <2>4
<1>2. ASSUME NEW i \in 1..Len(u) + Len(v) PROVE c[i] = d[i]
  <2>1. w[i] = IF i <= Len(u) THEN u[i] ELSE v[i - Len(u)]
    BY ConcatProperties
  <2>2. d[i] = IF i <= Len(u) THEN a[i] ELSE b[i - Len(u)]
    <3>1. \A j \in 1..Len(a) + Len(b) : (a \o b)[j] = IF j <= Len(a) THEN a[j] ELSE b[j - Len(a)]
      BY ONLY a \in Seq(Tokens), b \in Seq(Tokens), ConcatProperties
    <3> QED
      BY <1>1, <3>1
  <2>3. c[i] = IF w[i] = CRLF THEN LF ELSE w[i]
    <3>1. i \in 1..Len(w)
      BY <1>1
    <3> QED
      BY ONLY w \in Seq(Tokens), c = Universal(w), <3>1, UniversalText
  <2>4. CASE i <= Len(u)
    <3>1. i \in 1..Len(u)
      BY <1>1, <2>4
    <3>2. a[i] = IF u[i] = CRLF THEN LF ELSE u[i]
      BY <3>1, UniversalText
    <3> QED
      BY <2>1, <2>2, <2>3, <2>4, <3>2
  <2>5. CASE ~(i <= Len(u))
    <3>0. i - Len(u) \in 1..Len(v)
      BY ONLY <1>1, <2>5, i \in 1..Len(u) + Len(v)
    <3> PICK j \in 1..Len(v) : j = i - Len(u)
      BY <3>0
    <3>1. b[j] = IF v[j] = CRLF THEN LF ELSE v[j]
      BY UniversalText
    <3> QED
      BY <2>1, <2>2, <2>3, <2>5, <3>1
  <2> QED
    BY <2>4, <2>5
<1>3. c = d
  BY ONLY c \in Seq(Tokens), d \in Seq(Tokens), <1>1, <1>2, SeqEqual
<1> QED
  BY <1>3

(* and twice is once. *)
LEMMA UniversalTwice ==
  ASSUME NEW t \in Seq(Tokens)
  PROVE  Universal(Universal(t)) = Universal(t)
<1> PICK u \in Seq(Tokens) : u = Universal(t)
  BY UniversalText
<1> PICK w \in Seq(Tokens) : w = Universal(u)
  BY UniversalText
<1>1. /\ Len(u) = Len(t) /\ Len(w) = Len(u)
      /\ \A i \in 1..Len(t) : u[i] = IF t[i] = CRLF THEN LF ELSE t[i]
  BY UniversalText
<1>2. \A i \in 1..Len(u) : w[i] = IF u[i] = CRLF THEN LF ELSE u[i]
  BY ONLY u \in Seq(Tokens), w = Universal(u), UniversalText
<1>3. \A i \in 1..Len(w) : w[i] = u[i]
  BY <1>1, <1>2
<1>4. w = u
  BY <1>1, <1>3, SeqEqual
<1> QED
  BY <1>4

UniversalEach(ls) == [i \in 1..Len(ls) |-> Universal(ls[i])]

(* The lines of a text that is translated are the lines, translated. *)
LEMMA UniversalLines ==
  ASSUME NEW t \in Seq(Tokens)
  PROVE  Lines(Universal(t)) = UniversalEach(Lines(t))
<1> PICK ls : ls = Lines(t)
  OBVIOUS
<1>1. WellLined(ls) /\ FlattenSeq(ls) = t
  BY LinesOfText
<1>2. ls \in Seq(Seq(Tokens)) /\ LineParts(ls) /\ EndsBefore(ls, Len(ls) - 1)
  BY <1>1 DEF WellLined
<1> PICK n \in Nat : n = Len(ls)
  BY <1>2, LenProperties
<1>3. ls \in [1..n -> Seq(Tokens)]
  BY <1>2, LenProperties
<1> PICK us : us = UniversalEach(ls)
  OBVIOUS
<1>4. us \in [1..n -> Seq(Tokens)] /\ \A i \in 1..n : us[i] = Universal(ls[i])
  BY <1>3, UniversalText DEF UniversalEach
<1>5. us \in Seq(Seq(Tokens)) /\ Len(us) = n
  BY <1>4
<1>6. ASSUME NEW i \in 1..n
      PROVE  /\ us[i] # <<>> /\ \A j \in 1..Len(us[i]) - 1 : us[i][j] \notin Newlines
             /\ ls[i][Len(ls[i])] \in Newlines => us[i][Len(us[i])] \in Newlines
  <2> PICK l \in Seq(Tokens) : l = ls[i]
    BY <1>3
  <2> PICK u \in Seq(Tokens) : u = us[i]
    BY <1>4
  <2>1. u = Universal(l) /\ l # <<>> /\ \A j \in 1..Len(l) - 1 : l[j] \notin Newlines
    BY <1>2, <1>4 DEF LineParts
  <2>2. Len(l) \in Nat /\ Len(l) # 0
    BY <2>1, EmptySeq
  <2>3. Len(u) = Len(l) /\ \A j \in 1..Len(l) : u[j] \in Newlines <=> l[j] \in Newlines
    BY <2>1, UniversalText
  <2>4. u # <<>>
    BY <2>2, <2>3, EmptySeq
  <2>5. \A j \in 1..Len(u) - 1 : u[j] \notin Newlines
    BY <2>1, <2>2, <2>3
  <2>6. l[Len(l)] \in Newlines => u[Len(u)] \in Newlines
    BY <2>2, <2>3
  <2> QED
    BY <2>4, <2>5, <2>6
<1>7. WellLined(us)
  <2>1. LineParts(us)
    BY <1>5, <1>6 DEF LineParts
  <2>2. EndsBefore(us, n - 1)
    <3>1. \A i \in 1..n - 1 : i \in 1..n
      OBVIOUS
    <3> QED
      BY <1>2, <1>6, <3>1 DEF EndsBefore
  <2> QED
    BY <1>5, <2>1, <2>2 DEF WellLined
<1>8. FlattenSeq(us) = Universal(t)
  <2>1. PICK f \in [0..n -> Seq(Tokens)] : Joins(ls, f, n) /\ FlattenSeq(ls) = f[n]
    BY ONLY n \in Nat, <1>3, FlattenJoins
  <2>2. PICK g \in [0..n -> Seq(Tokens)] : Joins(us, g, n) /\ FlattenSeq(us) = g[n]
    BY ONLY n \in Nat, <1>4, FlattenJoins
  <2> DEFINE T == {m \in 0..n : g[m] = Universal(f[m])}
  <2>3. 0 \in T
    <3> PICK e \in Seq(Tokens) : e = <<>>
      BY EmptySeq
    <3> PICK u \in Seq(Tokens) : u = Universal(e)
      BY UniversalText
    <3>1. Len(e) = 0 /\ Len(u) = Len(e)
      BY UniversalText, EmptySeq
    <3>2. u = <<>>
      BY <3>1, EmptySeq
    <3>3. f[0] = e /\ g[0] = e
      BY <2>1, <2>2 DEF Joins
    <3> QED
      BY <3>2, <3>3
  <2>4. ASSUME NEW m \in 1..n, m - 1 \in T PROVE m \in T
    <3>1. f[m] = f[m - 1] \o ls[m] /\ g[m] = g[m - 1] \o us[m] /\ g[m - 1] = Universal(f[m - 1])
      BY <2>1, <2>2, <2>4 DEF Joins
    <3> PICK u \in Seq(Tokens) : u = f[m - 1]
      <4>1. m - 1 \in 0..n
        OBVIOUS
      <4> QED
        BY <4>1
    <3> PICK v \in Seq(Tokens) : v = ls[m]
      BY <1>3
    <3>2. us[m] = Universal(v)
      BY <1>4
    <3>3. Universal(u \o v) = Universal(u) \o Universal(v)
      BY UniversalJoin
    <3>4. g[m] = Universal(f[m])
      BY ONLY <3>1, <3>2, <3>3, u = f[m - 1], v = ls[m], Zenon
    <3> QED
      BY <3>4
  <2> HIDE DEF T
  <2>5. \A m \in 0..n : m \in T
    BY ONLY n \in Nat, <2>3, <2>4, UpTo
  <2>6. n \in T
    BY <2>5
  <2> QED
    BY <1>1, <2>1, <2>2, <2>6 DEF T
<1>9. Lines(FlattenSeq(us)) = us
  BY <1>7, LinesOfJoined
<1> QED
  BY <1>8, <1>9

-------------------------------------------------------------------------------
(* The lines that an agent sees.                                           *)

RowsOf(ls) == [i \in 1..Len(ls) |-> WithoutEnd(ls[i])]

(* A line without its end: as it is when it has none, otherwise shorter by *)
(* one token; and the same for a text that is translated.                  *)
LEMMA LineWithoutEnd ==
  ASSUME NEW l \in Seq(Tokens), l # <<>>, \A j \in 1..Len(l) - 1 : l[j] \notin Newlines
  PROVE  /\ WithoutEnd(l) \in Seq(Tokens)
         /\ Closed(l) <=> l[Len(l)] \in Newlines
         /\ WithoutEnd(Universal(l)) = WithoutEnd(l)
<1> PICK n \in Nat : n = Len(l)
  BY LenProperties
<1>1. n # 0 /\ l \in [1..n -> Tokens]
  BY EmptySeq, LenProperties
<1>2. Closed(l) <=> l[n] \in Newlines
  BY DEF Closed, Last
<1>3. Front(l) \in Seq(Tokens) /\ Len(Front(l)) = n - 1 /\ \A i \in 1..n - 1 : Front(l)[i] = l[i]
  BY FrontParts
<1> PICK f \in Seq(Tokens) : f = Front(l)
  BY <1>3
<1> PICK u \in Seq(Tokens) : u = Universal(l)
  BY UniversalText
<1>4. /\ Len(u) = n
      /\ \A i \in 1..n : u[i] = IF l[i] = CRLF THEN LF ELSE l[i]
      /\ \A i \in 1..n : u[i] \in Newlines <=> l[i] \in Newlines
  BY UniversalText
<1>5. u # <<>> /\ (Closed(u) <=> Closed(l))
  <2>1. u # <<>>
    BY <1>1, <1>4, EmptySeq
  <2>2. n \in 1..n
    BY <1>1
  <2> QED
    BY <1>2, <1>4, <2>1, <2>2 DEF Closed, Last
<1>6. \A i \in 1..n - 1 : u[i] = l[i]
  BY <1>1, <1>4 DEF Newlines
<1>7. CASE Closed(l)
  <2>1. Front(u) \in Seq(Tokens) /\ Len(Front(u)) = n - 1 /\ \A i \in 1..n - 1 : Front(u)[i] = u[i]
    <3>1. /\ Front(u) \in Seq(Tokens) /\ Len(Front(u)) = Len(u) - 1
          /\ \A i \in 1..Len(u) - 1 : Front(u)[i] = u[i]
      BY ONLY u \in Seq(Tokens), <1>5, FrontParts
    <3> QED
      BY <1>4, <3>1
  <2> PICK g \in Seq(Tokens) : g = Front(u)
    BY <2>1
  <2>2. Len(g) = Len(f) /\ \A i \in 1..Len(g) : g[i] = f[i]
    BY <1>3, <1>6, <2>1
  <2>3. g = f
    BY ONLY g \in Seq(Tokens), f \in Seq(Tokens), <2>2, SeqEqual
  <2> QED
    BY <1>2, <1>3, <1>5, <1>7, <2>3 DEF WithoutEnd
<1>8. CASE ~Closed(l)
  <2>1. \A i \in 1..n : l[i] \notin Newlines
    <3>1. \A i \in 1..n : i = n \/ i \in 1..n - 1
      OBVIOUS
    <3> QED
      BY <1>2, <1>8, <3>1
  <2>2. \A i \in 1..Len(u) : u[i] = l[i]
    BY <1>4, <2>1 DEF Newlines
  <2>3. Len(u) = Len(l)
    BY <1>4
  <2>4. u = l
    BY ONLY u \in Seq(Tokens), l \in Seq(Tokens), <2>2, <2>3, SeqEqual
  <2> QED
    BY <1>2, <1>8, <2>4 DEF WithoutEnd
<1> QED
  BY <1>7, <1>8

(* What is shown of lines that are well formed. *)
LEMMA RowsType ==
  ASSUME NEW ls, WellLined(ls)
  PROVE  /\ RowsOf(ls) \in Seq(Seq(Tokens)) /\ Len(RowsOf(ls)) = Len(ls)
         /\ \A i \in 1..Len(ls) : RowsOf(ls)[i] = WithoutEnd(ls[i])
<1>1. ls \in Seq(Seq(Tokens)) /\ LineParts(ls)
  BY DEF WellLined
<1> PICK n \in Nat : n = Len(ls)
  BY <1>1, LenProperties
<1>2. ASSUME NEW i \in 1..n PROVE WithoutEnd(ls[i]) \in Seq(Tokens)
  <2> PICK l \in Seq(Tokens) : l = ls[i]
    BY <1>1, LenProperties
  <2>1. l # <<>> /\ \A j \in 1..Len(l) - 1 : l[j] \notin Newlines
    BY <1>1 DEF LineParts
  <2> QED
    BY <2>1, LineWithoutEnd
<1>3. RowsOf(ls) \in [1..n -> Seq(Tokens)]
  BY <1>2 DEF RowsOf
<1> QED
  BY <1>3 DEF RowsOf

(* Rows shows the lines, without their ends. *)
LEMMA RowsShown ==
  ASSUME NEW t \in Seq(Tokens)
  PROVE  Rows(t) = RowsOf(Lines(t))
<1> PICK ls : ls = Lines(t)
  OBVIOUS
<1>1. WellLined(ls)
  BY LinesOfText
<1>2. ls \in Seq(Seq(Tokens))
  BY <1>1 DEF WellLined
<1> PICK n \in Nat : n = Len(ls)
  BY <1>2, LenProperties
<1>3. DOMAIN ls = 1..n /\ ls \in [1..n -> Seq(Tokens)]
  BY <1>2, LenProperties
<1> PICK all : all = [i \in DOMAIN ls |-> <<i, ls[i]>>]
  OBVIOUS
<1>4. all \in [1..n -> Nat \X Seq(Tokens)] /\ \A i \in 1..n : all[i] = <<i, ls[i]>>
  BY <1>3
<1>5. all \in Seq(Nat \X Seq(Tokens)) /\ Len(all) = n
  BY <1>4
<1>6. SubSeq(all, 1, n) = all
  BY <1>5, SubSeqFull
<1>7. SelectLines(t, None, 0) = all
  <2>1. ParseRange(None) = None
    BY DEF ParseRange
  <2> PICK first \in Nat : first = 0 + 1
    OBVIOUS
  <2>2. SelectLines(t, None, 0) = SubSeq(all, first, Len(all))
    BY <2>1 DEF SelectLines
  <2>3. first = 1
    OBVIOUS
  <2> QED
    BY <1>5, <1>6, <2>2, <2>3
<1>8. DOMAIN all = 1..n
  BY <1>4
<1>9. Rows(t) = [i \in 1..n |-> WithoutEnd(all[i][2])]
  BY <1>7, <1>8 DEF Rows
<1>10. \A i \in 1..n : all[i][2] = ls[i]
  BY <1>4
<1> QED
  BY <1>9, <1>10 DEF RowsOf

(* They are the same when the ends of lines are translated. *)
LEMMA RowsUniversal ==
  ASSUME NEW t \in Seq(Tokens)
  PROVE  Rows(Universal(t)) = Rows(t) /\ Len(Lines(Universal(t))) = Len(Lines(t))
<1> PICK u \in Seq(Tokens) : u = Universal(t)
  BY UniversalText
<1> PICK ls : ls = Lines(t)
  OBVIOUS
<1> PICK us : us = Lines(u)
  OBVIOUS
<1>1. WellLined(ls) /\ WellLined(us)
  BY LinesOfText
<1>2. us = UniversalEach(ls)
  BY UniversalLines
<1>3. ls \in Seq(Seq(Tokens)) /\ LineParts(ls)
  BY <1>1 DEF WellLined
<1> PICK n \in Nat : n = Len(ls)
  BY <1>3, LenProperties
<1>4. us \in [1..n -> Seq(Tokens)] /\ \A i \in 1..n : us[i] = Universal(ls[i])
  BY <1>3, LenProperties, UniversalText, <1>2 DEF UniversalEach
<1>5. Len(us) = n
  BY <1>4
<1>6. ASSUME NEW i \in 1..n PROVE WithoutEnd(us[i]) = WithoutEnd(ls[i])
  <2> PICK l \in Seq(Tokens) : l = ls[i]
    BY <1>3, LenProperties
  <2>1. l # <<>> /\ \A j \in 1..Len(l) - 1 : l[j] \notin Newlines
    BY <1>3 DEF LineParts
  <2> QED
    BY <1>4, <2>1, LineWithoutEnd
<1>7. RowsOf(us) = RowsOf(ls)
  BY <1>5, <1>6 DEF RowsOf
<1>8. Rows(u) = RowsOf(us) /\ Rows(t) = RowsOf(ls)
  BY RowsShown
<1> QED
  BY <1>5, <1>7, <1>8

(* A text of several tokens ends in its last one, translated or not. *)
LEMMA EndKinds ==
  ASSUME NEW t \in Seq(Tokens)
  PROVE  /\ Closed(t) <=> t # <<>> /\ t[Len(t)] \in Newlines
         /\ Terminated(t) <=> t # <<>> /\ t[Len(t)] \in {LF, CRLF}
         /\ Terminated(t) => Closed(t)
         /\ Closed(Universal(t)) <=> Closed(t)
         /\ Terminated(Universal(t)) <=> Terminated(t)
<1> PICK n \in Nat : n = Len(t)
  BY LenProperties
<1> PICK u \in Seq(Tokens) : u = Universal(t)
  BY UniversalText
<1>1. \A x \in Seq(Tokens) : /\ Closed(x) <=> x # <<>> /\ x[Len(x)] \in Newlines
                             /\ Terminated(x) <=> x # <<>> /\ x[Len(x)] \in {LF, CRLF}
  BY DEF Closed, Terminated, Last
<1>2. Terminated(t) => Closed(t)
  BY <1>1 DEF Newlines
<1>3. Len(u) = n /\ (u # <<>> <=> t # <<>>) /\ (t # <<>> => n \in 1..n)
  BY UniversalText, EmptySeq
<1>4. t # <<>> => u[n] = IF t[n] = CRLF THEN LF ELSE t[n]
  BY <1>3, UniversalText
<1>5. (Closed(u) <=> Closed(t)) /\ (Terminated(u) <=> Terminated(t))
  BY <1>1, <1>3, <1>4 DEF Newlines
<1> QED
  BY <1>1, <1>2, <1>5

(* What it is spaced with is the same when it is translated. *)
LEMMA SpacedUniversal ==
  ASSUME NEW t \in Seq(Tokens)
  PROVE  Spaced(Universal(t)) = Spaced(t)
BY EndKinds, RowsUniversal DEF Spaced

(* An end that is added to the last line ends it, and is not shown; behind *)
(* the end of a line it is a row of its own.                               *)
LEMMA EndedText ==
  ASSUME NEW t \in Seq(Tokens)
  PROVE  /\ Ended(t) \in Seq(Tokens) /\ AllEnded(Lines(Ended(t))) /\ Rows(Ended(t)) = Spaced(t)
         /\ Closed(t) => AllEnded(Lines(t))
<1> PICK ls : ls = Lines(t)
  OBVIOUS
<1>1. WellLined(ls) /\ FlattenSeq(ls) = t /\ (t # <<>> => EndsIn(ls, t[Len(t)])) /\ (t = <<>> => ls = <<>>)
  BY LinesOfText
<1>2. ls \in Seq(Seq(Tokens)) /\ LineParts(ls) /\ EndsBefore(ls, Len(ls) - 1)
  BY <1>1 DEF WellLined
<1> PICK n \in Nat : n = Len(ls)
  BY <1>2, LenProperties
<1>k. /\ Closed(t) <=> t # <<>> /\ t[Len(t)] \in Newlines
      /\ Terminated(t) => Closed(t)
  BY EndKinds
<1>c. Closed(t) => AllEnded(ls)
  <2> SUFFICES ASSUME Closed(t) PROVE AllEnded(ls)
    OBVIOUS
  <2>2. ls[n][Len(ls[n])] \in Newlines
    BY <1>1, <1>k DEF EndsIn
  <2>3. EndsBefore(ls, n)
    <3>1. \A i \in 1..n : i = n \/ i \in 1..n - 1
      OBVIOUS
    <3> QED
      BY <1>2, <2>2, <3>1 DEF EndsBefore
  <2> QED
    BY <1>1, <2>3 DEF AllEnded
<1>3. CASE t = <<>>
  <2>1. n = 0 /\ Ended(t) = t /\ Spaced(t) = Rows(t)
    BY <1>1, <1>3, <1>k, EmptySeq DEF Ended, Spaced
  <2>2. EndsBefore(ls, n)
    BY <2>1 DEF EndsBefore
  <2> QED
    BY <1>1, <1>c, <2>1, <2>2 DEF AllEnded
<1>4. CASE t # <<>> /\ Terminated(t)
  <2>1. Ended(t) = t /\ Spaced(t) = Rows(t)
    BY <1>4 DEF Ended, Spaced
  <2> QED
    BY <1>4, <1>c, <1>k, <2>1
<1>6. CASE Closed(t) /\ ~Terminated(t)
  <2> PICK l : l = <<LF>>
    OBVIOUS
  <2>1. LF \in Tokens /\ LF \in Newlines /\ l \in Seq(Tokens) /\ Len(l) = 1 /\ l[1] = LF /\ l # <<>>
    BY FilesystemAssumption DEF FilesystemAssumption, Newlines
  <2>2. Ended(t) = t \o l /\ Spaced(t) = Append(Rows(t), <<>>)
    BY <1>6, <1>k DEF Ended, Spaced
  <2>3. \E c \in Newlines : EndsIn(ls, c)
    BY <1>1, <1>6, <1>k
  <2> PICK u : u = Append(ls, l)
    OBVIOUS
  <2>4. WellLined(u) /\ EndsIn(u, LF) /\ FlattenSeq(u) = Append(t, LF)
    BY <1>1, <2>1, <2>3, LineStarts
  <2>5. Lines(Ended(t)) = u /\ Ended(t) \in Seq(Tokens)
    <3>1. Append(t, LF) = t \o l
      BY <2>1, AppendIsConcat
    <3> QED
      BY <2>2, <2>4, <3>1, LinesOfJoined
  <2>6. u \in Seq(Seq(Tokens)) /\ Len(u) = n + 1 /\ (\A i \in 1..n : u[i] = ls[i]) /\ u[n + 1] = l
    BY <1>2, <2>1, AppendProperties
  <2>7. AllEnded(u)
    <3>1. \A i \in 1..n + 1 : i = n + 1 \/ i \in 1..n
      OBVIOUS
    <3>2. EndsBefore(ls, n)
      BY <1>6, <1>c DEF AllEnded
    <3>3. EndsBefore(u, n + 1)
      BY <2>1, <2>6, <3>1, <3>2 DEF EndsBefore
    <3> QED
      BY <2>4, <2>6, <3>3 DEF AllEnded
  <2>8. WithoutEnd(l) = <<>>
    <3>1. Closed(l)
      BY <2>1, EndKinds
    <3>2. Front(l) \in Seq(Tokens) /\ Len(Front(l)) = Len(l) - 1
      BY ONLY <2>1, FrontParts
    <3>3. Front(l) = <<>>
      BY <2>1, <3>2, EmptySeq
    <3> QED
      BY <3>1, <3>3 DEF WithoutEnd
  <2> PICK r \in Seq(Seq(Tokens)) : r = RowsOf(ls)
    BY <1>1, RowsType
  <2> PICK e \in Seq(Tokens) : e = <<>>
    BY EmptySeq
  <2> PICK v \in Seq(Seq(Tokens)) : v = RowsOf(u)
    BY <2>4, RowsType
  <2> PICK w \in Seq(Seq(Tokens)) : w = Append(r, e)
    BY AppendProperties
  <2>9. /\ Len(r) = n /\ (\A i \in 1..n : r[i] = WithoutEnd(ls[i]))
        /\ Len(v) = n + 1 /\ (\A i \in 1..n + 1 : v[i] = WithoutEnd(u[i]))
    <3>1. Len(r) = n /\ (\A i \in 1..n : r[i] = WithoutEnd(ls[i]))
      BY <1>1, RowsType
    <3>2. Len(v) = Len(u) /\ (\A i \in 1..Len(u) : v[i] = WithoutEnd(u[i]))
      BY <2>4, RowsType
    <3> QED
      BY <2>6, <3>1, <3>2
  <2>10. Len(w) = n + 1 /\ (\A i \in 1..n : w[i] = r[i]) /\ w[n + 1] = e
    BY <2>9, AppendProperties
  <2>11. v = w
    <3>1. ASSUME NEW i \in 1..n + 1 PROVE v[i] = w[i]
      <4>1. CASE i = n + 1
        <5>1. v[i] = WithoutEnd(l)
          BY <2>6, <2>9, <4>1
        <5> QED
          BY <2>8, <2>10, <4>1, <5>1
      <4>2. CASE i # n + 1
        <5>1. i \in 1..n
          BY ONLY <4>2, n \in Nat, i \in 1..n + 1
        <5> QED
          BY <2>6, <2>9, <2>10, <5>1
      <4> QED
        BY <4>1, <4>2
    <3>2. Len(v) = Len(w) /\ \A i \in 1..Len(v) : v[i] = w[i]
      BY <2>9, <2>10, <3>1
    <3> QED
      BY ONLY v \in Seq(Seq(Tokens)), w \in Seq(Seq(Tokens)), <3>2, SeqEqual
  <2>12. Rows(t) = RowsOf(ls) /\ Rows(Ended(t)) = RowsOf(u)
    BY <2>5, RowsShown
  <2> QED
    BY <1>c, <2>2, <2>5, <2>7, <2>11, <2>12
<1>5. CASE t # <<>> /\ ~Closed(t)
  <2> PICK c : c = t[Len(t)]
    OBVIOUS
  <2>1. c \notin Newlines /\ EndsIn(ls, c) /\ Ended(t) = t \o <<LF>> /\ Spaced(t) = Rows(t)
    BY <1>1, <1>5, <1>k DEF Ended, Spaced
  <2>2. LF \in Tokens /\ LF \in Newlines
    BY FilesystemAssumption DEF FilesystemAssumption, Newlines
  <2> PICK u : u = [ls EXCEPT ![n] = Append(@, LF)]
    OBVIOUS
  <2>3. WellLined(u) /\ Len(u) = n /\ EndsIn(u, LF) /\ FlattenSeq(u) = Append(t, LF)
    <3>1. \A x \in Tokens : LET w == [ls EXCEPT ![Len(ls)] = Append(@, x)]
                            IN  WellLined(w) /\ Len(w) = Len(ls) /\ EndsIn(w, x)
                                /\ FlattenSeq(w) = Append(FlattenSeq(ls), x)
      BY ONLY <1>1, <2>1, LineGoesOn
    <3> QED
      BY <1>1, <2>2, <3>1
  <2>4. Ended(t) = FlattenSeq(u)
    BY <2>1, <2>2, <2>3, AppendIsConcat
  <2>5. Lines(Ended(t)) = u /\ Ended(t) \in Seq(Tokens)
    BY <2>3, <2>4, LinesOfJoined
  <2>6. AllEnded(u)
    <3>1. \A i \in 1..n : i = n \/ i \in 1..n - 1
      OBVIOUS
    <3>2. EndsBefore(u, n - 1) /\ u[n][Len(u[n])] = LF
      BY <2>3 DEF WellLined, EndsIn
    <3>3. EndsBefore(u, n)
      BY <2>2, <3>1, <3>2 DEF EndsBefore
    <3> QED
      BY <2>3, <3>3 DEF AllEnded
  <2>7. RowsOf(u) = RowsOf(ls)
    <3>1. n \in 1..n
      <4>1. n # 0
        BY <1>2, <2>1, EmptySeq DEF EndsIn
      <4> QED
        BY <4>1
    <3> PICK l \in Seq(Tokens) : l = ls[n]
      BY <1>2, <3>1, LenProperties
    <3> PICK k \in Seq(Tokens) : k = Append(l, LF)
      BY <2>2, AppendProperties
    <3>2. u[n] = k /\ \A i \in 1..n : i # n => u[i] = ls[i]
      <4>1. DOMAIN ls = 1..n
        BY <1>2, LenProperties
      <4> QED
        BY <3>1, <4>1
    <3>3. /\ l # <<>> /\ (\A j \in 1..Len(l) - 1 : l[j] \notin Newlines) /\ l[Len(l)] \notin Newlines
          /\ k # <<>> /\ (\A j \in 1..Len(k) - 1 : k[j] \notin Newlines) /\ k[Len(k)] \in Newlines
      <4>1. l # <<>> /\ \A j \in 1..Len(l) - 1 : l[j] \notin Newlines
        BY <1>2, <3>1 DEF LineParts
      <4>2. l[Len(l)] \notin Newlines
        BY <2>1 DEF EndsIn
      <4>3. u[n] # <<>> /\ \A j \in 1..Len(u[n]) - 1 : u[n][j] \notin Newlines
        BY <2>3, <3>1 DEF WellLined, LineParts
      <4>4. u[n][Len(u[n])] = LF
        BY <2>3 DEF EndsIn
      <4> QED
        BY <2>2, <3>2, <4>1, <4>2, <4>3, <4>4
    <3>4. WithoutEnd(l) = l
      BY <3>3, LineWithoutEnd DEF WithoutEnd
    <3>5. WithoutEnd(k) = l
      <4>1. Closed(k)
        BY <3>3, LineWithoutEnd
      <4>2. Len(l) \in Nat /\ Len(k) = Len(l) + 1 /\ \A i \in 1..Len(l) : k[i] = l[i]
        BY <2>2, AppendProperties, LenProperties
      <4> PICK f \in Seq(Tokens) : f = Front(k)
        BY <3>3, FrontParts
      <4>3. Len(f) = Len(k) - 1 /\ \A i \in 1..Len(k) - 1 : f[i] = k[i]
        BY ONLY k \in Seq(Tokens), <3>3, f = Front(k), FrontParts
      <4>4. Len(f) = Len(l) /\ \A i \in 1..Len(f) : f[i] = l[i]
        BY <4>2, <4>3
      <4>5. f = l
        BY ONLY f \in Seq(Tokens), l \in Seq(Tokens), <4>4, SeqEqual
      <4> QED
        BY <4>1, <4>5 DEF WithoutEnd
    <3>6. \A i \in 1..n : WithoutEnd(u[i]) = WithoutEnd(ls[i])
      BY <3>2, <3>4, <3>5
    <3> QED
      BY <2>3, <3>6 DEF RowsOf
  <2>8. Rows(t) = RowsOf(ls) /\ Rows(Ended(t)) = RowsOf(u)
    BY <2>5, RowsShown
  <2> QED
    BY <1>5, <2>1, <2>5, <2>6, <2>7, <2>8
<1> QED
  BY <1>3, <1>4, <1>5, <1>6, <1>k

-------------------------------------------------------------------------------
(* The edits.                                                              *)

(* Lines behind lines that all have an end: they stay the lines they are. *)
LEMMA LinesJoined ==
  ASSUME NEW a, AllEnded(a), NEW b, WellLined(b)
  PROVE  /\ WellLined(a \o b) /\ (AllEnded(b) => AllEnded(a \o b))
         /\ FlattenSeq(a \o b) = FlattenSeq(a) \o FlattenSeq(b)
         /\ RowsOf(a \o b) = RowsOf(a) \o RowsOf(b)
<1>1. /\ a \in Seq(Seq(Tokens)) /\ LineParts(a) /\ EndsBefore(a, Len(a)) /\ WellLined(a)
      /\ b \in Seq(Seq(Tokens)) /\ LineParts(b) /\ EndsBefore(b, Len(b) - 1)
  BY DEF AllEnded, WellLined
<1> PICK n \in Nat : n = Len(a)
  BY <1>1, LenProperties
<1> PICK m \in Nat : m = Len(b)
  BY <1>1, LenProperties
<1> PICK w \in Seq(Seq(Tokens)) : w = a \o b
  BY <1>1, ConcatProperties
<1>2. Len(w) = n + m /\ \A i \in 1..n + m : w[i] = IF i <= n THEN a[i] ELSE b[i - n]
  BY ONLY <1>1, n = Len(a), m = Len(b), w = a \o b, ConcatProperties
<1>3. ASSUME NEW i \in 1..n + m
      PROVE  \/ i \in 1..n /\ w[i] = a[i]
             \/ ~(i <= n) /\ \E j \in 1..m : j = i - n /\ w[i] = b[j]
  <2>1. CASE i <= n
    BY <1>2, <2>1
  <2>2. CASE ~(i <= n)
    <3>1. i - n \in 1..m
      BY ONLY n \in Nat, m \in Nat, i \in 1..n + m, <2>2
    <3> QED
      BY <1>2, <2>2, <3>1
  <2> QED
    BY <2>1, <2>2
<1>4. LineParts(w)
  <2>1. ASSUME NEW i \in 1..n + m PROVE w[i] # <<>> /\ \A j \in 1..Len(w[i]) - 1 : w[i][j] \notin Newlines
    <3>1. CASE i \in 1..n /\ w[i] = a[i]
      BY <1>1, <3>1 DEF LineParts
    <3>2. CASE ~(i <= n) /\ \E j \in 1..m : j = i - n /\ w[i] = b[j]
      <4> PICK j \in 1..m : w[i] = b[j]
        BY <3>2
      <4> QED
        BY <1>1 DEF LineParts
    <3> QED
      BY <1>3, <3>1, <3>2
  <2> QED
    BY <1>2, <2>1 DEF LineParts
<1>5. ASSUME NEW i \in 1..n + m PROVE i # n + m \/ EndsBefore(b, m) => w[i][Len(w[i])] \in Newlines
  <2> SUFFICES ASSUME i # n + m \/ EndsBefore(b, m) PROVE w[i][Len(w[i])] \in Newlines
    OBVIOUS
  <2>1. CASE i \in 1..n /\ w[i] = a[i]
    BY <1>1, <2>1 DEF EndsBefore
  <2>2. CASE ~(i <= n) /\ \E j \in 1..m : j = i - n /\ w[i] = b[j]
    <3> PICK j \in 1..m : j = i - n /\ w[i] = b[j]
      BY <2>2
    <3>1. i = n + m <=> j = m
      OBVIOUS
    <3>2. j # m => j \in 1..m - 1
      OBVIOUS
    <3> QED
      BY <1>1, <3>1, <3>2 DEF EndsBefore
  <2> QED
    BY <1>3, <2>1, <2>2
<1>6. WellLined(w)
  <2>1. EndsBefore(w, Len(w) - 1)
    <3>1. \A i \in 1..n + m - 1 : i \in 1..n + m /\ i # n + m
      OBVIOUS
    <3> QED
      BY <1>2, <1>5, <3>1 DEF EndsBefore
  <2> QED
    BY <1>4, <2>1 DEF WellLined
<1>7. AllEnded(b) => AllEnded(w)
  BY <1>2, <1>5, <1>6 DEF AllEnded, EndsBefore
<1>8. FlattenSeq(w) = FlattenSeq(a) \o FlattenSeq(b)
  <2>1. a \in [1..n -> Seq(Tokens)] /\ b \in [1..m -> Seq(Tokens)]
    BY <1>1, LenProperties
  <2> QED
    BY ONLY <2>1, n \in Nat, m \in Nat, w = a \o b, FlattenConcat
<1>9. RowsOf(w) = RowsOf(a) \o RowsOf(b)
  <2> PICK r \in Seq(Seq(Tokens)) : r = RowsOf(a)
    BY <1>1, RowsType
  <2> PICK s \in Seq(Seq(Tokens)) : s = RowsOf(b)
    BY <1>1, RowsType
  <2> PICK v \in Seq(Seq(Tokens)) : v = RowsOf(w)
    BY <1>6, RowsType
  <2> PICK x \in Seq(Seq(Tokens)) : x = r \o s
    BY ConcatProperties
  <2>1. /\ Len(r) = n /\ (\A i \in 1..n : r[i] = WithoutEnd(a[i]))
        /\ Len(s) = m /\ (\A i \in 1..m : s[i] = WithoutEnd(b[i]))
        /\ Len(v) = n + m /\ (\A i \in 1..n + m : v[i] = WithoutEnd(w[i]))
    BY <1>1, <1>2, <1>6, RowsType
  <2>2. Len(x) = n + m /\ \A i \in 1..n + m : x[i] = IF i <= n THEN r[i] ELSE s[i - n]
    BY ONLY r \in Seq(Seq(Tokens)), s \in Seq(Seq(Tokens)), x = r \o s, <2>1, ConcatProperties
  <2>3. ASSUME NEW i \in 1..n + m PROVE v[i] = x[i]
    <3>1. CASE i \in 1..n /\ w[i] = a[i]
      BY <2>1, <2>2, <3>1
    <3>2. CASE ~(i <= n) /\ \E j \in 1..m : j = i - n /\ w[i] = b[j]
      BY <2>1, <2>2, <3>2
    <3> QED
      BY <1>3, <3>1, <3>2
  <2>4. Len(v) = Len(x) /\ \A i \in 1..Len(v) : v[i] = x[i]
    BY <2>1, <2>2, <2>3
  <2>5. v = x
    BY ONLY v \in Seq(Seq(Tokens)), x \in Seq(Seq(Tokens)), <2>4, SeqEqual
  <2> QED
    BY <2>5
<1> QED
  BY <1>6, <1>7, <1>8, <1>9

(* Some of the lines, from one to another. *)
LEMMA LinesBetween ==
  ASSUME NEW ls, WellLined(ls), NEW n \in Nat, n = Len(ls), NEW i \in 1..n + 1, NEW j \in 0..n
  PROVE  LET u == SubSeq(ls, i, j)
         IN  /\ WellLined(u) /\ RowsOf(u) = SubSeq(RowsOf(ls), i, j)
             /\ j < n \/ j < i \/ AllEnded(ls) => AllEnded(u)
<1>1. ls \in Seq(Seq(Tokens)) /\ LineParts(ls) /\ EndsBefore(ls, n - 1)
  BY DEF WellLined
<1> PICK u : u = SubSeq(ls, i, j)
  OBVIOUS
<1>0. (IF i <= j THEN j - i + 1 ELSE 0) \in Nat
  <2>1. i <= j => j - i + 1 \in Nat
    OBVIOUS
  <2> QED
    BY <2>1
<1> PICK k \in Nat : k = IF i <= j THEN j - i + 1 ELSE 0
  BY <1>0
<1>t. \A m \in i..j : ls[m] \in Seq(Tokens)
  <2>1. \A m \in i..j : m \in 1..n
    OBVIOUS
  <2>2. ls \in [1..n -> Seq(Tokens)]
    BY <1>1, LenProperties
  <2> QED
    BY <2>1, <2>2
<1>2. /\ u \in Seq(Seq(Tokens)) /\ Len(u) = k
      /\ \A m \in 1..j - i + 1 : u[m] = ls[i + m - 1]
  BY <1>t, SubSeqProperties
<1>3. ASSUME NEW m \in 1..k
      PROVE  \E o \in 1..n : o = i + m - 1 /\ (o = n <=> m = k /\ j = n) /\ u[m] = ls[o]
  <2>1. m \in 1..j - i + 1 /\ i + m - 1 \in 1..n /\ (i + m - 1 = n <=> m = k /\ j = n)
    OBVIOUS
  <2> QED
    BY <1>2, <2>1
<1>4. LineParts(u)
  <2>1. ASSUME NEW m \in 1..k PROVE u[m] # <<>> /\ \A q \in 1..Len(u[m]) - 1 : u[m][q] \notin Newlines
    <3> PICK o \in 1..n : u[m] = ls[o]
      BY <1>3
    <3> QED
      BY <1>1 DEF LineParts
  <2> QED
    BY <1>2, <2>1 DEF LineParts
<1>5. ASSUME NEW m \in 1..k, m # k \/ j # n \/ AllEnded(ls) PROVE u[m][Len(u[m])] \in Newlines
  <2> PICK o \in 1..n : o = i + m - 1 /\ (o = n <=> m = k /\ j = n) /\ u[m] = ls[o]
    BY <1>3
  <2>1. CASE AllEnded(ls)
    BY <2>1 DEF AllEnded, EndsBefore
  <2>2. CASE m # k \/ j # n
    <3>1. o \in 1..n - 1
      BY <2>2
    <3> QED
      BY <1>1, <3>1 DEF EndsBefore
  <2> QED
    BY <1>5, <2>1, <2>2
<1>6. WellLined(u)
  <2>1. \A m \in 1..k - 1 : m \in 1..k /\ m # k
    OBVIOUS
  <2>2. EndsBefore(u, k - 1)
    BY <1>5, <2>1 DEF EndsBefore
  <2> QED
    BY <1>2, <1>4, <2>2 DEF WellLined
<1>7. j < n \/ j < i \/ AllEnded(ls) => AllEnded(u)
  <2> SUFFICES ASSUME j < n \/ j < i \/ AllEnded(ls) PROVE EndsBefore(u, k)
    BY <1>2, <1>6 DEF AllEnded
  <2>1. j # n \/ k = 0 \/ AllEnded(ls)
    OBVIOUS
  <2>2. ASSUME NEW m \in 1..k PROVE u[m][Len(u[m])] \in Newlines
    <3>1. j # n \/ AllEnded(ls)
      BY <2>1
    <3> QED
      BY <1>5, <3>1
  <2> QED
    BY <2>2 DEF EndsBefore
<1>8. RowsOf(u) = SubSeq(RowsOf(ls), i, j)
  <2> PICK r \in Seq(Seq(Tokens)) : r = RowsOf(ls)
    BY RowsType
  <2> PICK v \in Seq(Seq(Tokens)) : v = RowsOf(u)
    BY <1>6, RowsType
  <2>1. /\ Len(r) = n /\ (\A m \in 1..n : r[m] = WithoutEnd(ls[m]))
        /\ Len(v) = k /\ (\A m \in 1..k : v[m] = WithoutEnd(u[m]))
    BY <1>2, <1>6, RowsType
  <2>2. \A m \in i..j : r[m] \in Seq(Tokens)
    <3>1. \A m \in i..j : m \in 1..n
      OBVIOUS
    <3>2. r \in [1..n -> Seq(Tokens)]
      BY <2>1, LenProperties
    <3> QED
      BY <3>1, <3>2
  <2> PICK x : x = SubSeq(r, i, j)
    OBVIOUS
  <2>3. /\ x \in Seq(Seq(Tokens)) /\ Len(x) = k
        /\ \A m \in 1..j - i + 1 : x[m] = r[i + m - 1]
    BY <2>2, SubSeqProperties
  <2>4. ASSUME NEW m \in 1..k PROVE v[m] = x[m]
    <3> PICK o \in 1..n : o = i + m - 1 /\ u[m] = ls[o]
      BY <1>3
    <3>1. m \in 1..j - i + 1
      OBVIOUS
    <3>2. x[m] = r[o]
      BY <2>3, <3>1
    <3> QED
      BY <2>1, <3>2
  <2>5. v = x
    BY ONLY v \in Seq(Seq(Tokens)), <2>1, <2>3, <2>4, SeqEqual
  <2> QED
    BY <2>5
<1> QED
  BY <1>6, <1>7, <1>8

Spliced(ls, new, i, j) == SubSeq(ls, 1, i) \o new \o SubSeq(ls, j + 1, Len(ls))

RangeRows(old, rows, i, j) == SubSeq(old, 1, i) \o rows \o SubSeq(old, j + 1, Len(old))

(* Lines in front, new ones, and lines behind. *)
LEMMA Pieced ==
  ASSUME NEW ls, WellLined(ls), NEW n \in Nat, n = Len(ls), NEW new, AllEnded(new),
         NEW i \in 0..n, NEW j \in 0..n, i < n \/ i = 0 \/ AllEnded(ls)
  PROVE  /\ WellLined(Spliced(ls, new, i, j))
         /\ RowsOf(Spliced(ls, new, i, j)) = RangeRows(RowsOf(ls), RowsOf(new), i, j)
<1> PICK k \in 1..n + 1 : k = j + 1
  OBVIOUS
<1> PICK a : a = SubSeq(ls, 1, i)
  OBVIOUS
<1> PICK b : b = SubSeq(ls, k, n)
  OBVIOUS
<1>1. AllEnded(a) /\ RowsOf(a) = SubSeq(RowsOf(ls), 1, i)
  <2>1. 1 \in 1..n + 1 /\ (i < n \/ i < 1 \/ AllEnded(ls))
    OBVIOUS
  <2> QED
    BY <2>1, LinesBetween
<1>2. WellLined(b) /\ RowsOf(b) = SubSeq(RowsOf(ls), k, n)
  <2>1. n \in 0..n
    OBVIOUS
  <2> QED
    BY <2>1, LinesBetween
<1>3. AllEnded(a \o new) /\ RowsOf(a \o new) = RowsOf(a) \o RowsOf(new)
  BY <1>1, LinesJoined DEF AllEnded
<1> PICK c : c = a \o new
  OBVIOUS
<1>4. WellLined(c \o b) /\ RowsOf(c \o b) = RowsOf(c) \o RowsOf(b)
  BY <1>2, <1>3, LinesJoined
<1>5. Spliced(ls, new, i, j) = c \o b
  BY DEF Spliced
<1>6. RangeRows(RowsOf(ls), RowsOf(new), i, j) = SubSeq(RowsOf(ls), 1, i) \o RowsOf(new) \o SubSeq(RowsOf(ls), k, n)
  BY RowsType DEF RangeRows
<1> QED
  BY <1>1, <1>2, <1>3, <1>4, <1>5, <1>6

RangeKept(t, range, n, i, j) ==
  /\ i = range[1] - 1 /\ j = IF range[2] < n THEN range[2] ELSE n
  /\ i \in 0..n /\ j \in 0..n /\ (i < n \/ i = 0) /\ (j < n => range[2] < n) /\ (t # <<>> => n # 0)
  /\ KeptBefore(t, range[1] - 1) = SubSeq(Lines(t), 1, i)
  /\ KeptBehind(t, range[1] - 1) = SubSeq(Lines(t), i + 1, n)
  /\ KeptBefore(t, range[2]) = SubSeq(Lines(t), 1, j)
  /\ KeptBehind(t, range[2]) = SubSeq(Lines(t), j + 1, n)

(* What a range that fits keeps in front of it and behind it. *)
LEMMA RangeKeeps ==
  ASSUME NEW t \in Seq(Tokens), NEW n \in Nat, n = Len(Lines(t)), NEW range \in Nat \X Nat, RangeFits(t, range)
  PROVE  \E i, j : RangeKept(t, range, n, i, j)
<1> PICK i : i = range[1] - 1
  OBVIOUS
<1> PICK j : j = IF range[2] < n THEN range[2] ELSE n
  OBVIOUS
<1> PICK ls : ls = Lines(t)
  OBVIOUS
<1> PICK s \in Nat : s = range[1]
  OBVIOUS
<1> PICK e \in Nat : e = range[2]
  OBVIOUS
<1>1. t = <<>> => ls = <<>>
  BY LinesOfText
<1>2. t # <<>> => n # 0
  <2>1. t # <<>> => EndsIn(ls, t[Len(t)]) /\ ls \in Seq(Seq(Tokens))
    BY LinesOfText DEF WellLined
  <2> QED
    BY <2>1, EmptySeq DEF EndsIn
<1>3. 1 <= s /\ s <= e /\ (t = <<>> => e <= 1 /\ n = 0) /\ (t # <<>> => e <= n)
  <2>1. t = <<>> => n = 0
    BY <1>1, EmptySeq
  <2> QED
    BY <2>1 DEF RangeFits
<1>4. i = s - 1 /\ i \in 0..n /\ j \in 0..n /\ (i < n \/ i = 0) /\ (j < n => e < n)
  BY <1>3
<1>5. KeptBefore(t, s - 1) = SubSeq(ls, 1, i)
  <2>1. (IF i < n THEN i ELSE n) = i
    BY <1>4
  <2> QED
    BY <1>4, <2>1 DEF KeptBefore
<1>6. KeptBehind(t, s - 1) = SubSeq(ls, i + 1, n)
  BY <1>4 DEF KeptBehind
<1>7. KeptBefore(t, e) = SubSeq(ls, 1, j)
  BY DEF KeptBefore
<1>8. KeptBehind(t, e) = SubSeq(ls, j + 1, n)
  <2>1. CASE e < n
    BY <2>1 DEF KeptBehind
  <2>2. CASE ~(e < n)
    <3> PICK x \in Int : x = e + 1
      OBVIOUS
    <3> PICK y \in Int : y = j + 1
      BY <1>4
    <3>1. n < x /\ n < y /\ n \in Int
      BY <2>2
    <3>2. SubSeq(ls, x, n) = <<>> /\ SubSeq(ls, y, n) = <<>>
      BY <3>1, SubSeqEmpty
    <3> QED
      BY <3>2 DEF KeptBehind
  <2> QED
    BY <2>1, <2>2
<1>9. RangeKept(t, range, n, i, j)
  BY <1>2, <1>4, <1>5, <1>6, <1>7, <1>8 DEF RangeKept
<1> QED
  BY <1>9

LineSelectors == {None, Junk} \union (Nat \X Nat)

(* A range of an edit, among the selectors: the other two are none. *)
LEMMA SelectorKinds ==
  ASSUME NEW lines \in LineSelectors
  PROVE  /\ lines = None => ParseRange(lines) = None
         /\ ParseRange(lines) # None => lines \in Nat \X Nat /\ ParseRange(lines) = lines /\ lines # None
BY FilesystemAssumption DEF FilesystemAssumption, LineSelectors, ParseRange

CarvedOut(text, action, lines) ==
  /\ action = "insert_after" /\ ParseRange(lines) # None
  /\ lines[2] >= Len(Lines(text)) /\ ~Closed(text)

(* An edit of a range of lines changes those lines. *)
LEMMA RangeEdit ==
  ASSUME NEW text \in Seq(Tokens), NEW content \in Seq(Tokens),
         NEW action \in Actions \ {"append"}, NEW lines \in Nat \X Nat, lines # None, ParseRange(lines) = lines,
         RangeFits(Universal(text), lines), ~CarvedOut(text, action, lines)
  PROVE  Rows(Edited(Universal(text), content, action, lines)) = ExpectedRows(text, content, action, lines)
<1> PICK t \in Seq(Tokens) : t = Universal(text)
  BY UniversalText
<1> PICK ls : ls = Lines(t)
  OBVIOUS
<1> PICK old : old = Rows(text)
  OBVIOUS
<1> PICK new : new = Lines(Ended(content))
  OBVIOUS
<1> PICK rows : rows = Spaced(content)
  OBVIOUS
<1>1. WellLined(ls) /\ ls \in Seq(Seq(Tokens))
  BY LinesOfText DEF WellLined
<1> PICK n \in Nat : n = Len(ls)
  BY <1>1, LenProperties
<1>2. old = RowsOf(ls) /\ Len(old) = n /\ n = Len(Lines(text))
  <2>1. Rows(t) = old /\ Rows(t) = RowsOf(ls) /\ n = Len(Lines(text))
    BY RowsUniversal, RowsShown
  <2> QED
    BY <1>1, <2>1, RowsType
<1>3. AllEnded(new) /\ RowsOf(new) = rows
  <2> PICK c \in Seq(Tokens) : c = Ended(content)
    BY EndedText
  <2>1. AllEnded(new) /\ Rows(c) = rows
    BY EndedText
  <2>2. Rows(c) = RowsOf(new)
    BY RowsShown
  <2> QED
    BY <2>1, <2>2
<1>r. PICK i, j : RangeKept(t, lines, n, i, j)
  BY RangeKeeps
<1>4. /\ i = lines[1] - 1 /\ j = IF lines[2] < n THEN lines[2] ELSE n
      /\ i \in 0..n /\ j \in 0..n /\ (i < n \/ i = 0) /\ (j < n => lines[2] < n) /\ (t # <<>> => n # 0)
      /\ KeptBefore(t, lines[1] - 1) = SubSeq(ls, 1, i)
      /\ KeptBehind(t, lines[1] - 1) = SubSeq(ls, i + 1, n)
      /\ KeptBefore(t, lines[2]) = SubSeq(ls, 1, j)
      /\ KeptBehind(t, lines[2]) = SubSeq(ls, j + 1, n)
  BY <1>r DEF RangeKept
<1>e. i = lines[1] - 1 /\ j = IF lines[2] < n THEN lines[2] ELSE n
  BY <1>4
<1>i. i \in 0..n /\ j \in 0..n /\ (i < n \/ i < 1) /\ (i < n \/ i = 0)
  BY <1>4
<1>5. ASSUME NEW a \in 0..n, NEW b \in 0..n, a < n \/ a = 0 \/ AllEnded(ls)
      PROVE  /\ Rows(FlattenSeq(Spliced(ls, new, a, b))) = RangeRows(old, rows, a, b)
             /\ FlattenSeq(Spliced(ls, new, a, b)) \in Seq(Tokens)
  <2> PICK w : w = Spliced(ls, new, a, b)
    OBVIOUS
  <2>1. WellLined(w) /\ RowsOf(w) = RangeRows(old, rows, a, b)
    <3>1. WellLined(ls) /\ AllEnded(new)
      BY <1>1, <1>3
    <3>2. WellLined(Spliced(ls, new, a, b)) /\ RowsOf(Spliced(ls, new, a, b)) = RangeRows(RowsOf(ls), RowsOf(new), a, b)
      BY ONLY <3>1, <1>5, n \in Nat, n = Len(ls), a \in 0..n, b \in 0..n, Pieced
    <3> QED
      BY <1>2, <1>3, <3>2
  <2> PICK x : x = FlattenSeq(w)
    OBVIOUS
  <2>2. Lines(x) = w /\ x \in Seq(Tokens)
    BY <2>1, LinesOfJoined
  <2>3. Rows(x) = RowsOf(w)
    BY <2>2, RowsShown
  <2> QED
    BY <2>1, <2>2, <2>3
<1> PICK out : out = Edited(t, content, action, lines)
  OBVIOUS
<1> PICK expected : expected = ExpectedRows(text, content, action, lines)
  OBVIOUS
<1>6. CASE action = "replace"
  <2>1. out = FlattenSeq(Spliced(ls, new, i, j))
    BY <1>4, <1>6 DEF Edited, Spliced
  <2>2. expected = RangeRows(old, rows, i, j)
    BY <1>2, <1>e, <1>6 DEF ExpectedRows, RangeRows
  <2> QED
    BY <1>i, <1>5, <2>1, <2>2
<1>7. CASE action = "insert_before"
  <2>1. out = FlattenSeq(Spliced(ls, new, i, i))
    BY <1>4, <1>7 DEF Edited, Spliced
  <2>2. expected = RangeRows(old, rows, i, i)
    BY <1>2, <1>e, <1>7 DEF ExpectedRows, RangeRows
  <2> QED
    BY <1>i, <1>5, <2>1, <2>2
<1>8. CASE action = "insert_after"
  <2>1. out = FlattenSeq(Spliced(ls, new, j, j))
    BY <1>4, <1>8 DEF Edited, Spliced
  <2>2. expected = RangeRows(old, rows, j, j)
    BY <1>2, <1>e, <1>8 DEF ExpectedRows, RangeRows
  <2>3. j < n \/ AllEnded(ls)
    <3>1. lines[2] < n \/ Closed(text)
      BY <1>2, <1>8 DEF CarvedOut
    <3>2. ASSUME Closed(text) PROVE AllEnded(ls)
      <4>1. Closed(t)
        BY <3>2, EndKinds
      <4> QED
        BY <4>1, EndedText
    <3>3. lines[2] < n => j < n
      BY <1>e
    <3> QED
      BY <3>1, <3>2, <3>3
  <2> QED
    <3>1. j < n \/ j = 0 \/ AllEnded(ls)
      BY <2>3
    <3>2. /\ Rows(FlattenSeq(Spliced(ls, new, j, j))) = RangeRows(old, rows, j, j)
          /\ FlattenSeq(Spliced(ls, new, j, j)) \in Seq(Tokens)
      BY ONLY <1>i, <1>5, <3>1, Zenon
    <3> QED
      BY <2>1, <2>2, <3>2
<1>9. CASE action = "delete_lines"
  <2> PICK a : a = SubSeq(ls, 1, i)
    OBVIOUS
  <2> PICK k \in 1..n + 1 : k = j + 1
    BY <1>4
  <2> PICK b : b = SubSeq(ls, k, n)
    OBVIOUS
  <2>1. out = FlattenSeq(a \o b)
    BY <1>4, <1>9 DEF Edited
  <2>2. expected = SubSeq(old, 1, i) \o SubSeq(old, k, n)
    BY <1>2, <1>e, <1>9 DEF ExpectedRows
  <2>3. AllEnded(a) /\ RowsOf(a) = SubSeq(old, 1, i)
    <3> PICK one \in 1..n + 1 : one = 1
      OBVIOUS
    <3>1. AllEnded(SubSeq(ls, one, i)) /\ RowsOf(SubSeq(ls, one, i)) = SubSeq(RowsOf(ls), one, i)
      BY ONLY <1>1, <1>i, one \in 1..n + 1, one = 1, n \in Nat, n = Len(ls), LinesBetween
    <3> QED
      BY <1>2, <3>1
  <2>4. WellLined(b) /\ RowsOf(b) = SubSeq(old, k, n)
    <3>1. n \in 0..n
      OBVIOUS
    <3>2. WellLined(SubSeq(ls, k, n)) /\ RowsOf(SubSeq(ls, k, n)) = SubSeq(RowsOf(ls), k, n)
      BY ONLY <1>1, <3>1, k \in 1..n + 1, n \in Nat, n = Len(ls), LinesBetween
    <3> QED
      BY <1>2, <3>2
  <2> PICK w : w = a \o b
    OBVIOUS
  <2>5. WellLined(w) /\ RowsOf(w) = RowsOf(a) \o RowsOf(b)
    BY <2>3, <2>4, LinesJoined
  <2> PICK x : x = FlattenSeq(w)
    OBVIOUS
  <2>6. Lines(x) = w /\ x \in Seq(Tokens)
    BY <2>5, LinesOfJoined
  <2>7. Rows(x) = RowsOf(w)
    BY <2>6, RowsShown
  <2> QED
    BY <2>1, <2>2, <2>3, <2>4, <2>5, <2>6, <2>7
<1> QED
  BY <1>6, <1>7, <1>8, <1>9 DEF Actions

(* An append adds its lines behind the others, which all have an end then. *)
LEMMA AppendEdit ==
  ASSUME NEW text \in Seq(Tokens), NEW content \in Seq(Tokens)
  PROVE  /\ Rows(Appended(Universal(text), content)) = AppendedRows(text, content)
         /\ Appended(Universal(text), content) \in Seq(Tokens)
         /\ IsPrefix(Universal(text), Appended(Universal(text), content))
<1> PICK t \in Seq(Tokens) : t = Universal(text)
  BY UniversalText
<1>1. Rows(t) = Rows(text) /\ Spaced(t) = Spaced(text)
  BY RowsUniversal, SpacedUniversal
<1>2. IsPrefix(t, t)
  BY Len(t) \in Nat, LenProperties DEF IsPrefix
<1>3. CASE content = <<>>
  <2>1. Appended(t, content) = t /\ AppendedRows(text, content) = Rows(text)
    BY <1>3 DEF Appended, AppendedRows
  <2> QED
    BY <1>1, <1>2, <2>1
<1>4. CASE content # <<>>
  <2> PICK e \in Seq(Tokens) : e = Ended(t)
    BY EndedText
  <2> PICK c \in Seq(Tokens) : c = Ended(content)
    BY EndedText
  <2>1. AllEnded(Lines(e)) /\ Rows(e) = Spaced(t) /\ AllEnded(Lines(c)) /\ Rows(c) = Spaced(content)
    BY EndedText
  <2> PICK a : a = Lines(e)
    OBVIOUS
  <2> PICK b : b = Lines(c)
    OBVIOUS
  <2>2. FlattenSeq(a) = e /\ FlattenSeq(b) = c /\ Rows(e) = RowsOf(a) /\ Rows(c) = RowsOf(b)
    BY LinesOfText, RowsShown
  <2> PICK w : w = a \o b
    OBVIOUS
  <2>3. WellLined(w) /\ FlattenSeq(w) = e \o c /\ RowsOf(w) = RowsOf(a) \o RowsOf(b)
    <3>1. AllEnded(a) /\ WellLined(b)
      BY <2>1 DEF AllEnded
    <3>2. WellLined(a \o b) /\ FlattenSeq(a \o b) = FlattenSeq(a) \o FlattenSeq(b) /\ RowsOf(a \o b) = RowsOf(a) \o RowsOf(b)
      BY ONLY <3>1, LinesJoined
    <3> QED
      BY ONLY <2>2, <3>2, w = a \o b, Zenon
  <2> PICK x : x = FlattenSeq(w)
    OBVIOUS
  <2>4. Lines(x) = w /\ x \in Seq(Tokens)
    BY <2>3, LinesOfJoined
  <2>5. Rows(x) = RowsOf(w)
    BY <2>4, RowsShown
  <2>6. Appended(t, content) = x
    BY <1>4, <2>3 DEF Appended
  <2>7. IsPrefix(t, e \o c)
    <3>1. e = t \/ e = t \o <<LF>>
      BY DEF Ended
    <3>2. /\ Len(t) \in Nat /\ Len(e) \in Nat /\ Len(c) \in Nat
          /\ Len(t) <= Len(e) /\ \A i \in 1..Len(t) : e[i] = t[i]
      <4>1. <<LF>> \in Seq(Tokens)
        BY FilesystemAssumption DEF FilesystemAssumption
      <4> PICK o \in Seq(Tokens) : o = <<LF>>
        BY <4>1
      <4>2. /\ Len(t \o o) = Len(t) + Len(o) /\ Len(t) \in Nat /\ Len(o) \in Nat
            /\ \A i \in 1..Len(t) : (t \o o)[i] = t[i]
        BY JoinShape, LenProperties
      <4> QED
        BY <3>1, <4>2, LenProperties
    <3>3. /\ Len(e \o c) = Len(e) + Len(c) /\ \A i \in 1..Len(e) : (e \o c)[i] = e[i]
      BY ONLY e \in Seq(Tokens), c \in Seq(Tokens), JoinShape
    <3>4. Len(t) <= Len(e \o c) /\ \A i \in 1..Len(t) : (e \o c)[i] = t[i]
      BY <3>2, <3>3
    <3> PICK y \in Seq(Tokens) : y = e \o c
      BY ConcatProperties
    <3> QED
      BY <3>2, <3>4, PrefixPlaces
  <2>8. AppendedRows(text, content) = Spaced(text) \o Spaced(content)
    BY <1>4 DEF AppendedRows
  <2> QED
    BY <1>1, <2>1, <2>2, <2>3, <2>4, <2>5, <2>6, <2>7, <2>8
<1> QED
  BY <1>3, <1>4

(* An edit that is allowed changes the lines that it says. *)
LEMMA EditExact ==
  ASSUME NEW text \in Seq(Tokens), NEW content \in Seq(Tokens), NEW action \in Actions,
         NEW lines \in LineSelectors, EditAllowed(Universal(text), action, lines), ~CarvedOut(text, action, lines)
  PROVE  Rows(Edited(Universal(text), content, action, lines)) = ExpectedRows(text, content, action, lines)
<1>1. CASE action = "append"
  <2>1. lines = None
    BY <1>1 DEF EditAllowed
  <2>2. Edited(Universal(text), content, action, lines) = Appended(Universal(text), content)
    BY <1>1 DEF Edited
  <2>3. ExpectedRows(text, content, action, lines) = AppendedRows(text, content)
    BY <1>1, <2>1 DEF ExpectedRows
  <2> QED
    BY <2>2, <2>3, AppendEdit
<1>2. CASE action = "replace" /\ lines = None
  <2>1. Edited(Universal(text), content, action, lines) = content
    BY <1>2 DEF Edited
  <2>2. ExpectedRows(text, content, action, lines) = Rows(content)
    BY <1>2 DEF ExpectedRows
  <2> QED
    BY <2>1, <2>2
<1>3. CASE action # "append" /\ ~(action = "replace" /\ lines = None)
  <2>1. ParseRange(lines) # None /\ RangeFits(Universal(text), ParseRange(lines))
    BY <1>3 DEF EditAllowed
  <2>2. lines \in Nat \X Nat /\ ParseRange(lines) = lines /\ lines # None
    BY <2>1, SelectorKinds
  <2> QED
    BY <1>3, <2>1, <2>2, RangeEdit
<1> QED
  BY <1>1, <1>2, <1>3

(* The lines that are kept are lines, *)
LEMMA KeptType ==
  ASSUME NEW t \in Seq(Tokens), NEW m \in Nat
  PROVE  KeptBefore(t, m) \in Seq(Seq(Tokens)) /\ KeptBehind(t, m) \in Seq(Seq(Tokens))
<1> PICK ls : ls = Lines(t)
  OBVIOUS
<1>1. ls \in Seq(Seq(Tokens))
  BY LinesOfText DEF WellLined
<1> PICK n \in Nat : n = Len(ls)
  BY <1>1, LenProperties
<1>2. \A i \in 1..n : ls[i] \in Seq(Tokens)
  BY <1>1, LenProperties
<1> PICK k \in 0..n : k = IF m < n THEN m ELSE n
  OBVIOUS
<1>3. \A i \in 1..k : ls[i] \in Seq(Tokens)
  BY <1>2
<1>4. SubSeq(ls, 1, k) \in Seq(Seq(Tokens))
  BY <1>3, SubSeqProperties
<1> PICK j \in Nat : j = m + 1
  OBVIOUS
<1>5. \A i \in j..n : ls[i] \in Seq(Tokens)
  BY <1>2
<1>6. SubSeq(ls, j, n) \in Seq(Seq(Tokens))
  BY <1>5, SubSeqProperties
<1> QED
  BY <1>4, <1>6 DEF KeptBefore, KeptBehind

(* so what an edit makes of a text is a text. *)
LEMMA EditedType ==
  ASSUME NEW text \in Seq(Tokens), NEW content \in Seq(Tokens), NEW action \in Actions,
         NEW lines \in LineSelectors, EditAllowed(text, action, lines), Universal(text) = text
  PROVE  /\ Edited(text, content, action, lines) \in Seq(Tokens)
         /\ action = "append" => IsPrefix(text, Edited(text, content, action, lines))
<1> PICK out : out = Edited(text, content, action, lines)
  OBVIOUS
<1>1. CASE action = "append"
  <2>1. out = Appended(Universal(text), content)
    BY <1>1 DEF Edited
  <2> QED
    BY <1>1, <2>1, AppendEdit
<1>2. CASE action = "replace" /\ lines = None
  BY <1>2 DEF Edited
<1>3. CASE action # "append" /\ ~(action = "replace" /\ lines = None)
  <2>1. ParseRange(lines) # None /\ RangeFits(text, ParseRange(lines))
    BY <1>3 DEF EditAllowed
  <2>2. lines \in Nat \X Nat /\ ParseRange(lines) = lines /\ lines # None
    BY <2>1, SelectorKinds
  <2> PICK s \in Nat : s = lines[1] - 1
    BY <2>1, <2>2 DEF RangeFits
  <2> PICK e \in Nat : e = lines[2]
    BY <2>2
  <2> PICK new \in Seq(Seq(Tokens)) : new = Lines(Ended(content))
    <3>1. Lines(Ended(content)) \in Seq(Seq(Tokens))
      BY EndedText DEF AllEnded, WellLined
    <3> QED
      BY <3>1
  <2>3. \/ \E x, y \in {s, e} : out = FlattenSeq(KeptBefore(text, x) \o new \o KeptBehind(text, y))
        \/ out = FlattenSeq(KeptBefore(text, s) \o KeptBehind(text, e))
    <3>1. action \in {"replace", "insert_before", "insert_after", "delete_lines"}
      BY <1>3 DEF Actions
    <3> QED
      BY <1>3, <2>2, <3>1 DEF Edited
  <2>4. \A a, b \in Seq(Seq(Tokens)) : a \o b \in Seq(Seq(Tokens))
    BY ConcatProperties
  <2>5. \A x \in {s, e} : KeptBefore(text, x) \in Seq(Seq(Tokens)) /\ KeptBehind(text, x) \in Seq(Seq(Tokens))
    BY KeptType
  <2>6. \A w \in Seq(Seq(Tokens)) : FlattenSeq(w) \in Seq(Tokens)
    BY FlattenType, LenProperties
  <2>7. ASSUME NEW x \in {s, e}, NEW y \in {s, e}
        PROVE  /\ KeptBefore(text, x) \o new \o KeptBehind(text, y) \in Seq(Seq(Tokens))
               /\ KeptBefore(text, x) \o KeptBehind(text, y) \in Seq(Seq(Tokens))
    BY <2>4, <2>5
  <2> QED
    BY <1>3, <2>3, <2>6, <2>7
<1> QED
  BY <1>1, <1>2, <1>3

(* An update writes one file, that it has found, and that has the checksum *)
(* that it was given.                                                      *)
LEMMA Updated ==
  ASSUME NEW t, IsTree(t), NEW p \in Seq(Names), NEW content \in Seq(Tokens), NEW action \in Actions,
         NEW lines \in LineSelectors, NEW checksum, NEW dry \in BOOLEAN
  PROVE  LET out == Update(t, p, content, action, lines, checksum, dry)
         IN  /\ IsTree(out.tree) /\ out.end \in Refusals \union {"done"} /\ Files(out.tree) = Files(t)
             /\ out.end # "done" \/ dry => out.tree = t
             /\ out.end = "done" => p \in Files(t) /\ (checksum = None \/ checksum = Universal(t[p]))
             /\ \A q \in Files(t) \ {p} : q \in Files(out.tree) /\ out.tree[q] = t[q]
             /\ out.end = "done" /\ ~dry => out.tree[p] \in Seq(Tokens) /\ p \in Files(out.tree)
             /\ out.end = "done" /\ ~dry /\ action = "append" => IsPrefix(Universal(t[p]), out.tree[p])
<1> PICK out : out = Update(t, p, content, action, lines, checksum, dry)
  OBVIOUS
<1>0. SameFiles(t, t)
  BY SameIsKept
<1>1. CASE out.tree = t /\ out.end \in Refusals
  BY <1>0, <1>1 DEF SameFiles, Refusals
<1>2. CASE ~(out.tree = t /\ out.end \in Refusals)
  <2>1. /\ IsFile(t, p) /\ ~Mismatch(t[p], checksum) /\ EditAllowed(Universal(t[p]), action, lines)
        /\ out = IF dry THEN Done(t) ELSE Done(Put(t, p, Edited(Universal(t[p]), content, action, lines)))
    BY <1>2 DEF Update, Fail, Refusals
  <2>2. p \in Files(t) /\ p # <<>> /\ IsDir(t, Front(p)) /\ ~IsDir(t, p) /\ t[p] \in Seq(Tokens)
    BY <2>1, NodeKinds DEF IsFile, Files
  <2>3. checksum = None \/ checksum = Universal(t[p])
    BY <2>1 DEF Mismatch
  <2> PICK text \in Seq(Tokens) : text = Universal(t[p])
    BY <2>2, UniversalText
  <2>4. Universal(text) = text
    BY <2>2, UniversalTwice
  <2> PICK new : new = Edited(text, content, action, lines)
    OBVIOUS
  <2>5. new \in Seq(Tokens) /\ (action = "append" => IsPrefix(text, new))
    BY <2>1, <2>4, EditedType
  <2>6. CASE dry
    <3>1. out.tree = t /\ out.end = "done"
      BY <2>1, <2>6 DEF Done
    <3> QED
      BY <1>0, <2>2, <2>3, <2>6, <3>1 DEF SameFiles
  <2>7. CASE ~dry
    <3> PICK w : w = Put(t, p, new)
      OBVIOUS
    <3>1. out.tree = w /\ out.end = "done"
      BY <2>1, <2>7 DEF Done
    <3>2. /\ IsTree(w) /\ DOMAIN w = DOMAIN t \union {p} /\ w[p] = new
          /\ \A q \in DOMAIN t \ {p} : w[q] = t[q]
      <4>1. \A x \in Seq(Tokens) :
              /\ IsTree(Put(t, p, x))
              /\ DOMAIN Put(t, p, x) = DOMAIN t \union {p} /\ Put(t, p, x)[p] = x
              /\ \A q \in DOMAIN t \ {p} : Put(t, p, x)[q] = t[q]
        BY ONLY IsTree(t), p \in Seq(Names), <2>2, FileIsPut, Zenon
      <4> QED
        BY <2>5, <4>1
    <3>3. \A q \in Files(t) \ {p} : q \in Files(w) /\ w[q] = t[q]
      BY <3>2 DEF Files
    <3>4. p \in Files(w)
      BY <2>5, <3>2, FilesystemAssumption DEF FilesystemAssumption, Files
    <3>5. Files(w) = Files(t)
      BY <2>2, <3>2, <3>3, <3>4 DEF Files
    <3> QED
      BY <2>2, <2>3, <2>5, <2>7, <3>1, <3>2, <3>3, <3>4, <3>5
  <2> QED
    BY <2>6, <2>7
<1> QED
  BY <1>1, <1>2

(* One that breaks off writes no other file either. *)
LEMMA UpdateEnds ==
  ASSUME NEW t, IsTree(t), NEW p \in Seq(Names), NEW content \in Seq(Tokens), NEW action \in Actions,
         NEW lines \in LineSelectors, NEW checksum, NEW dry \in BOOLEAN,
         NEW out \in UpdateOutcomes(t, p, content, action, lines, checksum, dry)
  PROVE  /\ IsTree(out.tree) /\ out.end \in Ends /\ Files(out.tree) = Files(t)
         /\ out.end \in Refusals \/ dry => out.tree = t
         /\ out.end \notin Refusals => p \in Files(t) /\ (checksum = None \/ checksum = Universal(t[p]))
         /\ \A q \in Files(t) \ {p} : q \in Files(out.tree) /\ out.tree[q] = t[q]
         /\ out.end = "done" /\ ~dry => out.tree[p] \in Seq(Tokens) /\ p \in Files(out.tree)
         /\ out.end = "done" /\ ~dry /\ action = "append" => IsPrefix(Universal(t[p]), out.tree[p])
<1> PICK whole : whole = Update(t, p, content, action, lines, checksum, dry)
  OBVIOUS
<1> PICK trees : trees = IF dry THEN {} ELSE {t} \union Shortened(whole.tree, p)
  OBVIOUS
<1>1. /\ IsTree(whole.tree) /\ whole.end \in Refusals \union {"done"} /\ Files(whole.tree) = Files(t)
      /\ whole.end # "done" \/ dry => whole.tree = t
      /\ whole.end = "done" => p \in Files(t) /\ (checksum = None \/ checksum = Universal(t[p]))
      /\ \A q \in Files(t) \ {p} : q \in Files(whole.tree) /\ whole.tree[q] = t[q]
      /\ whole.end = "done" /\ ~dry => whole.tree[p] \in Seq(Tokens) /\ p \in Files(whole.tree)
      /\ whole.end = "done" /\ ~dry /\ action = "append" => IsPrefix(Universal(t[p]), whole.tree[p])
  BY Updated
<1>2. out \in Outcomes(whole, trees)
  BY DEF UpdateOutcomes
<1>3. out = whole \/ (whole.end \in {"done", "io"} /\ out.end = "io" /\ out.tree \in trees)
  BY <1>2, EitherEnd
<1>4. CASE out = whole
  BY <1>1, <1>4 DEF Ends, Refusals
<1>5. CASE whole.end \in {"done", "io"} /\ out.end = "io" /\ out.tree \in trees
  <2>1. whole.end = "done" /\ ~dry /\ (out.tree = t \/ out.tree \in Shortened(whole.tree, p))
    BY <1>1, <1>5 DEF Refusals
  <2>2. CASE out.tree = t
    BY <1>1, <1>5, <2>1, <2>2 DEF Ends, Refusals
  <2>3. CASE out.tree \in Shortened(whole.tree, p)
    <3> PICK w : w = whole.tree
      OBVIOUS
    <3>1. /\ IsTree(out.tree) /\ DOMAIN out.tree = DOMAIN w /\ Files(out.tree) = Files(w)
          /\ \A q \in DOMAIN w : ~IsPrefix(p, q) => out.tree[q] = w[q]
      BY <1>1, <2>3, ShortenedTree
    <3>2. Below(w, p) = {p}
      <4>1. IsTree(w) /\ IsFile(w, p)
        BY <1>1, <2>1 DEF Files, IsFile
      <4> QED
        BY <4>1, NothingBelow
    <3>3. \A q \in Files(t) \ {p} : q \in Files(out.tree) /\ out.tree[q] = t[q]
      BY <1>1, <3>1, <3>2 DEF Below, Files
    <3> QED
      BY <1>1, <1>5, <2>1, <3>1, <3>3 DEF Ends, Refusals
  <2> QED
    BY <2>1, <2>2, <2>3
<1> QED
  BY <1>3, <1>4, <1>5

-------------------------------------------------------------------------------
(* The steps.                                                              *)

View == [path : Seq(Names), text : Seq(Tokens)]

(* What an agent asks for, by names, is below fs_root. *)
LEMMA RealName ==
  ASSUME NEW a \in Agents, NEW vp \in Seq(Names), Reachable(a, vp)
  PROVE  Real(a, vp) \in Seq(Names) /\ Real(a, vp) # <<>>
<1>1. vp # <<>> /\ Head(vp) \in MountNames /\ ScopedRoot(a, Head(vp)) # None
  BY DEF Reachable, InMount
<1>2. ScopedRoot(a, Head(vp)) \in Seq(Names) /\ ScopedRoot(a, Head(vp)) # <<>>
  <2>1. CASE Head(vp) = Workspace
    BY <1>1, <2>1, RequestsAssumption DEF RequestsAssumption, ScopedRoot
  <2>2. CASE Head(vp) # Workspace
    <3>1. UserOf[a] \in Names /\ Head(vp) \in Names
      BY <1>1, <2>2, RequestsAssumption DEF RequestsAssumption, ScopedRoot, MountNames
    <3>2. ScopedRoot(a, Head(vp)) = <<UserOf[a], Head(vp)>>
      BY <1>1, <2>2 DEF ScopedRoot
    <3>3. \A x, y \in Names : <<x, y>> \in Seq(Names) /\ <<x, y>> # <<>>
      OBVIOUS
    <3> QED
      BY <3>1, <3>2, <3>3
  <2> QED
    BY <2>1, <2>2
<1>3. Tail(vp) \in Seq(Names)
  BY <1>1, HeadTailProperties
<1> PICK r \in Seq(Names) : r = ScopedRoot(a, Head(vp))
  BY <1>2
<1> PICK u \in Seq(Names) : u = Tail(vp)
  BY <1>3
<1>4. r \o u \in Seq(Names)
  BY ConcatProperties
<1>5. r \o u # <<>>
  <2>1. \A x, y \in Seq(Names) : x \o y = <<>> => x = <<>>
    BY ConcatEqualIffEmpty
  <2> QED
    BY <1>2, <2>1
<1> QED
  BY <1>4, <1>5 DEF Real

(* So is what it tries. *)
LEMMA RealPath ==
  ASSUME NEW a \in Agents, NEW vp \in Paths[a] \union Targets[a], Reachable(a, vp)
  PROVE  Real(a, vp) \in Seq(Names) /\ Real(a, vp) # <<>>
<1>1. vp \in Seq(Names)
  BY RequestsAssumption DEF RequestsAssumption
<1> QED
  BY <1>1, RealName

LosesNothing(a, op, end, t) ==
  op \in {"create", "copy", "mkdir", "checked"} \/ (op = "append" /\ end # "io") =>
    \A p \in Files(tree) :
      \/ p \in Files(t) /\ t[p] = tree[p]
      \/ op = "append" /\ p \in Files(t) /\ IsPrefix(Universal(tree[p]), t[p])
      \/ op = "checked" /\ view[a].path = p /\ Universal(view[a].text) = Universal(tree[p])

ChangesNoFile(op, end, t) ==
  /\ (end \in Refusals /\ op # "overwrite") \/ op = "dryRun" => SameFiles(tree, t)
  /\ end = "io" /\ op \in {"create", "copy"} => KeepsFiles(tree, t)
  /\ end = "io" /\ op \in {"checked", "append", "blind"} =>
       /\ Files(t) = Files(tree)
       /\ \A p, q \in Files(tree) : (p \in Files(t) /\ t[p] = tree[p]) \/ (q \in Files(t) /\ t[q] = tree[q]) \/ p = q

GoodStep ==
  /\ TypeOK'
  /\ reply'.op \in {"create", "copy", "mkdir", "checked"} \/ (reply'.op = "append" /\ reply'.end # "io") =>
       \A p \in Files(tree) :
         LET seen == view[reply'.by] IN
         \/ p \in Files(tree') /\ tree'[p] = tree[p]
         \/ reply'.op = "append" /\ p \in Files(tree') /\ IsPrefix(Universal(tree[p]), tree'[p])
         \/ reply'.op = "checked" /\ seen.path = p /\ Universal(seen.text) = Universal(tree[p])
  /\ LET kept(p) == p \in Files(tree') /\ tree'[p] = tree[p] IN
     /\ (reply'.end \in {"refused", "mismatch", "os"} /\ reply'.op # "overwrite") \/ reply'.op = "dryRun" =>
          Files(tree') = Files(tree) /\ \A p \in Files(tree) : kept(p)
     /\ reply'.end = "io" /\ reply'.op \in {"create", "copy"} => \A p \in Files(tree) : kept(p)
     /\ reply'.end = "io" /\ reply'.op \in {"checked", "append", "blind"} =>
          Files(tree') = Files(tree) /\ \A p, q \in Files(tree) : kept(p) \/ kept(q) \/ p = q

(* What makes an answer a good step. *)
LEMMA GoodAnswer ==
  ASSUME NEW a \in Agents, NEW op \in Operations, NEW out, Answer(a, op, out),
         IsTree(out.tree), out.end \in Ends, view' \in [Agents -> View],
         LosesNothing(a, op, out.end, out.tree), ChangesNoFile(op, out.end, out.tree)
  PROVE  GoodStep
<1>1. tree' = out.tree /\ reply' = [by |-> a, op |-> op, end |-> out.end]
  BY DEF Answer
<1>2. TypeOK'
  <2>1. out.end \in {"done", "refused", "mismatch", "os", "io"}
    BY DEF Ends, Refusals
  <2> QED
    BY <1>1, <2>1, Zenon DEF TypeOK, View
<1>3. LosesNothing(reply'.by, reply'.op, reply'.end, tree') /\ ChangesNoFile(reply'.op, reply'.end, tree')
  BY <1>1
<1> QED
  BY <1>2, <1>3, Zenon DEF GoodStep, LosesNothing, ChangesNoFile, SameFiles, KeepsFiles, Refusals

(* What an agent learns is a path and a text. *)
LEMMA Learned ==
  ASSUME TypeOK, NEW a, NEW p \in Seq(Names), NEW known \in BOOLEAN, Learn(a, p, known),
         known => tree'[p] \in Seq(Tokens)
  PROVE  view' \in [Agents -> View]
<1>1. view \in [Agents -> View]
  BY DEF TypeOK, View
<1>2. CASE known
  <2>1. [path |-> p, text |-> tree'[p]] \in View
    BY <1>2 DEF View
  <2>2. view' = [view EXCEPT ![a] = [path |-> p, text |-> tree'[p]]]
    BY <1>2 DEF Learn
  <2> QED
    BY <1>1, <2>1, <2>2
<1>3. CASE ~known
  BY <1>1, <1>3 DEF Learn
<1> QED
  BY <1>2, <1>3

(* Each operation is a good step. *)
LEMMA DenyStep ==
  ASSUME TypeOK, NEW a \in Agents, Deny(a)
  PROVE  GoodStep
<1>1. reply' = [by |-> a, op |-> "denied", end |-> "refused"] /\ tree' = tree /\ view' = view
  BY DEF Deny
<1>2. TypeOK'
  BY <1>1 DEF TypeOK, Operations
<1> QED
  BY <1>1, <1>2 DEF GoodStep

(* A read or a stat leaves everything as it is. *)
LEMMA LookStep ==
  ASSUME TypeOK, NEW a \in Agents, ReadFile(a) \/ StatPath(a)
  PROVE  GoodStep
<1>t. IsTree(tree) /\ SameFiles(tree, tree)
  BY SameIsKept DEF TypeOK
<1>1. PICK vp \in Paths[a], op \in {"read", "stat"}, ok \in BOOLEAN, known \in BOOLEAN :
        /\ Authorized(a, vp) /\ Answer(a, op, IF ok THEN Done(tree) ELSE Fail(tree, "refused"))
        /\ Learn(a, Real(a, vp), known) /\ (known => IsFile(tree, Real(a, vp)))
  <2>1. CASE ReadFile(a)
    <3> PICK vp \in Paths[a] :
          LET p    == Real(a, vp)
              fits == IsFile(tree, p) /\ Len(tree[p]) <= MaxFileSize
          IN  /\ Authorized(a, vp)
              /\ Answer(a, "read", IF fits THEN Done(tree) ELSE Fail(tree, "refused"))
              /\ Learn(a, p, fits)
      BY <2>1 DEF ReadFile
    <3> PICK fits \in BOOLEAN : fits = (IsFile(tree, Real(a, vp)) /\ Len(tree[Real(a, vp)]) <= MaxFileSize)
      OBVIOUS
    <3>1. /\ Authorized(a, vp) /\ Answer(a, "read", IF fits THEN Done(tree) ELSE Fail(tree, "refused"))
          /\ Learn(a, Real(a, vp), fits) /\ (fits => IsFile(tree, Real(a, vp)))
      BY Zenon
    <3> QED
      BY <3>1
  <2>2. CASE StatPath(a)
    <3> PICK vp \in Paths[a] :
          LET p == Real(a, vp)
          IN  /\ Authorized(a, vp)
              /\ Answer(a, "stat", IF Exists(tree, p) THEN Done(tree) ELSE Fail(tree, "refused"))
              /\ Learn(a, p, IsFile(tree, p))
      BY <2>2 DEF StatPath
    <3> PICK ok \in BOOLEAN : ok = Exists(tree, Real(a, vp))
      BY DEF Exists
    <3> PICK known \in BOOLEAN : known = IsFile(tree, Real(a, vp))
      BY DEF IsFile
    <3>1. /\ Authorized(a, vp) /\ Answer(a, "stat", IF ok THEN Done(tree) ELSE Fail(tree, "refused"))
          /\ Learn(a, Real(a, vp), known) /\ (known => IsFile(tree, Real(a, vp)))
      BY Zenon
    <3> QED
      BY <3>1
  <2> QED
    BY <2>1, <2>2
<1> PICK p : p = Real(a, vp)
  OBVIOUS
<1> PICK out : out = IF ok THEN Done(tree) ELSE Fail(tree, "refused")
  OBVIOUS
<1>2. p \in Seq(Names)
  BY <1>1, RealPath DEF Authorized
<1>3. out.tree = tree /\ out.end \in {"done", "refused"} /\ out.end \in Ends
  BY DEF Done, Fail, Ends, Refusals
<1>4. tree' = tree
  BY <1>1, <1>3 DEF Answer
<1>5. view' \in [Agents -> View]
  <2>1. known => tree'[p] \in Seq(Tokens)
    BY <1>1, <1>4, <1>t, NodeKinds DEF IsFile
  <2> QED
    BY <1>1, <1>2, <2>1, Learned
<1>6. op \in Operations /\ LosesNothing(a, op, out.end, out.tree) /\ ChangesNoFile(op, out.end, out.tree)
  BY <1>1, <1>3, <1>t DEF Operations, LosesNothing, ChangesNoFile
<1> QED
  BY <1>1, <1>3, <1>5, <1>6, <1>t, GoodAnswer

(* A create writes where nothing was. *)
LEMMA CreateStep ==
  ASSUME TypeOK, NEW a \in Agents, CreateFile(a)
  PROVE  GoodStep
<1>t. IsTree(tree)
  BY DEF TypeOK
<1>1. PICK vp \in Paths[a], content \in Inputs, dirs \in BOOLEAN, dry \in BOOLEAN :
        /\ Authorized(a, vp)
        /\ \E out \in CreateOutcomes(tree, Real(a, vp), content, dirs, dry) :
             /\ Answer(a, IF dry THEN "dryRun" ELSE "create", out)
             /\ Learn(a, Real(a, vp), out.end = "done" /\ ~dry)
  BY DEF CreateFile
<1> PICK p : p = Real(a, vp)
  OBVIOUS
<1> PICK t : t = tree
  OBVIOUS
<1> PICK op : op = IF dry THEN "dryRun" ELSE "create"
  OBVIOUS
<1> PICK out \in CreateOutcomes(t, p, content, dirs, dry) :
      Answer(a, op, out) /\ Learn(a, p, out.end = "done" /\ ~dry)
  BY <1>1
<1>2. p \in Seq(Names) /\ content \in Seq(Tokens)
  BY <1>1, RealPath, RequestsAssumption DEF RequestsAssumption, Authorized
<1>3. /\ IsTree(out.tree) /\ out.end \in Ends /\ KeepsFiles(t, out.tree)
      /\ out.end \in Refusals \/ dry => SameFiles(t, out.tree)
      /\ out.end = "done" /\ ~dry => out.tree[p] \in Seq(Tokens)
  BY <1>2, <1>t, CreateEnds
<1>4. Answer(a, op, out) /\ Learn(a, p, out.end = "done" /\ ~dry) /\ tree' = out.tree
  BY <1>1 DEF Answer
<1>5. view' \in [Agents -> View]
  <2> PICK known \in BOOLEAN : known = (out.end = "done" /\ ~dry)
    OBVIOUS
  <2>1. known => tree'[p] \in Seq(Tokens)
    BY <1>3, <1>4
  <2> QED
    BY <1>2, <1>4, <2>1, Learned
<1>6. op \in Operations /\ LosesNothing(a, op, out.end, out.tree) /\ ChangesNoFile(op, out.end, out.tree)
  BY <1>3 DEF Operations, LosesNothing, ChangesNoFile, KeepsFiles
<1> QED
  BY <1>3, <1>4, <1>5, <1>6, GoodAnswer

(* An update writes what the agent knows, or what it is told to. *)
LEMMA UpdateStep ==
  ASSUME TypeOK, NEW a \in Agents, UpdateFile(a)
  PROVE  GoodStep
<1>t. IsTree(tree) /\ view[a].text \in Seq(Tokens)
  BY DEF TypeOK
<1>1. PICK vp \in Paths[a], e \in Edits, checked \in BOOLEAN, dry \in BOOLEAN :
        LET p        == Real(a, vp)
            checksum == IF checked THEN view[a].text ELSE None
        IN  /\ Authorized(a, vp) /\ (checked => view[a].path = p)
            /\ \E out \in UpdateOutcomes(tree, p, e.content, e.action, e.lines, checksum, dry) :
                 /\ Answer(a, IF dry THEN "dryRun" ELSE IF checked THEN "checked"
                              ELSE IF e.action = "append" THEN "append" ELSE "blind", out)
                 /\ Learn(a, p, out.end = "done" /\ ~dry)
  BY DEF UpdateFile
<1> PICK p : p = Real(a, vp)
  OBVIOUS
<1> PICK t : t = tree
  OBVIOUS
<1> PICK content : content = e.content
  OBVIOUS
<1> PICK action : action = e.action
  OBVIOUS
<1> PICK lines : lines = e.lines
  OBVIOUS
<1> PICK checksum : checksum = IF checked THEN view[a].text ELSE None
  OBVIOUS
<1> PICK op : op = IF dry THEN "dryRun" ELSE IF checked THEN "checked" ELSE IF action = "append" THEN "append" ELSE "blind"
  OBVIOUS
<1> PICK out \in UpdateOutcomes(t, p, content, action, lines, checksum, dry) :
      Answer(a, op, out) /\ Learn(a, p, out.end = "done" /\ ~dry)
  BY <1>1
<1>2. p \in Seq(Names) /\ content \in Seq(Tokens) /\ action \in Actions /\ lines \in LineSelectors
  BY <1>1, RealPath, RequestsAssumption DEF RequestsAssumption, LineSelectors, Authorized
<1>3. /\ IsTree(out.tree) /\ out.end \in Ends /\ Files(out.tree) = Files(t)
      /\ out.end \in Refusals \/ dry => out.tree = t
      /\ out.end \notin Refusals => p \in Files(t) /\ (checksum = None \/ checksum = Universal(t[p]))
      /\ \A q \in Files(t) \ {p} : q \in Files(out.tree) /\ out.tree[q] = t[q]
      /\ out.end = "done" /\ ~dry => out.tree[p] \in Seq(Tokens) /\ p \in Files(out.tree)
      /\ out.end = "done" /\ ~dry /\ action = "append" => IsPrefix(Universal(t[p]), out.tree[p])
  BY <1>2, <1>t, UpdateEnds
<1>4. /\ Answer(a, op, out) /\ Learn(a, p, out.end = "done" /\ ~dry) /\ tree' = out.tree
      /\ checked => view[a].path = p
  BY <1>1 DEF Answer
<1>5. view' \in [Agents -> View]
  <2> PICK known \in BOOLEAN : known = (out.end = "done" /\ ~dry)
    OBVIOUS
  <2>1. known => tree'[p] \in Seq(Tokens)
    BY <1>3, <1>4
  <2> QED
    BY <1>2, <1>4, <2>1, Learned
<1>6. op \in Operations
  BY DEF Operations
<1>7. SameFiles(t, t)
  BY SameIsKept
<1>8. ChangesNoFile(op, out.end, out.tree)
  <2>1. out.end \in Refusals \/ op = "dryRun" => SameFiles(t, out.tree)
    BY <1>3, <1>7
  <2>2. op \notin {"create", "copy"}
    OBVIOUS
  <2>3. \A q, r \in Files(t) :
          (q \in Files(out.tree) /\ out.tree[q] = t[q]) \/ (r \in Files(out.tree) /\ out.tree[r] = t[r]) \/ q = r
    BY <1>3
  <2> QED
    BY <1>3, <2>1, <2>2, <2>3 DEF ChangesNoFile
<1>9. LosesNothing(a, op, out.end, out.tree)
  <2> SUFFICES ASSUME op \in {"create", "copy", "mkdir", "checked"} \/ (op = "append" /\ out.end # "io"),
                      NEW q \in Files(t)
               PROVE  \/ q \in Files(out.tree) /\ out.tree[q] = t[q]
                      \/ op = "append" /\ q \in Files(out.tree) /\ IsPrefix(Universal(t[q]), out.tree[q])
                      \/ op = "checked" /\ view[a].path = q /\ Universal(view[a].text) = Universal(t[q])
    BY DEF LosesNothing
  <2>1. CASE q # p \/ out.end \in Refusals
    <3>1. q # p => q \in Files(out.tree) /\ out.tree[q] = t[q]
      BY <1>3
    <3>2. out.end \in Refusals => q \in Files(out.tree) /\ out.tree[q] = t[q]
      BY <1>3
    <3> QED
      BY <2>1, <3>1, <3>2
  <2>2. CASE q = p /\ out.end \notin Refusals /\ op = "append"
    <3>1. out.end = "done" /\ ~dry /\ action = "append"
      BY <1>3, <2>2 DEF Ends, Refusals
    <3> QED
      BY <1>3, <2>2, <3>1
  <2>3. CASE q = p /\ out.end \notin Refusals /\ op = "checked"
    <3>1. checked /\ checksum = view[a].text
      BY <2>3
    <3>2. checksum # None
      BY <1>t, <3>1, FilesystemAssumption DEF FilesystemAssumption
    <3>3. view[a].text = Universal(t[q]) /\ view[a].path = q
      BY <1>3, <1>4, <2>3, <3>1, <3>2
    <3>4. t[q] \in Seq(Tokens)
      BY <1>t, NodeKinds DEF Files, IsFile
    <3>5. Universal(view[a].text) = Universal(t[q])
      BY <3>3, <3>4, UniversalTwice
    <3> QED
      BY <2>3, <3>3, <3>5
  <2>4. op \notin {"create", "copy", "mkdir"}
    OBVIOUS
  <2> QED
    BY <2>1, <2>2, <2>3, <2>4
<1> QED
  BY <1>3, <1>4, <1>5, <1>6, <1>8, <1>9, GoodAnswer

(* A mkdir, *)
LEMMA MakeDirectoryStep ==
  ASSUME TypeOK, NEW a \in Agents, MakeDirectory(a)
  PROVE  GoodStep
<1>1. PICK vp \in Paths[a], recursive \in BOOLEAN :
        Reachable(a, vp) /\ Answer(a, "mkdir", Mkdir(tree, Real(a, vp), recursive)) /\ view' = view
  BY DEF MakeDirectory, Authorized
<1> PICK p : p = Real(a, vp)
  OBVIOUS
<1> PICK t : t = tree
  OBVIOUS
<1> PICK out : out = Mkdir(t, p, recursive)
  OBVIOUS
<1>2. p \in Seq(Names) /\ IsTree(t) /\ view' \in [Agents -> View]
  BY <1>1, RealPath DEF TypeOK, View
<1>3. IsTree(out.tree) /\ out.end \in Ends /\ SameFiles(t, out.tree)
  BY <1>2, DirectoryMade
<1>4. "mkdir" \in Operations /\ LosesNothing(a, "mkdir", out.end, out.tree) /\ ChangesNoFile("mkdir", out.end, out.tree)
  BY <1>3 DEF Operations, LosesNothing, ChangesNoFile, SameFiles
<1> QED
  BY <1>1, <1>2, <1>3, <1>4, GoodAnswer

(* a delete, *)
LEMMA DeleteStep ==
  ASSUME TypeOK, NEW a \in Agents, DeletePath(a)
  PROVE  GoodStep
<1>1. PICK vp \in Paths[a], recursive \in BOOLEAN, force \in BOOLEAN :
        /\ Reachable(a, vp) /\ view' = view
        /\ \E out \in DeleteOutcomes(tree, Real(a, vp), Len(vp) = 1, recursive, force) : Answer(a, "delete", out)
  BY DEF DeletePath, Authorized
<1> PICK p : p = Real(a, vp)
  OBVIOUS
<1> PICK t : t = tree
  OBVIOUS
<1> PICK isRoot \in BOOLEAN : isRoot = (Len(vp) = 1)
  OBVIOUS
<1> PICK out \in DeleteOutcomes(t, p, isRoot, recursive, force) : Answer(a, "delete", out)
  BY <1>1
<1>2. p \in Seq(Names) /\ IsTree(t) /\ view' \in [Agents -> View]
  BY <1>1, RealPath DEF TypeOK, View
<1>3. IsTree(out.tree) /\ out.end \in Ends /\ (out.end \in Refusals => SameFiles(t, out.tree))
  BY ONLY <1>2, isRoot \in BOOLEAN, recursive \in BOOLEAN, force \in BOOLEAN,
          out \in DeleteOutcomes(t, p, isRoot, recursive, force), DeleteEnds
<1>4. "delete" \in Operations /\ LosesNothing(a, "delete", out.end, out.tree) /\ ChangesNoFile("delete", out.end, out.tree)
  BY <1>3 DEF Operations, LosesNothing, ChangesNoFile
<1>5. Answer(a, "delete", out)
  OBVIOUS
<1> QED
  BY <1>2, <1>3, <1>4, <1>5, GoodAnswer

(* a move, *)
LEMMA MoveStep ==
  ASSUME TypeOK, NEW a \in Agents, MovePath(a)
  PROVE  GoodStep
<1>1. PICK vp \in Paths[a], target \in Targets[a] :
        /\ Reachable(a, vp) /\ Reachable(a, target) /\ view' = view
        /\ Answer(a, "move", Move(tree, Real(a, vp), Real(a, target)))
  BY DEF MovePath, Authorized
<1> PICK src : src = Real(a, vp)
  OBVIOUS
<1> PICK dst : dst = Real(a, target)
  OBVIOUS
<1> PICK t : t = tree
  OBVIOUS
<1> PICK out : out = Move(t, src, dst)
  OBVIOUS
<1>2. src \in Seq(Names) /\ src # <<>> /\ dst \in Seq(Names) /\ IsTree(t) /\ view' \in [Agents -> View]
  BY <1>1, RealPath DEF TypeOK, View
<1>3. IsTree(out.tree) /\ out.end \in Ends /\ (out.end # "done" => SameFiles(t, out.tree))
  BY ONLY <1>2, out = Move(t, src, dst), MovedAway
<1>4. "move" \in Operations /\ LosesNothing(a, "move", out.end, out.tree) /\ ChangesNoFile("move", out.end, out.tree)
  BY <1>3 DEF Operations, LosesNothing, ChangesNoFile, Refusals
<1>5. Answer(a, "move", out)
  BY <1>1
<1> QED
  BY <1>2, <1>3, <1>4, <1>5, GoodAnswer

(* and a copy. *)
LEMMA CopyStep ==
  ASSUME TypeOK, NEW a \in Agents, CopyPath(a)
  PROVE  GoodStep
<1>1. PICK vp \in Paths[a], target \in Targets[a], recursive \in BOOLEAN, force \in BOOLEAN :
        /\ Reachable(a, vp) /\ Reachable(a, target) /\ view' = view
        /\ \E out \in CopyOutcomes(tree, Real(a, vp), Real(a, target), recursive, force) :
             Answer(a, IF force THEN "overwrite" ELSE "copy", out)
  BY DEF CopyPath, Authorized
<1> PICK src : src = Real(a, vp)
  OBVIOUS
<1> PICK dst : dst = Real(a, target)
  OBVIOUS
<1> PICK t : t = tree
  OBVIOUS
<1> PICK op : op = IF force THEN "overwrite" ELSE "copy"
  OBVIOUS
<1> PICK out \in CopyOutcomes(t, src, dst, recursive, force) : Answer(a, op, out)
  BY <1>1
<1>2. src \in Seq(Names) /\ src # <<>> /\ dst \in Seq(Names) /\ dst # <<>> /\ IsTree(t) /\ view' \in [Agents -> View]
  BY <1>1, RealPath DEF TypeOK, View
<1>3. /\ IsTree(out.tree) /\ out.end \in Ends
      /\ ~force => KeepsFiles(t, out.tree)
      /\ ~force /\ out.end \in Refusals => SameFiles(t, out.tree)
  BY ONLY <1>2, recursive \in BOOLEAN, force \in BOOLEAN,
          out \in CopyOutcomes(t, src, dst, recursive, force), CopyEnds
<1>4. op \in Operations /\ LosesNothing(a, op, out.end, out.tree) /\ ChangesNoFile(op, out.end, out.tree)
  BY <1>3 DEF Operations, LosesNothing, ChangesNoFile, KeepsFiles
<1>5. Answer(a, op, out)
  OBVIOUS
<1> QED
  BY <1>2, <1>3, <1>4, <1>5, GoodAnswer

(* So is every step. *)
LEMMA EveryStep ==
  ASSUME TypeOK, Next
  PROVE  GoodStep
<1> PICK a \in Agents :
      \/ Deny(a) \/ ReadFile(a) \/ StatPath(a) \/ CreateFile(a) \/ UpdateFile(a)
      \/ MakeDirectory(a) \/ DeletePath(a) \/ MovePath(a) \/ CopyPath(a)
  BY DEF Next
<1>1. CASE Deny(a)
  BY <1>1, DenyStep
<1>2. CASE ReadFile(a) \/ StatPath(a)
  BY <1>2, LookStep
<1>3. CASE CreateFile(a)
  BY <1>3, CreateStep
<1>4. CASE UpdateFile(a)
  BY <1>4, UpdateStep
<1>5. CASE MakeDirectory(a)
  BY <1>5, MakeDirectoryStep
<1>6. CASE DeletePath(a)
  BY <1>6, DeleteStep
<1>7. CASE MovePath(a)
  BY <1>7, MoveStep
<1>8. CASE CopyPath(a)
  BY <1>8, CopyStep
<1> QED
  BY <1>1, <1>2, <1>3, <1>4, <1>5, <1>6, <1>7, <1>8

(* The disk has a tree at the start. *)
LEMMA StartsAsTree ==
  ASSUME Init
  PROVE  TypeOK
<1>1. \A p \in DOMAIN StartTree :
        /\ p \in Seq(Names) /\ p # <<>> /\ StartTree[p] \in Node
        /\ Len(p) > 1 => Front(p) \in DOMAIN StartTree /\ StartTree[Front(p)] = Dir
  BY RequestsAssumption DEF RequestsAssumption, Node
<1>2. ASSUME NEW p \in DOMAIN StartTree PROVE IsDir(StartTree, Parent(p))
  <2>1. p \in Seq(Names) /\ p # <<>>
    BY <1>1
  <2>2. Len(p) \in Nat /\ Len(p) # 0 /\ Front(p) \in Seq(Names) /\ Len(Front(p)) = Len(p) - 1
    BY <2>1, FrontParts
  <2>3. CASE Len(p) = 1
    <3>1. Len(Front(p)) = 0
      BY <2>2, <2>3
    <3>2. Front(p) = <<>>
      BY <2>2, <3>1, EmptySeq
    <3> QED
      BY <3>2 DEF IsDir, Parent
  <2>4. CASE Len(p) # 1
    BY <1>1, <2>2, <2>4 DEF IsDir, Parent
  <2> QED
    BY <2>3, <2>4
<1>3. IsTree(StartTree)
  BY <1>1, <1>2 DEF IsTree, Node
<1>4. StartView \in [Agents -> View]
  BY RequestsAssumption DEF RequestsAssumption, View
<1>5. view \in [Agents -> View]
  BY <1>4 DEF Init
<1>6. reply.by = None /\ reply.op = "none" /\ reply.end = "done" /\ tree = StartTree
  BY DEF Init, NoReply
<1> QED
  BY <1>3, <1>5, <1>6 DEF TypeOK, View, Operations

-------------------------------------------------------------------------------
(* Lists of sets.                                                          *)

(* A sequence without repetition, and one that has a set's elements.       *)
Distinct(s) == \A i, j \in 1..Len(s) : s[i] = s[j] => i = j
Lists(s, A) == s \in Seq(A) /\ Distinct(s) /\ \A x \in A : \E i \in 1..Len(s) : s[i] = x

(* A list of one set behind a list of another. *)
LEMMA DistinctJoin ==
  ASSUME NEW R, NEW A \in SUBSET R, NEW B \in SUBSET R, A \cap B = {},
         NEW s \in Seq(A), Distinct(s), NEW t \in Seq(B), Distinct(t)
  PROVE  /\ s \o t \in Seq(A \union B) /\ Distinct(s \o t)
         /\ Lists(s, A) /\ Lists(t, B) => Lists(s \o t, A \union B)
<1> DEFINE C == A \union B
<1>1. s \in Seq(C) /\ t \in Seq(C)
  <2>1. \A S, T : \A u \in Seq(S) : S \subseteq T => u \in Seq(T)
    OBVIOUS
  <2> QED
    BY <2>1
<1>2. /\ Len(s) \in Nat /\ Len(t) \in Nat
      /\ \A i \in 1..Len(s) : s[i] \in A
      /\ \A i \in 1..Len(t) : t[i] \in B
  BY LenProperties
<1> PICK u \in Seq(C) : u = s \o t
  BY <1>1, ConcatProperties
<1> PICK m \in Nat, n \in Nat : m = Len(s) /\ n = Len(t)
  BY <1>2
<1>3. Len(u) = m + n /\ (\A i \in 1..m : u[i] = s[i]) /\ \A i \in 1..n : u[m + i] = t[i]
  BY ONLY s \in Seq(C), t \in Seq(C), u = s \o t, m = Len(s), n = Len(t), <1>1, JoinShape
<1>4. \A i \in 1..m + n : (i <= m /\ i \in 1..m) \/ (m < i /\ i - m \in 1..n /\ i = m + (i - m))
  OBVIOUS
<1>5. \A i \in 1..m + n : /\ i <= m => u[i] = s[i] /\ u[i] \in A
                          /\ m < i => u[i] = t[i - m] /\ u[i] \in B
  BY <1>2, <1>3, <1>4
<1>6. Distinct(u)
  <2> SUFFICES ASSUME NEW i \in 1..m + n, NEW j \in 1..m + n, u[i] = u[j] PROVE i = j
    BY <1>3 DEF Distinct
  <2>1. CASE i <= m /\ j <= m
    BY <1>4, <1>5, <2>1 DEF Distinct
  <2>2. CASE m < i /\ m < j
    <3>1. i - m \in 1..n /\ j - m \in 1..n /\ t[i - m] = t[j - m]
      BY <1>4, <1>5, <2>2
    <3>2. i - m = j - m
      BY <3>1 DEF Distinct
    <3> QED
      BY <3>2
  <2>3. CASE ~(i <= m <=> j <= m)
    BY <1>5, <2>3
  <2> QED
    BY <2>1, <2>2, <2>3
<1>7. ASSUME Lists(s, A), Lists(t, B), NEW x \in C PROVE \E i \in 1..Len(u) : u[i] = x
  <2>1. CASE x \in A
    <3>1. PICK i \in 1..m : s[i] = x
      BY <1>7, <2>1 DEF Lists
    <3> QED
      BY <1>3, <3>1
  <2>2. CASE x \in B
    <3>1. PICK i \in 1..n : t[i] = x
      BY <1>7, <2>2 DEF Lists
    <3>2. m + i \in 1..m + n /\ u[m + i] = x
      BY <1>3, <3>1
    <3> QED
      BY <1>3, <3>2
  <2> QED
    BY <2>1, <2>2
<1> QED
  BY <1>6, <1>7 DEF Lists

(* A list of one element. *)
LEMMA ListOne ==
  ASSUME NEW x
  PROVE  Lists(<<x>>, {x})
<1>1. <<x>> \in Seq({x}) /\ Len(<<x>>) = 1 /\ <<x>>[1] = x
  OBVIOUS
<1> QED
  BY <1>1 DEF Lists, Distinct

(* A list of nothing. *)
LEMMA ListNone ==
  /\ Lists(<<>>, {})
  /\ \A s : Lists(s, {}) => s = <<>>
<1>1. <<>> \in Seq({}) /\ Len(<<>>) = 0
  BY EmptySeq
<1>2. ASSUME NEW s, Lists(s, {}) PROVE s = <<>>
  <2>1. s \in Seq({}) /\ Len(s) \in Nat /\ \A i \in 1..Len(s) : s[i] \in {}
    BY <1>2, LenProperties DEF Lists
  <2>2. Len(s) = 0
    BY <2>1
  <2> QED
    BY <2>1, <2>2, EmptySeq
<1> QED
  BY <1>1, <1>2 DEF Lists, Distinct

(* One element more. *)
LEMMA ListMore ==
  ASSUME NEW R, NEW A \in SUBSET R, NEW x \in R \ A, NEW s \in Seq(A), Distinct(s)
  PROVE  /\ Append(s, x) \in Seq(A \union {x}) /\ Distinct(Append(s, x))
         /\ Lists(s, A) => Lists(Append(s, x), A \union {x})
<1>1. Lists(<<x>>, {x}) /\ <<x>> \in Seq({x}) /\ Distinct(<<x>>)
  BY ListOne DEF Lists
<1>2. Append(s, x) = s \o <<x>>
  <2>1. s \in Seq(R)
    OBVIOUS
  <2> QED
    BY <2>1, AppendIsConcat
<1>3. \A B \in SUBSET R : \A t \in Seq(B) : A \cap B = {} /\ Distinct(t) =>
        /\ s \o t \in Seq(A \union B) /\ Distinct(s \o t)
        /\ Lists(s, A) /\ Lists(t, B) => Lists(s \o t, A \union B)
  BY DistinctJoin
<1>4. {x} \in SUBSET R /\ A \cap {x} = {}
  OBVIOUS
<1>5. /\ s \o <<x>> \in Seq(A \union {x}) /\ Distinct(s \o <<x>>)
      /\ Lists(s, A) /\ Lists(<<x>>, {x}) => Lists(s \o <<x>>, A \union {x})
  BY ONLY <1>1, <1>3, <1>4, Zenon
<1> QED
  BY <1>1, <1>2, <1>5

(* A list has as many elements as its set. *)
LEMMA ListCounts ==
  ASSUME NEW s, NEW A, Lists(s, A)
  PROVE  IsFiniteSet(A) /\ Cardinality(A) = Len(s)
<1>1. s \in Seq(A) /\ Len(s) \in Nat /\ s \in [1..Len(s) -> A]
  BY LenProperties DEF Lists
<1>2. s \in Bijection(1..Len(s), A)
  <2>1. s \in Injection(1..Len(s), A)
    BY <1>1 DEF Lists, Distinct, Injection, IsInjective
  <2>2. s \in Surjection(1..Len(s), A)
    BY <1>1 DEF Lists, Surjection
  <2> QED
    BY <2>1, <2>2 DEF Bijection
<1>3. ExistsBijection(1..Len(s), A)
  BY <1>2 DEF ExistsBijection
<1> QED
  BY <1>1, <1>3, FS_NatBijection, FS_CountingElements

(* What lists something lists its range. *)
LEMMA ListsRange ==
  ASSUME NEW R, NEW s \in Seq(R), Distinct(s)
  PROVE  Lists(s, ToSet(s))
<1>1. Len(s) \in Nat /\ DOMAIN s = 1..Len(s)
  BY LenProperties
<1>2. \A i \in 1..Len(s) : s[i] \in ToSet(s)
  BY <1>1 DEF ToSet
<1>3. s \in Seq(ToSet(s))
  <2>1. s \in [1..Len(s) -> ToSet(s)]
    BY <1>1, <1>2, LenProperties
  <2> QED
    BY <1>1, <2>1
<1>4. \A x \in ToSet(s) : \E i \in 1..Len(s) : s[i] = x
  BY <1>1 DEF ToSet
<1> QED
  BY <1>3, <1>4 DEF Lists

-------------------------------------------------------------------------------
(* The children of a directory.                                            *)

SortedUpTo(names, g, n) ==
  g = [i \in 0..n |-> IF i = 0 THEN <<>>
                       ELSE IF Order[i] \in names THEN Append(g[i - 1], Order[i]) ELSE g[i - 1]]

NextSorted(names, before, x) == IF x \in names THEN Append(before, x) ELSE before

(* The recursion of Sorted has a solution. *)
LEMMA SortedExists ==
  ASSUME NEW names, NEW n \in Nat
  PROVE  \E g : SortedUpTo(names, g, n)
<1> DEFINE T == {m \in Nat : \E g : SortedUpTo(names, g, m)}
<1>1. 0 \in T
  <2> DEFINE g == [i \in 0..0 |-> <<>>]
  <2>1. SortedUpTo(names, g, 0)
    BY DEF SortedUpTo
  <2> QED
    BY <2>1
<1>2. ASSUME NEW m \in 1..n, m - 1 \in T PROVE m \in T
  <2>1. PICK g : SortedUpTo(names, g, m - 1)
    BY <1>2
  <2> DEFINE h == [i \in 0..m |-> IF i = m THEN NextSorted(names, g[m - 1], Order[m]) ELSE g[i]]
  <2>2. ASSUME NEW i \in 0..m
        PROVE  h[i] = IF i = 0 THEN <<>> ELSE NextSorted(names, h[i - 1], Order[i])
    <3>1. CASE i = m
      BY <3>1
    <3>2. CASE i # m
      <4>1. i \in 0..m - 1 /\ i - 1 # m /\ h[i] = g[i] /\ (i # 0 => h[i - 1] = g[i - 1])
        BY <3>2
      <4>2. g[i] = IF i = 0 THEN <<>> ELSE NextSorted(names, g[i - 1], Order[i])
        BY <2>1, <4>1 DEF SortedUpTo, NextSorted
      <4> QED
        BY <4>1, <4>2
    <3> QED
      BY <3>1, <3>2
  <2>3. DOMAIN h = 0..m /\ h = [i \in 0..m |-> h[i]]
    OBVIOUS
  <2> HIDE DEF h
  <2>4. h = [i \in 0..m |-> IF i = 0 THEN <<>> ELSE NextSorted(names, h[i - 1], Order[i])]
    BY <2>2, <2>3
  <2>5. SortedUpTo(names, h, m)
    BY <2>4, Zenon DEF SortedUpTo, NextSorted
  <2>6. m \in Nat
    OBVIOUS
  <2> QED
    BY <2>5, <2>6
<1> HIDE DEF T
<1>3. n \in T
  BY <1>1, <1>2, UpTo
<1> QED
  BY <1>3 DEF T

(* Sorted lists the names that it is given. *)
LEMMA SortedLists ==
  ASSUME NEW names \in SUBSET Names
  PROVE  Lists(Sorted(names), names)
<1> PICK n \in Nat : n = Len(Order)
  BY RequestsAssumption, LenProperties DEF RequestsAssumption
<1>1. /\ \A i \in 1..n : Order[i] \in Names
      /\ \A x \in Names : \E i \in 1..n : Order[i] = x
      /\ \A i, j \in 1..n : Order[i] = Order[j] => i = j
  <2>1. DOMAIN Order = 1..n /\ \A i \in 1..n : Order[i] \in Names
    BY RequestsAssumption, LenProperties DEF RequestsAssumption
  <2>2. IsInjective(Order) /\ Names \subseteq ToSet(Order)
    BY RequestsAssumption DEF RequestsAssumption
  <2>3. \A i, j \in 1..n : Order[i] = Order[j] => i = j
    BY <2>1, <2>2 DEF IsInjective
  <2>4. ToSet(Order) = {Order[i] : i \in 1..n}
    BY <2>1 DEF ToSet
  <2> QED
    BY <2>1, <2>2, <2>3, <2>4
<1> DEFINE g == CHOOSE h : SortedUpTo(names, h, n)
<1>2. SortedUpTo(names, g, n)
  BY SortedExists
<1>3. Sorted(names) = g[n]
  BY DEF Sorted, SortedUpTo
<1> HIDE DEF g
<1>4. \A i \in 0..n : g[i] = IF i = 0 THEN <<>> ELSE NextSorted(names, g[i - 1], Order[i])
  BY <1>2 DEF SortedUpTo, NextSorted
<1> DEFINE Upto(m) == {x \in names : \E i \in 1..m : Order[i] = x}
           T == {m \in 0..n : Lists(g[m], Upto(m))}
<1>5. 0 \in T
  <2>1. Upto(0) = {} /\ g[0] = <<>>
    BY <1>4
  <2> HIDE DEF Upto
  <2>2. Lists(g[0], Upto(0))
    BY <2>1, ListNone
  <2> QED
    BY <2>2
<1>6. ASSUME NEW m \in 1..n, m - 1 \in T PROVE m \in T
  <2>1. m \in 0..n /\ m # 0 /\ g[m] = NextSorted(names, g[m - 1], Order[m])
    BY <1>4
  <2>2. Lists(g[m - 1], Upto(m - 1))
    BY <1>6
  <2>3. \A i \in 1..m : i \in 1..n /\ (i \in 1..m - 1 \/ i = m)
    OBVIOUS
  <2>4. CASE Order[m] \in names
    <3>1. Upto(m) = Upto(m - 1) \union {Order[m]} /\ Order[m] \notin Upto(m - 1)
      BY <1>1, <2>3, <2>4
    <3> PICK A \in SUBSET names : A = Upto(m - 1)
      OBVIOUS
    <3> PICK x \in names : x = Order[m]
      BY <2>4
    <3> PICK s : s = g[m - 1]
      OBVIOUS
    <3> HIDE DEF Upto, T
    <3>2. Lists(Append(s, x), A \union {x})
      <4>1. x \in names \ A
        BY <3>1
      <4>2. Lists(s, A)
        BY <2>2
      <4>3. s \in Seq(A)
        BY <4>2 DEF Lists
      <4>4. Distinct(s)
        BY <4>2 DEF Lists
      <4>5. Lists(s, A) => Lists(Append(s, x), A \union {x})
        BY ONLY A \in SUBSET names, <4>1, <4>3, <4>4, ListMore
      <4> QED
        BY <4>2, <4>5
    <3>3. g[m] = Append(s, x)
      BY <2>1, <2>4 DEF NextSorted
    <3>4. Lists(g[m], Upto(m))
      BY <3>1, <3>2, <3>3
    <3> QED
      BY <3>4 DEF T
  <2>5. CASE Order[m] \notin names
    <3>1. Upto(m) = Upto(m - 1)
      BY <2>3, <2>5
    <3>2. g[m] = g[m - 1]
      BY <2>1, <2>5 DEF NextSorted
    <3> HIDE DEF Upto
    <3>3. Lists(g[m], Upto(m))
      BY <2>2, <3>1, <3>2
    <3> QED
      BY <3>3
  <2> QED
    BY <2>4, <2>5
<1>7. n \in T
  <2> HIDE DEF T
  <2>1. \A m \in 0..n : m \in T
    BY ONLY n \in Nat, <1>5, <1>6, UpTo
  <2> QED
    BY <2>1
<1>8. Upto(n) = names
  BY <1>1
<1> QED
  BY <1>3, <1>7, <1>8

(* A path below p: what follows p, and what it has for its parent. *)
LEMMA ChildPath ==
  ASSUME NEW S, NEW p \in Seq(S), NEW x \in S
  PROVE  /\ Append(p, x) \in Seq(S) /\ Append(p, x) # <<>> /\ Last(Append(p, x)) = x
         /\ Front(Append(p, x)) = p /\ Len(Append(p, x)) = Len(p) + 1
         /\ \A i \in 1..Len(p) : Append(p, x)[i] = p[i]
         /\ Append(p, x)[Len(p) + 1] = x
<1>1. /\ Append(p, x) \in Seq(S) /\ Len(p) \in Nat /\ Len(Append(p, x)) = Len(p) + 1
      /\ \A i \in 1..Len(p) : Append(p, x)[i] = p[i]
      /\ Append(p, x)[Len(p) + 1] = x
  BY AppendProperties, LenProperties
<1> PICK c \in Seq(S) : c = Append(p, x)
  BY <1>1
<1>2. c # <<>>
  BY <1>1, EmptySeq
<1>3. /\ Front(c) \in Seq(S) /\ Len(Front(c)) = Len(c) - 1
      /\ \A i \in 1..Len(c) - 1 : Front(c)[i] = c[i]
  BY <1>2, FrontParts
<1>4. Front(c) = p
  <2>1. Len(Front(c)) = Len(p) /\ \A i \in 1..Len(p) : Front(c)[i] = p[i]
    BY <1>1, <1>3
  <2> QED
    BY <1>3, <2>1, SeqEqual
<1>5. Last(c) = x
  BY <1>1 DEF Last
<1> QED
  BY <1>1, <1>2, <1>4, <1>5

(* What has p for its parent is p and a name. *)
LEMMA ParentPath ==
  ASSUME NEW S, NEW q \in Seq(S), q # <<>>
  PROVE  Last(q) \in S /\ q = Append(Front(q), Last(q))
<1>1. /\ Front(q) \in Seq(S) /\ Len(q) \in Nat /\ Len(q) # 0
      /\ Len(Front(q)) = Len(q) - 1
      /\ \A i \in 1..Len(q) - 1 : Front(q)[i] = q[i]
  BY FrontParts
<1>2. Last(q) = q[Len(q)] /\ Last(q) \in S
  BY <1>1, LenProperties DEF Last
<1> PICK f \in Seq(S), x \in S, n \in Nat : f = Front(q) /\ x = Last(q) /\ n = Len(q)
  BY <1>1, <1>2
<1>3. /\ Append(f, x) \in Seq(S) /\ Len(Append(f, x)) = Len(f) + 1
      /\ \A i \in 1..Len(f) : Append(f, x)[i] = f[i]
      /\ Append(f, x)[Len(f) + 1] = x
  BY ChildPath
<1>4. Len(Append(f, x)) = n /\ \A i \in 1..n : Append(f, x)[i] = q[i]
  BY <1>1, <1>2, <1>3
<1>5. Append(f, x) = q
  BY <1>3, <1>4, SeqEqual
<1> QED
  BY <1>2, <1>5

(* The names of what is in a directory. *)
NamesIn(t, p) == {n \in Names : Append(p, n) \in DOMAIN t}

(* Children lists them. *)
LEMMA ChildrenListed ==
  ASSUME NEW t, NEW p \in Seq(Names)
  PROVE  Lists(Children(t, p), NamesIn(t, p))
<1> DEFINE names == {n \in Names : Append(p, n) \in DOMAIN t}
           A == {n \in names : IsDir(t, Append(p, n))}
           B == {n \in names : IsFile(t, Append(p, n))}
<1>1. A \in SUBSET Names
  OBVIOUS
<1>b. B \in SUBSET Names
  OBVIOUS
<1>2. A \cap B = {} /\ A \union B = NamesIn(t, p)
  <2>1. \A n \in names : Append(p, n) # <<>>
    BY ChildPath
  <2> QED
    BY <2>1 DEF NamesIn, IsDir, IsFile
<1>3. Children(t, p) = Sorted(A) \o Sorted(B)
  BY DEF Children
<1> HIDE DEF A, B
<1> PICK s, u : s = Sorted(A) /\ u = Sorted(B)
  OBVIOUS
<1>4. Lists(s, A) /\ Lists(u, B)
  BY <1>1, <1>b, SortedLists
<1>5. s \in Seq(A)
  BY <1>4 DEF Lists
<1>6. u \in Seq(B)
  BY <1>4 DEF Lists
<1>7. Distinct(s)
  BY <1>4 DEF Lists
<1>8. Distinct(u)
  BY <1>4 DEF Lists
<1>9. A \cap B = {}
  BY <1>2
<1>10. Lists(s, A) /\ Lists(u, B) => Lists(s \o u, A \union B)
  BY ONLY <1>1, <1>b, <1>5, <1>6, <1>7, <1>8, <1>9, DistinctJoin
<1> QED
  BY <1>2, <1>3, <1>4, <1>10

-------------------------------------------------------------------------------
(* Listings up to a limit.                                                 *)

(* Every entry is in p, or stands behind its directory. *)
BehindParent(list, p) ==
  \A i \in 1..Len(list) : Front(list[i]) = p \/ \E j \in 1..i - 1 : list[j] = Front(list[i])

(* What a listing of the directory p is of the entries in all: no entry    *)
(* twice, and all of them unless the limit is reached.                     *)
Exact(list, p, all, limit) ==
  /\ list \in Seq(all) /\ Distinct(list) /\ Len(list) <= limit
  /\ Len(list) < limit => Lists(list, all)
  /\ BehindParent(list, p)

(* At the limit it does not matter what else there is. *)
LEMMA ExactAtLimit ==
  ASSUME NEW R, NEW A \in SUBSET R, NEW B \in SUBSET R, A \subseteq B, NEW limit \in Nat,
         NEW p, NEW list, Exact(list, p, A, limit), Len(list) >= limit
  PROVE  Exact(list, p, B, limit)
<1>1. list \in Seq(A) /\ Len(list) \in Nat
  BY LenProperties DEF Exact
<1>2. list \in Seq(B)
  <2>1. \A S, T : \A u \in Seq(S) : S \subseteq T => u \in Seq(T)
    OBVIOUS
  <2> QED
    BY <1>1, <2>1
<1>3. ~(Len(list) < limit)
  BY <1>1
<1> QED
  BY <1>2, <1>3 DEF Exact

(* An entry of the directory, below the limit. *)
LEMMA ExactMore ==
  ASSUME NEW R, NEW A \in SUBSET R, NEW c \in R \ A, NEW limit \in Nat,
         NEW p, p = Front(c), NEW list, Exact(list, p, A, limit), Len(list) < limit
  PROVE  /\ Exact(Append(list, c), p, A \union {c}, limit)
         /\ Len(Append(list, c)) = Len(list) + 1
         /\ Append(list, c)[Len(Append(list, c))] = c
<1>1. list \in Seq(A)
  BY DEF Exact
<1>2. Distinct(list)
  BY DEF Exact
<1>3. /\ Append(list, c) \in Seq(A \union {c}) /\ Distinct(Append(list, c))
      /\ Lists(list, A) => Lists(Append(list, c), A \union {c})
  BY <1>1, <1>2, ListMore
<1>4. /\ Len(list) \in Nat /\ Len(Append(list, c)) = Len(list) + 1
      /\ \A i \in 1..Len(list) : Append(list, c)[i] = list[i]
      /\ Append(list, c)[Len(list) + 1] = c
  <2>1. list \in Seq(R)
    BY <1>1
  <2> QED
    BY <2>1, AppendProperties, LenProperties
<1>5. Len(Append(list, c)) <= limit
  BY <1>4
<1>6. BehindParent(Append(list, c), p)
  <2> SUFFICES ASSUME NEW i \in 1..Len(list) + 1
               PROVE  \/ Front(Append(list, c)[i]) = p
                      \/ \E j \in 1..i - 1 : Append(list, c)[j] = Front(Append(list, c)[i])
    BY <1>4 DEF BehindParent
  <2>1. CASE i = Len(list) + 1
    BY <1>4, <2>1
  <2>2. CASE i # Len(list) + 1
    <3>1. i \in 1..Len(list) /\ \A j \in 1..i - 1 : j \in 1..Len(list)
      BY <1>4, <2>2
    <3>2. Front(list[i]) = p \/ \E j \in 1..i - 1 : list[j] = Front(list[i])
      BY <3>1 DEF Exact, BehindParent
    <3> QED
      BY <1>4, <3>1, <3>2
  <2> QED
    BY <2>1, <2>2
<1>7. Lists(list, A)
  BY DEF Exact
<1> QED
  BY <1>3, <1>4, <1>5, <1>6, <1>7 DEF Exact

(* Behind an entry, the listing of what is below it. *)
LEMMA ExactJoin ==
  ASSUME NEW R, NEW A \in SUBSET R, NEW B \in SUBSET R, A \cap B = {}, NEW limit \in Nat,
         NEW p, NEW c, NEW list, Exact(list, p, A, limit), Len(list) < limit,
         NEW k \in 1..Len(list), list[k] = c,
         NEW below, Exact(below, c, B, limit - Len(list))
  PROVE  Exact(list \o below, p, A \union B, limit)
<1>1. list \in Seq(A)
  BY DEF Exact
<1>2. below \in Seq(B)
  BY DEF Exact
<1>3. Distinct(list)
  BY DEF Exact
<1>4. Distinct(below)
  BY DEF Exact
<1>5. /\ list \o below \in Seq(A \union B) /\ Distinct(list \o below)
      /\ Lists(list, A) /\ Lists(below, B) => Lists(list \o below, A \union B)
  BY <1>1, <1>2, <1>3, <1>4, DistinctJoin
<1> PICK m \in Nat, n \in Nat : m = Len(list) /\ n = Len(below)
  BY <1>1, <1>2, LenProperties
<1> PICK u : u = list \o below
  OBVIOUS
<1>6. Len(u) = m + n /\ (\A i \in 1..m : u[i] = list[i]) /\ \A i \in 1..n : u[m + i] = below[i]
  <2>1. list \in Seq(R) /\ below \in Seq(R)
    BY <1>1, <1>2
  <2>2. /\ Len(list \o below) = Len(list) + Len(below)
        /\ \A i \in 1..Len(list) : (list \o below)[i] = list[i]
        /\ \A j \in 1..Len(below) : (list \o below)[Len(list) + j] = below[j]
    BY <2>1, JoinShape
  <2> QED
    BY <2>2
<1>7. n <= limit - m /\ m + n <= limit
  BY DEF Exact
<1>8. ASSUME m + n < limit PROVE Lists(u, A \union B)
  <2>1. n < limit - m
    BY <1>8
  <2>2. Lists(list, A) /\ Lists(below, B)
    BY <2>1 DEF Exact
  <2> QED
    BY <1>5, <2>2
<1>9. BehindParent(u, p)
  <2> SUFFICES ASSUME NEW i \in 1..m + n
               PROVE  Front(u[i]) = p \/ \E j \in 1..i - 1 : u[j] = Front(u[i])
    BY <1>6 DEF BehindParent
  <2>1. CASE i <= m
    <3>1. i \in 1..m /\ \A j \in 1..i - 1 : j \in 1..m
      BY <2>1
    <3>2. Front(list[i]) = p \/ \E j \in 1..i - 1 : list[j] = Front(list[i])
      BY <3>1 DEF Exact, BehindParent
    <3> QED
      BY <1>6, <3>1, <3>2
  <2>2. CASE m < i
    <3>0. i - m \in Nat
      BY <2>2
    <3> PICK h \in Nat : h = i - m
      BY <3>0
    <3>1. h \in 1..n /\ i = m + h
      BY <2>2
    <3>2. Front(below[h]) = c \/ \E j \in 1..h - 1 : below[j] = Front(below[h])
      BY <3>1 DEF Exact, BehindParent
    <3>3. u[i] = below[h]
      BY <1>6, <3>1
    <3>4. CASE Front(below[h]) = c
      <4>1. k \in 1..i - 1 /\ u[k] = c
        BY <1>6, <2>2
      <4> QED
        BY <3>3, <3>4, <4>1
    <3>5. CASE \E j \in 1..h - 1 : below[j] = Front(below[h])
      <4>1. PICK j \in 1..h - 1 : below[j] = Front(below[h])
        BY <3>5
      <4>2. m + j \in 1..i - 1 /\ j \in 1..n
        BY <3>1
      <4>3. u[m + j] = Front(u[i])
        BY <1>6, <3>3, <4>1, <4>2
      <4> QED
        BY <4>2, <4>3
    <3> QED
      BY <3>2, <3>4, <3>5
  <2> QED
    BY <2>1, <2>2
<1> QED
  BY <1>5, <1>6, <1>7, <1>8, <1>9 DEF Exact

(* The listing of nothing. *)
LEMMA ExactNone ==
  ASSUME NEW p, NEW limit \in Nat
  PROVE  Exact(<<>>, p, {}, limit)
<1>1. Lists(<<>>, {}) /\ Len(<<>>) = 0
  BY ListNone, EmptySeq
<1> QED
  BY <1>1 DEF Exact, Lists, BehindParent

(* What an exact listing counts. *)
LEMMA ExactCounts ==
  ASSUME NEW list, NEW p, NEW all, NEW limit \in Nat, Exact(list, p, all, limit), IsFiniteSet(all)
  PROVE  /\ ToSet(list) \subseteq all
         /\ Len(list) = Cardinality(ToSet(list))
         /\ Len(list) = IF Cardinality(all) < limit THEN Cardinality(all) ELSE limit
<1>1. list \in Seq(all) /\ Distinct(list) /\ Len(list) \in Nat /\ Len(list) <= limit
  BY LenProperties DEF Exact
<1>2. ToSet(list) \in SUBSET all
  <2>1. DOMAIN list = 1..Len(list) /\ \A i \in 1..Len(list) : list[i] \in all
    BY <1>1, LenProperties
  <2> QED
    BY <2>1 DEF ToSet
<1>3. Len(list) = Cardinality(ToSet(list))
  <2>1. Lists(list, ToSet(list))
    BY <1>1, ListsRange
  <2> QED
    BY <2>1, ListCounts
<1>4. Cardinality(ToSet(list)) <= Cardinality(all) /\ Cardinality(all) \in Nat
  BY <1>2, FS_Subset, FS_CardinalityType
<1>5. ASSUME Len(list) < limit PROVE Len(list) = Cardinality(all)
  <2>1. Lists(list, all)
    BY <1>5 DEF Exact
  <2> QED
    BY <2>1, ListCounts
<1> QED
  BY <1>1, <1>2, <1>3, <1>4, <1>5

-------------------------------------------------------------------------------
(* One directory of a listing.                                             *)

Call(dirs, depth, limit) == [dir : dirs, levels : 0..depth, limit : 0..limit]

(* What a directory's turn asks of the directory c. *)
BelowCall(call, out, c) == [dir |-> c, levels |-> call.levels - 1, limit |-> Rest(call.limit, out)]

NextEntries(call, shown, entered, collect, before, c) ==
  IF Len(before) >= call.limit \/ c \notin shown THEN before
  ELSE IF Len(Append(before, c)) >= call.limit \/ c \notin entered THEN Append(before, c)
  ELSE Append(before, c) \o collect[BelowCall(call, Append(before, c), c)]

EntriesUpTo(call, shown, entered, collect, children, g, n) ==
  g = [i \in 0..n |->
        IF i = 0 \/ call.levels = 0 THEN <<>>
        ELSE NextEntries(call, shown, entered, collect, g[i - 1], Append(call.dir, children[i]))]

(* The recursion of Entries has a solution. *)
LEMMA EntriesExist ==
  ASSUME NEW call, NEW shown, NEW entered, NEW collect, NEW children, NEW n \in Nat
  PROVE  \E g : EntriesUpTo(call, shown, entered, collect, children, g, n)
<1> DEFINE T == {m \in Nat : \E g : EntriesUpTo(call, shown, entered, collect, children, g, m)}
           After(s, i) == NextEntries(call, shown, entered, collect, s, Append(call.dir, children[i]))
<1>1. 0 \in T
  <2> DEFINE g == [i \in 0..0 |-> <<>>]
  <2>1. EntriesUpTo(call, shown, entered, collect, children, g, 0)
    BY DEF EntriesUpTo
  <2> QED
    BY <2>1
<1>2. ASSUME NEW m \in 1..n, m - 1 \in T PROVE m \in T
  <2>1. PICK g : EntriesUpTo(call, shown, entered, collect, children, g, m - 1)
    BY <1>2
  <2> DEFINE h == [i \in 0..m |-> IF i = m THEN IF call.levels = 0 THEN <<>> ELSE After(g[m - 1], m) ELSE g[i]]
  <2>2. ASSUME NEW i \in 0..m
        PROVE  h[i] = IF i = 0 \/ call.levels = 0 THEN <<>> ELSE After(h[i - 1], i)
    <3>1. CASE i = m
      <4>1. h[m - 1] = g[m - 1] /\ m # 0
        OBVIOUS
      <4>2. h[m] = IF call.levels = 0 THEN <<>> ELSE After(g[m - 1], m)
        OBVIOUS
      <4> QED
        BY <3>1, <4>1, <4>2
    <3>2. CASE i # m
      <4>1. i \in 0..m - 1 /\ i - 1 # m /\ h[i] = g[i] /\ (i # 0 => h[i - 1] = g[i - 1])
        BY <3>2
      <4>2. g[i] = IF i = 0 \/ call.levels = 0 THEN <<>> ELSE After(g[i - 1], i)
        BY <2>1, <4>1 DEF EntriesUpTo
      <4> HIDE DEF h, After
      <4> QED
        BY <4>1, <4>2
    <3> QED
      BY <3>1, <3>2
  <2>3. DOMAIN h = 0..m /\ h = [i \in 0..m |-> h[i]]
    OBVIOUS
  <2> HIDE DEF h
  <2>4. h = [i \in 0..m |-> IF i = 0 \/ call.levels = 0 THEN <<>> ELSE After(h[i - 1], i)]
    <3> HIDE DEF After
    <3> QED
      BY <2>2, <2>3
  <2>5. EntriesUpTo(call, shown, entered, collect, children, h, m)
    BY <2>4, Zenon DEF EntriesUpTo
  <2>6. m \in Nat
    OBVIOUS
  <2> QED
    BY <2>5, <2>6
<1> HIDE DEF T
<1>3. n \in T
  BY <1>1, <1>2, UpTo
<1> QED
  BY <1>3 DEF T

(* Entries is where the recursion ends. *)
LEMMA EntriesSteps ==
  ASSUME NEW t, NEW call, NEW shown, NEW entered, NEW collect,
         NEW n \in Nat, n = Len(Children(t, call.dir))
  PROVE  \E g : /\ EntriesUpTo(call, shown, entered, collect, Children(t, call.dir), g, n)
                /\ Entries(t, call, shown, entered, collect) = g[n]
<1> DEFINE g == CHOOSE h : EntriesUpTo(call, shown, entered, collect, Children(t, call.dir), h, n)
<1>1. EntriesUpTo(call, shown, entered, collect, Children(t, call.dir), g, n)
  BY EntriesExist
<1>2. Entries(t, call, shown, entered, collect) = g[n]
  BY DEF Entries, EntriesUpTo, NextEntries, BelowCall
<1> HIDE DEF g
<1> QED
  BY <1>1, <1>2

(* Its steps. *)
LEMMA EntriesStep ==
  ASSUME NEW call, NEW shown, NEW entered, NEW collect, NEW children, NEW g, NEW n \in Nat,
         EntriesUpTo(call, shown, entered, collect, children, g, n)
  PROVE  /\ g[0] = <<>>
         /\ call.levels = 0 => g[n] = <<>>
         /\ call.levels # 0 => \A i \in 1..n :
              g[i] = NextEntries(call, shown, entered, collect, g[i - 1], Append(call.dir, children[i]))
<1>1. \A i \in 0..n :
        g[i] = IF i = 0 \/ call.levels = 0 THEN <<>>
               ELSE NextEntries(call, shown, entered, collect, g[i - 1], Append(call.dir, children[i]))
  BY DEF EntriesUpTo
<1>2. \A i \in 1..n : i \in 0..n /\ i # 0
  OBVIOUS
<1>3. 0 \in 0..n /\ n \in 0..n
  OBVIOUS
<1> HIDE DEF EntriesUpTo
<1> QED
  BY <1>1, <1>2, <1>3, Zenon

(* What is asked below has fewer levels, and a limit that is no higher. *)
LEMMA BelowIsCall ==
  ASSUME NEW D, NEW dirs \in SUBSET D, NEW depth \in Nat, NEW limit \in Nat, NEW call \in Call(dirs, depth, limit), call.levels # 0,
         NEW out \in Seq(D), Len(out) < call.limit, NEW c \in dirs
  PROVE  BelowCall(call, out, c) \in Call(dirs, depth, limit)
<1>1. Len(out) \in Nat /\ call.levels \in 0..depth /\ call.limit \in 0..limit
  BY LenProperties DEF Call
<1>2. call.levels - 1 \in 0..depth /\ call.limit - Len(out) \in 0..limit
  BY <1>1
<1> QED
  BY <1>2 DEF BelowCall, Rest, Call

(* Two recursions that agree on what is below agree on the directory. *)
LEMMA EntriesAgree ==
  ASSUME NEW t, NEW dirs \in SUBSET DOMAIN t, NEW depth \in Nat, NEW limit \in Nat, NEW call \in Call(dirs, depth, limit),
         NEW shown \in SUBSET DOMAIN t, NEW entered \in SUBSET dirs, NEW collect, NEW other,
         call.dir \in Seq(Names),
         \A x \in Call(dirs, depth, limit) :
           x.levels = call.levels - 1 => collect[x] \in Seq(DOMAIN t) /\ other[x] = collect[x]
  PROVE  /\ Entries(t, call, shown, entered, collect) \in Seq(DOMAIN t)
         /\ Entries(t, call, shown, entered, other) = Entries(t, call, shown, entered, collect)
<1> PICK children : children = Children(t, call.dir)
  OBVIOUS
<1>0. Len(children) \in Nat
  <2>1. Lists(children, NamesIn(t, call.dir))
    BY ChildrenListed
  <2> QED
    BY <2>1, LenProperties DEF Lists
<1> PICK n \in Nat : n = Len(children)
  BY <1>0
<1>1. PICK g : /\ EntriesUpTo(call, shown, entered, collect, children, g, n)
               /\ Entries(t, call, shown, entered, collect) = g[n]
  BY EntriesSteps
<1>2. PICK h : /\ EntriesUpTo(call, shown, entered, other, children, h, n)
               /\ Entries(t, call, shown, entered, other) = h[n]
  BY EntriesSteps
<1>3. <<>> \in Seq(DOMAIN t)
  BY EmptySeq
<1>4. CASE call.levels = 0
  <2>1. g[n] = <<>> /\ h[n] = <<>>
    BY <1>1, <1>2, <1>4, EntriesStep
  <2> QED
    BY <1>1, <1>2, <1>3, <2>1, Zenon
<1>5. CASE call.levels # 0
  <2>1. g[0] = <<>> /\ h[0] = <<>>
    BY <1>1, <1>2, EntriesStep
  <2>2. \A i \in 1..n : /\ g[i] = NextEntries(call, shown, entered, collect, g[i - 1], Append(call.dir, children[i]))
                        /\ h[i] = NextEntries(call, shown, entered, other, h[i - 1], Append(call.dir, children[i]))
    BY <1>1, <1>2, <1>5, EntriesStep
  <2> DEFINE T == {i \in 0..n : g[i] \in Seq(DOMAIN t) /\ h[i] = g[i]}
  <2>3. 0 \in T
    <3>1. 0 \in 0..n
      OBVIOUS
    <3> QED
      BY <1>3, <2>1, <3>1, Zenon
  <2>4. ASSUME NEW i \in 1..n, i - 1 \in T PROVE i \in T
    <3> PICK s \in Seq(DOMAIN t) : s = g[i - 1]
      BY <2>4
    <3> PICK c : c = Append(call.dir, children[i])
      OBVIOUS
    <3>0. i \in 0..n
      OBVIOUS
    <3>1. /\ g[i] = NextEntries(call, shown, entered, collect, s, c)
          /\ h[i] = NextEntries(call, shown, entered, other, s, c)
      BY <2>2, <2>4
    <3>2. CASE Len(s) >= call.limit \/ c \notin shown
      BY <3>1, <3>2 DEF NextEntries
    <3>3. CASE ~(Len(s) >= call.limit \/ c \notin shown)
      <4> PICK out \in Seq(DOMAIN t) : out = Append(s, c)
        <5>1. c \in DOMAIN t
          BY <3>3
        <5> QED
          BY <5>1, AppendProperties
      <4>1. CASE Len(out) >= call.limit \/ c \notin entered
        <5>1. g[i] = out /\ h[i] = out
          BY <3>1, <3>3, <4>1 DEF NextEntries
        <5> QED
          BY <3>0, <5>1, Zenon
      <4>2. CASE ~(Len(out) >= call.limit \/ c \notin entered)
        <5>1. c \in dirs /\ c \in entered
          BY <4>2
        <5>2. Len(out) < call.limit
          <6>1. Len(out) \in Nat /\ call.limit \in 0..limit
            BY LenProperties DEF Call
          <6> QED
            BY <4>2, <6>1
        <5> PICK x : x = BelowCall(call, out, c)
          OBVIOUS
        <5>3. x \in Call(dirs, depth, limit) /\ x.levels = call.levels - 1
          <6>1. x \in Call(dirs, depth, limit)
            BY ONLY dirs \in SUBSET DOMAIN t, depth \in Nat, limit \in Nat, call \in Call(dirs, depth, limit), <1>5,
                    out \in Seq(DOMAIN t), <5>2, <5>1, x = BelowCall(call, out, c), BelowIsCall
          <6> QED
            BY <6>1 DEF BelowCall
        <5>4. collect[x] \in Seq(DOMAIN t) /\ other[x] = collect[x]
          BY <5>3
        <5>5. g[i] = out \o collect[x] /\ h[i] = out \o other[x]
          BY <3>1, <3>3, <4>2 DEF NextEntries
        <5>6. out \o collect[x] \in Seq(DOMAIN t)
          BY <5>4, ConcatProperties
        <5> QED
          BY <3>0, <5>4, <5>5, <5>6, Zenon
      <4> QED
        BY <4>1, <4>2
    <3> QED
      BY <3>2, <3>3
  <2> HIDE DEF T
  <2>5. \A i \in 0..n : i \in T
    BY ONLY n \in Nat, <2>3, <2>4, UpTo
  <2>6. n \in T
    BY <2>5
  <2> QED
    BY <1>1, <1>2, <2>6 DEF T
<1> QED
  BY <1>4, <1>5

(* One entry, and what is below it, behind those before. *)
LEMMA NextExact ==
  ASSUME NEW R, NEW A \in SUBSET R, NEW B \in SUBSET R, NEW F, NEW c, NEW shown \in SUBSET R,
         F = IF c \in shown THEN {c} \union B ELSE {}, A \cap F = {}, c \notin B,
         NEW limit \in Nat, NEW call, call.limit = limit, call.dir = Front(c),
         NEW entered, c \in shown /\ c \notin entered => B = {},
         NEW collect,
         c \in shown /\ c \in entered =>
           \A out \in Seq(R) : Len(out) < limit =>
             Exact(collect[BelowCall(call, out, c)], c, B, limit - Len(out)),
         NEW before, Exact(before, call.dir, A, limit)
  PROVE  Exact(NextEntries(call, shown, entered, collect, before, c), call.dir, A \union F, limit)
<1> PICK p : p = call.dir
  OBVIOUS
<1>0. F \in SUBSET R
  OBVIOUS
<1> PICK C \in SUBSET R : C = A \union F
  BY <1>0
<1>c. A \subseteq C
  OBVIOUS
<1>1. before \in Seq(A) /\ before \in Seq(R) /\ Len(before) \in Nat
  BY LenProperties DEF Exact
<1>2. CASE Len(before) >= limit
  <2>0. Exact(before, p, A, limit)
    OBVIOUS
  <2>1. Exact(before, p, C, limit)
    BY ONLY A \in SUBSET R, C \in SUBSET R, <1>c, limit \in Nat, <2>0, <1>2, ExactAtLimit
  <2> QED
    BY <1>2, <2>1 DEF NextEntries
<1>3. CASE c \notin shown
  BY <1>3 DEF NextEntries
<1>4. CASE Len(before) < limit /\ c \in shown
  <2> PICK out : out = Append(before, c)
    OBVIOUS
  <2>1. c \in R \ A /\ F = {c} \union B /\ A \cap B = {} /\ (A \union {c}) \cap B = {}
    BY <1>4
  <2>2. Exact(out, p, A \union {c}, limit) /\ Len(out) = Len(before) + 1 /\ out[Len(out)] = c
    <3>1. c \in R \ A
      BY <2>1
    <3>2. p = Front(c)
      OBVIOUS
    <3>3. Exact(before, p, A, limit)
      OBVIOUS
    <3>4. Len(before) < limit
      BY <1>4
    <3> QED
      BY ONLY A \in SUBSET R, <3>1, limit \in Nat, <3>2, <3>3, <3>4, out = Append(before, c), ExactMore
  <2>3. A \union {c} \in SUBSET R /\ out \in Seq(R) /\ Len(out) \in 1..Len(out)
    <3>1. A \union {c} \in SUBSET R
      BY <2>1
    <3>2. out \in Seq(A \union {c})
      BY <2>2 DEF Exact
    <3> QED
      BY <1>1, <2>2, <3>1, <3>2
  <2>4. ~(Len(before) >= limit)
    BY <1>1, <1>4
  <2>5. CASE Len(out) >= limit
    <3> PICK D \in SUBSET R : D = A \union {c}
      BY <2>3
    <3>1. D \subseteq C
      BY <2>1
    <3>4. Exact(out, p, D, limit)
      BY <2>2
    <3>2. Exact(out, p, C, limit)
      BY ONLY D \in SUBSET R, C \in SUBSET R, <3>1, limit \in Nat, <3>4, <2>5, ExactAtLimit
    <3>3. NextEntries(call, shown, entered, collect, before, c) = out
      BY <1>4, <2>4, <2>5 DEF NextEntries
    <3> QED
      BY <3>2, <3>3
  <2>6. CASE c \notin entered
    <3>1. A \union F = A \union {c}
      BY <1>4, <2>1, <2>6
    <3>2. NextEntries(call, shown, entered, collect, before, c) = out
      BY <1>4, <2>4, <2>6 DEF NextEntries
    <3> QED
      BY <2>2, <3>1, <3>2
  <2>7. CASE Len(out) < limit /\ c \in entered
    <3> PICK below : below = collect[BelowCall(call, out, c)]
      OBVIOUS
    <3>1. Exact(below, c, B, limit - Len(out))
      BY <1>4, <2>3, <2>7
    <3>2. ~(Len(out) >= limit)
      BY <1>1, <2>2, <2>7
    <3>3. NextEntries(call, shown, entered, collect, before, c) = out \o below
      BY <1>4, <2>4, <2>7, <3>2 DEF NextEntries
    <3> PICK k \in 1..Len(out) : out[k] = c
      BY <2>2, <2>3
    <3>4. A \union {c} \in SUBSET R
      BY <2>3
    <3>5. (A \union {c}) \cap B = {}
      BY <2>1
    <3>6. Exact(out, p, A \union {c}, limit)
      BY <2>2
    <3>7. Len(out) < limit
      BY <2>7
    <3>8. Exact(out \o below, p, (A \union {c}) \union B, limit)
      BY ONLY <3>4, B \in SUBSET R, <3>5, limit \in Nat, <3>6, <3>7, k \in 1..Len(out), out[k] = c, <3>1, ExactJoin
    <3>9. (A \union {c}) \union B = A \union F
      BY <2>1
    <3> QED
      BY <3>3, <3>8, <3>9
  <2>8. Len(out) >= limit \/ Len(out) < limit
    BY <1>1, <2>2
  <2> QED
    BY <2>5, <2>6, <2>7, <2>8
<1>5. Len(before) >= limit \/ Len(before) < limit
  BY <1>1
<1> QED
  BY <1>2, <1>3, <1>4, <1>5

-------------------------------------------------------------------------------
(* What is visible below a directory.                                      *)

(* At most k levels below p, through entries that are shown. *)
Vis(t, shown, p, k) ==
  {q \in Below(t, p) \ {p} :
     /\ Len(q) - Len(p) <= k
     /\ \A r \in Prefixes(q) : Len(r) > Len(p) => r \in shown}

(* What is visible through the entry c. *)
Through(t, shown, c, k) == IF c \in shown THEN {c} \union Vis(t, shown, c, k) ELSE {}

(* What is known of a path below another. *)
LEMMA BelowPath ==
  ASSUME NEW t, IsTree(t), NEW p \in Seq(Names), NEW q \in Below(t, p), q # p
  PROVE  /\ q \in DOMAIN t /\ q \in Seq(Names) /\ IsPrefix(p, q)
         /\ Len(p) \in Nat /\ Len(q) \in Nat /\ Len(p) < Len(q)
         /\ \A i \in 1..Len(p) : q[i] = p[i]
         /\ \A i \in 1..Len(q) : q[i] \in Names
<1>1. q \in DOMAIN t /\ q \in Seq(Names) /\ IsPrefix(p, q)
  BY NodeKinds DEF Below
<1>2. /\ Len(p) \in Nat /\ Len(q) \in Nat /\ Len(p) <= Len(q)
      /\ \A i \in 1..Len(p) : p[i] = q[i]
  BY <1>1, PrefixPlaces
<1>3. Len(p) # Len(q)
  BY <1>1, <1>2, SeqEqual
<1>4. \A i \in 1..Len(q) : q[i] \in Names
  BY <1>1, LenProperties
<1> QED
  BY <1>1, <1>2, <1>3, <1>4

(* Nothing is no level below, or below a file. *)
LEMMA NothingVisible ==
  ASSUME NEW t, IsTree(t), NEW shown, NEW p \in Seq(Names)
  PROVE  /\ Vis(t, shown, p, 0) = {}
         /\ ~IsDir(t, p) => \A k : Vis(t, shown, p, k) = {}
<1>1. ASSUME NEW q \in Vis(t, shown, p, 0) PROVE FALSE
  <2>1. q \in Below(t, p) /\ q # p /\ Len(q) - Len(p) <= 0
    BY DEF Vis
  <2>2. Len(p) \in Nat /\ Len(q) \in Nat /\ Len(p) < Len(q)
    BY <2>1, BelowPath
  <2> QED
    BY <2>1, <2>2
<1>2. ASSUME ~IsDir(t, p), NEW k, NEW q \in Vis(t, shown, p, k) PROVE FALSE
  <2>1. q \in Below(t, p) /\ q # p
    BY DEF Vis
  <2>2. Below(t, p) = {} \/ Below(t, p) = {p}
    <3>1. ~Exists(t, p) \/ IsFile(t, p)
      BY <1>2 DEF Exists, IsFile, IsDir
    <3> QED
      BY <3>1, NothingBelow
  <2> QED
    BY <2>1, <2>2
<1>3. Vis(t, shown, p, 0) = {}
  BY <1>1
<1>4. ASSUME ~IsDir(t, p) PROVE \A k : Vis(t, shown, p, k) = {}
  <2> HIDE DEF Vis
  <2> QED
    BY <1>2, <1>4
<1> QED
  BY <1>3, <1>4

(* Whatever is visible through the child n has that name behind p. *)
LEMMA ThroughPlace ==
  ASSUME NEW t, IsTree(t), NEW shown \in SUBSET DOMAIN t, NEW p \in Seq(Names), NEW n \in Names, NEW k,
         NEW q \in Through(t, shown, Append(p, n), k)
  PROVE  q \in DOMAIN t /\ IsPrefix(Append(p, n), q) /\ q[Len(p) + 1] = n
<1> PICK c \in Seq(Names) : c = Append(p, n)
  BY ChildPath
<1>1. Len(p) \in Nat /\ Len(c) = Len(p) + 1 /\ c[Len(p) + 1] = n
  BY ChildPath, LenProperties
<1>2. CASE q = c
  BY <1>1, <1>2, PrefixOrder DEF Through
<1>3. CASE q # c
  <2>1. q \in Below(t, c)
    BY <1>3 DEF Through, Vis
  <2>2. q \in DOMAIN t /\ IsPrefix(c, q) /\ \A i \in 1..Len(c) : q[i] = c[i]
    BY <1>3, <2>1, BelowPath
  <2>3. Len(p) + 1 \in 1..Len(c)
    BY <1>1
  <2> QED
    BY <1>1, <2>2, <2>3
<1> QED
  BY <1>2, <1>3

(* What is visible below p is visible through one of its children. *)
LEMMA VisibleThrough ==
  ASSUME NEW t, IsTree(t), NEW shown \in SUBSET DOMAIN t, NEW p \in Seq(Names), NEW k \in Nat, k # 0
  PROVE  Vis(t, shown, p, k) = UNION {Through(t, shown, Append(p, n), k - 1) : n \in NamesIn(t, p)}
<1>1. ASSUME NEW q \in Vis(t, shown, p, k)
      PROVE  \E n \in NamesIn(t, p) : q \in Through(t, shown, Append(p, n), k - 1)
  <2>1. q \in Below(t, p) /\ q # p /\ Len(q) - Len(p) <= k /\ \A r \in Prefixes(q) : Len(r) > Len(p) => r \in shown
    BY DEF Vis
  <2>2. /\ q \in DOMAIN t /\ q \in Seq(Names) /\ IsPrefix(p, q)
        /\ Len(p) \in Nat /\ Len(q) \in Nat /\ Len(p) < Len(q)
        /\ \A i \in 1..Len(p) : q[i] = p[i]
        /\ \A i \in 1..Len(q) : q[i] \in Names
    BY <2>1, BelowPath
  <2> PICK n \in Names : n = q[Len(p) + 1]
    BY <2>2
  <2> PICK c \in Seq(Names) : c = Append(p, n)
    BY ChildPath
  <2>3. Len(c) = Len(p) + 1 /\ (\A i \in 1..Len(p) : c[i] = p[i]) /\ c[Len(p) + 1] = n
    BY ChildPath
  <2>4. IsPrefix(c, q)
    <3>1. Len(c) <= Len(q) /\ \A i \in 1..Len(c) : c[i] = q[i]
      BY <2>2, <2>3
    <3> QED
      BY <2>2, <3>1, PrefixPlaces
  <2>5. c \in Prefixes(q) /\ Len(c) > Len(p)
    <3>1. q \in Seq(Names)
      BY <2>2
    <3>2. c \in Prefixes(q) <=> c \in Seq(Names) /\ IsPrefix(c, q)
      BY ONLY <3>1, PrefixesArePrefixes
    <3> QED
      BY <2>2, <2>3, <2>4, <3>2
  <2>6. c \in shown
    BY <2>1, <2>5
  <2>7. n \in NamesIn(t, p)
    BY <2>6 DEF NamesIn
  <2>8. ASSUME q # c PROVE q \in Vis(t, shown, c, k - 1)
    <3>1. q \in Below(t, c) \ {c}
      BY <2>2, <2>4, <2>8 DEF Below
    <3>2. Len(q) - Len(c) <= k - 1
      BY <2>1, <2>2, <2>3
    <3>3. ASSUME NEW r \in Prefixes(q), Len(r) > Len(c) PROVE r \in shown
      <4>1. r \in Seq(Names)
        BY <2>2, PrefixesArePrefixes
      <4>2. Len(r) > Len(p)
        BY <2>2, <2>3, <3>3, <4>1, LenProperties
      <4> QED
        BY <2>1, <4>2
    <3> QED
      BY <3>1, <3>2, <3>3 DEF Vis
  <2> QED
    BY <2>6, <2>7, <2>8 DEF Through
<1>2. ASSUME NEW n \in NamesIn(t, p), NEW q \in Through(t, shown, Append(p, n), k - 1)
      PROVE  q \in Vis(t, shown, p, k)
  <2>0. n \in Names
    BY DEF NamesIn
  <2> PICK c \in Seq(Names) : c = Append(p, n)
    BY <2>0, ChildPath
  <2>1. /\ Len(p) \in Nat /\ Len(c) = Len(p) + 1 /\ \A i \in 1..Len(p) : c[i] = p[i]
        /\ IsPrefix(p, c) /\ c # p
    <3>1. Len(p) \in Nat /\ Len(c) = Len(p) + 1 /\ \A i \in 1..Len(p) : c[i] = p[i]
      BY <2>0, ChildPath, LenProperties
    <3>2. IsPrefix(p, c) <=> Len(p) <= Len(c) /\ \A i \in 1..Len(p) : p[i] = c[i]
      BY ONLY p \in Seq(Names), c \in Seq(Names), PrefixPlaces
    <3> QED
      BY <3>1, <3>2
  <2>2. q \in DOMAIN t /\ IsPrefix(c, q)
    BY <2>0, ThroughPlace
  <2>3. q \in Seq(Names) /\ Len(q) \in Nat /\ Len(c) <= Len(q) /\ \A i \in 1..Len(c) : c[i] = q[i]
    <3>1. q \in Seq(Names)
      BY <2>2, NodeKinds
    <3>2. /\ Len(q) \in Nat
          /\ IsPrefix(c, q) <=> Len(c) <= Len(q) /\ \A i \in 1..Len(c) : c[i] = q[i]
      BY ONLY <3>1, c \in Seq(Names), PrefixPlaces
    <3> QED
      BY <2>2, <3>1, <3>2
  <2>4. c \in shown
    BY DEF Through
  <2>5. q \in Below(t, p) \ {p}
    <3>1. IsPrefix(p, q)
      BY <2>1, <2>2, <2>3, PrefixOrder
    <3>2. q # p
      BY <2>1, <2>3
    <3> QED
      BY <2>2, <3>1, <3>2 DEF Below
  <2>6. q = c \/ q \in Vis(t, shown, c, k - 1)
    BY DEF Through
  <2>7. Len(q) - Len(p) <= k
    <3>1. q # c => Len(q) - Len(c) <= k - 1
      BY <2>6 DEF Vis
    <3> QED
      BY <2>1, <2>3, <3>1
  <2>8. ASSUME NEW r \in Prefixes(q), Len(r) > Len(p) PROVE r \in shown
    <3>1. r \in Seq(Names) /\ IsPrefix(r, q)
      BY <2>3, PrefixesArePrefixes
    <3>2. Len(r) \in Nat /\ Len(r) <= Len(q) /\ \A i \in 1..Len(r) : r[i] = q[i]
      BY <2>3, <3>1, PrefixPlaces
    <3>3. CASE Len(r) = Len(c)
      <4>1. r = c
        BY <2>3, <3>1, <3>2, <3>3, SeqEqual
      <4> QED
        BY <2>4, <4>1
    <3>4. CASE Len(r) # Len(c)
      <4>1. Len(r) > Len(c)
        BY <2>1, <2>8, <3>2, <3>4
      <4>2. q # c
        BY <2>1, <2>3, <3>2, <4>1
      <4> QED
        BY <2>6, <4>1, <4>2 DEF Vis
    <3> QED
      BY <3>3, <3>4
  <2> QED
    BY <2>5, <2>7, <2>8 DEF Vis
<1> HIDE DEF Vis, Through, NamesIn
<1>3. Vis(t, shown, p, k) \subseteq UNION {Through(t, shown, Append(p, n), k - 1) : n \in NamesIn(t, p)}
  BY <1>1
<1>4. UNION {Through(t, shown, Append(p, n), k - 1) : n \in NamesIn(t, p)} \subseteq Vis(t, shown, p, k)
  BY <1>2
<1> QED
  BY <1>3, <1>4

-------------------------------------------------------------------------------
(* The listing of a directory is exact when those below it are.            *)

DirsOf(t) == {p \in DOMAIN t : IsDir(t, p)}

(* Which directories a listing enters: all, or none. *)
Enters(t, entered, levels) == entered = DirsOf(t) \/ (entered = {} /\ levels \in 0..1)

LEMMA EntriesExact ==
  ASSUME NEW t, IsTree(t), NEW shown \in SUBSET DOMAIN t, NEW depth \in Nat, NEW limit \in Nat,
         NEW call \in Call(DirsOf(t), depth, limit),
         NEW entered, Enters(t, entered, call.levels),
         NEW collect,
         \A x \in Call(DirsOf(t), depth, limit) :
           x.levels = call.levels - 1 => Exact(collect[x], x.dir, Vis(t, shown, x.dir, x.levels), x.limit)
  PROVE  Exact(Entries(t, call, shown, entered, collect), call.dir,
               Vis(t, shown, call.dir, call.levels), call.limit)
<1>0. call.dir \in DirsOf(t) /\ call.levels \in 0..depth /\ call.limit \in 0..limit
  BY DEF Call
<1> PICK p \in Seq(Names) : p = call.dir
  BY <1>0, NodeKinds DEF DirsOf
<1> PICK k \in Nat, l \in Nat : k = call.levels /\ l = call.limit
  BY <1>0
<1> PICK children : children = Children(t, p)
  OBVIOUS
<1>1. Lists(children, NamesIn(t, p))
  BY ChildrenListed
<1>2. children \in Seq(NamesIn(t, p)) /\ Len(children) \in Nat
  BY <1>1, LenProperties DEF Lists
<1> PICK n \in Nat : n = Len(children)
  BY <1>2
<1>3. /\ \A i \in 1..n : children[i] \in NamesIn(t, p)
      /\ \A i, j \in 1..n : children[i] = children[j] => i = j
      /\ \A x \in NamesIn(t, p) : \E i \in 1..n : children[i] = x
  BY <1>1, <1>2, LenProperties DEF Lists, Distinct
<1>4. PICK g : /\ EntriesUpTo(call, shown, entered, collect, children, g, n)
               /\ Entries(t, call, shown, entered, collect) = g[n]
  BY EntriesSteps
<1>5. CASE k = 0
  <2>0. EntriesUpTo(call, shown, entered, collect, children, g, n)
    BY <1>4
  <2>a. call.levels = 0 => g[n] = <<>>
    BY ONLY <2>0, n \in Nat, EntriesStep
  <2>1. g[n] = <<>>
    BY <1>5, <2>a
  <2>2. Vis(t, shown, p, k) = {}
    BY <1>5, NothingVisible
  <2>3. Exact(<<>>, p, {}, l)
    BY ExactNone
  <2> QED
    BY <1>4, <2>1, <2>2, <2>3
<1>6. CASE k # 0
  <2> PICK j \in Nat : j = k - 1
    BY <1>6
  <2>1. g[0] = <<>> /\ \A i \in 1..n : g[i] = NextEntries(call, shown, entered, collect, g[i - 1], Append(p, children[i]))
    BY <1>4, <1>6, EntriesStep
  <2> DEFINE Fam(i) == Through(t, shown, Append(p, children[i]), j)
             All(m) == UNION {Fam(i) : i \in 1..m}
             T == {m \in 0..n : Exact(g[m], p, All(m), l)}
  <2>2. \A i \in 1..n : \A q \in Fam(i) : q \in DOMAIN t /\ q[Len(p) + 1] = children[i]
    <3> TAKE i \in 1..n
    <3> TAKE q \in Fam(i)
    <3> PICK x \in Names : x = children[i]
      BY <1>3 DEF NamesIn
    <3>1. q \in Through(t, shown, Append(p, x), j)
      OBVIOUS
    <3>2. q \in DOMAIN t /\ IsPrefix(Append(p, x), q) /\ q[Len(p) + 1] = x
      BY ONLY IsTree(t), shown \in SUBSET DOMAIN t, p \in Seq(Names), x \in Names, <3>1, ThroughPlace
    <3> QED
      BY <3>2
  <2>3. 0 \in T
    <3>1. All(0) = {}
      OBVIOUS
    <3> HIDE DEF All
    <3>2. Exact(g[0], p, All(0), l)
      BY <2>1, <3>1, ExactNone
    <3> QED
      BY <3>2
  <2>4. ASSUME NEW m \in 1..n, m - 1 \in T PROVE m \in T
    <3> PICK x \in NamesIn(t, p) : x = children[m]
      BY <1>3
    <3>x. x \in Names
      BY DEF NamesIn
    <3> PICK c \in Seq(Names) : c = Append(p, x)
      BY <3>x, ChildPath
    <3> PICK A : A = All(m - 1)
      OBVIOUS
    <3> PICK B : B = Vis(t, shown, c, j)
      OBVIOUS
    <3> PICK F : F = Fam(m)
      OBVIOUS
    <3>1. All(m) = A \union F
      <4>1. \A i \in 1..m : i \in 1..m - 1 \/ i = m
        OBVIOUS
      <4>2. \A i \in 1..m - 1 : i \in 1..m
        OBVIOUS
      <4>3. m \in 1..m
        OBVIOUS
      <4> HIDE DEF Fam
      <4> QED
        BY <4>1, <4>2, <4>3
    <3>2. A \cap F = {}
      <4> SUFFICES ASSUME NEW q \in A, q \in F PROVE FALSE
        OBVIOUS
      <4> HIDE DEF Fam
      <4> PICK i \in 1..m - 1 : q \in Fam(i)
        OBVIOUS
      <4>1. i \in 1..n /\ i # m
        OBVIOUS
      <4>2. children[i] = children[m]
        BY <2>2, <4>1
      <4> QED
        BY <1>3, <4>1, <4>2
    <3>3. A \in SUBSET DOMAIN t
      <4> HIDE DEF Fam
      <4>1. \A i \in 1..m - 1 : i \in 1..n
        OBVIOUS
      <4> QED
        BY <2>2, <4>1
    <3>4. B \in SUBSET DOMAIN t
      BY DEF Vis, Below
    <3>5. F = IF c \in shown THEN {c} \union B ELSE {}
      BY DEF Through
    <3>6. c \notin B
      BY DEF Vis
    <3>7. l = call.limit /\ call.dir = Front(c)
      BY <3>x, ChildPath
    <3>8. c \in shown /\ c \notin entered => B = {}
      <4>1. CASE entered = DirsOf(t)
        <5>1. ASSUME c \in shown, c \notin entered PROVE ~IsDir(t, c)
          BY <4>1, <5>1 DEF DirsOf
        <5> QED
          BY <5>1, NothingVisible
      <4>2. CASE call.levels \in 0..1
        <5>1. j = 0
          BY <1>6, <4>2
        <5> QED
          BY <5>1, NothingVisible
      <4> QED
        BY <4>1, <4>2 DEF Enters
    <3>9. ASSUME c \in shown, c \in entered, NEW out \in Seq(DOMAIN t), Len(out) < l
          PROVE  Exact(collect[BelowCall(call, out, c)], c, B, l - Len(out))
      <4>1. c \in DirsOf(t)
        BY <3>9 DEF Enters
      <4>2. DirsOf(t) \in SUBSET DOMAIN t
        BY DEF DirsOf
      <4> PICK y : y = BelowCall(call, out, c)
        OBVIOUS
      <4>a. call.levels # 0
        BY <1>6
      <4>b. Len(out) < call.limit
        BY <3>9
      <4>3. /\ y \in Call(DirsOf(t), depth, limit)
            /\ y = [dir |-> c, levels |-> call.levels - 1, limit |-> call.limit - Len(out)]
            /\ y.levels = call.levels - 1
        <5> PICK D : D = DOMAIN t
          OBVIOUS
        <5> PICK dirs \in SUBSET D : dirs = DirsOf(t)
          BY <4>2
        <5>3. call \in Call(dirs, depth, limit)
          OBVIOUS
        <5>4. out \in Seq(D)
          BY <3>9
        <5>5. c \in dirs
          BY <4>1
        <5>6. BelowCall(call, out, c) \in Call(dirs, depth, limit)
          BY ONLY dirs \in SUBSET D, depth \in Nat, limit \in Nat, <5>3, <4>a, <5>4, <4>b, <5>5, BelowIsCall
        <5>1. BelowCall(call, out, c) \in Call(DirsOf(t), depth, limit)
          BY <5>6
        <5>2. BelowCall(call, out, c) = [dir |-> c, levels |-> call.levels - 1, limit |-> call.limit - Len(out)]
          BY DEF BelowCall, Rest
        <5> QED
          BY <5>1, <5>2
      <4>4. Exact(collect[y], y.dir, Vis(t, shown, y.dir, y.levels), y.limit)
        BY <4>3
      <4>5. y.dir = c /\ y.levels = j /\ y.limit = l - Len(out)
        BY <4>3
      <4> QED
        BY <4>4, <4>5
    <3> PICK before : before = g[m - 1]
      OBVIOUS
    <3>10. Exact(before, call.dir, A, l)
      BY <2>4
    <3>11. c \in shown /\ c \in entered =>
             \A out \in Seq(DOMAIN t) : Len(out) < l =>
               Exact(collect[BelowCall(call, out, c)], c, B, l - Len(out))
      BY <3>9
    <3>12. call.limit = l
      OBVIOUS
    <3>13. call.dir = Front(c)
      BY <3>7
    <3>14. Exact(NextEntries(call, shown, entered, collect, before, c), call.dir, A \union F, l)
      BY ONLY <3>2, <3>3, <3>4, <3>5, <3>6, <3>12, <3>13, <3>8, <3>11, <3>10, l \in Nat,
              shown \in SUBSET DOMAIN t, NextExact
    <3>15. g[m] = NextEntries(call, shown, entered, collect, before, c)
      BY <2>1
    <3> HIDE DEF All
    <3>16. Exact(g[m], p, All(m), l)
      BY <3>1, <3>14, <3>15
    <3>17. m \in 0..n
      OBVIOUS
    <3> QED
      BY <3>16, <3>17
  <2>5. n \in T
    <3> HIDE DEF T
    <3>1. \A m \in 0..n : m \in T
      BY ONLY n \in Nat, <2>3, <2>4, UpTo
    <3> QED
      BY <3>1
  <2>6. All(n) = Vis(t, shown, p, k)
    <3>1. Vis(t, shown, p, k) = UNION {Through(t, shown, Append(p, x), k - 1) : x \in NamesIn(t, p)}
      BY ONLY IsTree(t), shown \in SUBSET DOMAIN t, p \in Seq(Names), k \in Nat, <1>6, VisibleThrough
    <3> PICK names : names = NamesIn(t, p)
      OBVIOUS
    <3>2. /\ \A i \in 1..n : children[i] \in names
          /\ \A x \in names : \E i \in 1..n : children[i] = x
      BY <1>3
    <3>3. Vis(t, shown, p, k) = UNION {Through(t, shown, Append(p, x), j) : x \in names}
      BY <3>1
    <3> QED
      BY ONLY <3>2, <3>3
  <2> QED
    BY <1>4, <2>5, <2>6
<1> QED
  BY <1>5, <1>6

-------------------------------------------------------------------------------
(* Listings.                                                               *)

CollectUpTo(t, shown, entered, limit, g, d) ==
  g = [call \in Call(DirsOf(t), d, limit) |-> Entries(t, call, shown, entered, g)]

(* A directory without a level left has no entries. *)
LEMMA NoLevels ==
  ASSUME NEW t, NEW call, call.dir \in Seq(Names), call.levels = 0, NEW shown, NEW entered, NEW collect
  PROVE  Entries(t, call, shown, entered, collect) = <<>>
<1> PICK children : children = Children(t, call.dir)
  OBVIOUS
<1>1. Len(children) \in Nat
  <2>1. Lists(children, NamesIn(t, call.dir))
    BY ChildrenListed
  <2> QED
    BY <2>1, LenProperties DEF Lists
<1> PICK n \in Nat : n = Len(children)
  BY <1>1
<1>2. PICK g : /\ EntriesUpTo(call, shown, entered, collect, children, g, n)
               /\ Entries(t, call, shown, entered, collect) = g[n]
  <2>1. n = Len(Children(t, call.dir))
    OBVIOUS
  <2>2. \E g : /\ EntriesUpTo(call, shown, entered, collect, Children(t, call.dir), g, n)
               /\ Entries(t, call, shown, entered, collect) = g[n]
    BY ONLY n \in Nat, <2>1, EntriesSteps
  <2> QED
    BY <2>2
<1>3. EntriesUpTo(call, shown, entered, collect, children, g, n)
  BY <1>2
<1>4. call.levels = 0 => g[n] = <<>>
  BY ONLY <1>3, n \in Nat, EntriesStep
<1> QED
  BY <1>2, <1>4

(* What is asked is about a directory's path. *)
LEMMA CallKinds ==
  ASSUME NEW t, IsTree(t), NEW d \in Nat, NEW limit \in Nat, NEW call \in Call(DirsOf(t), d, limit)
  PROVE  /\ call.dir \in DirsOf(t) /\ call.dir \in Seq(Names)
         /\ call.levels \in 0..d /\ call.limit \in 0..limit
<1>1. call.dir \in DirsOf(t) /\ call.levels \in 0..d /\ call.limit \in 0..limit
  BY DEF Call
<1> QED
  BY <1>1, NodeKinds DEF DirsOf

(* Calls of fewer levels. *)
LEMMA FewerLevels ==
  ASSUME NEW t, NEW d \in Nat, d # 0, NEW limit \in Nat, NEW call \in Call(DirsOf(t), d, limit)
  PROVE  call \in Call(DirsOf(t), d - 1, limit) <=> call.levels # d
<1>1. \A x : x \in 0..d - 1 <=> x \in 0..d /\ x # d
  OBVIOUS
<1> QED
  BY <1>1 DEF Call

(* The recursion of Listing has a solution, *)
LEMMA CollectExists ==
  ASSUME NEW t, IsTree(t), NEW shown \in SUBSET DOMAIN t, NEW entered \in SUBSET DirsOf(t),
         NEW depth \in Nat, NEW limit \in Nat
  PROVE  \E g : CollectUpTo(t, shown, entered, limit, g, depth)
<1> DEFINE Calls(d) == Call(DirsOf(t), d, limit)
           Typed(g, d) == \A call \in Calls(d) : g[call] \in Seq(DOMAIN t)
           T == {d \in Nat : \E g : CollectUpTo(t, shown, entered, limit, g, d) /\ Typed(g, d)}
<1>d. DirsOf(t) \in SUBSET DOMAIN t
  BY DEF DirsOf
<1>e. <<>> \in Seq(DOMAIN t)
  BY EmptySeq
<1>1. 0 \in T
  <2> DEFINE g == [call \in Calls(0) |-> <<>>]
  <2>1. \A call \in Calls(0) : call.levels = 0 /\ call.dir \in Seq(Names)
    BY CallKinds
  <2>2. \A call \in Calls(0) : Entries(t, call, shown, entered, g) = <<>>
    <3> HIDE DEF Calls, g
    <3> QED
      BY <2>1, NoLevels
  <2>3. g = [call \in Calls(0) |-> Entries(t, call, shown, entered, g)]
    <3>1. \A h : (\A call \in Calls(0) : Entries(t, call, shown, entered, h) = <<>>) =>
                   [call \in Calls(0) |-> <<>>] = [call \in Calls(0) |-> Entries(t, call, shown, entered, h)]
      OBVIOUS
    <3> QED
      BY <2>2, <3>1
  <2>4. Typed(g, 0)
    BY <1>e
  <2>5. CollectUpTo(t, shown, entered, limit, g, 0)
    BY <2>3, Zenon DEF CollectUpTo
  <2> QED
    BY <2>4, <2>5
<1>2. ASSUME NEW d \in 1..depth, d - 1 \in T PROVE d \in T
  <2> PICK b \in Nat : b = d - 1
    OBVIOUS
  <2>0. d \in Nat /\ d # 0
    OBVIOUS
  <2>1. PICK g : CollectUpTo(t, shown, entered, limit, g, b) /\ Typed(g, b)
    BY <1>2
  <2> DEFINE h == [call \in Calls(d) |-> IF call.levels = d THEN Entries(t, call, shown, entered, g) ELSE g[call]]
  <2>2. \A call \in Calls(d) : h[call] = IF call.levels = d THEN Entries(t, call, shown, entered, g) ELSE g[call]
    OBVIOUS
  <2>3. h = [call \in Calls(d) |-> h[call]]
    OBVIOUS
  <2> HIDE DEF h, Calls
  <2>4. \A call \in Calls(b) : g[call] = Entries(t, call, shown, entered, g)
    BY <2>1, Zenon DEF CollectUpTo, Calls
  <2>5. \A call \in Calls(d) : call \in Calls(b) <=> call.levels # d
    BY <2>0, FewerLevels DEF Calls
  <2>6. ASSUME NEW call \in Calls(d)
        PROVE  /\ Entries(t, call, shown, entered, g) \in Seq(DOMAIN t)
               /\ Entries(t, call, shown, entered, h) = Entries(t, call, shown, entered, g)
               /\ h[call] = Entries(t, call, shown, entered, g)
    <3>1. call.dir \in Seq(Names) /\ call.levels \in 0..d
      BY <2>0, CallKinds DEF Calls
    <3>2. \A x \in Calls(d) : x.levels = call.levels - 1 => g[x] \in Seq(DOMAIN t) /\ h[x] = g[x]
      <4> SUFFICES ASSUME NEW x \in Calls(d), x.levels = call.levels - 1
                   PROVE  g[x] \in Seq(DOMAIN t) /\ h[x] = g[x]
        OBVIOUS
      <4>1. x.levels # d
        BY <3>1
      <4>2. x \in Calls(b)
        BY <2>5, <4>1
      <4>3. g[x] \in Seq(DOMAIN t)
        BY <2>1, <4>2, Zenon
      <4>4. h[x] = g[x]
        BY <2>2, <4>1, Zenon
      <4> QED
        BY <4>3, <4>4
    <3>3. call \in Call(DirsOf(t), d, limit)
      BY DEF Calls
    <3>4. \A x \in Call(DirsOf(t), d, limit) : x.levels = call.levels - 1 => g[x] \in Seq(DOMAIN t) /\ h[x] = g[x]
      BY <3>2 DEF Calls
    <3>5. call.dir \in Seq(Names)
      BY <3>1
    <3>6. d \in Nat
      BY <2>0
    <3>7. /\ Entries(t, call, shown, entered, g) \in Seq(DOMAIN t)
          /\ Entries(t, call, shown, entered, h) = Entries(t, call, shown, entered, g)
      BY ONLY <1>d, <3>6, limit \in Nat, <3>3, shown \in SUBSET DOMAIN t, entered \in SUBSET DirsOf(t), <3>5, <3>4, EntriesAgree
    <3>8. h[call] = Entries(t, call, shown, entered, g)
      <4>1. CASE call.levels = d
        BY <2>2, <4>1, Zenon
      <4>2. CASE call.levels # d
        <5>1. g[call] = Entries(t, call, shown, entered, g)
          BY <2>4, <2>5, <4>2, Zenon
        <5> QED
          BY <2>2, <4>2, <5>1, Zenon
      <4> QED
        BY <4>1, <4>2
    <3> QED
      BY <3>7, <3>8
  <2>7. h = [call \in Calls(d) |-> Entries(t, call, shown, entered, h)]
    <3>1. \A call \in Calls(d) : h[call] = Entries(t, call, shown, entered, h)
      BY <2>6
    <3> QED
      BY <2>3, <3>1
  <2>8. CollectUpTo(t, shown, entered, limit, h, d)
    BY <2>7, Zenon DEF CollectUpTo, Calls
  <2>9. Typed(h, d)
    <3>1. \A call \in Calls(d) : h[call] \in Seq(DOMAIN t)
      <4> SUFFICES ASSUME NEW call \in Calls(d) PROVE h[call] \in Seq(DOMAIN t)
        OBVIOUS
      <4>1. /\ Entries(t, call, shown, entered, g) \in Seq(DOMAIN t)
            /\ h[call] = Entries(t, call, shown, entered, g)
        BY <2>6
      <4> QED
        BY <4>1, Zenon
    <3> QED
      BY <3>1
  <2> HIDE DEF Typed
  <2> QED
    BY <2>0, <2>8, <2>9
<1> HIDE DEF T
<1>3. depth \in T
  BY <1>1, <1>2, UpTo
<1> QED
  BY <1>3 DEF T

(* which is an exact listing of every directory. *)
LEMMA CollectExact ==
  ASSUME NEW t, IsTree(t), NEW shown \in SUBSET DOMAIN t, NEW depth \in Nat, NEW limit \in Nat,
         NEW entered, entered = DirsOf(t) \/ (entered = {} /\ depth \in 0..1),
         NEW g, CollectUpTo(t, shown, entered, limit, g, depth)
  PROVE  \A call \in Call(DirsOf(t), depth, limit) :
           Exact(g[call], call.dir, Vis(t, shown, call.dir, call.levels), call.limit)
<1> DEFINE Good(call) == Exact(g[call], call.dir, Vis(t, shown, call.dir, call.levels), call.limit)
           T == {k \in 0..depth : \A call \in Call(DirsOf(t), depth, limit) : call.levels = k => Good(call)}
<1>1. \A call \in Call(DirsOf(t), depth, limit) : g[call] = Entries(t, call, shown, entered, g)
  BY Zenon DEF CollectUpTo
<1>2. ASSUME NEW k \in 0..depth, k = 0 \/ k - 1 \in T, NEW call \in Call(DirsOf(t), depth, limit), call.levels = k
      PROVE  Good(call)
  <2>1. Enters(t, entered, call.levels)
    <3>1. depth \in 0..1 => k \in 0..1
      OBVIOUS
    <3> QED
      BY <1>2, <3>1 DEF Enters
  <2>2. \A x \in Call(DirsOf(t), depth, limit) :
          x.levels = call.levels - 1 => Exact(g[x], x.dir, Vis(t, shown, x.dir, x.levels), x.limit)
    <3> SUFFICES ASSUME NEW x \in Call(DirsOf(t), depth, limit), x.levels = call.levels - 1
                 PROVE  Exact(g[x], x.dir, Vis(t, shown, x.dir, x.levels), x.limit)
      OBVIOUS
    <3>1. x.levels \in 0..depth
      BY CallKinds
    <3>2. k # 0 /\ x.levels = k - 1
      BY <1>2, <3>1
    <3> QED
      BY <1>2, <3>2
  <2>3. Exact(Entries(t, call, shown, entered, g), call.dir, Vis(t, shown, call.dir, call.levels), call.limit)
    BY ONLY IsTree(t), shown \in SUBSET DOMAIN t, depth \in Nat, limit \in Nat,
            call \in Call(DirsOf(t), depth, limit), <2>1, <2>2, EntriesExact
  <2> QED
    BY <1>1, <2>3
<1> HIDE DEF Good
<1>3. 0 \in T
  BY <1>2
<1>4. ASSUME NEW k \in 1..depth, k - 1 \in T PROVE k \in T
  <2>1. k \in 0..depth
    OBVIOUS
  <2>2. ASSUME NEW call \in Call(DirsOf(t), depth, limit), call.levels = k PROVE Good(call)
    BY <1>2, <1>4, <2>1, <2>2
  <2> QED
    BY <2>1, <2>2
<1>5. \A k \in 0..depth : k \in T
  <2> HIDE DEF T
  <2> QED
    BY ONLY depth \in Nat, <1>3, <1>4, UpTo
<1>6. ASSUME NEW call \in Call(DirsOf(t), depth, limit) PROVE Good(call)
  BY <1>5, CallKinds
<1> QED
  BY <1>6 DEF Good

(* There are finitely many names, *)
LEMMA NamesAreFinite ==
  IsFiniteSet(Names)
<1>1. Lists(Sorted(Names), Names)
  BY SortedLists
<1> QED
  BY <1>1, ListCounts

(* and so is what is visible at any depth. *)
LEMMA VisibleIsFinite ==
  ASSUME NEW t, IsTree(t), NEW shown \in SUBSET DOMAIN t, NEW p \in Seq(Names), NEW depth \in Nat
  PROVE  IsFiniteSet(Vis(t, shown, p, depth))
<1> DEFINE Finite(k) == \A q \in Seq(Names) : IsFiniteSet(Vis(t, shown, q, k))
           T == {k \in 0..depth : Finite(k)}
<1>1. 0 \in T
  <2>1. \A q \in Seq(Names) : Vis(t, shown, q, 0) = {}
    BY NothingVisible
  <2> QED
    BY <2>1, FS_EmptySet
<1>2. ASSUME NEW k \in 1..depth, k - 1 \in T PROVE k \in T
  <2> PICK j \in Nat : j = k - 1
    OBVIOUS
  <2>0. k \in Nat /\ k # 0 /\ k \in 0..depth /\ Finite(j)
    BY <1>2
  <2>1. ASSUME NEW q \in Seq(Names) PROVE IsFiniteSet(Vis(t, shown, q, k))
    <3> DEFINE f == [n \in NamesIn(t, q) |-> Through(t, shown, Append(q, n), j)]
               S == {Through(t, shown, Append(q, n), j) : n \in NamesIn(t, q)}
    <3>1. Vis(t, shown, q, k) = UNION S
      <4>1. k \in Nat
        BY <2>0
      <4>2. k # 0
        BY <2>0
      <4>3. Vis(t, shown, q, k) = UNION {Through(t, shown, Append(q, n), k - 1) : n \in NamesIn(t, q)}
        BY ONLY IsTree(t), shown \in SUBSET DOMAIN t, q \in Seq(Names), <4>1, <4>2, VisibleThrough
      <4> QED
        BY <4>3
    <3>2. IsFiniteSet(NamesIn(t, q))
      <4>1. NamesIn(t, q) \in SUBSET Names
        BY DEF NamesIn
      <4> QED
        BY <4>1, NamesAreFinite, FS_Subset
    <3>3. f \in Surjection(NamesIn(t, q), S)
      BY DEF Surjection
    <3>4. IsFiniteSet(S)
      <4> HIDE DEF f, S
      <4> QED
        BY <3>2, <3>3, FS_Surjection
    <3>5. ASSUME NEW n \in NamesIn(t, q) PROVE IsFiniteSet(Through(t, shown, Append(q, n), j))
      <4>1. Append(q, n) \in Seq(Names)
        BY ChildPath DEF NamesIn
      <4> PICK c \in Seq(Names) : c = Append(q, n)
        BY <4>1
      <4> PICK B : B = Vis(t, shown, c, j)
        OBVIOUS
      <4>2. IsFiniteSet(B)
        BY <2>0
      <4>3. IsFiniteSet(B \union {c}) /\ {c} \union B = B \union {c}
        BY <4>2, FS_AddElement
      <4>4. Through(t, shown, c, j) = IF c \in shown THEN {c} \union B ELSE {}
        BY DEF Through
      <4>5. IsFiniteSet(Through(t, shown, c, j))
        BY <4>3, <4>4, FS_EmptySet
      <4> QED
        BY <4>5
    <3>6. \A U \in S : IsFiniteSet(U)
      BY <3>5
    <3>7. IsFiniteSet(UNION S)
      <4> HIDE DEF S
      <4> QED
        BY <3>4, <3>6, FS_UNION
    <3> QED
      BY <3>1, <3>7
  <2>2. Finite(k)
    BY <2>1
  <2> HIDE DEF Finite
  <2> QED
    BY <2>0, <2>2
<1>3. \A k \in 0..depth : k \in T
  <2> HIDE DEF T
  <2> QED
    BY ONLY depth \in Nat, <1>1, <1>2, UpTo
<1>4. depth \in T
  <2> HIDE DEF T
  <2> QED
    BY <1>3
<1>5. Finite(depth)
  <2> HIDE DEF Finite
  <2> QED
    BY <1>4
<1> QED
  BY <1>5

(* What an agent is shown of the entries below base. *)
ShownIn(t, base, vp) == {c \in DOMAIN t : Last(c) \notin Ignored /\ ~Excluded(Display(base, vp, c))}

(* A listing is exact. *)
LEMMA ListingExact ==
  ASSUME NEW t, IsTree(t), NEW base \in DirsOf(t), NEW vp, NEW depth \in Nat, NEW limit \in Nat,
         NEW recursive \in BOOLEAN, recursive \/ depth \in 0..1
  PROVE  Exact(Listing(t, base, vp, depth, limit, recursive, {}), base,
               Vis(t, ShownIn(t, base, vp), base, depth), limit)
<1> DEFINE shown == {c \in DOMAIN t : /\ Last(c) \notin Ignored
                                      /\ MatchesFilters(t, c, Display(base, vp, c), {}, {}, {})}
           entered == IF recursive THEN DirsOf(t) ELSE {}
           first == [dir |-> base, levels |-> depth, limit |-> limit]
           g == CHOOSE h : CollectUpTo(t, shown, entered, limit, h, depth)
<1>1. shown = ShownIn(t, base, vp)
  BY DEF MatchesFilters, ShownIn
<1>2. Listing(t, base, vp, depth, limit, recursive, {}) = g[first]
  <2>1. IsDir(t, base)
    BY DEF DirsOf
  <2> QED
    BY <2>1 DEF Listing, CollectUpTo, Call, DirsOf
<1> PICK S : S = ShownIn(t, base, vp)
  OBVIOUS
<1>3. S \in SUBSET DOMAIN t
  BY DEF ShownIn
<1> PICK e : e = entered
  OBVIOUS
<1>4. e \in SUBSET DirsOf(t)
  OBVIOUS
<1>5. e = DirsOf(t) \/ (e = {} /\ depth \in 0..1)
  OBVIOUS
<1>6. CollectUpTo(t, shown, entered, limit, g, depth)
  <2>1. \E h : CollectUpTo(t, S, e, limit, h, depth)
    BY ONLY IsTree(t), <1>3, <1>4, depth \in Nat, limit \in Nat, CollectExists
  <2>2. S = shown /\ e = entered
    BY <1>1
  <2> HIDE DEF shown, entered
  <2>3. \E h : CollectUpTo(t, shown, entered, limit, h, depth)
    BY <2>1, <2>2
  <2> QED
    BY <2>3
<1> HIDE DEF g
<1>7. CollectUpTo(t, S, e, limit, g, depth)
  <2>1. S = shown /\ e = entered
    BY <1>1
  <2> HIDE DEF shown, entered
  <2> QED
    BY <1>6, <2>1
<1>8. \A call \in Call(DirsOf(t), depth, limit) :
        Exact(g[call], call.dir, Vis(t, S, call.dir, call.levels), call.limit)
  BY ONLY IsTree(t), <1>3, depth \in Nat, limit \in Nat, <1>5, <1>7, CollectExact
<1>9. first \in Call(DirsOf(t), depth, limit) /\ first.dir = base /\ first.levels = depth /\ first.limit = limit
  BY DEF Call
<1> HIDE DEF first
<1>10. Exact(g[first], first.dir, Vis(t, S, first.dir, first.levels), first.limit)
  BY <1>8, <1>9
<1>11. Exact(g[first], base, Vis(t, S, base, depth), limit)
  BY <1>9, <1>10
<1> QED
  BY <1>2, <1>11

(* It lists what the agent can see. *)
LEMMA VisibleIsShown ==
  ASSUME NEW t, t = tree, IsTree(t), NEW base \in Seq(Names), NEW vp, NEW depth
  PROVE  Visible(base, vp, depth) = Vis(t, ShownIn(t, base, vp), base, depth)
<1> SUFFICES ASSUME NEW q \in Below(t, base) \ {base}, NEW r \in Prefixes(q), Len(r) > Len(base)
             PROVE  r \in DOMAIN t
  BY DEF Visible, Vis, ShownIn
<1>1. q \in DOMAIN t /\ q \in Seq(Names) /\ Len(base) \in Nat
  BY BelowPath
<1>2. r \in Seq(Names) /\ IsPrefix(r, q)
  BY <1>1, PrefixesArePrefixes
<1>3. CASE r = q
  BY <1>1, <1>3
<1>4. CASE r # q
  <2>1. IsDir(t, r)
    BY <1>1, <1>2, <1>4, AncestorsExist
  <2>2. r # <<>>
    BY <1>1, EmptySeq
  <2> QED
    BY <2>1, <2>2 DEF IsDir
<1> QED
  BY <1>3, <1>4

(* What a listing of a directory shows, and in which order. *)
ShowsExactly(list, base, all, limit) ==
  /\ ToSet(list) \subseteq all
  /\ Len(list) = Cardinality(ToSet(list))
  /\ Len(list) = IF Cardinality(all) < limit THEN Cardinality(all) ELSE limit
  /\ \A i \in DOMAIN list : Parent(list[i]) = base \/ \E j \in 1..(i-1) : list[j] = Parent(list[i])

LEMMA ReadExact ==
  ASSUME NEW t, t = tree, IsTree(t), NEW base \in DirsOf(t), NEW vp, NEW depth \in {1, 3}, NEW limit \in Nat,
         NEW mode, mode = IF depth = 1 THEN "list" ELSE "tree",
         NEW list, list = ReadDirectory(t, base, vp, mode, depth, limit, 0, {})
  PROVE  ShowsExactly(list, base, Visible(base, vp, depth), limit)
<1> PICK all : all = Vis(t, ShownIn(t, base, vp), base, depth)
  OBVIOUS
<1>0. base \in Seq(Names) /\ ShownIn(t, base, vp) \in SUBSET DOMAIN t
  BY NodeKinds DEF DirsOf, ShownIn
<1>1. Visible(base, vp, depth) = all
  BY <1>0, VisibleIsShown
<1>2. IsFiniteSet(all)
  <2>1. base \in Seq(Names)
    BY <1>0
  <2>2. ShownIn(t, base, vp) \in SUBSET DOMAIN t
    BY <1>0
  <2>3. depth \in Nat
    OBVIOUS
  <2>4. IsFiniteSet(Vis(t, ShownIn(t, base, vp), base, depth))
    BY ONLY IsTree(t), <2>1, <2>2, <2>3, VisibleIsFinite
  <2> QED
    BY <2>4
<1> PICK recursive \in BOOLEAN : recursive = (mode = "tree")
  OBVIOUS
<1>3. /\ mode \in {"list", "tree"} /\ (IF mode = "tree" THEN depth ELSE 1) = depth
      /\ depth \in Nat
  OBVIOUS
<1>a. recursive \/ depth \in 0..1
  <2>1. depth \in 0..1 \/ mode = "tree"
    OBVIOUS
  <2>2. mode = "tree" => recursive
    BY Zenon
  <2> QED
    BY <2>1, <2>2
<1>4. Exact(Listing(t, base, vp, depth, limit, recursive, {}), base, all, limit)
  <2>1. depth \in Nat
    BY <1>3
  <2>2. Exact(Listing(t, base, vp, depth, limit, recursive, {}), base,
              Vis(t, ShownIn(t, base, vp), base, depth), limit)
    BY ONLY IsTree(t), base \in DirsOf(t), <2>1, limit \in Nat, recursive \in BOOLEAN, <1>a, ListingExact
  <2> QED
    BY <2>2
<1>5. Listing(t, base, vp, depth, limit, recursive, {}) \in Seq(all)
  BY <1>4 DEF Exact
<1>6. list = Listing(t, base, vp, depth, limit, recursive, {})
  <2> PICK page : page = Listing(t, base, vp, IF mode = "tree" THEN depth ELSE 1, limit, mode = "tree", {})
    OBVIOUS
  <2>1. page = Listing(t, base, vp, depth, limit, recursive, {})
    BY <1>3
  <2>2. list = SubSeq(page, 0 + 1, Len(page))
    BY DEF ReadDirectory
  <2>3. page \in Seq(all)
    BY <1>5, <2>1
  <2>4. SubSeq(page, 1, Len(page)) = page
    BY <2>3, SubSeqFull
  <2> QED
    BY <2>1, <2>2, <2>4
<1>7. Exact(list, base, all, limit)
  BY <1>4, <1>6
<1>8. /\ ToSet(list) \subseteq all
      /\ Len(list) = Cardinality(ToSet(list))
      /\ Len(list) = IF Cardinality(all) < limit THEN Cardinality(all) ELSE limit
  BY ONLY limit \in Nat, <1>7, <1>2, ExactCounts
<1>9. \A i \in DOMAIN list : Parent(list[i]) = base \/ \E j \in 1..(i-1) : list[j] = Parent(list[i])
  <2>1. DOMAIN list = 1..Len(list)
    BY <1>7, LenProperties DEF Exact
  <2>2. BehindParent(list, base)
    BY <1>7 DEF Exact
  <2> QED
    BY <2>1, <2>2 DEF BehindParent, Parent
<1> QED
  BY <1>1, <1>8, <1>9 DEF ShowsExactly

-------------------------------------------------------------------------------
(* Searches.                                                               *)

(* A search for a name finds a file by its name alone. *)
LEMMA FileByName ==
  ASSUME NEW t, NEW p, NEW path, NEW n, NEW h
  PROVE  h \in FileHits(t, p, path, n, "filename") <=> h = [path |-> path, match |-> "filename"] /\ Last(p) = n
BY DEF FileHits, MatchesFilename

Found(t, base, vp, depth) ==
  {p \in DOMAIN t : /\ Parent(p) \in Walked(t, base, vp, depth) /\ Last(p) \notin Ignored
                    /\ ~Excluded(Display(base, vp, p))}

(* A walk of one level below base comes to what a listing of two shows. *)
LEMMA FoundIsVisible ==
  ASSUME NEW t, t = tree, IsTree(t), NEW base \in Seq(Names), base # <<>>, NEW vp
  PROVE  Found(t, base, vp, 1) = Visible(base, vp, 2)
<1> DEFINE Seen(q) == Last(q) \notin Ignored /\ ~Excluded(Display(base, vp, q))
<1>0. Len(base) \in Nat
  BY LenProperties
<1>1. ASSUME NEW p \in Found(t, base, vp, 1) PROVE p \in Visible(base, vp, 2)
  <2> PICK w : w = Front(p)
    OBVIOUS
  <2>1. p \in DOMAIN t /\ w \in Walked(t, base, vp, 1) /\ Seen(p)
    BY DEF Found, Parent
  <2>2. /\ w \in DOMAIN t /\ IsPrefix(base, w) /\ Len(w) - Len(base) <= 1
        /\ \A q \in Prefixes(w) : Len(q) > Len(base) => Seen(q)
    BY <2>1 DEF Walked, Below
  <2>3. p \in Seq(Names) /\ p # <<>> /\ w \in Seq(Names) /\ Len(p) \in Nat /\ Len(w) = Len(p) - 1
    BY <2>1, NodeKinds, FrontParts
  <2>4. IsPrefix(base, p) /\ base # p
    BY <2>2, <2>3, ParentIsPrefix
  <2>5. p \in Below(t, base) \ {base} /\ Len(p) - Len(base) <= 2
    BY <1>0, <2>1, <2>2, <2>3, <2>4 DEF Below
  <2>6. ASSUME NEW q \in Prefixes(p), Len(q) > Len(base) PROVE Seen(q)
    <3>1. q \in Seq(Names) /\ IsPrefix(q, p)
      BY <2>3, PrefixesArePrefixes
    <3>2. CASE q = p
      BY <2>1, <3>2
    <3>3. CASE q # p
      <4>1. IsPrefix(q, w)
        BY <2>3, <3>1, <3>3, PrefixOfParent
      <4>2. q \in Prefixes(w)
        BY <2>3, <3>1, <4>1, PrefixesArePrefixes
      <4> QED
        BY <2>2, <2>6, <4>2
    <3> QED
      BY <3>2, <3>3
  <2> QED
    BY <2>5, <2>6 DEF Visible
<1>2. ASSUME NEW p \in Visible(base, vp, 2) PROVE p \in Found(t, base, vp, 1)
  <2> PICK w : w = Front(p)
    OBVIOUS
  <2>1. /\ p \in Below(t, base) /\ p # base /\ Len(p) - Len(base) <= 2
        /\ \A q \in Prefixes(p) : Len(q) > Len(base) => Seen(q)
    BY DEF Visible
  <2>2. p \in DOMAIN t /\ p \in Seq(Names) /\ IsPrefix(base, p) /\ Len(p) \in Nat /\ Len(base) < Len(p)
    BY <2>1, BelowPath
  <2>3. p # <<>> /\ w \in Seq(Names) /\ IsDir(t, w) /\ Len(w) = Len(p) - 1
    BY <2>2, NodeKinds, FrontParts
  <2>4. IsPrefix(base, w)
    BY <2>1, <2>2, PrefixOfParent
  <2>5. w \in DOMAIN t
    <3>1. w # <<>>
      BY <2>3, <2>4, PrefixOrder
    <3> QED
      BY <2>3, <3>1 DEF IsDir
  <2>6. ASSUME NEW q \in Prefixes(w), Len(q) > Len(base) PROVE Seen(q)
    <3>1. q \in Seq(Names) /\ IsPrefix(q, w)
      BY <2>3, PrefixesArePrefixes
    <3>2. IsPrefix(q, p)
      BY <2>2, <2>3, <3>1, ParentIsPrefix
    <3>3. q \in Prefixes(p)
      BY <2>2, <3>1, <3>2, PrefixesArePrefixes
    <3> QED
      BY <2>1, <2>6, <3>3
  <2>7. Seen(p)
    <3>1. p \in Prefixes(p)
      <4>1. IsPrefix(p, p)
        BY <2>2, PrefixOrder
      <4> QED
        BY <2>2, <4>1, PrefixesArePrefixes
    <3> QED
      BY <2>1, <2>2, <3>1
  <2>8. w \in Walked(t, base, vp, 1)
    <3>1. w \in Below(t, base) /\ Len(w) - Len(base) <= 1
      BY <1>0, <2>1, <2>2, <2>3, <2>4, <2>5 DEF Below
    <3> QED
      BY <2>3, <2>6, <3>1 DEF Walked
  <2> QED
    BY <2>2, <2>7, <2>8 DEF Found, Parent
<1> HIDE DEF Found, Visible
<1> QED
  BY <1>1, <1>2

(* The paths that a search below base finds. *)
LEMMA SearchedBelow ==
  ASSUME NEW t, t = tree, IsTree(t), NEW base \in Seq(Names), base # <<>>, ~IsFile(t, base), NEW vp, NEW n
  PROVE  {h.path : h \in SearchHits(t, base, vp, n, "filename", 1)}
           = {Display(base, vp, p) : p \in {q \in Visible(base, vp, 2) : Last(q) = n}}
<1> PICK found : found = Found(t, base, vp, 1)
  OBVIOUS
<1> DEFINE Hit(p) == [path |-> Display(base, vp, p), match |-> "filename"]
<1>1. found = Visible(base, vp, 2)
  BY FoundIsVisible
<1>2. \A p \in found : IsDir(t, p) \/ IsFile(t, p)
  <2>1. \A p \in found : p \in DOMAIN t
    BY DEF Found
  <2> QED
    BY <2>1 DEF IsDir, IsFile
<1>3. SearchHits(t, base, vp, n, "filename", 1)
        = {[path |-> Display(base, vp, p), match |-> "filename"] :
              p \in {q \in found : IsDir(t, q) /\ MatchesFilename(q, n)}}
          \union UNION {FileHits(t, p, Display(base, vp, p), n, "filename") : p \in {q \in found : IsFile(t, q)}}
  BY DEF SearchHits, Found
<1>4. \A h : h \in SearchHits(t, base, vp, n, "filename", 1) <=> \E p \in found : Last(p) = n /\ h = Hit(p)
  <2>1. \A p, h : h \in FileHits(t, p, Display(base, vp, p), n, "filename") <=> h = Hit(p) /\ Last(p) = n
    BY FileByName
  <2>2. \A p : MatchesFilename(p, n) <=> Last(p) = n
    BY DEF MatchesFilename
  <2>3. SearchHits(t, base, vp, n, "filename", 1)
        = {Hit(p) : p \in {q \in found : IsDir(t, q) /\ MatchesFilename(q, n)}}
          \union UNION {FileHits(t, p, Display(base, vp, p), n, "filename") : p \in {q \in found : IsFile(t, q)}}
    BY <1>3
  <2> HIDE DEF Hit
  <2>4. ASSUME NEW h \in SearchHits(t, base, vp, n, "filename", 1) PROVE \E p \in found : Last(p) = n /\ h = Hit(p)
    BY <2>1, <2>2, <2>3
  <2>5. ASSUME NEW p \in found, Last(p) = n PROVE Hit(p) \in SearchHits(t, base, vp, n, "filename", 1)
    <3>1. CASE IsDir(t, p)
      BY <2>2, <2>3, <2>5, <3>1
    <3>2. CASE IsFile(t, p)
      <4>1. Hit(p) \in FileHits(t, p, Display(base, vp, p), n, "filename")
        BY <2>1, <2>5
      <4> QED
        BY <2>3, <3>2, <4>1
    <3> QED
      BY <1>2, <3>1, <3>2
  <2> QED
    BY <2>4, <2>5
<1>5. \A p : Hit(p).path = Display(base, vp, p)
  OBVIOUS
<1> PICK hits : hits = SearchHits(t, base, vp, n, "filename", 1)
  OBVIOUS
<1>6. \A h : h \in hits <=> \E p \in found : Last(p) = n /\ h = Hit(p)
  BY <1>4
<1> HIDE DEF Hit
<1>7. {h.path : h \in hits} = {Display(base, vp, p) : p \in {q \in found : Last(q) = n}}
  <2>1. ASSUME NEW h \in hits PROVE h.path \in {Display(base, vp, p) : p \in {q \in found : Last(q) = n}}
    BY <1>5, <1>6
  <2>2. ASSUME NEW p \in found, Last(p) = n PROVE Display(base, vp, p) \in {h.path : h \in hits}
    <3>1. Hit(p) \in hits
      BY <1>6, <2>2
    <3>2. Display(base, vp, p) = Hit(p).path
      BY <1>5
    <3> QED
      BY <3>1, <3>2
  <2> QED
    BY <2>1, <2>2
<1> QED
  BY <1>1, <1>7

(* What an agent may search is a path of names. *)
LEMMA RootsAreNames ==
  ASSUME NEW a \in Agents, NEW vp \in Paths[a] \union {<<>>}, NEW r \in SearchRoots(a, vp)
  PROVE  r \in Seq(Names) /\ Authorized(a, r)
<1>1. Authorized(a, r) /\ r \in (IF vp = <<>> THEN {<<m>> : m \in MountNames} ELSE {vp})
  BY DEF SearchRoots
<1>2. MountNames \subseteq Names /\ Paths[a] \subseteq Seq(Names)
  BY RequestsAssumption DEF RequestsAssumption, MountNames
<1>3. CASE vp = <<>>
  <2>1. PICK m \in MountNames : r = <<m>>
    BY <1>1, <1>3
  <2>2. \A x \in Names : <<x>> \in Seq(Names)
    OBVIOUS
  <2> QED
    BY <1>1, <1>2, <2>1, <2>2
<1>4. CASE vp # <<>>
  BY <1>1, <1>2, <1>4
<1> QED
  BY <1>3, <1>4

(* A search finds the entries that a listing shows. *)
FindsTheSame(a, vp, n) ==
  {h.path : h \in SearchFrom(a, vp, n, "filename", 1)} =
  UNION {{Display(Real(a, r), r, p) : p \in {q \in Visible(Real(a, r), r, 2) : Last(q) = n}} :
           r \in SearchRoots(a, vp)}

LEMMA SearchExact ==
  ASSUME TypeOK, NEW a \in Agents, NEW vp \in Paths[a] \union {<<>>}, NEW n,
         \A r \in SearchRoots(a, vp) : ~IsFile(tree, Real(a, r))
  PROVE  FindsTheSame(a, vp, n)
<1> DEFINE Hits(r) == SearchHits(tree, Real(a, r), r, n, "filename", 1)
           Shown(r) == {Display(Real(a, r), r, p) : p \in {q \in Visible(Real(a, r), r, 2) : Last(q) = n}}
<1>1. ASSUME NEW r \in SearchRoots(a, vp) PROVE {h.path : h \in Hits(r)} = Shown(r)
  <2>1. r \in Seq(Names) /\ Authorized(a, r)
    BY RootsAreNames
  <2>2. Real(a, r) \in Seq(Names) /\ Real(a, r) # <<>>
    BY <2>1, RealName DEF Authorized
  <2> PICK base \in Seq(Names) : base = Real(a, r)
    BY <2>2
  <2> PICK t : t = tree
    OBVIOUS
  <2>3. IsTree(t)
    BY DEF TypeOK
  <2>4. ~IsFile(t, base) /\ base # <<>>
    BY <2>2
  <2>5. {h.path : h \in SearchHits(t, base, r, n, "filename", 1)}
          = {Display(base, r, p) : p \in {q \in Visible(base, r, 2) : Last(q) = n}}
    BY <2>3, <2>4, SearchedBelow
  <2> QED
    BY <2>5
<1> PICK roots : roots = SearchRoots(a, vp)
  OBVIOUS
<1>2. SearchFrom(a, vp, n, "filename", 1) = UNION {Hits(r) : r \in roots}
  BY DEF SearchFrom
<1>3. FindsTheSame(a, vp, n) <=> {h.path : h \in SearchFrom(a, vp, n, "filename", 1)} = UNION {Shown(r) : r \in roots}
  BY DEF FindsTheSame
<1> HIDE DEF Hits, Shown
<1>4. \A r \in roots : {h.path : h \in Hits(r)} = Shown(r)
  BY <1>1
<1>5. {h.path : h \in UNION {Hits(r) : r \in roots}} = UNION {Shown(r) : r \in roots}
  <2>1. ASSUME NEW r \in roots, NEW h \in Hits(r) PROVE h.path \in UNION {Shown(q) : q \in roots}
    BY <1>4
  <2>2. ASSUME NEW r \in roots, NEW x \in Shown(r) PROVE x \in {h.path : h \in UNION {Hits(q) : q \in roots}}
    <3>1. PICK h \in Hits(r) : x = h.path
      BY <1>4
    <3> QED
      BY <3>1
  <2> QED
    BY <2>1, <2>2
<1> QED
  BY <1>2, <1>3, <1>5

(* Whatever the tree is, listings of it are exact. *)
LEMMA EveryListing ==
  ASSUME TypeOK
  PROVE  ListingIsExact
<1>1. ASSUME NEW a \in Agents, NEW vp \in Paths[a] \union {<<>>}, SearchRoots(a, vp) # {}, vp # <<>>,
             IsDir(tree, Real(a, vp)), NEW depth \in {1, 3}, NEW limit \in {2, 9}
      PROVE  ShowsExactly(ReadDirectory(tree, Real(a, vp), vp, IF depth = 1 THEN "list" ELSE "tree", depth, limit, 0, {}),
                          Real(a, vp), Visible(Real(a, vp), vp, depth), limit)
  <2>1. vp \in SearchRoots(a, vp)
    BY <1>1 DEF SearchRoots
  <2>2. vp \in Seq(Names) /\ Authorized(a, vp)
    BY <2>1, RootsAreNames
  <2>3. Real(a, vp) \in Seq(Names) /\ Real(a, vp) # <<>>
    BY <2>2, RealName DEF Authorized
  <2> PICK base : base = Real(a, vp)
    OBVIOUS
  <2> PICK t : t = tree
    OBVIOUS
  <2>4. IsTree(t)
    BY DEF TypeOK
  <2>5. base \in DirsOf(t)
    BY <1>1, <2>3 DEF IsDir, DirsOf
  <2> PICK mode : mode = IF depth = 1 THEN "list" ELSE "tree"
    OBVIOUS
  <2> PICK list : list = ReadDirectory(t, base, vp, mode, depth, limit, 0, {})
    OBVIOUS
  <2>6. limit \in Nat
    OBVIOUS
  <2>7. ShowsExactly(list, base, Visible(base, vp, depth), limit)
    BY <2>4, <2>5, <2>6, ReadExact
  <2> QED
    BY <2>7
<1>2. ASSUME NEW a \in Agents, NEW vp \in Paths[a] \union {<<>>}, NEW n,
             \A r \in SearchRoots(a, vp) : ~IsFile(tree, Real(a, r))
      PROVE  FindsTheSame(a, vp, n)
  BY <1>2, SearchExact
<1>3. ASSUME NEW a \in Agents, NEW vp \in {r \in Paths[a] \union {<<>>} : SearchRoots(a, r) # {}}
      PROVE  /\ vp # <<>> /\ IsDir(tree, Real(a, vp)) =>
                  \A depth \in {1, 3}, limit \in {2, 9} :
                    ShowsExactly(ReadDirectory(tree, Real(a, vp), vp, IF depth = 1 THEN "list" ELSE "tree", depth, limit, 0, {}),
                                 Real(a, vp), Visible(Real(a, vp), vp, depth), limit)
             /\ (\A r \in SearchRoots(a, vp) : ~IsFile(tree, Real(a, r))) =>
                  \A n \in Queries : FindsTheSame(a, vp, n)
  BY <1>1, <1>2
<1> QED
  BY <1>3, Zenon DEF ListingIsExact, ShowsExactly, FindsTheSame

-------------------------------------------------------------------------------
(* The theorems.                                                           *)

(* The variables have their types, and the disk has a tree, whatever was   *)
(* written, moved, copied or removed.                                      *)
THEOREM TypeCorrect == Spec => []TypeOK
<1>1. Init => TypeOK
  BY StartsAsTree
<1>2. TypeOK /\ [Next]_vars => TypeOK'
  <2> SUFFICES ASSUME TypeOK, [Next]_vars PROVE TypeOK'
    OBVIOUS
  <2>1. CASE Next
    BY <2>1, EveryStep DEF GoodStep
  <2>2. CASE UNCHANGED vars
    BY <2>2 DEF TypeOK, vars
  <2> QED
    BY <2>1, <2>2
<1> QED
  BY <1>1, <1>2, PTL DEF Spec

(* A create, a copy without force, a mkdir, an append that does not break  *)
(* off and an update with a checksum lose no text that the agent does not  *)
(* know.                                                                   *)
THEOREM CarefulKeeps == Spec => CarefulLosesNothing
<1>1. TypeOK /\ [Next]_vars =>
        [reply'.op \in {"create", "copy", "mkdir", "checked"} \/ (reply'.op = "append" /\ reply'.end # "io") =>
           \A p \in Files(tree) :
             LET seen == view[reply'.by] IN
             \/ p \in Files(tree') /\ tree'[p] = tree[p]
             \/ reply'.op = "append" /\ p \in Files(tree') /\ IsPrefix(Universal(tree[p]), tree'[p])
             \/ reply'.op = "checked" /\ seen.path = p /\ Universal(seen.text) = Universal(tree[p])]_vars
  BY EveryStep, Zenon DEF GoodStep
<1> QED
  BY <1>1, TypeCorrect, PTL DEF Spec, CarefulLosesNothing

(* An operation that is refused, and a dry run, change no file; a create   *)
(* or a copy without force that breaks off none that was there, and an     *)
(* update one at most.                                                     *)
THEOREM FailedKeeps == Spec => FailedChangesNoFile
<1>1. TypeOK /\ [Next]_vars =>
        [LET kept(p) == p \in Files(tree') /\ tree'[p] = tree[p] IN
         /\ (reply'.end \in {"refused", "mismatch", "os"} /\ reply'.op # "overwrite") \/ reply'.op = "dryRun" =>
              Files(tree') = Files(tree) /\ \A p \in Files(tree) : kept(p)
         /\ reply'.end = "io" /\ reply'.op \in {"create", "copy"} => \A p \in Files(tree) : kept(p)
         /\ reply'.end = "io" /\ reply'.op \in {"checked", "append", "blind"} =>
              Files(tree') = Files(tree) /\ \A p, q \in Files(tree) : kept(p) \/ kept(q) \/ p = q]_vars
  BY EveryStep, Zenon DEF GoodStep
<1> QED
  BY <1>1, TypeCorrect, PTL DEF Spec, FailedChangesNoFile

(* Every edit of every text that an agent can have made changes the lines  *)
(* that it names and no others, counted as read shows them.                *)
THEOREM EditsAreExact == Spec => []EditsKeepLines
<1>1. TypeOK => EditsKeepLines
  <2> SUFFICES ASSUME TypeOK, NEW p \in Files(tree), NEW action \in Actions, NEW lines \in Ranges,
                      ~CarvedOut(tree[p], action, lines)
               PROVE  EditIsExact(tree[p], action, lines)
    BY DEF EditsKeepLines, CarvedOut
  <2>1. tree[p] \in Seq(Tokens)
    BY NodeKinds DEF TypeOK, Files, IsFile
  <2>2. lines \in LineSelectors /\ \A content \in Inputs : content \in Seq(Tokens)
    BY RequestsAssumption DEF RequestsAssumption, LineSelectors
  <2> PICK text \in Seq(Tokens) : text = tree[p]
    BY <2>1
  <2>3. EditIsExact(text, action, lines)
    <3> SUFFICES ASSUME EditAllowed(Universal(text), action, lines), NEW content \in Inputs
                 PROVE  Rows(Edited(Universal(text), content, action, lines)) = ExpectedRows(text, content, action, lines)
      BY DEF EditIsExact
    <3>1. content \in Seq(Tokens) /\ ~CarvedOut(text, action, lines)
      BY <2>2
    <3> QED
      BY <2>2, <3>1, EditExact
  <2> QED
    BY <2>3
<1> QED
  BY <1>1, TypeCorrect, PTL

(* A listing has as many of the visible entries as its limit allows, each  *)
(* once and behind its directory, and a search for a name finds the same.  *)
THEOREM ListingsAreExact == Spec => []ListingIsExact
<1>1. TypeOK => ListingIsExact
  BY EveryListing
<1> QED
  BY <1>1, TypeCorrect, PTL

=============================================================================
