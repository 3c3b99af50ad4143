------------------------- MODULE AgentTemplates_proofs -------------------------
(***************************************************************************)
(* Theorems of AgentTemplates, for any names, sessions, requests, seeds    *)
(* and payloads.                                                           *)
(***************************************************************************)
EXTENDS AgentTemplates, FiniteSetTheorems, SequenceTheorems, WellFoundedInduction, TLAPS

-------------------------------------------------------------------------------
(* The text of a template: what FlattenSeq joins, and what comes back.      *)

(* A set of numbers has a least one: the intervals from 1 to its elements  *)
(* have one that is smallest by inclusion.                                 *)
LEMMA LeastNumber ==
  ASSUME NEW T \in SUBSET Nat, T # {}
  PROVE  \E x \in T : \A y \in T : x <= y
<1> DEFINE U == {1..x : x \in T}
           R == StrictSubsetOrdering(Nat)
<1>1. IsWellFoundedOn(R, FiniteSubsetsOf(Nat))
  BY FS_StrictSubsetOrderingWellFounded
<1>2. U \subseteq FiniteSubsetsOf(Nat) /\ U # {}
  <2>1. ASSUME NEW x \in T PROVE 1..x \in FiniteSubsetsOf(Nat)
    <3>1. 1..x \subseteq Nat /\ IsFiniteSet(1..x)
      BY FS_Interval
    <3> QED
      BY <3>1 DEF FiniteSubsetsOf
  <2> QED
    BY <2>1
<1>3. \E u \in U : \A v \in U : ~ (<<v, u>> \in R)
  <2> HIDE DEF U, R
  <2> QED
    BY <1>1, <1>2, WFMin
<1>4. PICK x \in T : \A y \in T : ~ (<<1..y, 1..x>> \in R)
  BY <1>3
<1>5. ASSUME NEW y \in T, y < x PROVE FALSE
  <2>1. 1..y \subseteq 1..x /\ x \in 1..x /\ x \notin 1..y
    BY <1>5
  <2>2. <<1..y, 1..x>> \in R
    BY <2>1 DEF StrictSubsetOrdering
  <2> QED
    BY <1>4, <2>2
<1> QED
  BY <1>5

(* What holds at 0 and goes on from each number to the next holds up to n. *)
LEMMA UpTo ==
  ASSUME NEW n \in Nat, NEW T, 0 \in T, \A m \in 1..n : m - 1 \in T => m \in T
  PROVE  \A m \in 0..n : m \in T
<1> DEFINE Left == {m \in 0..n : m \notin T}
<1> SUFFICES ASSUME Left # {} PROVE FALSE
  OBVIOUS
<1>1. PICK m \in Left : \A y \in Left : m <= y
  <2>1. Left \in SUBSET Nat
    OBVIOUS
  <2> HIDE DEF Left
  <2> QED
    BY <2>1, LeastNumber
<1>2. m \in 1..n /\ m - 1 \in 0..n /\ m - 1 \notin Left
  BY <1>1
<1> QED
  BY <1>1, <1>2

(* Stripping: what it leaves begins and ends with a character that is not  *)
(* blank, and such a text it leaves alone.                                 *)
Blank == {"sp", "nl"}
Tight(v) == Len(v) >= 1 /\ v[1] \notin Blank /\ v[Len(v)] \notin Blank

LEMMA StrippedIsTight ==
  ASSUME NEW S, NEW v \in Seq(S)
  PROVE  /\ Stripped(v) \in Seq(S)
         /\ Stripped(v) = <<>> \/ Tight(Stripped(v))
         /\ \A i \in 1..Len(Stripped(v)) : \E j \in 1..Len(v) : Stripped(v)[i] = v[j]
<1> DEFINE ink == {i \in DOMAIN v : v[i] \notin {"sp", "nl"}}
<1>1. Len(v) \in Nat /\ DOMAIN v = 1..Len(v) /\ \A i \in 1..Len(v) : v[i] \in S
  BY LenProperties, ElementOfSeq
<1>2. CASE ink = {}
  <2>1. Stripped(v) = <<>>
    BY <1>2 DEF Stripped
  <2> QED
    BY <2>1
<1>3. CASE ink # {}
  <2> DEFINE a == Min(ink)  b == Max(ink)
  <2>1. a \in ink /\ \A y \in ink : a <= y
    <3>1. ink \in SUBSET Nat
      BY <1>1
    <3> HIDE DEF ink
    <3>2. \E x \in ink : \A y \in ink : x <= y
      BY <1>3, <3>1, LeastNumber
    <3> QED
      BY <3>2 DEF Min
  <2>2. b \in ink /\ \A y \in ink : b >= y
    <3> DEFINE behind == {Len(v) - i : i \in ink}
    <3>1. behind \in SUBSET Nat /\ behind # {}
      BY <1>1, <1>3
    <3>2. ink \subseteq 1..Len(v)
      BY <1>1
    <3>3. PICK x \in behind : \A y \in behind : x <= y
      <4> HIDE DEF behind
      <4> QED
        BY <3>1, LeastNumber
    <3>4. PICK z \in ink : x = Len(v) - z
      OBVIOUS
    <3>5. ASSUME NEW y \in ink PROVE z >= y
      <4>1. Len(v) - z <= Len(v) - y
        BY <3>3, <3>4
      <4>2. y \in Nat /\ z \in Nat
        BY <1>1, <3>2
      <4> QED
        BY <1>1, <4>1, <4>2
    <3> HIDE DEF ink
    <3> QED
      BY <3>5 DEF Max
  <2>3. a \in 1..Len(v) /\ b \in 1..Len(v) /\ a <= b /\ v[a] \notin Blank /\ v[b] \notin Blank
    BY <1>1, <2>1, <2>2 DEF Blank
  <2>4. Stripped(v) = SubSeq(v, a, b)
    BY <1>3 DEF Stripped
  <2> HIDE DEF a, b, ink
  <2>5. /\ SubSeq(v, a, b) \in Seq(S) /\ Len(SubSeq(v, a, b)) = b - a + 1
        /\ \A i \in 1..b - a + 1 : SubSeq(v, a, b)[i] = v[a + i - 1]
    <3>1. a \in Int /\ b \in Int /\ \A i \in a..b : v[i] \in S
      BY <1>1, <2>3
    <3> QED
      BY <2>3, <3>1, SubSeqProperties
  <2>6. b - a + 1 \in Nat /\ b - a + 1 >= 1 /\ a + 1 - 1 = a /\ a + (b - a + 1) - 1 = b
    BY <2>3
  <2>7. Tight(SubSeq(v, a, b))
    BY <2>3, <2>5, <2>6 DEF Tight
  <2>8. ASSUME NEW i \in 1..b - a + 1 PROVE \E j \in 1..Len(v) : SubSeq(v, a, b)[i] = v[j]
    <3>1. a + i - 1 \in 1..Len(v)
      BY <1>1, <2>3
    <3> QED
      BY <2>5, <3>1
  <2> QED
    BY <2>4, <2>5, <2>7, <2>8
<1> QED
  BY <1>2, <1>3

LEMMA TightStays ==
  ASSUME NEW S, NEW v \in Seq(S), Tight(v)
  PROVE  Stripped(v) = v
<1> DEFINE ink == {i \in DOMAIN v : v[i] \notin {"sp", "nl"}}
<1>1. Len(v) \in Nat /\ DOMAIN v = 1..Len(v)
  BY LenProperties
<1>2. 1 \in ink /\ Len(v) \in ink /\ (\A y \in ink : y \in Nat /\ 1 <= y /\ y <= Len(v))
  BY <1>1 DEF Tight, Blank
<1>3. Stripped(v) = SubSeq(v, Min(ink), Max(ink))
  BY <1>2 DEF Stripped
<1> HIDE DEF ink
<1>4. Min(ink) = 1
  <2>1. \A x \in ink : (\A y \in ink : x <= y) => x = 1
    BY <1>2
  <2> QED
    BY <1>2, <2>1 DEF Min
<1>5. Max(ink) = Len(v)
  <2>1. \A x \in ink : (\A y \in ink : x >= y) => x = Len(v)
    BY <1>1, <1>2
  <2>2. \A y \in ink : Len(v) >= y
    BY <1>1, <1>2
  <2> QED
    BY <1>2, <2>1, <2>2 DEF Max
<1> QED
  BY <1>3, <1>4, <1>5, SubSeqFull

(* Stripping twice is stripping once. *)
LEMMA StrippedOnce ==
  ASSUME NEW S, NEW v \in Seq(S)
  PROVE  Stripped(Stripped(v)) = Stripped(v)
<1>1. CASE Stripped(v) = <<>>
  <2>1. Stripped(<<>>) = <<>>
    BY DEF Stripped
  <2> QED
    BY <1>1, <2>1
<1>2. CASE Tight(Stripped(v))
  BY <1>2, StrippedIsTight, TightStays
<1> QED
  BY <1>1, <1>2, StrippedIsTight

(* What FlattenSeq joins, piece by piece. *)
Joins(s, f, n) == f[0] = <<>> /\ \A i \in 1..n : f[i] = f[i - 1] \o s[i]

Joined(s, g, m) == g = [i \in 1..m |-> IF i = 1 THEN s[i] ELSE g[i - 1] \o s[i]]

(* Its recursion has a solution for every sequence. *)
LEMMA JoinedExists ==
  ASSUME NEW n \in Nat, NEW s
  PROVE  \E g : Joined(s, g, n)
<1> DEFINE T == {m \in Nat : \E g : Joined(s, g, m)}
<1>1. 0 \in T
  <2> DEFINE g == [i \in 1..0 |-> s[i]]
  <2>1. Joined(s, g, 0)
    BY DEF Joined
  <2> QED
    BY <2>1
<1>2. ASSUME NEW m \in 1..n, m - 1 \in T PROVE m \in T
  <2>1. PICK g : Joined(s, g, m - 1)
    BY <1>2
  <2> DEFINE last == IF m = 1 THEN s[1] ELSE g[m - 1] \o s[m]
             h == [i \in 1..m |-> IF i = m THEN last ELSE g[i]]
  <2>2. ASSUME NEW i \in 1..m PROVE h[i] = IF i = 1 THEN s[i] ELSE h[i - 1] \o s[i]
    <3>1. CASE i = m
      BY <3>1
    <3>2. CASE i # m
      <4>1. i \in 1..m - 1 /\ i - 1 # m /\ h[i] = g[i] /\ (i # 1 => h[i - 1] = g[i - 1])
        BY <3>2
      <4>2. g[i] = IF i = 1 THEN s[i] ELSE g[i - 1] \o s[i]
        BY <2>1, <4>1 DEF Joined
      <4> QED
        BY <4>1, <4>2
    <3> QED
      BY <3>1, <3>2
  <2>3. DOMAIN h = 1..m /\ h = [i \in 1..m |-> h[i]]
    OBVIOUS
  <2> HIDE DEF h
  <2>4. h = [i \in 1..m |-> IF i = 1 THEN s[i] ELSE h[i - 1] \o s[i]]
    BY <2>2, <2>3
  <2>5. Joined(s, h, m)
    BY <2>4, Zenon DEF Joined
  <2>6. m \in Nat
    OBVIOUS
  <2> QED
    BY <2>5, <2>6
<1> HIDE DEF T
<1>3. n \in T
  BY <1>1, <1>2, UpTo
<1> QED
  BY <1>3 DEF T

(* FlattenSeq is where joining the pieces ends. *)
LEMMA FlattenJoins ==
  ASSUME NEW S, NEW n \in Nat, NEW s \in [1..n -> Seq(S)]
  PROVE  \E f \in [0..n -> Seq(S)] : Joins(s, f, n) /\ FlattenSeq(s) = f[n]
<1>1. s \in Seq(Seq(S)) /\ Len(s) = n
  OBVIOUS
<1>2. CASE n = 0
  <2> DEFINE f == [i \in 0..0 |-> <<>>]
  <2>1. FlattenSeq(s) = <<>>
    BY <1>1, <1>2, EmptySeq DEF FlattenSeq
  <2>2. f \in [0..n -> Seq(S)] /\ Joins(s, f, n) /\ f[n] = <<>>
    BY <1>2 DEF Joins
  <2> QED
    BY <2>1, <2>2
<1>3. CASE n # 0
  <2> DEFINE g == CHOOSE h : Joined(s, h, n)
  <2>1. Joined(s, g, n)
    BY JoinedExists
  <2>2. FlattenSeq(s) = g[n]
    BY <1>1, <1>3 DEF FlattenSeq, Joined
  <2> HIDE DEF g
  <2>3. \A i \in 1..n : g[i] = IF i = 1 THEN s[i] ELSE g[i - 1] \o s[i]
    BY <2>1 DEF Joined
  <2> DEFINE f == [i \in 0..n |-> IF i = 0 THEN <<>> ELSE g[i]]
             T == {m \in 0..n : f[m] \in Seq(S)}
  <2>4. ASSUME NEW i \in 1..n PROVE f[i] = g[i] /\ (i # 1 => f[i] = f[i - 1] \o s[i]) /\ (i = 1 => f[i] = s[i])
    <3>1. i \in 0..n /\ i # 0 /\ (i # 1 => i - 1 \in 0..n /\ i - 1 # 0)
      OBVIOUS
    <3>2. f[i] = g[i] /\ (i # 1 => f[i - 1] = g[i - 1])
      BY <3>1
    <3> QED
      BY <2>3, <3>2
  <2>5. f[0] = <<>> /\ f[n] = g[n]
    BY <1>3
  <2>6. f = [i \in 0..n |-> f[i]]
    OBVIOUS
  <2> HIDE DEF f
  <2>7. \A m \in 0..n : m \in T
    <3>1. 0 \in T
      <4>1. <<>> \in Seq(S)
        BY EmptySeq
      <4>2. f[0] \in Seq(S)
        BY <2>5, <4>1
      <4> QED
        BY <4>2
    <3>2. ASSUME NEW m \in 1..n, m - 1 \in T PROVE m \in T
      <4>1. f[m - 1] \in Seq(S) /\ s[m] \in Seq(S)
        BY <3>2
      <4>2. f[m - 1] \o s[m] \in Seq(S)
        BY <4>1, ConcatProperties
      <4>3. f[m] \in Seq(S)
        BY <2>4, <4>1, <4>2
      <4> QED
        BY <4>3
    <3> HIDE DEF T
    <3> QED
      BY <3>1, <3>2, UpTo
  <2>8. f \in [0..n -> Seq(S)]
    BY <2>6, <2>7
  <2>9. Joins(s, f, n)
    <3>1. ASSUME n # 0 PROVE f[1] = f[0] \o s[1]
      <4>1. f[1] = s[1] /\ s[1] \in Seq(S)
        BY <2>4, <3>1
      <4> QED
        BY <2>5, <4>1, ConcatEmptySeq
    <3>2. ASSUME NEW i \in 1..n PROVE f[i] = f[i - 1] \o s[i]
      <4>1. CASE i = 1
        <5>1. i - 1 = 0
          BY <4>1
        <5> QED
          BY <1>3, <3>1, <4>1, <5>1
      <4>2. CASE i # 1
        BY <2>4, <4>2
      <4> QED
        BY <4>1, <4>2
    <3> QED
      BY <2>5, <3>2 DEF Joins
  <2> QED
    BY <2>2, <2>5, <2>8, <2>9
<1> QED
  BY <1>2, <1>3

StartsWith(t, u) == Len(u) <= Len(t) /\ \A j \in 1..Len(u) : t[j] = u[j]

JoinsIn(S, s, f, n) ==
  n \in Nat /\ s \in [1..n -> Seq(S)] /\ f \in [0..n -> Seq(S)] /\ Joins(s, f, n)

(* What has been joined stays in front. *)
LEMMA JoinsPrefix ==
  ASSUME NEW S, NEW n, NEW s, NEW f, JoinsIn(S, s, f, n), NEW k \in 0..n
  PROVE  StartsWith(f[n], f[k])
<1>0. n \in Nat /\ s \in [1..n -> Seq(S)] /\ f \in [0..n -> Seq(S)] /\ Joins(s, f, n)
  BY DEF JoinsIn
<1> USE <1>0
<1> DEFINE InFront(m) == StartsWith(f[m], f[k])
           T == {m \in 0..n : k <= m => InFront(m)}
<1>1. 0 \in T
  <2>1. k <= 0 => k = 0
    OBVIOUS
  <2>2. Len(f[0]) \in Nat
    OBVIOUS
  <2> QED
    BY <2>1, <2>2 DEF StartsWith
<1>2. ASSUME NEW m \in 1..n, m - 1 \in T PROVE m \in T
  <2> SUFFICES ASSUME k <= m PROVE InFront(m)
    OBVIOUS
  <2>0. m - 1 \in 0..n /\ m \in 0..n
    OBVIOUS
  <2>1. f[m - 1] \in Seq(S) /\ s[m] \in Seq(S) /\ f[k] \in Seq(S) /\ f[m] = f[m - 1] \o s[m]
    <3> HIDE DEF T, InFront
    <3> QED
      BY <2>0 DEF Joins
  <2>2. /\ Len(f[m - 1]) \in Nat /\ Len(s[m]) \in Nat /\ Len(f[k]) \in Nat
        /\ Len(f[m]) = Len(f[m - 1]) + Len(s[m])
        /\ \A j \in 1..Len(f[m - 1]) : f[m][j] = f[m - 1][j]
    <3>1. Len(f[m - 1]) \in Nat /\ Len(s[m]) \in Nat /\ Len(f[k]) \in Nat
      BY <2>1, LenProperties
    <3>2. /\ Len(f[m - 1] \o s[m]) = Len(f[m - 1]) + Len(s[m])
          /\ \A j \in 1..Len(f[m - 1]) : (f[m - 1] \o s[m])[j] = f[m - 1][j]
      BY <2>1, <3>1, ConcatProperties
    <3> QED
      BY <2>1, <3>1, <3>2
  <2>3. CASE k = m
    BY <2>2, <2>3 DEF StartsWith
  <2>4. CASE k # m
    <3>1. InFront(m - 1)
      BY <1>2, <2>4
    <3> QED
      BY <2>2, <3>1 DEF StartsWith
  <2> QED
    BY <2>3, <2>4
<1> HIDE DEF T
<1>3. \A m \in 0..n : m \in T
  BY ONLY n \in Nat, <1>1, <1>2, UpTo
<1>4. n \in T
  BY <1>3
<1> QED
  BY <1>4 DEF T

(* The characters of a description and of its escapes. *)
Chars == STRING \union {"bs", "nl", "n", Quote}

EscapedQuote(c) == IF c = Quote THEN <<"bs", Quote>> ELSE <<c>>

(* Characters come and go as texts. *)
LEMMA EscapedType == \A c \in Chars : EscapedQuote(c) \in Seq(Chars) /\ <<c>> \in Seq(Chars)
<1>1. \A c \in Chars : <<c>> \in Seq(Chars)
  OBVIOUS
<1>2. "bs" \in Chars /\ Quote \in Chars
  BY DEF Chars
<1>3. <<"bs", Quote>> \in Seq(Chars)
  BY <1>2
<1> QED
  BY <1>1, <1>3 DEF EscapedQuote

(* Without the backslashes of its escapes a text is what it was: the part  *)
(* that the first k characters became is the first k characters again.     *)
LEMMA Unescaped ==
  ASSUME NEW v \in Seq(Chars), \A i \in 1..Len(v) : v[i] # "bs",
         NEW esc \in [1..Len(v) -> Seq(Chars)], \A i \in 1..Len(v) : esc[i] = EscapedQuote(v[i]),
         NEW f \in [0..Len(v) -> Seq(Chars)], Joins(esc, f, Len(v)),
         NEW F, F = f[Len(v)], NEW pieces \in [1..Len(F) -> Seq(Chars)],
         \A i \in 1..Len(F) : pieces[i] = IF i < Len(F) /\ F[i] = "bs" /\ F[i + 1] = Quote THEN <<>> ELSE <<F[i]>>,
         NEW g \in [0..Len(F) -> Seq(Chars)], Joins(pieces, g, Len(F))
  PROVE  g[Len(F)] = v
<1>0. \A k \in 0..Len(v) : StartsWith(F, f[k])
  <2>1. JoinsIn(Chars, esc, f, Len(v))
    BY LenProperties DEF JoinsIn
  <2> QED
    BY <2>1, JoinsPrefix
<1> DEFINE n == Len(v)
           T == {k \in 0..n : g[Len(f[k])] = SubSeq(v, 1, k)}
<1>1. n \in Nat /\ (\A i \in 1..n : v[i] \in Chars) /\ F \in Seq(Chars) /\ Len(F) \in Nat
  <2>1. n \in Nat /\ \A i \in 1..n : v[i] \in Chars
    BY LenProperties, ElementOfSeq
  <2>2. F \in Seq(Chars)
    <3>1. Len(v) \in 0..Len(v)
      BY <2>1
    <3> QED
      BY <3>1
  <2>3. Len(F) \in Nat
    BY <2>2, LenProperties
  <2> QED
    BY <2>1, <2>2, <2>3
<1>2. esc \in [1..n -> Seq(Chars)]
  OBVIOUS
<1>3. \A k \in 0..n : f[k] \in Seq(Chars) /\ Len(f[k]) \in Nat /\ Len(f[k]) <= Len(F)
                      /\ \A j \in 1..Len(f[k]) : F[j] = f[k][j]
  <2>1. \A k \in 0..n : f[k] \in Seq(Chars) /\ Len(f[k]) \in Nat
    OBVIOUS
  <2> QED
    BY <1>0, <2>1 DEF StartsWith
<1>4. 0 \in T
  <2>1. f[0] = <<>> /\ g[0] = <<>> /\ SubSeq(v, 1, 0) = <<>>
    BY <1>1, SubSeqEmpty DEF Joins
  <2>2. Len(f[0]) = 0
    BY <2>1
  <2>3. g[Len(f[0])] = SubSeq(v, 1, 0)
    BY <2>1, <2>2
  <2> QED
    BY <1>1, <2>3
<1>5. ASSUME NEW k \in 1..n, k - 1 \in T PROVE k \in T
  <2> DEFINE a == Len(f[k - 1])  c == v[k]
  <2>1. a \in 0..Len(F) /\ c \in Chars /\ c # "bs" /\ g[a] = SubSeq(v, 1, k - 1) /\ g[a] \in Seq(Chars)
    BY <1>1, <1>3, <1>5
  <2>2. SubSeq(v, 1, k) = g[a] \o <<c>>
    BY <1>1, <2>1, SubSeqRecursiveSecond
  <2>3. f[k] = f[k - 1] \o EscapedQuote(c)
    BY DEF Joins
  <2> HIDE DEF a, c, T
  <2>6. ASSUME NEW i \in Nat, i + 1 \in 1..Len(F) PROVE g[i + 1] = g[i] \o pieces[i + 1]
    <3>1. (i + 1) - 1 = i
      OBVIOUS
    <3>2. g[i + 1] = g[(i + 1) - 1] \o pieces[i + 1]
      BY <2>6 DEF Joins
    <3> QED
      BY <3>1, <3>2
  <2>7. a \in Nat /\ a + 1 \in Nat /\ (a + 1) + 1 = a + 2
    BY <1>1, <2>1
  <2>4. CASE c # Quote
    <3>1. f[k] = f[k - 1] \o <<c>>
      BY <2>3, <2>4 DEF EscapedQuote
    <3>2. Len(f[k]) = a + 1 /\ f[k][a + 1] = c
      BY <1>3, <2>1, <3>1 DEF a
    <3>3. a + 1 \in 1..Len(F) /\ F[a + 1] = c
      BY <1>3, <2>1, <3>2
    <3>4. pieces[a + 1] = <<c>>
      BY <2>1, <3>3
    <3>5. g[a + 1] = g[a] \o <<c>>
      BY <2>1, <2>6, <2>7, <3>3, <3>4
    <3>6. g[Len(f[k])] = SubSeq(v, 1, k)
      BY <2>2, <3>2, <3>5
    <3> QED
      BY <3>6 DEF T
  <2>5. CASE c = Quote
    <3>1. f[k] = f[k - 1] \o <<"bs", Quote>>
      BY <2>3, <2>5 DEF EscapedQuote
    <3>2. Len(f[k]) = a + 2 /\ f[k][a + 1] = "bs" /\ f[k][a + 2] = Quote
      BY <1>3, <2>1, <3>1 DEF a
    <3>0. a + 1 \in 1..Len(f[k]) /\ a + 2 \in 1..Len(f[k]) /\ Len(f[k]) <= Len(F)
      BY <1>3, <2>1, <3>2
    <3>3. a + 1 \in 1..Len(F) /\ a + 2 \in 1..Len(F) /\ F[a + 1] = "bs" /\ F[a + 2] = Quote
      <4>1. F[a + 1] = f[k][a + 1] /\ F[a + 2] = f[k][a + 2]
        BY <1>3, <3>0
      <4> QED
        BY <1>1, <2>1, <3>0, <3>2, <4>1
    <3>4. pieces[a + 1] = <<>> /\ pieces[a + 2] = <<Quote>>
      <4>1. a + 1 < Len(F) /\ (a + 1) + 1 = a + 2
        BY <1>1, <2>1, <3>3
      <4>2. pieces[a + 1] = <<>>
        BY <3>3, <4>1
      <4>3. pieces[a + 2] = <<Quote>>
        BY <3>3 DEF Quote
      <4> QED
        BY <4>2, <4>3
    <3>5. g[a + 1] = g[a] \o pieces[a + 1] /\ g[a + 2] = g[a + 1] \o pieces[a + 2]
      BY <2>6, <2>7, <3>3
    <3>6. g[a + 1] = g[a]
      BY <2>1, <3>4, <3>5, ConcatEmptySeq
    <3>7. g[Len(f[k])] = SubSeq(v, 1, k)
      BY <2>2, <2>5, <3>2, <3>4, <3>5, <3>6
    <3> QED
      BY <3>7 DEF T
  <2> QED
    BY <2>4, <2>5
<1>6. n \in T
  <2> HIDE DEF T, n
  <2>1. \A k \in 0..n : k \in T
    BY ONLY <1>1, <1>4, <1>5, UpTo
  <2> QED
    BY <1>1, <2>1
<1>7. SubSeq(v, 1, n) = v
  BY SubSeqFull
<1>8. g[Len(f[n])] = SubSeq(v, 1, n)
  BY <1>6
<1> QED
  BY <1>7, <1>8

(* _unquote gives back what _quote_if_needed was given, but for the blanks *)
(* around a text that needs no quotes, and for texts with backslashes and  *)
(* line ends.                                                              *)
LEMMA UnquotesWhatIsQuoted ==
  ASSUME NEW v \in Seq(STRING), ToSet(v) \intersect {"bs", "nl"} = {}
  PROVE  Unquote(QuoteIfNeeded(v)) \in {v, Stripped(v)}
<1>1. v \in Seq(Chars) /\ Len(v) \in Nat /\ DOMAIN v = 1..Len(v)
      /\ \A i \in 1..Len(v) : v[i] \in Chars /\ v[i] \in ToSet(v) /\ v[i] \notin {"bs", "nl"}
  BY DEF Chars, ToSet
<1>2. CASE ToSet(v) \intersect Special = {}
  <2> DEFINE s == Stripped(v)
  <2>1. s \in Seq(STRING) /\ \A i \in 1..Len(s) : s[i] \notin {Quote, "sq"}
    <3>1. \A i \in 1..Len(v) : v[i] \notin {Quote, "sq"}
      BY <1>1, <1>2 DEF Special
    <3> QED
      BY <3>1, StrippedIsTight
  <2>2. ~Quoted(s)
    <3> HIDE DEF s
    <3> QED
      BY <2>1, LenProperties DEF Quoted
  <2>3. QuoteIfNeeded(v) = v
    BY <1>2 DEF QuoteIfNeeded
  <2> QED
    BY <2>2, <2>3 DEF Unquote
<1>3. CASE ToSet(v) \intersect Special # {}
  <2> DEFINE esc == [i \in 1..Len(v) |-> EscapedQuote(v[i])]
  <2>1. \A i \in 1..Len(v) : Escaped(v[i]) = EscapedQuote(v[i])
    BY <1>1 DEF Escaped, EscapedQuote, Quote
  <2>2. [i \in DOMAIN v |-> Escaped(v[i])] = esc /\ esc \in [1..Len(v) -> Seq(Chars)]
    <3>1. esc \in [1..Len(v) -> Seq(Chars)]
      BY <1>1, EscapedType
    <3> QED
      BY <1>1, <2>1, <3>1
  <2>3. PICK f \in [0..Len(v) -> Seq(Chars)] : Joins(esc, f, Len(v)) /\ FlattenSeq(esc) = f[Len(v)]
    <3> HIDE DEF esc
    <3> QED
      BY <1>1, <2>2, FlattenJoins
  <2> DEFINE F == f[Len(v)]
             w == <<Quote>> \o F \o <<Quote>>
  <2>4. QuoteIfNeeded(v) = w
    BY <1>3, <2>2, <2>3 DEF QuoteIfNeeded
  <2>5. F \in Seq(Chars) /\ Len(F) \in Nat /\ DOMAIN F = 1..Len(F) /\ \A i \in 1..Len(F) : F[i] \in Chars
    BY <1>1, <2>3
  <2> HIDE DEF F
  <2>6. w \in Seq(Chars) /\ Len(w) = Len(F) + 2 /\ w[1] = Quote /\ w[Len(w)] = Quote
        /\ \A i \in 1..Len(F) : w[i + 1] = F[i]
    <3>1. <<Quote>> \in Seq(Chars)
      BY DEF Chars
    <3> QED
      BY <2>5, <3>1
  <2> HIDE DEF w
  <2>7. SubSeq(w, 2, Len(w) - 1) = F
    <3>1. \A i \in 2..Len(w) - 1 : w[i] \in Chars
      BY <2>5, <2>6
    <3>2. /\ SubSeq(w, 2, Len(w) - 1) \in Seq(Chars) /\ Len(SubSeq(w, 2, Len(w) - 1)) = Len(F)
          /\ \A i \in 1..Len(F) : SubSeq(w, 2, Len(w) - 1)[i] = w[i + 1]
      BY <2>5, <2>6, <3>1, SubSeqProperties
    <3> QED
      BY <2>5, <2>6, <3>2, SeqEqual
  <2> DEFINE piece(i) == IF i < Len(F) /\ F[i] = "bs" /\ F[i + 1] = Quote THEN <<>> ELSE <<F[i]>>
             pieces == [i \in 1..Len(F) |-> piece(i)]
  <2>8. Unquote(w) = FlattenSeq(pieces)
    <3>1. Quoted(w)
      BY <2>5, <2>6 DEF Quoted
    <3>3. Stripped(w) = w
      <4>1. Tight(w)
        BY <2>5, <2>6 DEF Tight, Blank, Quote
      <4> QED
        BY <2>6, <4>1, TightStays
    <3>2. Unquote(w) = FlattenSeq([i \in DOMAIN F |-> IF i < Len(F) /\ F[i] = "bs" /\ F[i + 1] = Quote
                                                      THEN <<>> ELSE <<F[i]>>])
      BY <2>6, <2>7, <3>1, <3>3 DEF Unquote
    <3> QED
      BY <2>5, <3>2
  <2>9. pieces \in [1..Len(F) -> Seq(Chars)] /\ \A i \in 1..Len(F) : pieces[i] = piece(i)
    BY <2>5, EmptySeq
  <2> HIDE DEF pieces
  <2>10. PICK g \in [0..Len(F) -> Seq(Chars)] : Joins(pieces, g, Len(F)) /\ FlattenSeq(pieces) = g[Len(F)]
    <3>1. Len(F) \in Nat /\ pieces \in [1..Len(F) -> Seq(Chars)]
      BY <2>5, <2>9
    <3> QED
      BY ONLY <3>1, FlattenJoins
  <2>11. g[Len(F)] = v
    <3>1. \A i \in 1..Len(v) : v[i] # "bs"
      BY <1>1
    <3>2. F = f[Len(v)]
      BY DEF F
    <3>3. \A i \in 1..Len(F) : pieces[i] = IF i < Len(F) /\ F[i] = "bs" /\ F[i + 1] = Quote THEN <<>> ELSE <<F[i]>>
      BY <2>9
    <3>4. pieces \in [1..Len(F) -> Seq(Chars)]
      BY <2>9
    <3>5. esc \in [1..Len(v) -> Seq(Chars)] /\ \A i \in 1..Len(v) : esc[i] = EscapedQuote(v[i])
      BY <2>2
    <3> HIDE DEF esc
    <3> QED
      BY ONLY <1>1, <2>3, <2>5, <2>10, <3>1, <3>2, <3>3, <3>4, <3>5, Unescaped
  <2> QED
    BY <2>4, <2>8, <2>10, <2>11
<1> QED
  BY <1>2, <1>3

(* What a template can keep: a description without line ends and           *)
(* backslashes, and tools that are not blank.                              *)
Legible(p) ==
  /\ p \in [desc : Seq(STRING) \union {None}, tools : Seq(Seq(STRING)), prompt : Seq(STRING)]
  /\ p.desc # None => ToSet(p.desc) \intersect {"bs", "nl"} = {}
  /\ \A i \in DOMAIN p.tools : Stripped(p.tools[i]) # <<>>
  /\ Rendered(p) \notin {Empty, Torn} /\ None \notin Seq(STRING)

(* The parser gives back what the renderer was given, but for the blanks.  *)
LEMMA ParsesWhatIsRendered ==
  ASSUME NEW p, Legible(p)
  PROVE  Bare(Parsed(Rendered(p))) = Bare(p)
<1> DEFINE line == IF p.desc = None THEN <<>> ELSE QuoteIfNeeded(p.desc)
           back == [desc |-> Given(Unquote(line)), tools |-> ToolsRead(p.tools), prompt |-> Stripped(p.prompt)]
<1>1. p.desc \in Seq(STRING) \union {None} /\ p.tools \in Seq(Seq(STRING)) /\ p.prompt \in Seq(STRING)
  BY DEF Legible
<1>2. Parsed(Rendered(p)) = back
  <2>1. Rendered(p).desc = line /\ Rendered(p).tools = p.tools /\ Rendered(p).prompt = p.prompt
    BY DEF Rendered
  <2>2. Rendered(p) \notin {Empty, Torn}
    BY DEF Legible
  <2> QED
    BY <2>1, <2>2 DEF Parsed
<1>3. Bare(back).desc = Bare(p).desc
  <2>1. Stripped(<<>>) = <<>>
    BY DEF Stripped
  <2>2. CASE p.desc = None
    <3>1. Unquote(<<>>) = <<>>
      BY <2>1 DEF Unquote, Quoted
    <3> QED
      BY <2>2, <3>1 DEF Bare, Given
  <2>3. CASE p.desc # None
    <3> DEFINE u == Unquote(QuoteIfNeeded(p.desc))
    <3>1. p.desc \in Seq(STRING) /\ u \in {p.desc, Stripped(p.desc)}
      BY <1>1, <2>3, UnquotesWhatIsQuoted DEF Legible
    <3>2. u \in Seq(STRING) /\ Stripped(u) = Stripped(p.desc)
      BY <3>1, StrippedIsTight, StrippedOnce
    <3>3. u # None
      BY <3>2 DEF Legible
    <3> HIDE DEF u
    <3>4. back.desc = Given(u)
      BY <2>3 DEF u
    <3>5. CASE u = <<>>
      BY <2>1, <2>3, <3>2, <3>4, <3>5 DEF Bare, Given
    <3>6. CASE u # <<>>
      BY <2>3, <3>2, <3>3, <3>4, <3>6 DEF Bare, Given
    <3> QED
      BY <3>5, <3>6
  <2> QED
    BY <2>2, <2>3
<1>4. Bare(back).tools = Bare(p).tools
  <2>1. {i \in DOMAIN p.tools : Stripped(p.tools[i]) = <<>>} = {}
    BY DEF Legible
  <2>2. DOMAIN p.tools = 1..Len(p.tools)
    BY <1>1
  <2>3. ToolsRead(p.tools) = [i \in 1..Len(p.tools) |-> Stripped(p.tools[i])]
    BY <2>1 DEF ToolsRead
  <2>4. \A i \in 1..Len(p.tools) : Stripped(Stripped(p.tools[i])) = Stripped(p.tools[i])
    <3>1. \A i \in 1..Len(p.tools) : p.tools[i] \in Seq(STRING)
      BY <1>1
    <3> QED
      BY <3>1, StrippedOnce
  <2>5. Bare(back).tools = [i \in 1..Len(p.tools) |-> Stripped(Stripped(p.tools[i]))]
    BY <2>3 DEF Bare
  <2> QED
    BY <2>2, <2>4, <2>5 DEF Bare
<1>5. Bare(back).prompt = Bare(p).prompt
  BY <1>1, StrippedOnce DEF Bare
<1> HIDE DEF back
<1> QED
  BY <1>2, <1>3, <1>4, <1>5 DEF Bare

-------------------------------------------------------------------------------
(* The invariant: what holds between any two steps.                        *)

Phases == {"idle", "ensure", "copy", "copying", "check", "mkdir", "open", "write", "replace", "load",
           "scan", "ids", "rows", "unlink", "rmdir", "begin", "commit_new", "resolve", "save", "run",
           "select", "entries", "reply"}

Inodes   == 1..MaxInode
Texts    == Payloads \union {Shipped}
Files    == [md : Inodes \union {None}, tmp : Inodes \union {None}]
Contents == {Rendered(p) : p \in Texts} \union {Empty}
Answers  == {Parsed(Rendered(p)) : p \in Texts} \union {Empty, None}
Lists    == {"sessions", "by_agent", "detail"}
ReqRows  == [pc : Phases, op : Ops \union {None}, name : Names \union {None},
             at : Names \union {None}, text : Payloads \union {None},
             todo : SUBSET (Names \union Sessions), fd : Inodes \union {None},
             ses : Sessions \union {None}, got : Answers \union {Torn, "integrity"}]

Types ==
  /\ folder \in SUBSET Names /\ file \in [Names -> Files] /\ data \in [Inodes -> Contents \union {Torn}]
  /\ session \in [Sessions -> {"absent", "rootless", "rooted"}]
  /\ row \in [Sessions -> Names \union {None}]
  /\ lock \in Requests \union {None} /\ req \in [Requests -> ReqRows]
  /\ saved \in [Names -> Texts \union {None}] /\ clash \in SUBSET Names

(* What a request is about in each of its phases. *)
RequestOK(q) ==
  /\ q.pc \in Copying => q.at \in Names
  /\ q.pc \in Copying \union {"begin", "ensure"} => q.todo \subseteq Names
  /\ q.pc \in {"check", "mkdir", "open", "write", "replace", "ids", "rows", "unlink", "rmdir"} =>
       q.name \in Names /\ q.at = q.name
  /\ q.pc \in {"load", "begin", "commit_new", "resolve", "save", "run"} => q.name \in Names
  /\ q.pc \in {"begin", "commit_new", "resolve", "save", "run"} => q.op \in Chats
  /\ q.pc \in {"open", "write", "replace"} => q.op \in Saving
  /\ q.pc = "mkdir" => q.op = "create"
  /\ q.pc = "replace" => q.op = "update"
  /\ q.pc \in {"select", "entries"} => q.op \in Lists
  /\ q.pc = "load" => q.op \in Saving \union {"get", "by_agent"}
  /\ q.pc \in Copying \union {"ensure"} => q.op = "list" \/ q.name \in Names
  /\ q.op \in Saving /\ q.pc # "reply" => q.text \in Payloads
  /\ q.op \in Saving \union {"get", "delete", "by_agent"} \union Chats /\ q.pc # "reply" => q.name \in Names
  /\ q.op \in Chats => q.ses \in Sessions
  /\ q.ses # None => q.op \in Chats \union {"detail"}
  /\ q.fd # None <=> q.pc \in {"copying", "write"}
RequestsOK == \A r \in Requests : RequestOK(req[r])

FilesOK ==
  /\ \A n \in Names \ folder : file[n] = NoFiles
  /\ \A n, m \in Names, k, l \in {"md", "tmp"} :
       file[n][k] # None /\ file[n][k] = file[m][l] => n = m /\ k = l

(* A file that a request has open has the name that it works on, or none.  *)
OpenOK ==
  \A r \in Requests : req[r].fd # None =>
    /\ \A n \in Names, k \in {"md", "tmp"} : file[n][k] = req[r].fd => n = req[r].at
    /\ \A q \in Requests : req[q].fd = req[r].fd => req[q].at = req[r].at

(* Requests that have the files of a name in their hands. *)
Engaged(o) == Making(o) \/ req[o].pc \in {"write", "replace", "rmdir"}

AloneOK ==
  \A o, q \in Requests :
    o # q /\ Engaged(o) /\ Engaged(q) /\ req[o].at = req[q].at => req[o].at \in clash

(* What one that is alone finds. *)
HandOf(o) == IF req[o].op = "update" /\ req[o].pc = "write" THEN "tmp" ELSE "md"
EngagedOK ==
  \A o \in Requests : Engaged(o) /\ req[o].at \notin clash =>
    LET n == req[o].at
    IN /\ n \in folder
       /\ Making(o) => saved[n] = None
       /\ req[o].pc \in {"copying", "write"} =>
            data[req[o].fd] = Empty /\ file[n][HandOf(o)] = req[o].fd
       /\ req[o].pc = "replace" =>
            file[n].tmp # None /\ data[file[n].tmp] = Rendered(req[o].text)

(* Only where requests clash is a file torn. *)
ReadsOK ==
  /\ \A i \in Inodes : data[i] \in Contents \/ (data[i] = Torn /\ clash # {})
  /\ \A r \in Requests :
       req[r].op \notin Lists => req[r].got \in Answers \/ (req[r].got = Torn /\ clash # {})

(* A chat makes its session and holds the lock while it seeds and runs. *)
ChatsOK ==
  /\ \A r \in Requests : req[r].op \in Chats =>
       /\ req[r].pc \in Copying \union {"ensure", "commit_new", "run"} => lock = r
       /\ req[r].pc \in Copying \union {"ensure", "commit_new", "begin"} => session[req[r].ses] = "absent"
  /\ \A o, q \in Requests :
       o # q /\ req[o].op \in Chats /\ req[q].op \in Chats => req[o].ses # req[q].ses
  /\ \A s \in Sessions : row[s] # None => session[s] = "rooted"

(* A deletion leaves no row of its agent. *)
DeletionsOK ==
  \A r \in Requests : \A s \in Sessions : row[s] = req[r].name /\ req[r].name \notin late =>
    /\ req[r].pc = "rows" => s \in req[r].todo
    /\ req[r].pc # "unlink"

(* A run has found its template, which stays unless a deletion takes it.   *)
RunsOK ==
  \A r \in Requests : req[r].pc \in {"save", "run"} /\ req[r].name \notin late => HasFile(req[r].name)

IInv ==
  /\ Types /\ RequestsOK /\ FilesOK /\ OpenOK /\ AloneOK /\ EngagedOK /\ SavedIsKept
  /\ ReadsOK /\ ChatsOK /\ DeletionsOK /\ RunsOK /\ RootsHaveTemplates

-------------------------------------------------------------------------------
(* Types.                                                                  *)

USE NoneIsNothing, SeedsAreNamed

(* A function has no more values than arguments. *)
LEMMA ImageIsFinite ==
  ASSUME NEW S, IsFiniteSet(S), NEW f, DOMAIN f = S
  PROVE  /\ IsFiniteSet({f[x] : x \in S}) /\ Cardinality({f[x] : x \in S}) <= Cardinality(S)
         /\ Cardinality({f[x] : x \in S}) \in Nat
<1> DEFINE T == {f[x] : x \in S}
           g == [x \in S |-> f[x]]
<1>1. g \in Surjection(S, T)
  BY DEF Surjection
<1> HIDE DEF g, T
<1>2. IsFiniteSet(T) /\ Cardinality(T) <= Cardinality(S)
  BY <1>1, FS_Surjection
<1>3. Cardinality(T) \in Nat
  BY <1>2, FS_CardinalityType
<1> QED
  BY <1>2, <1>3 DEF T

(* The disk has a file that nobody uses for a request that has none. *)
LEMMA InodeIsFree ==
  ASSUME Types, NEW r \in Requests, req[r].fd = None
  PROVE  NewInode \in Inodes \ Used
<1> DEFINE M == {file[n].md : n \in Names}
           T == {file[n].tmp : n \in Names}
           F == {req[q].fd : q \in Requests \ {r}}
           mds == [n \in Names |-> file[n].md]
           tmps == [n \in Names |-> file[n].tmp]
           fds == [q \in Requests \ {r} |-> req[q].fd]
<1>1. M = {mds[n] : n \in Names} /\ T = {tmps[n] : n \in Names} /\ F = {fds[q] : q \in Requests \ {r}}
  OBVIOUS
<1>2. DOMAIN mds = Names /\ DOMAIN tmps = Names /\ DOMAIN fds = Requests \ {r}
  OBVIOUS
<1>3. /\ IsFiniteSet(Names) /\ IsFiniteSet(Requests)
      /\ MaxInode \in Nat /\ MaxInode >= 2 * Cardinality(Names) + Cardinality(Requests)
      /\ Cardinality(Names) \in Nat /\ Cardinality(Requests) \in Nat
  BY InodesSuffice, FS_CardinalityType
<1>4. /\ IsFiniteSet(Requests \ {r})
      /\ Cardinality(Requests \ {r}) = Cardinality(Requests) - 1
  BY <1>3, FS_RemoveElement
<1>5. 1..MaxInode \ Used = 1..MaxInode \ ((M \union T) \union F)
  BY DEF Used, Linked
<1> HIDE DEF M, T, F, mds, tmps, fds
<1>6. /\ IsFiniteSet(M) /\ Cardinality(M) <= Cardinality(Names) /\ Cardinality(M) \in Nat
      /\ IsFiniteSet(T) /\ Cardinality(T) <= Cardinality(Names) /\ Cardinality(T) \in Nat
  BY <1>1, <1>2, <1>3, ImageIsFinite
<1>7. IsFiniteSet(F) /\ Cardinality(F) <= Cardinality(Requests) - 1 /\ Cardinality(F) \in Nat
  BY <1>1, <1>2, <1>4, ImageIsFinite
<1>8. /\ IsFiniteSet(M \union T) /\ Cardinality(M \union T) \in Nat
      /\ Cardinality(M \union T) <= 2 * Cardinality(Names)
  <2>1. IsFiniteSet(M \intersect T) /\ Cardinality(M \intersect T) \in Nat
    BY <1>6, FS_Subset, FS_CardinalityType
  <2>2. IsFiniteSet(M \union T) /\ Cardinality(M \union T) = Cardinality(M) + Cardinality(T) - Cardinality(M \intersect T)
    BY <1>6, FS_Union
  <2>3. Cardinality(M \union T) \in Nat
    BY <2>2, FS_CardinalityType
  <2> QED
    BY <1>3, <1>6, <2>1, <2>2, <2>3
<1> DEFINE U == (M \union T) \union F
<1>9. IsFiniteSet(U) /\ Cardinality(U) < MaxInode
  <2>1. IsFiniteSet((M \union T) \intersect F) /\ Cardinality((M \union T) \intersect F) \in Nat
    BY <1>7, FS_Subset, FS_CardinalityType
  <2>2. IsFiniteSet(U) /\ Cardinality(U) = Cardinality(M \union T) + Cardinality(F) - Cardinality((M \union T) \intersect F)
    BY <1>7, <1>8, FS_Union
  <2>3. Cardinality(U) \in Nat
    BY <2>2, FS_CardinalityType
  <2> QED
    BY <1>3, <1>7, <1>8, <2>1, <2>2, <2>3
<1>10. \E i \in 1..MaxInode : i \notin U
  <2> SUFFICES ASSUME 1..MaxInode \subseteq U PROVE FALSE
    OBVIOUS
  <2> HIDE DEF U
  <2>1. Cardinality(1..MaxInode) <= Cardinality(U)
    BY <1>9, FS_Subset
  <2>2. Cardinality(1..MaxInode) = MaxInode
    BY <1>3, FS_Interval
  <2>3. Cardinality(U) \in Nat
    BY <1>9, FS_CardinalityType
  <2> QED
    BY <1>3, <1>9, <2>1, <2>2, <2>3
<1> QED
  BY <1>5, <1>10 DEF NewInode, Inodes

(* A request that does nothing. *)
LEMMA IdleType == Idle \in ReqRows
<1>1. None \in Answers /\ "idle" \in Phases
  BY DEF Answers, Phases
<1> QED
  BY <1>1 DEF ReqRows, Idle

(* What the steps of a request make of its row. *)
LEMMA RowTypes ==
  ASSUME NEW q \in ReqRows
  PROVE  /\ \A pc \in Phases : [q EXCEPT !.pc = pc] \in ReqRows
         /\ \A pc \in Phases, todo \in SUBSET (Names \union Sessions) :
              [q EXCEPT !.pc = pc, !.todo = todo] \in ReqRows
         /\ \A pc \in Phases, at \in Names \union {None}, todo \in SUBSET (Names \union Sessions) :
              [q EXCEPT !.pc = pc, !.at = at, !.todo = todo] \in ReqRows
         /\ \A pc \in Phases, fd \in Inodes \union {None} : [q EXCEPT !.pc = pc, !.fd = fd] \in ReqRows
         /\ \A got \in Answers \union {Torn, "integrity"} :
              [Idle EXCEPT !.pc = "reply", !.op = q.op, !.got = got] \in ReqRows
<1>1. \A pc \in Phases : [q EXCEPT !.pc = pc] \in ReqRows
  BY DEF ReqRows
<1>2. \A pc \in Phases, todo \in SUBSET (Names \union Sessions) :
        [q EXCEPT !.pc = pc, !.todo = todo] \in ReqRows
  BY DEF ReqRows
<1>3. \A pc \in Phases, at \in Names \union {None}, todo \in SUBSET (Names \union Sessions) :
        [q EXCEPT !.pc = pc, !.at = at, !.todo = todo] \in ReqRows
  BY DEF ReqRows
<1>4. \A pc \in Phases, fd \in Inodes \union {None} : [q EXCEPT !.pc = pc, !.fd = fd] \in ReqRows
  BY DEF ReqRows
<1>5. \A got \in Answers \union {Torn, "integrity"} :
        [Idle EXCEPT !.pc = "reply", !.op = q.op, !.got = got] \in ReqRows
  <2>1. q.op \in Ops \union {None} /\ "reply" \in Phases
    BY DEF ReqRows, Phases
  <2> QED
    BY <2>1, IdleType DEF ReqRows
<1> QED
  BY <1>1, <1>2, <1>3, <1>4, <1>5

(* A new request. *)
LEMMA NewRows ==
  ASSUME NEW op \in Ops, NEW n \in Names \union {None}, NEW s \in Sessions \union {None}
  PROVE  /\ Ensuring(op, n) \in ReqRows
         /\ Selecting(op, s) \in ReqRows
         /\ \A p \in Payloads : [Ensuring(op, n) EXCEPT !.text = p] \in ReqRows
         /\ \A pc \in Phases : [Ensuring(op, n) EXCEPT !.pc = pc, !.ses = s] \in ReqRows
<1>1. Ensuring(op, n) \in ReqRows
  <2>1. "ensure" \in Phases /\ Seeds \in SUBSET (Names \union Sessions)
    BY DEF Phases
  <2> QED
    BY <2>1, IdleType DEF Ensuring, ReqRows
<1>2. Selecting(op, s) \in ReqRows
  <2>1. "select" \in Phases
    BY DEF Phases
  <2> QED
    BY <2>1, IdleType DEF Selecting, ReqRows
<1>3. \A p \in Payloads : [Ensuring(op, n) EXCEPT !.text = p] \in ReqRows
  BY <1>1 DEF ReqRows
<1>4. \A pc \in Phases : [Ensuring(op, n) EXCEPT !.pc = pc, !.ses = s] \in ReqRows
  BY <1>1 DEF ReqRows
<1> QED
  BY <1>1, <1>2, <1>3, <1>4

(* What can be read is an answer. *)
LEMMA ParsedType ==
  ASSUME NEW c \in Contents \union {Torn}
  PROVE  Parsed(c) \in Answers \union {Torn}
BY DEF Contents, Answers, Parsed

Arrives(r) ==
  \/ \E n \in Names, op \in Saving, p \in Payloads : Save(r, op, n, p)
  \/ \E n \in Names, op \in {"get", "delete", "by_agent"} : Visit(r, op, n)
  \/ \E n \in Names, op \in Chats, s \in Sessions : Chat(r, op, n, s)
  \/ ListAgents(r) \/ ListSessions(r) \/ \E s \in Sessions : ShowSession(r, s)

(* The steps of a request that leave the files alone. *)
Quiet(r) ==
  \/ Arrives(r) \/ Ensured(r) \/ CheckAbsent(r) \/ CheckPresent(r) \/ CheckFile(r) \/ Load(r)
  \/ ScanOne(r) \/ SelectIds(r) \/ DeleteRows(r) \/ NewSession(r) \/ CommitNew(r) \/ Resolve(r)
  \/ SaveAgent(r) \/ EndRun(r) \/ LockTimeout(r) \/ SelectSessions(r) \/ BuildEntry(r) \/ Answered(r)

(* The steps that change files. *)
Busy(r) ==
  \/ Seed(r) \/ Open(r) \/ Write(r) \/ MakeFolder(r) \/ Replace(r) \/ Unlink(r) \/ RemoveFolder(r)

(* Every step is one of these. *)
LEMMA Steps ==
  ASSUME [Next]_vars
  PROVE  (\E r \in Requests : Quiet(r) \/ Busy(r)) \/ Crash \/ UNCHANGED vars
BY DEF Next, Quiet, Busy, Arrives, AtRest, Chats

(* The types of rows and requests. *)
LEMMA ArrivesTypes ==
  ASSUME Types, NEW r \in Requests, Arrives(r)
  PROVE  Types'
<1>1. req \in [Requests -> ReqRows]
  BY DEF Types
<1>2. ASSUME NEW new \in ReqRows, Begin(r, new) PROVE Types'
  <2>1. req' \in [Requests -> ReqRows]
    BY <1>1, <1>2 DEF Begin
  <2> QED
    BY <1>2, <2>1 DEF Begin, Types, disk, rows
<1>3. ASSUME NEW n \in Names, NEW op \in Saving, NEW p \in Payloads, Save(r, op, n, p) PROVE Types'
  BY <1>2, <1>3, NewRows DEF Ops, Saving, Chats, Phases, Save
<1>4. ASSUME NEW n \in Names, NEW op \in {"get", "delete", "by_agent"}, Visit(r, op, n) PROVE Types'
  BY <1>2, <1>4, NewRows DEF Ops, Saving, Chats, Phases, Visit
<1>5. ASSUME NEW n \in Names, NEW op \in Chats, NEW s \in Sessions, Chat(r, op, n, s) PROVE Types'
  BY <1>2, <1>5, NewRows DEF Ops, Saving, Chats, Phases, Chat
<1>6. CASE ListAgents(r)
  BY <1>2, <1>6, NewRows DEF Ops, Saving, Chats, Phases, ListAgents
<1>7. CASE ListSessions(r)
  BY <1>2, <1>7, NewRows DEF Ops, Saving, Chats, Phases, ListSessions
<1>8. ASSUME NEW s \in Sessions, ShowSession(r, s) PROVE Types'
  BY <1>2, <1>8, NewRows DEF Ops, Saving, Chats, Phases, ShowSession
<1> QED
  BY <1>3, <1>4, <1>5, <1>6, <1>7, <1>8 DEF Arrives

(* A step of a request gives it a row. *)
LEMMA GotoTypes ==
  ASSUME Types, NEW r \in Requests, NEW q \in ReqRows
  PROVE  /\ req' = [req EXCEPT ![r] = q] => req' \in [Requests -> ReqRows]
         /\ End(r) => req' \in [Requests -> ReqRows]
         /\ \A pc \in Phases : Goto(r, pc) => req' \in [Requests -> ReqRows]
         /\ \A got \in Answers \union {Torn, "integrity"} : Reply(r, got) => req' \in [Requests -> ReqRows]
<1>1. req \in [Requests -> ReqRows] /\ req[r] \in ReqRows
  BY DEF Types
<1>2. \A pc \in Phases : [req[r] EXCEPT !.pc = pc] \in ReqRows
  BY <1>1, RowTypes
<1>3. \A pc : Goto(r, pc) => req' = [req EXCEPT ![r] = [req[r] EXCEPT !.pc = pc]]
  BY DEF Goto
<1>4. \A got \in Answers \union {Torn, "integrity"} :
        [Idle EXCEPT !.pc = "reply", !.op = req[r].op, !.got = got] \in ReqRows
  BY <1>1, RowTypes
<1>5. \A x \in ReqRows : req' = [req EXCEPT ![r] = x] => req' \in [Requests -> ReqRows]
  BY <1>1
<1>6. End(r) => req' \in [Requests -> ReqRows]
  BY <1>5, IdleType DEF End
<1>7. \A pc \in Phases : Goto(r, pc) => req' \in [Requests -> ReqRows]
  BY <1>2, <1>3, <1>5
<1>8. \A got \in Answers \union {Torn, "integrity"} : Reply(r, got) => req' \in [Requests -> ReqRows]
  BY <1>4, <1>5 DEF Reply
<1> QED
  BY <1>5, <1>6, <1>7, <1>8

(* The steps that leave the files alone keep the types. *)
LEMMA QuietTypes ==
  ASSUME Types, RequestsOK, NEW r \in Requests, Quiet(r), ~Arrives(r)
  PROVE  Types'
<1>1. /\ req \in [Requests -> ReqRows] /\ req[r] \in ReqRows
      /\ req[r].name \in Names \union {None} /\ req[r].op \in Ops \union {None}
      /\ req[r].todo \in SUBSET (Names \union Sessions)
  BY DEF Types, ReqRows
<1>2. /\ folder \in SUBSET Names /\ file \in [Names -> Files] /\ data \in [Inodes -> Contents \union {Torn}]
      /\ session \in [Sessions -> {"absent", "rootless", "rooted"}]
      /\ row \in [Sessions -> Names \union {None}]
      /\ lock \in Requests \union {None} /\ saved \in [Names -> Texts \union {None}] /\ clash \in SUBSET Names
  BY DEF Types
<1>q. ASSUME req' \in [Requests -> ReqRows], UNCHANGED <<disk, rows, lock, saved, clash>> PROVE Types'
  BY <1>q DEF Types, disk, rows
<1>3. CASE Ensured(r)
  <2>1. AfterEnsure(r) \in Phases
    BY DEF AfterEnsure, Phases
  <2>2. req' \in [Requests -> ReqRows]
    <3> DEFINE todo == IF req[r].op = "list" THEN folder ELSE {}
    <3>1. [req[r] EXCEPT !.pc = AfterEnsure(r), !.at = req[r].name, !.todo = todo] \in ReqRows
      <4>1. todo \in SUBSET (Names \union Sessions)
        BY <1>2
      <4> QED
        BY <1>1, <2>1, <4>1, RowTypes
    <3>2. req' = [req EXCEPT ![r] = [req[r] EXCEPT !.pc = AfterEnsure(r), !.at = req[r].name, !.todo = todo]]
      BY <1>3 DEF Ensured
    <3> QED
      BY <3>1, <3>2, GotoTypes
  <2> QED
    BY <1>3, <1>q, <2>2 DEF Ensured
<1>4. CASE CheckAbsent(r) \/ CheckPresent(r)
  BY <1>1, <1>4, <1>q, GotoTypes DEF Phases, CheckAbsent, CheckPresent
<1>5. CASE CheckFile(r)
  BY <1>1, <1>5, <1>q, GotoTypes DEF Phases, CheckFile
<1>6. CASE Load(r)
  <2>1. ASSUME HasFile(req[r].name) PROVE Parsed(data[file[req[r].name].md]) \in Answers \union {Torn}
    BY <1>2, <2>1, ParsedType DEF HasFile, Files
  <2> QED
    BY <1>1, <1>6, <1>q, <2>1, GotoTypes DEF Phases, Load
<1>7. CASE ScanOne(r)
  <2>1. CASE \E n \in req[r].todo :
            req' = [req EXCEPT ![r].todo = @ \ {n},
                               ![r].got = IF HasFile(n) THEN Parsed(data[file[n].md]) ELSE @]
    <3>1. PICK n \in req[r].todo :
            req' = [req EXCEPT ![r].todo = @ \ {n},
                               ![r].got = IF HasFile(n) THEN Parsed(data[file[n].md]) ELSE @]
      BY <2>1
    <3>2. HasFile(n) => Parsed(data[file[n].md]) \in Answers \union {Torn}
      BY <1>2, ParsedType DEF HasFile, Files
    <3> DEFINE got == IF HasFile(n) THEN Parsed(data[file[n].md]) ELSE req[r].got
    <3>3. got \in Answers \union {Torn, "integrity"}
      BY <1>1, <3>2 DEF ReqRows
    <3>4. req' = [req EXCEPT ![r] = [req[r] EXCEPT !.todo = req[r].todo \ {n}, !.got = got]]
      BY <3>1
    <3> HIDE DEF got
    <3>5. [req[r] EXCEPT !.todo = req[r].todo \ {n}, !.got = got] \in ReqRows
      BY <1>1, <3>3 DEF ReqRows
    <3>6. req' \in [Requests -> ReqRows]
      BY <3>4, <3>5, GotoTypes
    <3> QED
      BY <1>7, <1>q, <3>6 DEF ScanOne
  <2> QED
    BY <1>1, <1>7, <1>q, <2>1, GotoTypes DEF Phases, ScanOne
<1>8. CASE SelectIds(r)
  <2> DEFINE todo == {s \in Sessions : session[s] # "absent"}
  <2>1. req' = [req EXCEPT ![r] = [req[r] EXCEPT !.pc = "rows", !.todo = todo]] /\ "rows" \in Phases
        /\ todo \in SUBSET (Names \union Sessions)
    BY <1>8 DEF SelectIds, Phases
  <2> HIDE DEF todo
  <2>2. req' \in [Requests -> ReqRows]
    BY <1>1, <2>1, RowTypes, GotoTypes
  <2> QED
    BY <1>8, <1>q, <2>2 DEF SelectIds
<1>9. CASE DeleteRows(r)
  <2>1. req' \in [Requests -> ReqRows]
    BY <1>1, <1>9, GotoTypes DEF Phases, DeleteRows
  <2> QED
    BY <1>2, <1>9, <2>1 DEF DeleteRows, Types, disk
<1>10. CASE NewSession(r) \/ Resolve(r) \/ SaveAgent(r)
  <2>1. req' \in [Requests -> ReqRows]
    BY <1>1, <1>10, GotoTypes DEF Phases, NewSession, Resolve, SaveAgent
  <2>2. lock' \in Requests \union {None}
    BY <1>2, <1>10 DEF NewSession, Resolve, SaveAgent
  <2> QED
    BY <1>2, <1>10, <2>1, <2>2 DEF NewSession, Resolve, SaveAgent, Types, disk, rows
<1>11. CASE CommitNew(r)
  <2>1. req' \in [Requests -> ReqRows]
    BY <1>1, <1>11, GotoTypes DEF Phases, CommitNew
  <2> QED
    BY <1>2, <1>11, <2>1 DEF CommitNew, Types, disk
<1>12. CASE EndRun(r)
  <2>1. req' \in [Requests -> ReqRows]
    BY <1>1, <1>12, GotoTypes DEF Phases, EndRun
  <2>2. req[r].name \in Names
    BY <1>12 DEF EndRun, RequestsOK, RequestOK
  <2>3. /\ session' \in [Sessions -> {"absent", "rootless", "rooted"}]
        /\ row' \in [Sessions -> Names \union {None}] /\ clash' \in SUBSET Names
    BY <1>2, <1>12, <2>2 DEF EndRun, rows
  <2> QED
    BY <1>2, <1>12, <2>1, <2>3 DEF EndRun, Types, disk
<1>13. CASE LockTimeout(r) \/ Answered(r)
  BY <1>1, <1>13, <1>q, GotoTypes DEF Phases, LockTimeout, Answered
<1>14. CASE SelectSessions(r)
  <2>1. req' = [req EXCEPT ![r].pc = "entries", ![r].todo = Listed(r)] => req' \in [Requests -> ReqRows]
    <3> SUFFICES ASSUME req' = [req EXCEPT ![r].pc = "entries", ![r].todo = Listed(r)]
                 PROVE  req' \in [Requests -> ReqRows]
      OBVIOUS
    <3>1. /\ req' = [req EXCEPT ![r] = [req[r] EXCEPT !.pc = "entries", !.todo = Listed(r)]]
          /\ "entries" \in Phases /\ Listed(r) \in SUBSET (Names \union Sessions)
      BY DEF Listed, Phases
    <3> QED
      BY <1>1, <3>1, RowTypes, GotoTypes
  <2> QED
    BY <1>1, <1>14, <1>q, <2>1, GotoTypes DEF Phases, SelectSessions
<1>15. CASE BuildEntry(r)
  <2>1. \A s : req' = [req EXCEPT ![r].todo = @ \ {s}] => req' \in [Requests -> ReqRows]
    BY <1>1 DEF ReqRows
  <2> QED
    BY <1>1, <1>15, <1>q, <2>1, GotoTypes DEF Phases, BuildEntry
<1> QED
  BY <1>3, <1>4, <1>5, <1>6, <1>7, <1>8, <1>9, <1>10, <1>11, <1>12, <1>13, <1>14, <1>15 DEF Quiet

(* A file that open() gives to a request. *)
Inode(r) == IF file[req[r].at][WrittenFile(r)] = None THEN NewInode ELSE file[req[r].at][WrittenFile(r)]

(* The name and the file that a request opens. *)
LEMMA OpenedFile ==
  ASSUME Types, RequestsOK, NEW r \in Requests, req[r].pc \in {"copy", "open"}
  PROVE  /\ req[r].at \in Names /\ req[r].fd = None /\ WrittenFile(r) \in {"md", "tmp"}
         /\ Inode(r) \in Inodes /\ NewInode \in Inodes \ Used
<1>1. req[r].at \in Names /\ req[r].fd = None
  BY DEF RequestsOK, RequestOK, Copying
<1>2. NewInode \in Inodes \ Used
  BY <1>1, InodeIsFree
<1>3. file[req[r].at] \in Files
  BY <1>1 DEF Types
<1> QED
  BY <1>1, <1>2, <1>3 DEF Inode, WrittenFile, Files

(* The effect of open() on the files: the name has the file, which is empty. *)
LEMMA OpenFiles ==
  ASSUME Types, RequestsOK, NEW r \in Requests, Open(r), req[r].at \in folder
  PROVE  /\ req[r].pc \in {"copy", "open"}
         /\ file' = [file EXCEPT ![req[r].at][WrittenFile(r)] = Inode(r)]
         /\ data' = [data EXCEPT ![Inode(r)] = Empty]
         /\ req' = [req EXCEPT ![r] = [req[r] EXCEPT
                      !.pc = IF req[r].pc = "copy" THEN "copying" ELSE "write", !.fd = Inode(r)]]
         /\ Clash(r) /\ UNCHANGED <<folder, rows, lock, saved>>
BY DEF Open, Inode

(* A step on files keeps the types. *)
LEMMA BusyTypes ==
  ASSUME Types, RequestsOK, NEW r \in Requests, Busy(r)
  PROVE  Types'
<1>1. /\ req \in [Requests -> ReqRows] /\ req[r] \in ReqRows
      /\ req[r].name \in Names \union {None} /\ req[r].at \in Names \union {None}
      /\ req[r].todo \in SUBSET (Names \union Sessions) /\ req[r].fd \in Inodes \union {None}
      /\ req[r].text \in Payloads \union {None}
  BY DEF Types, ReqRows
<1>2. /\ folder \in SUBSET Names /\ file \in [Names -> Files] /\ data \in [Inodes -> Contents \union {Torn}]
      /\ session \in [Sessions -> {"absent", "rootless", "rooted"}]
      /\ row \in [Sessions -> Names \union {None}]
      /\ lock \in Requests \union {None} /\ saved \in [Names -> Texts \union {None}] /\ clash \in SUBSET Names
  BY DEF Types
<1>3. Clash(r) => clash' \in SUBSET Names
  <2>1. \A o \in Requests : req[o].at = req[r].at /\ Working(o) => req[o].at \in Names
    BY DEF RequestsOK, RequestOK, Working
  <2> QED
    BY <1>2, <2>1 DEF Clash
<1>4. CASE Seed(r)
  <2>1. PICK n \in req[r].todo \ folder :
          /\ folder' = folder \union {n}
          /\ req' = [req EXCEPT ![r].todo = @ \ {n}, ![r].pc = "copy", ![r].at = n]
    BY <1>4 DEF Seed
  <2>2. n \in Names
    BY <1>4, <2>1 DEF Seed, RequestsOK, RequestOK
  <2>3. req' \in [Requests -> ReqRows]
    <3>1. "copy" \in Phases /\ req[r].todo \ {n} \in SUBSET (Names \union Sessions)
      BY <1>1 DEF Phases
    <3>2. req' = [req EXCEPT ![r] = [req[r] EXCEPT !.pc = "copy", !.at = n, !.todo = req[r].todo \ {n}]]
      BY <1>1, <2>1 DEF ReqRows
    <3> QED
      BY <1>1, <2>2, <3>1, <3>2, RowTypes, GotoTypes
  <2> QED
    BY <1>2, <1>4, <2>1, <2>2, <2>3 DEF Seed, Types, rows
<1>5. CASE Open(r) /\ req[r].at \in folder
  <2>1. /\ req[r].at \in Names /\ WrittenFile(r) \in {"md", "tmp"} /\ Inode(r) \in Inodes
    BY <1>5, OpenedFile DEF Open
  <2>2. file' \in [Names -> Files]
    <3>1. file[req[r].at] \in Files
      BY <1>2, <2>1
    <3>2. [file[req[r].at] EXCEPT ![WrittenFile(r)] = Inode(r)] \in Files
      <4>1. CASE WrittenFile(r) = "md"
        BY <2>1, <3>1, <4>1 DEF Files
      <4>2. CASE WrittenFile(r) = "tmp"
        BY <2>1, <3>1, <4>2 DEF Files
      <4> QED
        BY <2>1, <4>1, <4>2
    <3>3. file' = [file EXCEPT ![req[r].at] = [file[req[r].at] EXCEPT ![WrittenFile(r)] = Inode(r)]]
      BY <1>5, OpenFiles
    <3> QED
      BY <1>2, <3>2, <3>3
  <2>3. data' \in [Inodes -> Contents \union {Torn}]
    BY <1>2, <1>5, <2>1, OpenFiles DEF Contents
  <2>4. req' \in [Requests -> ReqRows]
    <3> DEFINE pc == IF req[r].pc = "copy" THEN "copying" ELSE "write"
    <3>1. pc \in Phases
      BY DEF Phases
    <3>2. [req[r] EXCEPT !.pc = pc, !.fd = Inode(r)] \in ReqRows
      BY <1>1, <2>1, <3>1, RowTypes
    <3>3. req' = [req EXCEPT ![r] = [req[r] EXCEPT !.pc = pc, !.fd = Inode(r)]]
      BY <1>5, OpenFiles
    <3> QED
      BY <3>2, <3>3, GotoTypes
  <2> QED
    BY <1>2, <1>3, <1>5, <2>2, <2>3, <2>4, OpenFiles DEF Types, rows
<1>6. CASE Open(r) /\ req[r].at \notin folder
  <2>1. req' \in [Requests -> ReqRows]
    BY <1>1, <1>6, GotoTypes DEF Open, Phases
  <2> QED
    BY <1>2, <1>6, <2>1 DEF Open, Types, rows
<1>7. CASE Write(r)
  <2> DEFINE seed == req[r].pc = "copying"
             text == IF seed THEN Shipped ELSE req[r].text
             next == IF seed THEN "ensure" ELSE IF req[r].op = "update" THEN "replace" ELSE "load"
  <2>1. text \in Texts /\ next \in Phases /\ req[r].fd \in Inodes /\ req[r].at \in Names
    BY <1>1, <1>7 DEF Write, RequestsOK, RequestOK, Texts, Phases, Copying
  <2>2. /\ data' = [data EXCEPT ![req[r].fd] = IF @ \in {Empty, Rendered(text)} THEN Rendered(text) ELSE Torn]
        /\ req' = [req EXCEPT ![r] = [req[r] EXCEPT !.pc = next, !.fd = None]]
        /\ saved' = IF next = "replace" THEN saved ELSE [saved EXCEPT ![req[r].at] = text]
        /\ UNCHANGED <<folder, file, rows, lock, clash>>
    BY <1>7 DEF Write
  <2> HIDE DEF seed, text, next
  <2>3. [req[r] EXCEPT !.pc = next, !.fd = None] \in ReqRows
    BY <1>1, <2>1, RowTypes
  <2>4. req' \in [Requests -> ReqRows]
    BY <2>2, <2>3, GotoTypes
  <2>5. data' \in [Inodes -> Contents \union {Torn}]
    BY <1>2, <2>1, <2>2 DEF Contents
  <2>6. saved' \in [Names -> Texts \union {None}]
    BY <1>2, <2>1, <2>2
  <2> QED
    BY <1>2, <2>2, <2>4, <2>5, <2>6 DEF Types, rows
<1>8. CASE MakeFolder(r)
  <2>1. req' \in [Requests -> ReqRows] /\ req[r].name \in Names
    BY <1>1, <1>8, GotoTypes DEF MakeFolder, Phases, RequestsOK, RequestOK
  <2> QED
    BY <1>2, <1>8, <2>1 DEF MakeFolder, Types, rows
<1>9. CASE Replace(r)
  <2>1. req' \in [Requests -> ReqRows]
    BY <1>1, <1>9, GotoTypes DEF Replace, Phases
  <2>2. req[r].name \in Names /\ req[r].text \in Texts
    BY <1>9 DEF Replace, RequestsOK, RequestOK, Texts, Saving
  <2>3. file' \in [Names -> Files]
    BY <1>2, <1>9, <2>2 DEF Replace, Files
  <2>4. saved' \in [Names -> Texts \union {None}]
    BY <1>2, <1>9, <2>2 DEF Replace
  <2> QED
    BY <1>2, <1>9, <2>1, <2>3, <2>4 DEF Replace, Types, rows
<1>10. CASE Unlink(r)
  <2>1. req' \in [Requests -> ReqRows]
    BY <1>1, <1>10, GotoTypes DEF Unlink, Phases
  <2>2. file' \in [Names -> Files]
    BY <1>2, <1>10 DEF Unlink, Files, NoFiles
  <2>3. saved' \in [Names -> Texts \union {None}] /\ clash' \in SUBSET Names
    BY <1>2, <1>3, <1>10 DEF Unlink
  <2> QED
    BY <1>2, <1>10, <2>1, <2>2, <2>3 DEF Unlink, Types, rows
<1>11. CASE RemoveFolder(r)
  <2>1. req' \in [Requests -> ReqRows]
    BY <1>1, <1>11, GotoTypes DEF RemoveFolder
  <2> QED
    BY <1>2, <1>11, <2>1 DEF RemoveFolder, Types, rows
<1> QED
  BY <1>4, <1>5, <1>6, <1>7, <1>8, <1>9, <1>10, <1>11 DEF Busy

(* Every step keeps the types. *)
LEMMA TypesStep ==
  ASSUME IInv, [Next]_vars
  PROVE  Types'
<1>1. Types /\ RequestsOK
  BY DEF IInv
<1>2. CASE Crash
  BY <1>1, <1>2, IdleType DEF Crash, Types, disk, rows
<1>3. CASE UNCHANGED vars
  BY <1>1, <1>3 DEF vars, Types
<1> QED
  BY <1>1, <1>2, <1>3, Steps, ArrivesTypes, QuietTypes, BusyTypes

-------------------------------------------------------------------------------
(* What requests are about.                                                *)

(* A step gives one request a row, and leaves the others alone. *)
LEMMA OneRequest ==
  ASSUME Types, RequestsOK, NEW r \in Requests, NEW x, req' = [req EXCEPT ![r] = x], RequestOK(x)
  PROVE  RequestsOK'
BY DEF Types, RequestsOK, RequestOK

(* A request at rest is about nothing. *)
LEMMA IdleOK ==
  /\ RequestOK(Idle)
  /\ \A op, got : op \notin Chats => RequestOK([Idle EXCEPT !.pc = "reply", !.op = op, !.got = got])
<1> USE NoneIsNothing DEF RequestOK, Idle, Copying, Saving, Chats, Ops
<1>1. RequestOK(Idle)
  OBVIOUS
<1>2. ASSUME NEW op, NEW got, op \notin Chats
      PROVE  RequestOK([Idle EXCEPT !.pc = "reply", !.op = op, !.got = got])
  <2> DEFINE x == [Idle EXCEPT !.pc = "reply", !.op = op, !.got = got]
  <2>1. x.pc = "reply" /\ x.op = op /\ x.ses = None /\ x.fd = None
    OBVIOUS
  <2> HIDE DEF x
  <2> QED
    BY <1>2, <2>1
<1> QED
  BY <1>1, <1>2

(* A step that only goes on to a phase. *)
LEMMA GoesOn ==
  ASSUME Types, RequestsOK, NEW r \in Requests, NEW pc
  PROVE  /\ End(r) => RequestsOK'
         /\ \A got : Reply(r, got) /\ req[r].op \notin Chats => RequestsOK'
         /\ Goto(r, pc) /\ RequestOK([req[r] EXCEPT !.pc = pc]) => RequestsOK'
<1>1. End(r) => RequestsOK'
  BY IdleOK, OneRequest DEF End
<1>2. \A got : Reply(r, got) /\ req[r].op \notin Chats => RequestsOK'
  BY IdleOK, OneRequest DEF Reply
<1>3. Goto(r, pc) => req' = [req EXCEPT ![r] = [req[r] EXCEPT !.pc = pc]]
  BY DEF Goto
<1> QED
  BY <1>1, <1>2, <1>3, OneRequest

(* Every step keeps what requests are about. *)
LEMMA RequestsStep ==
  ASSUME IInv, [Next]_vars
  PROVE  RequestsOK'
<1>1. Types /\ RequestsOK
  BY DEF IInv
<1> USE DEF Copying, Saving, Chats
<1>2. ASSUME NEW r \in Requests, Arrives(r) PROVE RequestsOK'
  <2>1. \A x : Begin(r, x) /\ RequestOK(x) => RequestsOK'
    BY <1>1, OneRequest DEF Begin
  <2> DEFINE Fields(x, op, n, p, s) ==
               /\ x.pc = "ensure" \/ (op \in Chats /\ x.pc \in {"begin", "resolve"})
               /\ x.op = op /\ x.name = n /\ x.text = p /\ x.ses = s /\ x.todo = Seeds
               /\ x.fd = None
  <2>2. ASSUME NEW op, NEW n, NEW p, NEW s, NEW pc \in {"ensure", "begin", "resolve"},
               pc = "ensure" \/ op \in Chats
        PROVE  /\ Fields(Ensuring(op, n), op, n, None, None)
               /\ Fields([Ensuring(op, n) EXCEPT !.text = p], op, n, p, None)
               /\ Fields([Ensuring(op, n) EXCEPT !.pc = pc, !.ses = s], op, n, None, s)
    BY <2>2 DEF Ensuring, Idle
  <2>3. ASSUME NEW op, NEW n, NEW p, NEW s, NEW x, Fields(x, op, n, p, s),
               op \in Saving => p \in Payloads,
               op # "list" => n \in Names,
               op \in Chats => s \in Sessions,
               s # None => op \in Chats
        PROVE  RequestOK(x)
    BY <2>3 DEF RequestOK, Chats, Saving
  <2> HIDE DEF Fields
  <2>4. ASSUME NEW n \in Names, NEW op \in Saving, NEW p \in Payloads, Save(r, op, n, p) PROVE RequestsOK'
    <3>1. RequestOK([Ensuring(op, n) EXCEPT !.text = p])
      BY <2>2, <2>3
    <3> QED
      BY <2>1, <2>4, <3>1 DEF Save
  <2>5. ASSUME NEW n \in Names, NEW op \in {"get", "delete", "by_agent"}, Visit(r, op, n) PROVE RequestsOK'
    <3>1. RequestOK(Ensuring(op, n))
      BY <2>2, <2>3
    <3> QED
      BY <2>1, <2>5, <3>1 DEF Visit
  <2>6. ASSUME NEW n \in Names, NEW op \in Chats, NEW s \in Sessions, Chat(r, op, n, s) PROVE RequestsOK'
    <3> DEFINE pc == IF session[s] = "absent" THEN "begin" ELSE "resolve"
    <3>0. pc \in {"ensure", "begin", "resolve"}
      OBVIOUS
    <3> HIDE DEF pc
    <3>1. RequestOK([Ensuring(op, n) EXCEPT !.pc = pc, !.ses = s])
      BY <2>2, <2>3, <3>0
    <3> QED
      BY <2>1, <2>6, <3>1 DEF Chat, pc
  <2>7. CASE ListAgents(r)
    <3>1. RequestOK(Ensuring("list", None))
      BY <2>2, <2>3
    <3> QED
      BY <2>1, <2>7, <3>1 DEF ListAgents
  <2>8. ASSUME NEW op \in {"sessions", "detail"}, NEW s \in Sessions \union {None},
               s # None => op = "detail", Begin(r, Selecting(op, s))
        PROVE  RequestsOK'
    <3>1. RequestOK(Selecting(op, s))
      BY <2>8 DEF Selecting, Idle, RequestOK, Lists
    <3> QED
      BY <2>1, <2>8, <3>1
  <2> QED
    BY <1>2, <2>4, <2>5, <2>6, <2>7, <2>8 DEF Arrives, ListSessions, ShowSession
<1>3. ASSUME NEW r \in Requests, Quiet(r), ~Arrives(r) PROVE RequestsOK'
  <2>1. req[r] \in ReqRows /\ RequestOK(req[r])
    BY <1>1 DEF Types, RequestsOK
  <2>2. ASSUME NEW pc \in Phases, Goto(r, pc), RequestOK([req[r] EXCEPT !.pc = pc]) PROVE RequestsOK'
    BY <1>1, <2>2, GoesOn
  <2>3. End(r) => RequestsOK'
    BY <1>1, GoesOn
  <2>4. \A got : Reply(r, got) /\ req[r].op \notin Chats => RequestsOK'
    BY <1>1, GoesOn
  <2>5. CASE Ensured(r)
    <3> DEFINE x == [req[r] EXCEPT !.pc = AfterEnsure(r), !.at = req[r].name,
                                   !.todo = IF req[r].op = "list" THEN folder ELSE {}]
    <3>1. AfterEnsure(r) \in {"scan", "commit_new", "check"} /\ (req[r].op = "list" <=> AfterEnsure(r) = "scan")
          /\ (req[r].op \in Chats <=> AfterEnsure(r) = "commit_new")
      BY DEF AfterEnsure
    <3>2. RequestOK(x)
      BY <2>1, <2>5, <3>1 DEF RequestOK, Ensured, ReqRows, Ops
    <3>3. req' = [req EXCEPT ![r] = x]
      BY <2>5 DEF Ensured
    <3> HIDE DEF x
    <3> QED
      BY <1>1, <3>2, <3>3, OneRequest
  <2>6. CASE CheckAbsent(r)
    <3>1. RequestOK([req[r] EXCEPT !.pc = "mkdir"])
      BY <2>1, <2>6 DEF CheckAbsent, RequestOK, ReqRows
    <3> QED
      BY <2>2, <2>3, <2>6, <3>1 DEF CheckAbsent, Phases
  <2>7. CASE CheckPresent(r)
    <3>1. req[r].op = "update" => RequestOK([req[r] EXCEPT !.pc = "open"])
      BY <2>1, <2>7 DEF CheckPresent, RequestOK, ReqRows
    <3>2. RequestOK([req[r] EXCEPT !.pc = "ids"])
      BY <2>1, <2>7 DEF CheckPresent, RequestOK, ReqRows
    <3> QED
      BY <2>2, <2>3, <2>7, <3>1, <3>2 DEF CheckPresent, Phases
  <2>8. CASE CheckFile(r)
    <3>1. RequestOK([req[r] EXCEPT !.pc = "load"])
      BY <2>1, <2>8 DEF CheckFile, RequestOK, ReqRows
    <3> QED
      BY <2>2, <2>3, <2>8, <3>1 DEF CheckFile, Phases
  <2>9. CASE Load(r)
    <3>1. req[r].op = "by_agent" => RequestOK([req[r] EXCEPT !.pc = "select"])
      BY <2>1, <2>9 DEF Load, RequestOK, ReqRows, Lists
    <3>2. req[r].op \notin Chats
      BY <2>1, <2>9 DEF Load, RequestOK
    <3> QED
      BY <2>2, <2>3, <2>4, <2>9, <3>1, <3>2 DEF Load, Phases
  <2>10. CASE ScanOne(r)
    <3>1. CASE \E n \in req[r].todo :
              req' = [req EXCEPT ![r].todo = @ \ {n},
                                 ![r].got = IF HasFile(n) THEN Parsed(data[file[n].md]) ELSE @]
      <4>1. PICK n \in req[r].todo :
              req' = [req EXCEPT ![r].todo = @ \ {n},
                                 ![r].got = IF HasFile(n) THEN Parsed(data[file[n].md]) ELSE @]
        BY <3>1
      <4> DEFINE got == IF HasFile(n) THEN Parsed(data[file[n].md]) ELSE req[r].got
                 x == [req[r] EXCEPT !.todo = req[r].todo \ {n}, !.got = got]
      <4>2. req' = [req EXCEPT ![r] = x]
        BY <4>1
      <4> HIDE DEF got
      <4>3. RequestOK(x)
        BY <2>1, <2>10 DEF ScanOne, RequestOK, ReqRows
      <4> HIDE DEF x
      <4> QED
        BY <1>1, <4>2, <4>3, OneRequest
    <3> QED
      BY <2>3, <2>10, <3>1 DEF ScanOne
  <2>11. CASE SelectIds(r)
    <3> DEFINE x == [req[r] EXCEPT !.pc = "rows", !.todo = {s \in Sessions : session[s] # "absent"}]
    <3>1. RequestOK(x)
      BY <2>1, <2>11 DEF SelectIds, RequestOK, ReqRows
    <3>2. req' = [req EXCEPT ![r] = x]
      BY <2>11 DEF SelectIds
    <3> HIDE DEF x
    <3> QED
      BY <1>1, <3>1, <3>2, OneRequest
  <2>12. CASE DeleteRows(r)
    <3>1. RequestOK([req[r] EXCEPT !.pc = "unlink"])
      BY <2>1, <2>12 DEF DeleteRows, RequestOK, ReqRows
    <3> QED
      BY <2>2, <2>12, <3>1 DEF DeleteRows, Phases
  <2>13. CASE NewSession(r)
    <3>1. RequestOK([req[r] EXCEPT !.pc = "ensure"])
      BY <2>1, <2>13 DEF NewSession, RequestOK, ReqRows
    <3> QED
      BY <2>2, <2>13, <3>1 DEF NewSession, Phases
  <2>14. CASE CommitNew(r)
    <3>1. RequestOK([req[r] EXCEPT !.pc = "resolve"])
      BY <2>1, <2>14 DEF CommitNew, RequestOK, ReqRows
    <3> QED
      BY <2>2, <2>14, <3>1 DEF CommitNew, Phases
  <2>15. CASE Resolve(r)
    <3>1. RequestOK([req[r] EXCEPT !.pc = "save"])
      BY <2>1, <2>15 DEF Resolve, RequestOK, ReqRows
    <3> QED
      BY <2>2, <2>3, <2>15, <3>1 DEF Resolve, Phases
  <2>16. CASE SaveAgent(r)
    <3>1. RequestOK([req[r] EXCEPT !.pc = "run"])
      BY <2>1, <2>16 DEF SaveAgent, RequestOK, ReqRows
    <3> QED
      BY <2>2, <2>3, <2>16, <3>1 DEF SaveAgent, Phases
  <2>17. CASE EndRun(r) \/ LockTimeout(r) \/ Answered(r)
    BY <2>3, <2>17 DEF EndRun, LockTimeout, Answered
  <2>18. CASE SelectSessions(r)
    <3> DEFINE x == [req[r] EXCEPT !.pc = "entries", !.todo = Listed(r)]
    <3>1. RequestOK(x) /\ req[r].op \notin Chats
      BY <2>1, <2>18 DEF SelectSessions, RequestOK, ReqRows, Lists
    <3>2. Reply(r, "integrity") \/ req' = [req EXCEPT ![r] = x]
      BY <2>18 DEF SelectSessions
    <3> HIDE DEF x
    <3> QED
      BY <1>1, <2>4, <3>1, <3>2, OneRequest
  <2>19. CASE BuildEntry(r)
    <3>1. req[r].op \notin Chats
      BY <2>1, <2>19 DEF BuildEntry, RequestOK, Lists
    <3>2. \A todo : RequestOK([req[r] EXCEPT !.todo = todo])
      BY <2>1, <2>19 DEF BuildEntry, RequestOK, ReqRows
    <3>3. \A todo : req' = [req EXCEPT ![r].todo = todo] => RequestsOK'
      <4> SUFFICES ASSUME NEW todo, req' = [req EXCEPT ![r].todo = todo] PROVE RequestsOK'
        OBVIOUS
      <4>1. req' = [req EXCEPT ![r] = [req[r] EXCEPT !.todo = todo]]
        OBVIOUS
      <4> QED
        BY <1>1, <3>2, <4>1, OneRequest
    <3> QED
      BY <2>3, <2>4, <2>19, <3>1, <3>3 DEF BuildEntry
  <2> QED
    BY <1>3, <2>5, <2>6, <2>7, <2>8, <2>9, <2>10, <2>11, <2>12, <2>13, <2>14, <2>15, <2>16, <2>17, <2>18,
       <2>19 DEF Quiet
<1>4. ASSUME NEW r \in Requests, Busy(r) PROVE RequestsOK'
  <2>1. req[r] \in ReqRows /\ RequestOK(req[r])
    BY <1>1 DEF Types, RequestsOK
  <2>2. ASSUME NEW pc \in Phases, Goto(r, pc), RequestOK([req[r] EXCEPT !.pc = pc]) PROVE RequestsOK'
    BY <1>1, <2>2, GoesOn
  <2>3. End(r) => RequestsOK'
    BY <1>1, GoesOn
  <2>4. CASE Seed(r)
    <3>1. PICK n \in req[r].todo : req' = [req EXCEPT ![r].todo = @ \ {n}, ![r].pc = "copy", ![r].at = n]
      BY <2>4 DEF Seed
    <3> DEFINE x == [req[r] EXCEPT !.todo = req[r].todo \ {n}, !.pc = "copy", !.at = n]
    <3>2. req' = [req EXCEPT ![r] = x]
      BY <3>1
    <3>3. RequestOK(x)
      BY <2>1, <2>4, <3>1 DEF Seed, RequestOK, ReqRows
    <3> HIDE DEF x
    <3> QED
      BY <1>1, <3>2, <3>3, OneRequest
  <2>5. CASE Open(r) /\ req[r].at \in folder
    <3> DEFINE x == [req[r] EXCEPT !.pc = IF req[r].pc = "copy" THEN "copying" ELSE "write", !.fd = Inode(r)]
    <3>1. Inode(r) \in Inodes
      BY <1>1, <2>5, OpenedFile DEF Open
    <3>2. Inode(r) # None
      BY <3>1, InodesSuffice DEF Inodes
    <3>3. RequestOK(x) /\ req' = [req EXCEPT ![r] = x]
      BY <1>1, <2>1, <2>5, <3>2, OpenFiles DEF RequestOK, ReqRows
    <3> HIDE DEF x
    <3> QED
      BY <1>1, <3>3, OneRequest
  <2>6. CASE Open(r) /\ req[r].at \notin folder
    <3>1. req[r].pc = "copy" => RequestOK([req[r] EXCEPT !.pc = "ensure"])
      BY <2>1 DEF RequestOK, ReqRows
    <3> QED
      BY <2>2, <2>3, <2>6, <3>1 DEF Open, Phases
  <2>7. CASE Write(r)
    <3> DEFINE next == IF req[r].pc = "copying" THEN "ensure" ELSE IF req[r].op = "update" THEN "replace" ELSE "load"
               x == [req[r] EXCEPT !.pc = next, !.fd = None]
    <3>1. req' = [req EXCEPT ![r] = x]
      BY <2>7 DEF Write
    <3>2. RequestOK(x)
      BY <2>1, <2>7 DEF Write, RequestOK, ReqRows
    <3> HIDE DEF x
    <3> QED
      BY <1>1, <3>1, <3>2, OneRequest
  <2>8. CASE MakeFolder(r)
    <3>1. RequestOK([req[r] EXCEPT !.pc = "open"])
      BY <2>1, <2>8 DEF MakeFolder, RequestOK, ReqRows
    <3> QED
      BY <2>2, <2>3, <2>8, <3>1 DEF MakeFolder, Phases
  <2>9. CASE Replace(r)
    <3>1. RequestOK([req[r] EXCEPT !.pc = "load"])
      BY <2>1, <2>9 DEF Replace, RequestOK, ReqRows
    <3> QED
      BY <2>2, <2>3, <2>9, <3>1 DEF Replace, Phases
  <2>10. CASE Unlink(r)
    <3>1. RequestOK([req[r] EXCEPT !.pc = "rmdir"])
      BY <2>1, <2>10 DEF Unlink, RequestOK, ReqRows
    <3> QED
      BY <2>2, <2>3, <2>10, <3>1 DEF Unlink, Phases
  <2>11. CASE RemoveFolder(r)
    BY <2>3, <2>11 DEF RemoveFolder
  <2> QED
    BY <1>4, <2>4, <2>5, <2>6, <2>7, <2>8, <2>9, <2>10, <2>11 DEF Busy
<1>5. CASE Crash
  BY <1>5, IdleOK DEF Crash, RequestsOK
<1>6. CASE UNCHANGED vars
  BY <1>1, <1>6 DEF vars, RequestsOK
<1> QED
  BY <1>2, <1>3, <1>4, <1>5, <1>6, Steps

-------------------------------------------------------------------------------
(* Files.                                                                  *)

(* A step that leaves the files alone, and lets go of them. *)
Aside(r) ==
  /\ UNCHANGED <<disk, saved>> /\ clash \subseteq clash'
  /\ \A o \in Requests \ {r} : req'[o] = req[o]
  /\ req'[r].fd = None /\ ~Engaged(r)'

(* What a request that goes on may hold. *)
Holding(q) == q.pc \in Copying \union {"write", "replace", "rmdir"} \/ (q.op = "create" /\ q.pc = "open")

(* The quiet steps are aside. *)
LEMMA QuietIsAside ==
  ASSUME Types, RequestsOK, RequestsOK', NEW r \in Requests, Quiet(r)
  PROVE  Aside(r)
<1>1. req \in [Requests -> ReqRows] /\ req[r] \in ReqRows /\ RequestOK(req[r]) /\ RequestOK(req'[r])
  BY DEF Types, RequestsOK
<1>2. ASSUME NEW x, req' = [req EXCEPT ![r] = x], ~Holding(x),
             UNCHANGED <<disk, saved>>, clash \subseteq clash'
      PROVE  Aside(r)
  <2>1. req'[r] = x /\ \A o \in Requests \ {r} : req'[o] = req[o]
    BY <1>1, <1>2
  <2>2. ~Engaged(r)'
    BY <1>2, <2>1 DEF Engaged, Making, Holding
  <2>3. req'[r].fd = None
    BY <1>1, <1>2, <2>1 DEF RequestOK, Holding, Copying
  <2> QED
    BY <1>2, <2>1, <2>2, <2>3 DEF Aside
<1>3. ASSUME NEW pc \in Phases, Goto(r, pc), pc \notin Copying \union {"write", "replace", "rmdir"},
             pc # "open" \/ req[r].op = "update",
             UNCHANGED <<disk, saved>>, clash \subseteq clash'
      PROVE  Aside(r)
  <2> DEFINE x == [req[r] EXCEPT !.pc = pc]
  <2>1. req' = [req EXCEPT ![r] = x] /\ ~Holding(x)
    BY <1>1, <1>3 DEF Goto, ReqRows, Holding
  <2> HIDE DEF x
  <2> QED
    BY <1>2, <1>3, <2>1
<1>4. ~Holding(Idle) /\ \A op, got : ~Holding([Idle EXCEPT !.pc = "reply", !.op = op, !.got = got])
  BY DEF Holding, Idle, Copying
<1>5. End(r) /\ UNCHANGED <<disk, saved>> /\ clash \subseteq clash' => Aside(r)
  BY <1>2, <1>4 DEF End
<1>6. \A got : Reply(r, got) /\ UNCHANGED <<disk, saved>> /\ clash \subseteq clash' => Aside(r)
  BY <1>2, <1>4 DEF Reply
<1>7. CASE Arrives(r)
  <2>1. ASSUME NEW x, Begin(r, x), x.pc \in {"ensure", "begin", "resolve", "select"} PROVE Aside(r)
    BY <1>2, <2>1 DEF Begin, Holding, Copying
  <2>2. \A op, n, p, s, pc : /\ Ensuring(op, n).pc = "ensure"
                             /\ [Ensuring(op, n) EXCEPT !.text = p].pc = "ensure"
                             /\ [Ensuring(op, n) EXCEPT !.pc = pc, !.ses = s].pc = pc
                             /\ Selecting(op, s).pc = "select"
    BY DEF Ensuring, Selecting, Idle
  <2>3. ASSUME NEW n \in Names, NEW op \in Saving, NEW p \in Payloads, Save(r, op, n, p) PROVE Aside(r)
    <3> DEFINE x == [Ensuring(op, n) EXCEPT !.text = p]
    <3>1. Begin(r, x) /\ x.pc = "ensure"
      BY <2>2, <2>3 DEF Save
    <3> HIDE DEF x
    <3> QED
      BY <2>1, <3>1
  <2>4. ASSUME NEW n \in Names, NEW op \in {"get", "delete", "by_agent"}, Visit(r, op, n) PROVE Aside(r)
    BY <2>1, <2>2, <2>4 DEF Visit
  <2>5. ASSUME NEW n \in Names, NEW op \in Chats, NEW s \in Sessions, Chat(r, op, n, s) PROVE Aside(r)
    <3> DEFINE pc == IF session[s] = "absent" THEN "begin" ELSE "resolve"
               x  == [Ensuring(op, n) EXCEPT !.pc = pc, !.ses = s]
    <3>1. Begin(r, x) /\ x.pc = pc
      BY <2>2, <2>5 DEF Chat
    <3>2. pc \in {"begin", "resolve"}
      OBVIOUS
    <3> HIDE DEF x, pc
    <3> QED
      BY <2>1, <3>1, <3>2
  <2>6. CASE ListAgents(r) \/ ListSessions(r)
    BY <2>1, <2>2, <2>6 DEF ListAgents, ListSessions
  <2>7. ASSUME NEW s \in Sessions, ShowSession(r, s) PROVE Aside(r)
    BY <2>1, <2>2, <2>7 DEF ShowSession
  <2> QED
    BY <1>7, <2>3, <2>4, <2>5, <2>6, <2>7 DEF Arrives
<1>8. CASE Ensured(r)
  <2> DEFINE x == [req[r] EXCEPT !.pc = AfterEnsure(r), !.at = req[r].name,
                                 !.todo = IF req[r].op = "list" THEN folder ELSE {}]
  <2>1. req' = [req EXCEPT ![r] = x]
    BY <1>8 DEF Ensured
  <2>2. x.pc \in {"scan", "commit_new", "check"}
    BY <1>1 DEF AfterEnsure, ReqRows
  <2> HIDE DEF x
  <2> QED
    BY <1>2, <1>8, <2>1, <2>2 DEF Ensured, Holding, Copying
<1>9. CASE CheckAbsent(r) \/ CheckPresent(r)
  BY <1>3, <1>5, <1>9 DEF CheckAbsent, CheckPresent, Phases, Copying
<1>10. CASE CheckFile(r) \/ Load(r)
  BY <1>3, <1>5, <1>6, <1>10 DEF CheckFile, Load, Phases, Copying
<1>11. CASE ScanOne(r)
  <2>1. ASSUME NEW n \in req[r].todo,
               req' = [req EXCEPT ![r].todo = @ \ {n},
                                  ![r].got = IF HasFile(n) THEN Parsed(data[file[n].md]) ELSE @]
        PROVE  Aside(r)
    <3> DEFINE got == IF HasFile(n) THEN Parsed(data[file[n].md]) ELSE req[r].got
               x == [req[r] EXCEPT !.todo = req[r].todo \ {n}, !.got = got]
    <3>1. req' = [req EXCEPT ![r] = x]
      BY <2>1
    <3>2. x.pc = "scan"
      BY <1>1, <1>11 DEF ScanOne, ReqRows
    <3> HIDE DEF x
    <3> QED
      BY <1>2, <1>11, <3>1, <3>2 DEF ScanOne, Holding, Copying
  <2> QED
    BY <1>5, <1>11, <2>1 DEF ScanOne
<1>12. CASE SelectIds(r)
  <2> DEFINE x == [req[r] EXCEPT !.pc = "rows", !.todo = {s \in Sessions : session[s] # "absent"}]
  <2>1. req' = [req EXCEPT ![r] = x] /\ x.pc = "rows"
    BY <1>1, <1>12 DEF SelectIds, ReqRows
  <2> HIDE DEF x
  <2> QED
    BY <1>2, <1>12, <2>1 DEF SelectIds, Holding, Copying
<1>13. CASE DeleteRows(r) \/ NewSession(r) \/ CommitNew(r)
  BY <1>3, <1>13 DEF DeleteRows, NewSession, CommitNew, Phases, Copying
<1>14. CASE Resolve(r) \/ SaveAgent(r)
  BY <1>3, <1>5, <1>14 DEF Resolve, SaveAgent, Phases, Copying
<1>15. CASE EndRun(r) \/ LockTimeout(r) \/ Answered(r)
  BY <1>5, <1>15 DEF EndRun, LockTimeout, Answered
<1>16. CASE SelectSessions(r)
  <2>1. ASSUME req' = [req EXCEPT ![r].pc = "entries", ![r].todo = Listed(r)] PROVE Aside(r)
    <3> DEFINE x == [req[r] EXCEPT !.pc = "entries", !.todo = Listed(r)]
    <3>1. req' = [req EXCEPT ![r] = x] /\ x.pc = "entries"
      BY <1>1, <2>1 DEF ReqRows
    <3> HIDE DEF x
    <3> QED
      BY <1>2, <1>16, <3>1 DEF SelectSessions, Holding, Copying
  <2> QED
    BY <1>6, <1>16, <2>1 DEF SelectSessions
<1>17. CASE BuildEntry(r)
  <2>1. ASSUME NEW s, req' = [req EXCEPT ![r].todo = @ \ {s}] PROVE Aside(r)
    <3> DEFINE x == [req[r] EXCEPT !.todo = req[r].todo \ {s}]
    <3>1. req' = [req EXCEPT ![r] = x] /\ x.pc = "entries"
      BY <1>1, <1>17, <2>1 DEF BuildEntry, ReqRows
    <3> HIDE DEF x
    <3> QED
      BY <1>2, <1>17, <3>1 DEF BuildEntry, Holding, Copying
  <2> QED
    BY <1>5, <1>6, <1>17, <2>1 DEF BuildEntry
<1> QED
  BY <1>7, <1>8, <1>9, <1>10, <1>11, <1>12, <1>13, <1>14, <1>15, <1>16, <1>17 DEF Quiet

(* The file that is opened has no other name, and is in the hands of those *)
(* only who work on the same name.                                         *)
LEMMA InodeIsOwn ==
  ASSUME Types, RequestsOK, FilesOK, OpenOK, NEW r \in Requests, req[r].pc \in {"copy", "open"}
  PROVE  /\ \A n \in Names, k \in {"md", "tmp"} :
              file[n][k] = Inode(r) => n = req[r].at /\ k = WrittenFile(r)
         /\ \A q \in Requests : req[q].fd = Inode(r) => req[q].at = req[r].at
<1>1. /\ req[r].at \in Names /\ WrittenFile(r) \in {"md", "tmp"}
      /\ Inode(r) \in Inodes /\ NewInode \in Inodes \ Used
  BY OpenedFile
<1>2. None \notin Inodes
  BY InodesSuffice, NoneIsNothing DEF Inodes
<1>3. CASE file[req[r].at][WrittenFile(r)] = None
  <2>1. Inode(r) = NewInode
    BY <1>3 DEF Inode
  <2>2. /\ \A n \in Names : file[n].md # NewInode /\ file[n].tmp # NewInode
        /\ \A q \in Requests : req[q].fd # NewInode
    BY <1>1 DEF Used, Linked
  <2>3. \A n \in Names, k \in {"md", "tmp"} : file[n][k] # NewInode
    BY <2>2
  <2> QED
    BY <2>1, <2>2, <2>3
<1>4. CASE file[req[r].at][WrittenFile(r)] # None
  <2>1. Inode(r) = file[req[r].at][WrittenFile(r)]
    BY <1>4 DEF Inode
  <2>2. \A n \in Names, k \in {"md", "tmp"} :
          file[n][k] = Inode(r) => n = req[r].at /\ k = WrittenFile(r)
    BY <1>1, <1>2, <2>1 DEF FilesOK
  <2>3. \A q \in Requests : req[q].fd = Inode(r) => req[q].at = req[r].at
    BY <1>1, <1>2, <2>1 DEF OpenOK
  <2> QED
    BY <2>2, <2>3
<1> QED
  BY <1>3, <1>4

Others(r) == \A o \in Requests \ {r} : req'[o] = req[o]
Same(r)   == req'[r].at = req[r].at /\ req'[r].op = req[r].op /\ req'[r].text = req[r].text

(* What the steps on files do: a folder is made, a file opened, written,   *)
(* put in the place of another, removed, and a folder removed.             *)
Makes(r) ==
  \E n \in Names \ folder :
    /\ folder' = folder \union {n} /\ UNCHANGED <<file, data, saved, clash, rows>>
    /\ Making(r)' /\ req'[r].pc \in {"copy", "open"} /\ req'[r].at = n /\ req'[r].fd = None

Opens(r) ==
  /\ req[r].pc \in {"copy", "open"} /\ req[r].at \in folder
  /\ file' = [file EXCEPT ![req[r].at][WrittenFile(r)] = Inode(r)]
  /\ data' = [data EXCEPT ![Inode(r)] = Empty]
  /\ Clash(r) /\ UNCHANGED <<folder, saved, rows>>
  /\ Same(r) /\ req'[r].fd = Inode(r)
  /\ req'[r].pc = IF req[r].pc = "copy" THEN "copying" ELSE "write"

Text(r) == IF req[r].pc = "copying" THEN Shipped ELSE req[r].text
Writes(r) ==
  /\ req[r].pc \in {"copying", "write"} /\ req[r].fd \in Inodes /\ Text(r) \in Texts
  /\ data' = [data EXCEPT ![req[r].fd] =
                IF @ \in {Empty, Rendered(Text(r))} THEN Rendered(Text(r)) ELSE Torn]
  /\ UNCHANGED <<folder, file, clash, rows>>
  /\ Same(r) /\ req'[r].fd = None
  /\ \/ /\ req[r].pc = "write" /\ req[r].op = "update" /\ req'[r].pc = "replace" /\ saved' = saved
     \/ /\ req[r].pc = "write" => req[r].op # "update"
        /\ req'[r].pc \in {"ensure", "load"} /\ saved' = [saved EXCEPT ![req[r].at] = Text(r)]

Replaces(r) ==
  LET n == req[r].at IN
  /\ req[r].pc = "replace" /\ n \in Names /\ file[n].tmp # None
  /\ file' = [file EXCEPT ![n] = [md |-> file[n].tmp, tmp |-> None]]
  /\ saved' = [saved EXCEPT ![n] = req[r].text] /\ req[r].text \in Payloads
  /\ UNCHANGED <<folder, data, clash, rows>>
  /\ Same(r) /\ req'[r].fd = None /\ req'[r].pc = "load"

Unlinks(r) ==
  LET n == req[r].at IN
  /\ req[r].pc = "unlink" /\ n \in folder
  /\ file' = [file EXCEPT ![n] = NoFiles] /\ saved' = [saved EXCEPT ![n] = None]
  /\ Clash(r) /\ late' = late \union (Running \intersect {n}) /\ UNCHANGED <<folder, data, rows>>
  /\ Same(r) /\ req'[r].fd = None /\ req'[r].pc = "rmdir"

Removes(r) ==
  /\ req[r].pc = "rmdir"
  /\ folder' = IF file[req[r].at] = NoFiles THEN folder \ {req[r].at} ELSE folder
  /\ UNCHANGED <<file, data, saved, clash, rows>>
  /\ req'[r].fd = None /\ ~Engaged(r)'

(* The steps on files are these, or leave the files alone.                 *)
LEMMA BusyKinds ==
  ASSUME Types, RequestsOK, NEW r \in Requests, Busy(r)
  PROVE  /\ Others(r)
         /\ \/ Aside(r) /\ UNCHANGED rows
            \/ Makes(r) \/ Opens(r) \/ Writes(r) \/ Replaces(r) \/ Unlinks(r) \/ Removes(r)
<1>1. req \in [Requests -> ReqRows] /\ req[r] \in ReqRows /\ RequestOK(req[r])
  BY DEF Types, RequestsOK
<1>2. \A x : req' = [req EXCEPT ![r] = x] => Others(r) /\ req'[r] = x
  BY <1>1 DEF Others
<1>3. ASSUME NEW pc, Goto(r, pc)
      PROVE  Others(r) /\ Same(r) /\ req'[r].pc = pc /\ req'[r].fd = req[r].fd
  BY <1>1, <1>2, <1>3 DEF Goto, Same, ReqRows
<1>4. ASSUME End(r) PROVE Others(r) /\ req'[r].fd = None /\ ~Engaged(r)'
  <2>1. Idle.pc = "idle" /\ Idle.fd = None
    BY DEF Idle
  <2>2. Others(r) /\ req'[r] = Idle
    BY <1>2, <1>4 DEF End
  <2> QED
    BY <2>1, <2>2 DEF Engaged, Making, Copying
<1>5. CASE Seed(r)
  <2>1. PICK n \in req[r].todo \ folder :
          /\ folder' = folder \union {n}
          /\ req' = [req EXCEPT ![r].todo = @ \ {n}, ![r].pc = "copy", ![r].at = n]
    BY <1>5 DEF Seed
  <2> DEFINE x == [req[r] EXCEPT !.todo = req[r].todo \ {n}, !.pc = "copy", !.at = n]
  <2>2. req' = [req EXCEPT ![r] = x]
    BY <2>1
  <2>3. x.pc = "copy" /\ x.at = n /\ x.fd = None /\ n \in Names
    BY <1>1, <1>5, <2>1 DEF ReqRows, Seed, RequestOK
  <2> HIDE DEF x
  <2>4. Others(r) /\ req'[r].pc = "copy" /\ req'[r].at = n /\ req'[r].fd = None
    BY <1>2, <2>2, <2>3
  <2>5. Making(r)'
    BY <2>4 DEF Making, Copying
  <2> QED
    BY <1>5, <2>1, <2>3, <2>4, <2>5 DEF Seed, Makes
<1>6. CASE MakeFolder(r)
  <2>1. req[r].name \in Names /\ req[r].at = req[r].name /\ req[r].fd = None /\ req[r].op = "create"
    BY <1>1, <1>6 DEF MakeFolder, RequestOK
  <2>2. CASE req[r].name \in folder
    BY <1>4, <1>6, <2>1, <2>2 DEF MakeFolder, Aside, Others, disk
  <2>3. CASE req[r].name \notin folder
    <3>1. Others(r) /\ Same(r) /\ req'[r].pc = "open" /\ req'[r].fd = None
      BY <1>3, <1>6, <2>1, <2>3 DEF MakeFolder
    <3>2. Making(r)'
      BY <2>1, <3>1 DEF Making, Same
    <3> QED
      BY <1>6, <2>1, <2>3, <3>1, <3>2 DEF MakeFolder, Makes, Same
  <2> QED
    BY <2>2, <2>3
<1>7. CASE Open(r) /\ req[r].at \in folder
  <2> DEFINE x == [req[r] EXCEPT !.pc = IF req[r].pc = "copy" THEN "copying" ELSE "write", !.fd = Inode(r)]
  <2>1. req' = [req EXCEPT ![r] = x]
    BY <1>7, OpenFiles
  <2>2. /\ x.pc = IF req[r].pc = "copy" THEN "copying" ELSE "write"
        /\ x.fd = Inode(r) /\ x.at = req[r].at /\ x.op = req[r].op /\ x.text = req[r].text
    BY <1>1 DEF ReqRows
  <2> HIDE DEF x
  <2>3. Others(r) /\ req'[r] = x
    BY <1>2, <2>1
  <2> QED
    BY <1>7, <2>2, <2>3, OpenFiles DEF Opens, Same
<1>8. CASE Open(r) /\ req[r].at \notin folder
  <2>1. req[r].pc \in {"copy", "open"} /\ req[r].fd = None
    BY <1>1, <1>8 DEF Open, RequestOK
  <2>2. Others(r) /\ req'[r].fd = None /\ ~Engaged(r)'
    <3>1. CASE req[r].pc = "copy"
      <4>1. Others(r) /\ req'[r].pc = "ensure" /\ req'[r].fd = None
        BY <1>3, <1>8, <2>1, <3>1 DEF Open
      <4> QED
        BY <4>1 DEF Engaged, Making, Copying
    <3>2. CASE req[r].pc # "copy"
      BY <1>4, <1>8, <3>2 DEF Open
    <3> QED
      BY <3>1, <3>2
  <2> QED
    BY <1>8, <2>2 DEF Open, Aside, Others, disk
<1>9. CASE Write(r)
  <2> DEFINE next == IF req[r].pc = "copying" THEN "ensure" ELSE IF req[r].op = "update" THEN "replace" ELSE "load"
             x == [req[r] EXCEPT !.pc = next, !.fd = None]
  <2>1. req' = [req EXCEPT ![r] = x]
    BY <1>9 DEF Write
  <2>2. x.pc = next /\ x.fd = None /\ x.at = req[r].at /\ x.op = req[r].op /\ x.text = req[r].text
    BY <1>1 DEF ReqRows
  <2> HIDE DEF x
  <2>3. Others(r) /\ req'[r] = x
    BY <1>2, <2>1
  <2>4. req[r].fd \in Inodes /\ Text(r) \in Texts
    BY <1>1, <1>9 DEF Write, ReqRows, RequestOK, Text, Texts
  <2>5. /\ req[r].pc \in {"copying", "write"}
        /\ data' = [data EXCEPT ![req[r].fd] =
                IF @ \in {Empty, Rendered(Text(r))} THEN Rendered(Text(r)) ELSE Torn]
        /\ UNCHANGED <<folder, file, clash, rows>>
        /\ saved' = IF next = "replace" THEN saved ELSE [saved EXCEPT ![req[r].at] = Text(r)]
    BY <1>9 DEF Write, Text
  <2> QED
    BY <2>2, <2>3, <2>4, <2>5 DEF Writes, Same
<1>10. CASE Replace(r)
  <2>1. /\ req[r].pc = "replace" /\ req[r].name \in Names /\ req[r].at = req[r].name /\ req[r].fd = None
        /\ req[r].text \in Payloads
    BY <1>1, <1>10 DEF Replace, RequestOK, Saving
  <2>2. CASE file[req[r].name].tmp = None
    BY <1>4, <1>10, <2>1, <2>2 DEF Replace, Aside, Others, disk
  <2>3. CASE file[req[r].name].tmp # None
    <3>1. Others(r) /\ Same(r) /\ req'[r].pc = "load" /\ req'[r].fd = None
      BY <1>3, <1>10, <2>1, <2>3 DEF Replace
    <3> QED
      BY <1>10, <2>1, <2>3, <3>1 DEF Replace, Replaces
  <2> QED
    BY <2>2, <2>3
<1>11. CASE Unlink(r)
  <2>1. req[r].pc = "unlink" /\ req[r].fd = None
    BY <1>1, <1>11 DEF Unlink, RequestOK
  <2>2. CASE End(r) /\ UNCHANGED <<file, saved, clash>>
    BY <1>4, <1>11, <2>2 DEF Unlink, Aside, Others, disk
  <2>3. CASE ~(End(r) /\ UNCHANGED <<file, saved, clash>>)
    <3>1. Others(r) /\ Same(r) /\ req'[r].pc = "rmdir" /\ req'[r].fd = None
      BY <1>3, <1>11, <2>1, <2>3 DEF Unlink
    <3> QED
      BY <1>11, <2>1, <2>3, <3>1 DEF Unlink, Unlinks
  <2> QED
    BY <2>2, <2>3
<1>12. CASE RemoveFolder(r)
  BY <1>4, <1>12 DEF RemoveFolder, Removes
<1> QED
  BY <1>5, <1>6, <1>7, <1>8, <1>9, <1>10, <1>11, <1>12 DEF Busy

(* Every step leaves the files alone, or is one of these, or a crash. *)
LEMMA Kinds ==
  ASSUME IInv, [Next]_vars
  PROVE  \/ \E r \in Requests : Others(r) /\ (Aside(r) \/ Makes(r) \/ Opens(r) \/ Writes(r) \/ Replaces(r) \/ Unlinks(r) \/ Removes(r))
         \/ Crash \/ UNCHANGED vars
<1>1. Types /\ RequestsOK /\ RequestsOK'
  BY RequestsStep DEF IInv
<1>2. \A r \in Requests : Aside(r) => Others(r)
  BY DEF Aside, Others
<1> QED
  BY <1>1, <1>2, Steps, QuietIsAside, BusyKinds

(* Folders hold what files there are, and a file has one name. *)
LEMMA FilesStep ==
  ASSUME IInv, [Next]_vars
  PROVE  FilesOK'
<1>1. Types /\ RequestsOK /\ FilesOK /\ OpenOK /\ None \notin Inodes
  BY InodesSuffice, NoneIsNothing DEF IInv, Inodes
<1>2. file \in [Names -> Files] /\ folder \subseteq Names
  BY <1>1 DEF Types
<1>3. CASE Crash \/ UNCHANGED vars \/ \E r \in Requests : Aside(r)
  BY <1>1, <1>3 DEF Crash, vars, disk, Aside, FilesOK
<1>4. ASSUME NEW r \in Requests, Makes(r) \/ Writes(r) \/ Removes(r) PROVE FilesOK'
  BY <1>1, <1>2, <1>4 DEF Makes, Writes, Removes, FilesOK
<1>5. ASSUME NEW r \in Requests, Opens(r) PROVE FilesOK'
  <2> DEFINE n == req[r].at  k == WrittenFile(r)  i == Inode(r)
  <2>1. /\ n \in Names /\ k \in {"md", "tmp"} /\ i \in Inodes
        /\ \A m \in Names, l \in {"md", "tmp"} : file[m][l] = i => m = n /\ l = k
    BY <1>1, <1>5, OpenedFile, InodeIsOwn DEF Opens
  <2>2. n \in folder /\ folder' = folder /\ file' = [file EXCEPT ![n][k] = i]
    BY <1>5 DEF Opens
  <2> HIDE DEF n, k, i
  <2>3. \A m \in Names, l \in {"md", "tmp"} : file'[m][l] = IF m = n /\ l = k THEN i ELSE file[m][l]
    <3>1. file[n] \in Files
      BY <1>2, <2>1
    <3>2. \A l \in {"md", "tmp"} : [file[n] EXCEPT ![k] = i][l] = IF l = k THEN i ELSE file[n][l]
      BY <2>1, <3>1 DEF Files
    <3> QED
      BY <1>2, <2>1, <2>2, <3>2
  <2>4. \A m \in Names \ folder : file'[m] = NoFiles
    BY <1>1, <1>2, <2>1, <2>2 DEF FilesOK
  <2>5. ASSUME NEW m1 \in Names, NEW m2 \in Names, NEW l1 \in {"md", "tmp"}, NEW l2 \in {"md", "tmp"},
               file'[m1][l1] # None, file'[m1][l1] = file'[m2][l2]
        PROVE  m1 = m2 /\ l1 = l2
    <3>1. CASE m1 = n /\ l1 = k
      BY <2>1, <2>3, <2>5, <3>1
    <3>2. CASE m2 = n /\ l2 = k
      BY <2>1, <2>3, <2>5, <3>2
    <3>3. CASE ~(m1 = n /\ l1 = k) /\ ~(m2 = n /\ l2 = k)
      BY <1>1, <2>3, <2>5, <3>3 DEF FilesOK
    <3> QED
      BY <3>1, <3>2, <3>3
  <2> QED
    BY <2>2, <2>4, <2>5 DEF FilesOK
<1>6. ASSUME NEW r \in Requests, Replaces(r) PROVE FilesOK'
  <2> DEFINE n == req[r].at
  <2>1. n \in Names /\ file[n].tmp # None /\ folder' = folder
        /\ file' = [file EXCEPT ![n] = [md |-> file[n].tmp, tmp |-> None]]
    BY <1>6 DEF Replaces
  <2> HIDE DEF n
  <2>2. n \in folder
    BY <1>1, <2>1 DEF FilesOK, NoFiles
  <2>3. /\ \A m \in Names, l \in {"md", "tmp"} : m # n => file'[m][l] = file[m][l]
        /\ file'[n]["md"] = file[n]["tmp"] /\ file'[n]["tmp"] = None
    BY <1>2, <2>1
  <2>4. \A m \in Names \ folder : file'[m] = NoFiles
    BY <1>1, <1>2, <2>1, <2>2 DEF FilesOK
  <2>5. ASSUME NEW m1 \in Names, NEW m2 \in Names, NEW l1 \in {"md", "tmp"}, NEW l2 \in {"md", "tmp"},
               file'[m1][l1] # None, file'[m1][l1] = file'[m2][l2]
        PROVE  m1 = m2 /\ l1 = l2
    <3>1. CASE m1 = n /\ m2 = n
      BY <2>3, <2>5, <3>1
    <3>2. CASE m1 = n /\ m2 # n
      BY <1>1, <2>3, <2>5, <3>2 DEF FilesOK
    <3>3. CASE m1 # n /\ m2 = n
      BY <1>1, <2>3, <2>5, <3>3 DEF FilesOK
    <3>4. CASE m1 # n /\ m2 # n
      BY <1>1, <2>3, <2>5, <3>4 DEF FilesOK
    <3> QED
      BY <3>1, <3>2, <3>3, <3>4
  <2> QED
    BY <2>1, <2>4, <2>5 DEF FilesOK
<1>7. ASSUME NEW r \in Requests, Unlinks(r) PROVE FilesOK'
  <2>1. \A m \in Names, l \in {"md", "tmp"} : file'[m][l] \in {None, file[m][l]}
    BY <1>2, <1>7 DEF Unlinks, NoFiles
  <2>2. \A m \in Names \ folder : file'[m] = NoFiles
    BY <1>1, <1>2, <1>7 DEF Unlinks, FilesOK
  <2> QED
    BY <1>1, <1>7, <2>1, <2>2 DEF Unlinks, FilesOK
<1> QED
  BY <1>3, <1>4, <1>5, <1>6, <1>7, Kinds

(* Who has a file open works on its name. *)
LEMMA OpenStep ==
  ASSUME IInv, [Next]_vars
  PROVE  OpenOK'
<1>1. Types /\ RequestsOK /\ FilesOK /\ OpenOK /\ None \notin Inodes
  BY InodesSuffice, NoneIsNothing DEF IInv, Inodes
<1>2. file \in [Names -> Files] /\ folder \subseteq Names /\ req \in [Requests -> ReqRows]
  BY <1>1 DEF Types
<1>3. CASE Crash
  BY <1>3 DEF Crash, OpenOK, Idle
<1>4. CASE UNCHANGED vars
  BY <1>1, <1>4 DEF vars, OpenOK
<1>5. ASSUME NEW r \in Requests, Others(r), req'[r].fd = None,
             \A n \in Names, k \in {"md", "tmp"} : file'[n][k] = None \/ \E l \in {"md", "tmp"} : file'[n][k] = file[n][l]
      PROVE  OpenOK'
  BY <1>1, <1>5 DEF Others, OpenOK
<1>6. ASSUME NEW r \in Requests, Others(r), Aside(r) \/ Makes(r) \/ Writes(r) \/ Removes(r) PROVE OpenOK'
  <2>1. req'[r].fd = None /\ file' = file
    BY <1>6 DEF Aside, Makes, Writes, Removes, disk
  <2> QED
    BY <1>5, <1>6, <2>1
<1>7. ASSUME NEW r \in Requests, Others(r), Replaces(r) PROVE OpenOK'
  <2>1. \A n \in Names, k \in {"md", "tmp"} :
          file'[n][k] = None \/ \E l \in {"md", "tmp"} : file'[n][k] = file[n][l]
    <3>1. \A n \in Names \ {req[r].at} : file'[n] = file[n]
      BY <1>2, <1>7 DEF Replaces
    <3>2. file'[req[r].at]["md"] = file[req[r].at]["tmp"] /\ file'[req[r].at]["tmp"] = None
      BY <1>2, <1>7 DEF Replaces
    <3> QED
      BY <3>1, <3>2
  <2> QED
    BY <1>5, <1>7, <2>1 DEF Replaces
<1>8. ASSUME NEW r \in Requests, Others(r), Unlinks(r) PROVE OpenOK'
  <2>1. \A n \in Names, k \in {"md", "tmp"} : file'[n][k] \in {None, file[n][k]}
    BY <1>2, <1>8 DEF Unlinks, NoFiles
  <2> QED
    BY <1>5, <1>8, <2>1 DEF Unlinks
<1>9. ASSUME NEW r \in Requests, Others(r), Opens(r) PROVE OpenOK'
  <2> DEFINE n == req[r].at  k == WrittenFile(r)  i == Inode(r)
  <2>1. /\ n \in Names /\ k \in {"md", "tmp"} /\ i \in Inodes
        /\ \A m \in Names, l \in {"md", "tmp"} : file[m][l] = i => m = n /\ l = k
        /\ \A q \in Requests : req[q].fd = i => req[q].at = n
    BY <1>1, <1>9, OpenedFile, InodeIsOwn DEF Opens
  <2>2. file' = [file EXCEPT ![n][k] = i] /\ req'[r].fd = i /\ req'[r].at = n
    BY <1>9 DEF Opens, Same
  <2> HIDE DEF n, k, i
  <2>3. \A m \in Names, l \in {"md", "tmp"} : file'[m][l] = IF m = n /\ l = k THEN i ELSE file[m][l]
    <3>1. file[n] \in Files
      BY <1>2, <2>1
    <3>2. \A l \in {"md", "tmp"} : [file[n] EXCEPT ![k] = i][l] = IF l = k THEN i ELSE file[n][l]
      BY <2>1, <3>1 DEF Files
    <3> QED
      BY <1>2, <2>1, <2>2, <3>2
  <2>4. \A q \in Requests : req'[q].fd = i => req'[q].at = n
    BY <1>9, <2>1, <2>2 DEF Others
  <2>5. ASSUME NEW o \in Requests, req'[o].fd # None
        PROVE  /\ \A m \in Names, l \in {"md", "tmp"} : file'[m][l] = req'[o].fd => m = req'[o].at
               /\ \A q \in Requests : req'[q].fd = req'[o].fd => req'[q].at = req'[o].at
    <3>1. CASE req'[o].fd = i
      BY <2>1, <2>3, <2>4, <3>1
    <3>2. CASE req'[o].fd # i
      <4>1. o # r /\ req'[o] = req[o]
        BY <1>9, <2>2, <3>2 DEF Others
      <4> QED
        BY <1>1, <1>9, <2>2, <2>3, <2>5, <3>2, <4>1 DEF Others, OpenOK
    <3> QED
      BY <3>1, <3>2
  <2> QED
    BY <2>5 DEF OpenOK
<1> QED
  BY <1>3, <1>4, <1>6, <1>7, <1>8, <1>9, Kinds

(* Requests that clash are remembered. *)
LEMMA ClashGrows ==
  ASSUME NEW r \in Requests, Aside(r) \/ Makes(r) \/ Opens(r) \/ Writes(r) \/ Replaces(r) \/ Unlinks(r) \/ Removes(r)
  PROVE  clash \subseteq clash'
BY DEF Aside, Makes, Opens, Writes, Replaces, Unlinks, Removes, Clash

(* One who has files in hand, and one who comes to them. *)
LEMMA Meets ==
  ASSUME NEW r \in Requests, NEW o \in Requests \ {r}, Clash(r), Engaged(o), req[o].at = req[r].at,
         req[r].at \notin clash'
  PROVE  Making(r) /\ Making(o) /\ req[r].at \notin clash
<1>1. Working(o)
  BY DEF Engaged, Making, Working
<1> QED
  BY <1>1 DEF Clash

(* Engaged requests work on names of their own, but for those that clash. *)
LEMMA AloneStep ==
  ASSUME IInv, [Next]_vars
  PROVE  AloneOK'
<1>1. Types /\ RequestsOK /\ AloneOK /\ EngagedOK
  BY DEF IInv
<1>2. CASE Crash
  BY <1>2 DEF Crash, AloneOK, Engaged, Making, Copying, Idle
<1>3. CASE UNCHANGED vars
  BY <1>1, <1>3 DEF vars, AloneOK, Engaged, Making
<1>4. ASSUME NEW r \in Requests, Others(r), clash \subseteq clash',
             Engaged(r)' => \A o \in Requests \ {r} :
                              Engaged(o) /\ req[o].at = req'[r].at => req'[r].at \in clash'
      PROVE  AloneOK'
  <2>1. \A o \in Requests \ {r} : req'[o].at = req[o].at /\ (Engaged(o)' <=> Engaged(o))
    BY <1>4 DEF Others, Engaged, Making
  <2> QED
    BY <1>1, <1>4, <2>1 DEF AloneOK
<1>5. ASSUME NEW r \in Requests, Others(r), Aside(r) \/ Replaces(r) \/ Removes(r) PROVE AloneOK'
  <2>1. ~Engaged(r)'
    BY <1>5 DEF Aside, Replaces, Removes, Engaged, Making, Copying
  <2> QED
    BY <1>4, <1>5, <2>1, ClashGrows
<1>6. ASSUME NEW r \in Requests, Others(r), Makes(r) PROVE AloneOK'
  <2>1. req'[r].at \notin folder /\ clash' = clash
    BY <1>6 DEF Makes
  <2>2. \A o \in Requests \ {r} : Engaged(o) /\ req[o].at = req'[r].at => req'[r].at \in clash'
    BY <1>1, <2>1 DEF EngagedOK
  <2> QED
    BY <1>4, <1>6, <2>1, <2>2
<1>7. ASSUME NEW r \in Requests, Others(r), Opens(r) PROVE AloneOK'
  <2>1. req'[r].at = req[r].at /\ Clash(r) /\ (Making(r) => Engaged(r))
    BY <1>7 DEF Opens, Same, Engaged
  <2>2. \A o \in Requests \ {r} : Engaged(o) /\ req[o].at = req[r].at => req[r].at \in clash'
    BY <1>1, <2>1, Meets DEF AloneOK
  <2> QED
    BY <1>4, <1>7, <2>1, <2>2, ClashGrows
<1>8. ASSUME NEW r \in Requests, Others(r), Writes(r) PROVE AloneOK'
  <2>1. req'[r].at = req[r].at /\ clash' = clash
    BY <1>8 DEF Writes, Same
  <2>2. Engaged(r)' => Engaged(r)
    BY <1>8 DEF Writes, Engaged, Making, Copying
  <2>3. \A o \in Requests \ {r} : Engaged(r) /\ Engaged(o) /\ req[o].at = req[r].at => req[r].at \in clash
    BY <1>1 DEF AloneOK
  <2> QED
    BY <1>4, <1>8, <2>1, <2>2, <2>3
<1>9. ASSUME NEW r \in Requests, Others(r), Unlinks(r) PROVE AloneOK'
  <2>1. req'[r].at = req[r].at /\ Clash(r) /\ ~Making(r)
    BY <1>9 DEF Unlinks, Same, Making, Copying
  <2>2. \A o \in Requests \ {r} : Engaged(o) /\ req[o].at = req[r].at => req[r].at \in clash'
    BY <2>1, Meets
  <2> QED
    BY <1>4, <1>9, <2>1, <2>2, ClashGrows
<1> QED
  BY <1>2, <1>3, <1>5, <1>6, <1>7, <1>8, <1>9, Kinds

(* What one engaged request finds of the files of its name. *)
InHand(o) ==
  LET n == req[o].at
  IN /\ n \in folder
     /\ Making(o) => saved[n] = None
     /\ req[o].pc \in {"copying", "write"} =>
          data[req[o].fd] = Empty /\ file[n][HandOf(o)] = req[o].fd
     /\ req[o].pc = "replace" =>
          file[n].tmp # None /\ data[file[n].tmp] = Rendered(req[o].text)

(* A step on other names leaves it. *)
LEMMA InHandStays ==
  ASSUME Types, RequestsOK, NEW o \in Requests, req'[o] = req[o], InHand(o), Engaged(o), req[o].at \in Names,
         LET n == req[o].at
         IN /\ n \in folder' /\ saved'[n] = saved[n] /\ file'[n] = file[n]
            /\ \A i \in Inodes : i = req[o].fd \/ i = file[n].tmp => data'[i] = data[i]
  PROVE  InHand(o)'
<1>1. req[o].fd \in Inodes \union {None} /\ file[req[o].at].tmp \in Inodes \union {None}
  BY DEF Types, ReqRows, Files
<1>2. (Making(o)' <=> Making(o)) /\ HandOf(o)' = HandOf(o)
  BY DEF Making, HandOf
<1>3. req[o].pc \in {"copying", "write"} => req[o].fd # None
  BY DEF RequestsOK, RequestOK
<1> QED
  BY <1>1, <1>2, <1>3 DEF InHand

(* What is engaged alone finds the files as it has left them. *)
LEMMA EngagedStep ==
  ASSUME IInv, [Next]_vars
  PROVE  EngagedOK'
<1>1. /\ Types /\ RequestsOK /\ FilesOK /\ OpenOK /\ AloneOK /\ EngagedOK /\ SavedIsKept
      /\ None \notin Inodes /\ AloneOK'
  BY AloneStep, InodesSuffice, NoneIsNothing DEF IInv, Inodes
<1>2. /\ file \in [Names -> Files] /\ folder \subseteq Names /\ req \in [Requests -> ReqRows]
      /\ data \in [Inodes -> Contents \union {Torn}] /\ saved \in [Names -> Texts \union {None}]
  BY <1>1 DEF Types
<1>3. CASE Crash
  BY <1>3 DEF Crash, EngagedOK, Engaged, Making, Copying, Idle
<1>4. CASE UNCHANGED vars
  BY <1>1, <1>4 DEF vars, EngagedOK, Engaged, Making, HandOf
<1>5. EngagedOK <=> \A o \in Requests : Engaged(o) /\ req[o].at \notin clash => InHand(o)
  BY DEF EngagedOK, InHand
<1>6. (\A o \in Requests : Engaged(o)' /\ req'[o].at \notin clash' => InHand(o)') => EngagedOK'
  BY DEF EngagedOK, InHand
<1>7. ASSUME NEW r \in Requests, Others(r), clash \subseteq clash',
             Engaged(r)' /\ req'[r].at \notin clash' => InHand(r)',
             \A o \in Requests \ {r} : Engaged(o) /\ req[o].at \notin clash' =>
               LET n == req[o].at
               IN /\ n \in folder => n \in folder'
                  /\ saved'[n] = saved[n] /\ file'[n] = file[n]
                  /\ \A i \in Inodes : i = req[o].fd \/ i = file[n].tmp => data'[i] = data[i]
      PROVE  EngagedOK'
  <2>1. ASSUME NEW o \in Requests \ {r}, Engaged(o)', req'[o].at \notin clash' PROVE InHand(o)'
    <3>1. req'[o] = req[o] /\ Engaged(o) /\ req[o].at \notin clash /\ req[o].at \notin clash'
      BY <1>7, <2>1 DEF Others, Engaged, Making
    <3>2. InHand(o)
      BY <1>1, <1>5, <3>1
    <3>3. req[o].at \in folder
      BY <3>2 DEF InHand
    <3> QED
      BY <1>1, <1>2, <1>7, <3>1, <3>2, <3>3, InHandStays
  <2> QED
    BY <1>6, <1>7, <2>1
<1>8. ASSUME NEW r \in Requests, Others(r), Aside(r) PROVE EngagedOK'
  BY <1>7, <1>8 DEF Aside, disk
<1>9. ASSUME NEW r \in Requests, Others(r), Makes(r) PROVE EngagedOK'
  <2>1. PICK n \in Names \ folder :
          /\ folder' = folder \union {n} /\ UNCHANGED <<file, data, saved, clash>>
          /\ req'[r].pc \in {"copy", "open"} /\ req'[r].at = n
    BY <1>9 DEF Makes
  <2>2. n \notin clash => saved[n] = None
    BY <1>1, <2>1 DEF SavedIsKept, HasFile
  <2>3. req'[r].at \notin clash' => InHand(r)'
    BY <2>1, <2>2 DEF InHand
  <2> QED
    BY <1>7, <1>9, <2>1, <2>3
<1>10. ASSUME NEW r \in Requests, Others(r), Opens(r) PROVE EngagedOK'
  <2> DEFINE n == req[r].at  k == WrittenFile(r)  i == Inode(r)
  <2>1. /\ n \in Names /\ k \in {"md", "tmp"} /\ i \in Inodes
        /\ \A m \in Names, l \in {"md", "tmp"} : file[m][l] = i => m = n /\ l = k
        /\ \A q \in Requests : req[q].fd = i => req[q].at = n
    BY <1>1, <1>10, OpenedFile, InodeIsOwn DEF Opens
  <2>2. /\ n \in folder /\ folder' = folder /\ saved' = saved
        /\ file' = [file EXCEPT ![n][k] = i] /\ data' = [data EXCEPT ![i] = Empty]
        /\ req'[r].fd = i /\ req'[r].at = n /\ req'[r].op = req[r].op
        /\ req[r].pc \in {"copy", "open"}
        /\ req'[r].pc = IF req[r].pc = "copy" THEN "copying" ELSE "write"
    BY <1>10 DEF Opens, Same
  <2>3. HandOf(r)' = k
    BY <2>2 DEF HandOf, WrittenFile
  <2>4. Making(r)' => Making(r)
    BY <2>2 DEF Making, Copying
  <2>c. clash \subseteq clash'
    BY <1>10, ClashGrows
  <2>5. Making(r) /\ n \notin clash => saved[n] = None
    BY <1>1 DEF EngagedOK, Engaged
  <2> HIDE DEF n, k, i
  <2>6. n \notin clash' => InHand(r)'
    <3>1. file'[n][k] = i
      BY <1>2, <2>1, <2>2 DEF Files
    <3>2. data'[i] = Empty
      BY <1>2, <2>1, <2>2
    <3> QED
      BY <2>2, <2>3, <2>4, <2>5, <2>c, <3>1, <3>2 DEF InHand
  <2>7. ASSUME NEW o \in Requests \ {r}, Engaged(o), req[o].at \notin clash'
        PROVE  LET m == req[o].at
               IN /\ m \in folder => m \in folder'
                  /\ saved'[m] = saved[m] /\ file'[m] = file[m]
                  /\ \A j \in Inodes : j = req[o].fd \/ j = file[m].tmp => data'[j] = data[j]
    <3>1. Engaged(o)' /\ Engaged(r)' /\ req'[o].at = req[o].at
      <4>1. req'[o] = req[o]
        BY <1>10 DEF Others
      <4>2. Making(r) => Making(r)'
        BY <2>2 DEF Making, Copying
      <4>3. Engaged(r)'
        BY <2>2 DEF Engaged, Making, Copying
      <4> QED
        BY <2>7, <4>1, <4>3 DEF Engaged, Making
    <3>2. req[o].at # n
      BY <1>1, <2>2, <2>7, <3>1 DEF AloneOK
    <3>3. req[o].fd # i
      BY <2>1, <3>2
    <3>4. req[o].at \in Names
      BY <1>1, <2>7 DEF RequestsOK, RequestOK, Engaged, Making
    <3>5. file[req[o].at]["tmp"] # i
      BY <2>1, <3>2, <3>4
    <3> QED
      BY <1>2, <2>1, <2>2, <3>2, <3>3, <3>5
  <2> QED
    BY <1>7, <1>10, <2>2, <2>6, <2>7, <2>c
<1>11. ASSUME NEW r \in Requests, Others(r), Writes(r) PROVE EngagedOK'
  <2> DEFINE n == req[r].at  i == req[r].fd
  <2>1. /\ Engaged(r) /\ i \in Inodes /\ folder' = folder /\ file' = file /\ clash' = clash
        /\ \A j \in Inodes : j # i => data'[j] = data[j]
        /\ \A m \in Names : m # n => saved'[m] = saved[m]
    BY <1>2, <1>11 DEF Writes, Engaged, Making, Copying
  <2>2. Engaged(r)' /\ n \notin clash => InHand(r)'
    <3> SUFFICES ASSUME Engaged(r)', n \notin clash PROVE InHand(r)'
      OBVIOUS
    <3>1. /\ req[r].pc = "write" /\ req[r].op = "update" /\ req'[r].pc = "replace" /\ req'[r].at = n
          /\ req'[r].text = req[r].text /\ Text(r) = req[r].text
      BY <1>11 DEF Writes, Same, Engaged, Making, Copying, Text
    <3>2. n \in folder /\ data[i] = Empty /\ file[n]["tmp"] = i
      BY <1>1, <1>5, <2>1, <3>1 DEF InHand, HandOf
    <3>3. data'[i] = Rendered(req[r].text)
      BY <1>2, <1>11, <2>1, <3>1, <3>2 DEF Writes
    <3>4. ~Making(r)'
      BY <3>1 DEF Making, Copying
    <3> QED
      BY <1>1, <2>1, <3>1, <3>2, <3>3, <3>4 DEF InHand
  <2>3. ASSUME NEW o \in Requests \ {r}, Engaged(o), req[o].at \notin clash'
        PROVE  LET m == req[o].at
               IN /\ m \in folder => m \in folder'
                  /\ saved'[m] = saved[m] /\ file'[m] = file[m]
                  /\ \A j \in Inodes : j = req[o].fd \/ j = file[m].tmp => data'[j] = data[j]
    <3>1. req[o].at # n
      BY <1>1, <2>1, <2>3 DEF AloneOK
    <3>2. req[o].fd # i
      BY <1>1, <2>1, <3>1 DEF OpenOK
    <3>3. req[o].at \in Names
      BY <1>1, <2>3 DEF RequestsOK, RequestOK, Engaged, Making
    <3>4. file[req[o].at]["tmp"] # i
      BY <1>1, <2>1, <3>1, <3>3 DEF OpenOK
    <3> QED
      BY <2>1, <3>1, <3>2, <3>3, <3>4
  <2> QED
    BY <1>7, <1>11, <2>1, <2>2, <2>3 DEF Writes, Same
<1>12. ASSUME NEW r \in Requests, Others(r), Replaces(r) PROVE EngagedOK'
  <2>1. ~Engaged(r)' /\ Engaged(r)
    BY <1>12 DEF Replaces, Engaged, Making, Copying
  <2>2. ASSUME NEW o \in Requests \ {r}, Engaged(o), req[o].at \notin clash' PROVE req[o].at # req[r].at
    BY <1>1, <1>12, <2>1, <2>2 DEF AloneOK, Replaces
  <2> QED
    BY <1>2, <1>7, <1>12, <2>1, <2>2 DEF Replaces
<1>13. ASSUME NEW r \in Requests, Others(r), Unlinks(r) PROVE EngagedOK'
  <2>1. /\ Engaged(r)' /\ ~Making(r)' /\ req'[r].at = req[r].at /\ req'[r].pc = "rmdir"
        /\ req[r].at \in folder /\ folder' = folder
    BY <1>13 DEF Unlinks, Engaged, Making, Copying, Same
  <2>2. ASSUME NEW o \in Requests \ {r}, Engaged(o), req[o].at \notin clash' PROVE req[o].at # req[r].at
    <3>1. req'[o] = req[o] /\ Engaged(o)'
      BY <1>13, <2>2 DEF Others, Engaged, Making
    <3> QED
      BY <1>1, <2>1, <2>2, <3>1 DEF AloneOK
  <2>3. InHand(r)'
    BY <2>1 DEF InHand
  <2>c. clash \subseteq clash'
    BY <1>13, ClashGrows
  <2> QED
    BY <1>2, <1>7, <1>13, <2>2, <2>3, <2>c DEF Unlinks
<1>14. ASSUME NEW r \in Requests, Others(r), Removes(r) PROVE EngagedOK'
  <2>1. ~Engaged(r)' /\ Engaged(r)
    BY <1>14 DEF Removes, Engaged
  <2>2. ASSUME NEW o \in Requests \ {r}, Engaged(o), req[o].at \notin clash' PROVE req[o].at # req[r].at
    BY <1>1, <1>14, <2>1, <2>2 DEF AloneOK, Removes
  <2> QED
    BY <1>2, <1>7, <1>14, <2>1, <2>2 DEF Removes
<1> QED
  BY <1>3, <1>4, <1>8, <1>9, <1>10, <1>11, <1>12, <1>13, <1>14, Kinds

(* What is saved stays saved. *)
LEMMA SavedStep ==
  ASSUME IInv, [Next]_vars
  PROVE  SavedIsKept'
<1>1. /\ Types /\ RequestsOK /\ FilesOK /\ OpenOK /\ EngagedOK /\ SavedIsKept /\ None \notin Inodes
  BY InodesSuffice, NoneIsNothing DEF IInv, Inodes
<1>2. /\ file \in [Names -> Files] /\ folder \subseteq Names /\ req \in [Requests -> ReqRows]
      /\ data \in [Inodes -> Contents \union {Torn}] /\ saved \in [Names -> Texts \union {None}]
  BY <1>1 DEF Types
<1> DEFINE Kept(n) == saved[n] # None => HasFile(n) /\ data[file[n].md] = Rendered(saved[n])
<1>3. \A n \in Names : n \notin clash => Kept(n)
  BY <1>1 DEF SavedIsKept
<1>4. (\A n \in Names : n \notin clash' => Kept(n)') => SavedIsKept'
  BY DEF SavedIsKept
<1>5. CASE Crash \/ UNCHANGED vars \/ \E r \in Requests : Aside(r)
  BY <1>1, <1>5 DEF Crash, vars, Aside, disk, SavedIsKept, HasFile
<1>6. ASSUME NEW r \in Requests, Makes(r) PROVE SavedIsKept'
  BY <1>1, <1>6 DEF Makes, SavedIsKept, HasFile
<1>7. ASSUME NEW r \in Requests, Opens(r) PROVE SavedIsKept'
  <2> DEFINE n == req[r].at  k == WrittenFile(r)  i == Inode(r)
  <2>1. /\ n \in Names /\ k \in {"md", "tmp"} /\ i \in Inodes
        /\ \A m \in Names, l \in {"md", "tmp"} : file[m][l] = i => m = n /\ l = k
    BY <1>1, <1>7, OpenedFile, InodeIsOwn DEF Opens
  <2>2. /\ n \in folder /\ folder' = folder /\ saved' = saved
        /\ file' = [file EXCEPT ![n][k] = i] /\ data' = [data EXCEPT ![i] = Empty]
        /\ clash \subseteq clash'
    BY <1>7, ClashGrows DEF Opens
  <2>3. k = "md" /\ n \notin clash => saved[n] = None
    <3>1. k = "md" => Making(r)
      BY <1>1, <1>7 DEF Opens, WrittenFile, Making, Copying, RequestsOK, RequestOK, Saving
    <3> QED
      BY <1>1, <3>1 DEF EngagedOK, Engaged
  <2> HIDE DEF n, k, i
  <2>4. ASSUME NEW m \in Names, m # n \/ k = "tmp" PROVE file'[m].md = file[m].md /\ file[m].md # i
    <3>1. file[m] \in Files /\ file[n] \in Files
      BY <1>2, <2>1
    <3>2. file[m]["md"] # i
      BY <2>1, <2>4
    <3>3. file'[m].md = file[m].md
      BY <1>2, <2>1, <2>2, <2>4, <3>1 DEF Files
    <3> QED
      BY <3>2, <3>3
  <2>5. ASSUME NEW m \in Names, m \notin clash' PROVE Kept(m)'
    <3>1. CASE m # n \/ k = "tmp"
      <4>1. file'[m].md = file[m].md /\ file[m].md # i
        BY <2>4, <3>1
      <4>2. file[m].md # None => data'[file[m].md] = data[file[m].md]
        BY <1>2, <2>1, <2>2, <4>1 DEF Files
      <4> QED
        BY <1>3, <2>2, <2>5, <4>1, <4>2 DEF HasFile
    <3>2. CASE m = n /\ k = "md"
      BY <2>2, <2>3, <2>5, <3>2
    <3> QED
      BY <2>1, <3>1, <3>2
  <2> QED
    BY <1>4, <2>5
<1>8. ASSUME NEW r \in Requests, Writes(r) PROVE SavedIsKept'
  <2>0. PICK n \in Names, i \in Inodes : n = req[r].at /\ i = req[r].fd
    BY <1>1, <1>8 DEF Writes, RequestsOK, RequestOK, Copying
  <2>1. /\ Engaged(r) /\ i \in Inodes /\ folder' = folder /\ file' = file /\ clash' = clash
        /\ \A j \in Inodes : j # i => data'[j] = data[j]
        /\ \A m \in Names : m # n => saved'[m] = saved[m]
    BY <1>2, <1>8, <2>0 DEF Writes, Engaged, Making, Copying
  <2>2. ASSUME NEW m \in Names, m \notin clash, m # n PROVE Kept(m)'
    <3>1. file[m]["md"] # i
      BY <1>1, <2>0, <2>1, <2>2 DEF OpenOK
    <3>2. file[m].md # None => file[m].md \in Inodes
      BY <1>2 DEF Files
    <3> QED
      BY <1>3, <2>1, <2>2, <3>1, <3>2 DEF HasFile
  <2>3. ASSUME n \notin clash PROVE Kept(n)'
    <3>1. n \in folder /\ data[i] = Empty /\ file[n][HandOf(r)] = i
      BY <1>1, <1>8, <2>0, <2>1, <2>3 DEF EngagedOK, Writes
    <3>2. CASE saved' = saved /\ req[r].pc = "write" /\ req[r].op = "update"
      <4>1. file[n]["tmp"] = i /\ file[n]["md"] # i
        BY <1>1, <2>1, <3>1, <3>2 DEF HandOf, FilesOK
      <4>2. file[n].md # None => file[n].md \in Inodes
        BY <1>2, <2>1 DEF Files
      <4> QED
        <5>1. Kept(n)
          BY <1>3, <2>1, <2>3
        <5>2. file[n].md # None => data'[file[n].md] = data[file[n].md]
          BY <2>1, <4>1, <4>2
        <5> QED
          BY <2>1, <3>2, <5>1, <5>2 DEF HasFile
    <3>3. CASE saved' = [saved EXCEPT ![n] = Text(r)] /\ (req[r].pc = "write" => req[r].op # "update")
      <4>1. HandOf(r) = "md"
        BY <3>3 DEF HandOf
      <4>2. file[n].md = i /\ file[n].md # None
        BY <1>1, <2>1, <3>1, <4>1
      <4>3. data'[i] = Rendered(Text(r)) /\ saved'[n] = Text(r)
        BY <1>2, <1>8, <2>0, <2>1, <3>1, <3>3 DEF Writes
      <4> QED
        <5>1. HasFile(n)' /\ file'[n].md = i
          BY <2>1, <3>1, <4>2 DEF HasFile
        <5> QED
          BY <4>3, <5>1
    <3> QED
      BY <1>8, <2>0, <3>2, <3>3 DEF Writes
  <2> HIDE DEF Kept
  <2>4. \A m \in Names : m \notin clash' => Kept(m)'
    BY <2>1, <2>2, <2>3
  <2> QED
    BY <1>4, <2>4 DEF Kept
<1>9. ASSUME NEW r \in Requests, Replaces(r) PROVE SavedIsKept'
  <2> DEFINE n == req[r].at
  <2>1. /\ Engaged(r) /\ n \in Names /\ folder' = folder /\ clash' = clash /\ data' = data
        /\ \A m \in Names : m # n => file'[m] = file[m] /\ saved'[m] = saved[m]
        /\ file'[n].md = file[n].tmp /\ file[n].tmp # None /\ saved'[n] = req[r].text
    BY <1>2, <1>9 DEF Replaces, Engaged
  <2>2. n \notin clash => n \in folder /\ data[file[n].tmp] = Rendered(req[r].text)
    BY <1>1, <1>9, <2>1 DEF EngagedOK, Replaces
  <2> HIDE DEF n
  <2>3. \A m \in Names : m \notin clash' => Kept(m)'
    BY <1>3, <2>1, <2>2 DEF HasFile
  <2> QED
    BY <1>4, <2>3
<1>10. ASSUME NEW r \in Requests, Unlinks(r) PROVE SavedIsKept'
  <2> DEFINE n == req[r].at
  <2>1. /\ n \in Names /\ folder' = folder /\ clash \subseteq clash' /\ data' = data
        /\ \A m \in Names : m # n => file'[m] = file[m] /\ saved'[m] = saved[m]
        /\ saved'[n] = None
    BY <1>2, <1>10, ClashGrows DEF Unlinks
  <2> HIDE DEF n
  <2>2. \A m \in Names : m \notin clash' => Kept(m)'
    BY <1>3, <2>1 DEF HasFile
  <2> QED
    BY <1>4, <2>2
<1>11. ASSUME NEW r \in Requests, Removes(r) PROVE SavedIsKept'
  <2>1. /\ UNCHANGED <<file, data, saved, clash>>
        /\ \A n \in folder : n \in folder' \/ file[n] = NoFiles
    BY <1>11 DEF Removes
  <2>2. \A n \in Names : HasFile(n) => HasFile(n)'
    BY <2>1 DEF HasFile, NoFiles
  <2> QED
    BY <1>1, <2>1, <2>2 DEF SavedIsKept
<1> QED
  BY <1>5, <1>6, <1>7, <1>8, <1>9, <1>10, <1>11, Kinds

(* What a request may have read. *)
Readable(q) == q.op \notin Lists => q.got \in Answers \/ (q.got = Torn /\ clash # {})

(* A content of a file, when it is read. *)
LEMMA ReadContent ==
  ASSUME Types, ReadsOK, NEW n, HasFile(n)
  PROVE  Parsed(data[file[n].md]) \in Answers \/ (Parsed(data[file[n].md]) = Torn /\ clash # {})
<1>1. file[n].md \in Inodes
  BY DEF Types, HasFile, Files
<1>2. data[file[n].md] \in Contents \/ (data[file[n].md] = Torn /\ clash # {})
  BY <1>1 DEF ReadsOK
<1>3. \A c \in Contents : Parsed(c) \in Answers
  BY DEF Contents, Answers, Parsed
<1>4. Parsed(Torn) = Torn
  BY DEF Parsed
<1> QED
  BY <1>2, <1>3, <1>4

(* A quiet step has read what is in a file, or nothing. *)
LEMMA QuietReads ==
  ASSUME Types, RequestsOK, ReadsOK, NEW r \in Requests, Quiet(r)
  PROVE  Readable(req'[r])
<1>1. req \in [Requests -> ReqRows] /\ req[r] \in ReqRows /\ RequestOK(req[r]) /\ Readable(req[r]) /\ None \in Answers
  BY DEF Types, RequestsOK, ReadsOK, Readable, Answers
<1>2. \A x : req' = [req EXCEPT ![r] = x] => req'[r] = x
  BY <1>1
<1>3. ASSUME NEW pc, Goto(r, pc) PROVE Readable(req'[r])
  <2>1. req'[r].got = req[r].got /\ req'[r].op = req[r].op
    BY <1>1, <1>3 DEF Goto, ReqRows
  <2> QED
    BY <1>1, <2>1 DEF Readable
<1>4. ASSUME End(r) PROVE Readable(req'[r])
  <2>1. req'[r] = Idle /\ Idle.got = None
    BY <1>2, <1>4 DEF End, Idle
  <2> QED
    BY <1>1, <2>1 DEF Readable
<1>5. ASSUME NEW got, Reply(r, got),
             req[r].op \in Lists \/ got \in Answers \/ (got = Torn /\ clash # {})
      PROVE  Readable(req'[r])
  <2> DEFINE x == [Idle EXCEPT !.pc = "reply", !.op = req[r].op, !.got = got]
  <2>1. x.got = got /\ x.op = req[r].op
    BY DEF Idle
  <2>2. req'[r] = x
    BY <1>2, <1>5 DEF Reply
  <2> HIDE DEF x
  <2> QED
    BY <1>5, <2>1, <2>2 DEF Readable
<1>6. CASE Arrives(r)
  <2>1. ASSUME NEW x, Begin(r, x), x.got = None PROVE Readable(req'[r])
    <3>1. req'[r] = x
      BY <1>2, <2>1 DEF Begin
    <3> QED
      BY <1>1, <2>1, <3>1 DEF Readable
  <2>2. \A op, n, p, s, pc : /\ Ensuring(op, n).got = None
                             /\ [Ensuring(op, n) EXCEPT !.text = p].got = None
                             /\ [Ensuring(op, n) EXCEPT !.pc = pc, !.ses = s].got = None
                             /\ Selecting(op, s).got = None
    BY DEF Ensuring, Selecting, Idle
  <2>3. ASSUME NEW n \in Names, NEW op \in Saving, NEW p \in Payloads, Save(r, op, n, p)
        PROVE  Readable(req'[r])
    <3> DEFINE x == [Ensuring(op, n) EXCEPT !.text = p]
    <3>1. Begin(r, x) /\ x.got = None
      BY <2>2, <2>3 DEF Save
    <3> HIDE DEF x
    <3> QED
      BY <2>1, <3>1
  <2>4. ASSUME NEW n \in Names, NEW op \in {"get", "delete", "by_agent"}, Visit(r, op, n)
        PROVE  Readable(req'[r])
    BY <2>1, <2>2, <2>4 DEF Visit
  <2>5. ASSUME NEW n \in Names, NEW op \in Chats, NEW s \in Sessions, Chat(r, op, n, s)
        PROVE  Readable(req'[r])
    <3> DEFINE x  == [Ensuring(op, n) EXCEPT !.pc = IF session[s] = "absent" THEN "begin" ELSE "resolve", !.ses = s]
    <3>1. Begin(r, x) /\ x.got = None
      BY <2>2, <2>5 DEF Chat
    <3> HIDE DEF x
    <3> QED
      BY <2>1, <3>1
  <2>6. CASE ListAgents(r) \/ ListSessions(r)
    BY <2>1, <2>2, <2>6 DEF ListAgents, ListSessions
  <2>7. ASSUME NEW s \in Sessions, ShowSession(r, s) PROVE Readable(req'[r])
    BY <2>1, <2>2, <2>7 DEF ShowSession
  <2> QED
    BY <1>6, <2>3, <2>4, <2>5, <2>6, <2>7 DEF Arrives
<1>7. CASE Ensured(r) \/ SelectIds(r)
  <2>1. req'[r].got = req[r].got /\ req'[r].op = req[r].op
    BY <1>1, <1>7 DEF Ensured, SelectIds, ReqRows
  <2> QED
    BY <1>1, <2>1 DEF Readable
<1>8. CASE CheckAbsent(r) \/ CheckPresent(r) \/ CheckFile(r)
  BY <1>3, <1>4, <1>8 DEF CheckAbsent, CheckPresent, CheckFile
<1>9. CASE Load(r)
  BY <1>3, <1>4, <1>5, <1>9, ReadContent DEF Load
<1>10. CASE ScanOne(r)
  <2>1. ASSUME NEW n \in req[r].todo,
               req' = [req EXCEPT ![r].todo = @ \ {n},
                                  ![r].got = IF HasFile(n) THEN Parsed(data[file[n].md]) ELSE @]
        PROVE  Readable(req'[r])
    <3>1. /\ req'[r].op = req[r].op
          /\ req'[r].got = IF HasFile(n) THEN Parsed(data[file[n].md]) ELSE req[r].got
      BY <1>1, <2>1 DEF ReqRows
    <3> QED
      BY <1>1, <3>1, ReadContent DEF Readable
  <2> QED
    BY <1>4, <1>10, <2>1 DEF ScanOne
<1>11. CASE DeleteRows(r) \/ NewSession(r) \/ CommitNew(r) \/ Resolve(r) \/ SaveAgent(r)
  BY <1>3, <1>4, <1>11 DEF DeleteRows, NewSession, CommitNew, Resolve, SaveAgent
<1>12. CASE EndRun(r) \/ LockTimeout(r) \/ Answered(r)
  BY <1>4, <1>12 DEF EndRun, LockTimeout, Answered
<1>13. CASE SelectSessions(r)
  <2>1. req[r].op \in Lists
    BY <1>1, <1>13 DEF SelectSessions, RequestOK
  <2>2. req' = [req EXCEPT ![r].pc = "entries", ![r].todo = Listed(r)] => req'[r].op = req[r].op
    BY <1>1 DEF ReqRows
  <2>3. req' = [req EXCEPT ![r].pc = "entries", ![r].todo = Listed(r)] => Readable(req'[r])
    BY <2>1, <2>2 DEF Readable
  <2> QED
    BY <1>5, <1>13, <2>1, <2>3 DEF SelectSessions
<1>14. CASE BuildEntry(r)
  <2>1. req[r].op \in Lists
    BY <1>1, <1>14 DEF BuildEntry, RequestOK
  <2>2. \A s : req' = [req EXCEPT ![r].todo = @ \ {s}] => req'[r].op = req[r].op
    BY <1>1 DEF ReqRows
  <2>3. \A s : req' = [req EXCEPT ![r].todo = @ \ {s}] => Readable(req'[r])
    BY <2>1, <2>2 DEF Readable
  <2> QED
    BY <1>4, <1>5, <1>14, <2>1, <2>3 DEF BuildEntry
<1> QED
  BY <1>6, <1>7, <1>8, <1>9, <1>10, <1>11, <1>12, <1>13, <1>14 DEF Quiet

(* Nor has a step on files. *)
LEMMA BusyReads ==
  ASSUME Types, RequestsOK, ReadsOK, NEW r \in Requests, Busy(r)
  PROVE  Readable(req'[r])
<1>1. /\ req \in [Requests -> ReqRows] /\ req[r] \in ReqRows /\ Readable(req[r]) /\ None \in Answers
  BY DEF Types, ReadsOK, Readable, Answers
<1>2. ASSUME req'[r].got = req[r].got, req'[r].op = req[r].op PROVE Readable(req'[r])
  BY <1>1, <1>2 DEF Readable
<1>3. ASSUME NEW pc, Goto(r, pc) PROVE Readable(req'[r])
  <2>1. req'[r].got = req[r].got /\ req'[r].op = req[r].op
    BY <1>1, <1>3 DEF Goto, ReqRows
  <2> QED
    BY <1>2, <2>1
<1>4. ASSUME End(r) PROVE Readable(req'[r])
  <2>1. req'[r].got = None
    BY <1>1, <1>4 DEF End, Idle
  <2> QED
    BY <1>1, <2>1 DEF Readable
<1>5. CASE Seed(r)
  <2>1. req'[r].got = req[r].got /\ req'[r].op = req[r].op
    BY <1>1, <1>5 DEF Seed, ReqRows
  <2> QED
    BY <1>2, <2>1
<1>6. CASE Open(r)
  <2>1. CASE req[r].at \in folder
    <3> DEFINE x == [req[r] EXCEPT !.pc = IF req[r].pc = "copy" THEN "copying" ELSE "write", !.fd = Inode(r)]
    <3>1. req'[r] = x
      BY <1>1, <1>6, <2>1, OpenFiles
    <3>2. x.got = req[r].got /\ x.op = req[r].op
      BY <1>1 DEF ReqRows
    <3> HIDE DEF x
    <3> QED
      BY <1>2, <3>1, <3>2
  <2> QED
    BY <1>3, <1>4, <1>6, <2>1 DEF Open
<1>7. CASE Write(r)
  <2>1. req'[r].got = req[r].got /\ req'[r].op = req[r].op
    BY <1>1, <1>7 DEF Write, ReqRows
  <2> QED
    BY <1>2, <2>1
<1>8. CASE MakeFolder(r) \/ Replace(r) \/ Unlink(r) \/ RemoveFolder(r)
  BY <1>3, <1>4, <1>8 DEF MakeFolder, Replace, Unlink, RemoveFolder
<1> QED
  BY <1>5, <1>6, <1>7, <1>8 DEF Busy

(* Files and answers are whole, but where requests clash. *)
LEMMA ReadsStep ==
  ASSUME IInv, [Next]_vars
  PROVE  ReadsOK'
<1>1. /\ Types /\ RequestsOK /\ RequestsOK' /\ ReadsOK /\ EngagedOK
  BY RequestsStep DEF IInv
<1>2. req \in [Requests -> ReqRows] /\ data \in [Inodes -> Contents \union {Torn}]
  BY <1>1 DEF Types
<1> DEFINE Whole(i) == data'[i] \in Contents \/ (data'[i] = Torn /\ clash' # {})
<1>3. clash \subseteq clash' /\ \A i \in Inodes : Whole(i)
  <2>1. ASSUME clash \subseteq clash', \A i \in Inodes : data'[i] \in Contents \union {data[i]}
        PROVE  clash \subseteq clash' /\ \A i \in Inodes : Whole(i)
    BY <1>1, <2>1 DEF ReadsOK
  <2>2. CASE Crash \/ UNCHANGED vars
    BY <2>1, <2>2 DEF Crash, vars, disk
  <2>3. ASSUME NEW r \in Requests, Aside(r) \/ Makes(r) \/ Replaces(r) \/ Unlinks(r) \/ Removes(r)
        PROVE  clash \subseteq clash' /\ \A i \in Inodes : Whole(i)
    <3>1. data' = data /\ clash \subseteq clash'
      BY <2>3, ClashGrows DEF Aside, Makes, Replaces, Unlinks, Removes, disk
    <3> QED
      BY <2>1, <3>1
  <2>4. ASSUME NEW r \in Requests, Opens(r)
        PROVE  clash \subseteq clash' /\ \A i \in Inodes : Whole(i)
    <3>1. \A i \in Inodes : data'[i] \in {Empty, data[i]}
      BY <1>2, <2>4 DEF Opens
    <3> QED
      BY <2>1, <2>4, <3>1, ClashGrows DEF Contents
  <2>5. ASSUME NEW r \in Requests, Writes(r)
        PROVE  clash \subseteq clash' /\ \A i \in Inodes : Whole(i)
    <3>1. Engaged(r) /\ clash' = clash /\ req[r].pc \in {"copying", "write"} /\ req[r].fd \in Inodes
          /\ Rendered(Text(r)) \in Contents
      BY <2>5 DEF Writes, Engaged, Making, Copying, Contents
    <3>2. clash = {} => data[req[r].fd] = Empty
      BY <1>1, <3>1 DEF EngagedOK
    <3>3. \A i \in Inodes : i # req[r].fd => data'[i] = data[i]
      BY <1>2, <2>5 DEF Writes
    <3>4. data'[req[r].fd] = IF data[req[r].fd] \in {Empty, Rendered(Text(r))} THEN Rendered(Text(r)) ELSE Torn
      BY <1>2, <2>5, <3>1 DEF Writes
    <3> QED
      BY <1>1, <3>1, <3>2, <3>3, <3>4 DEF ReadsOK
  <2> QED
    BY <2>2, <2>3, <2>4, <2>5, Kinds
<1>4. ASSUME NEW o \in Requests, req'[o].op \notin Lists
      PROVE  req'[o].got \in Answers \/ (req'[o].got = Torn /\ clash' # {})
  <2>1. CASE Crash
    <3>1. req'[o].got = None
      BY <2>1 DEF Crash, Idle
    <3> QED
      BY <3>1 DEF Answers
  <2>2. CASE UNCHANGED vars
    BY <1>1, <1>4, <2>2 DEF vars, ReadsOK
  <2>3. ASSUME NEW r \in Requests, Quiet(r) \/ Busy(r)
        PROVE  req'[o].got \in Answers \/ (req'[o].got = Torn /\ clash' # {})
    <3>1. Others(r)
      BY <1>1, <2>3, QuietIsAside, BusyKinds DEF Aside, Others
    <3>2. Readable(req'[r])
      BY <1>1, <2>3, QuietReads, BusyReads
    <3>3. Readable(req[o])
      BY <1>1 DEF ReadsOK, Readable
    <3> QED
      BY <1>3, <1>4, <3>1, <3>2, <3>3 DEF Others, Readable
  <2> QED
    BY <2>1, <2>2, <2>3, Steps
<1> QED
  BY <1>3, <1>4 DEF ReadsOK

-------------------------------------------------------------------------------
(* Chats, their sessions and the rows of their root agents.                *)

LockedIn == Copying \union {"ensure", "commit_new", "run"}
NewIn    == Copying \union {"ensure", "commit_new", "begin"}

Keeps(r) == req'[r].op = req[r].op /\ req'[r].ses = req[r].ses

(* A step that neither writes rows nor gets the lock. *)
Plain(r) ==
  /\ UNCHANGED <<rows, lock>> /\ clash \subseteq clash' /\ Others(r)
  /\ req'[r].pc \notin {"rows", "unlink", "save", "run"}
  /\ req'[r].op \in Chats => /\ Keeps(r)
                             /\ req'[r].pc \in LockedIn => req[r].pc \in LockedIn
                             /\ req'[r].pc \in NewIn => req[r].pc \in NewIn

(* What a request goes on to. *)
LEMMA GoesPlain ==
  ASSUME Types, RequestsOK, NEW r \in Requests, UNCHANGED <<rows, lock>>, clash \subseteq clash'
  PROVE  /\ End(r) => Plain(r)
         /\ \A got : Reply(r, got) /\ req[r].op \notin Chats => Plain(r)
         /\ \A pc : Goto(r, pc) /\ pc \notin {"rows", "unlink", "save", "run"}
                      /\ (pc \in LockedIn => req[r].pc \in LockedIn) /\ (pc \in NewIn => req[r].pc \in NewIn) => Plain(r)
<1>1. req \in [Requests -> ReqRows] /\ req[r] \in ReqRows
  BY DEF Types
<1>2. \A x : req' = [req EXCEPT ![r] = x] => Others(r) /\ req'[r] = x
  BY <1>1 DEF Others
<1>3. Idle.op = None /\ Idle.pc = "idle" /\ None \notin Chats
  BY DEF Idle, Ops
<1>4. End(r) => Plain(r)
  BY <1>2, <1>3 DEF End, Plain
<1>5. ASSUME NEW got, Reply(r, got), req[r].op \notin Chats PROVE Plain(r)
  <2> DEFINE x == [Idle EXCEPT !.pc = "reply", !.op = req[r].op, !.got = got]
  <2>1. x.pc = "reply" /\ x.op = req[r].op
    BY DEF Idle
  <2>2. Others(r) /\ req'[r] = x
    BY <1>2, <1>5 DEF Reply
  <2> HIDE DEF x
  <2> QED
    BY <1>5, <2>1, <2>2 DEF Plain
<1>6. ASSUME NEW pc, Goto(r, pc), pc \notin {"rows", "unlink", "save", "run"},
             pc \in LockedIn => req[r].pc \in LockedIn, pc \in NewIn => req[r].pc \in NewIn
      PROVE  Plain(r)
  <2>1. Others(r) /\ req'[r] = [req[r] EXCEPT !.pc = pc]
    BY <1>2, <1>6 DEF Goto
  <2>2. req'[r].pc = pc /\ Keeps(r)
    BY <1>1, <2>1 DEF Keeps, ReqRows
  <2> QED
    BY <1>6, <2>1, <2>2 DEF Plain
<1> QED
  BY <1>4, <1>5, <1>6

(* All steps but these are plain. *)
Binding(r) ==
  \/ \E n \in Names, op \in Chats, s \in Sessions : Chat(r, op, n, s)
  \/ NewSession(r) \/ CommitNew(r) \/ Resolve(r) \/ SaveAgent(r) \/ EndRun(r)
  \/ SelectIds(r) \/ DeleteRows(r)

(* A quiet step is binding or plain. *)
LEMMA QuietIsPlain ==
  ASSUME Types, RequestsOK, NEW r \in Requests, Quiet(r), ~Binding(r)
  PROVE  Plain(r)
<1>1. req \in [Requests -> ReqRows] /\ req[r] \in ReqRows /\ RequestOK(req[r])
  BY DEF Types, RequestsOK
<1>2. \A x : req' = [req EXCEPT ![r] = x] => Others(r) /\ req'[r] = x
  BY <1>1 DEF Others
<1>3. ASSUME NEW x, req' = [req EXCEPT ![r] = x], UNCHANGED <<rows, lock>>, clash \subseteq clash',
             x.pc \notin {"rows", "unlink", "save", "run"},
             x.op \notin Chats \/ (x.op = req[r].op /\ x.ses = req[r].ses /\ x.pc = "commit_new" /\ req[r].pc = "ensure")
      PROVE  Plain(r)
  BY <1>2, <1>3 DEF Plain, Keeps, LockedIn, NewIn
<1>4. CASE Arrives(r)
  <2>1. ASSUME NEW x, Begin(r, x), x.pc \notin {"rows", "unlink", "save", "run"}, x.op \notin Chats
        PROVE  Plain(r)
    BY <1>3, <2>1 DEF Begin
  <2>2. \A op, n, p, s : /\ Ensuring(op, n).pc = "ensure" /\ Ensuring(op, n).op = op
                         /\ [Ensuring(op, n) EXCEPT !.text = p].pc = "ensure"
                         /\ [Ensuring(op, n) EXCEPT !.text = p].op = op
                         /\ Selecting(op, s).pc = "select" /\ Selecting(op, s).op = op
    BY DEF Ensuring, Selecting, Idle
  <2>3. ASSUME NEW n \in Names, NEW op \in Saving, NEW p \in Payloads, Save(r, op, n, p) PROVE Plain(r)
    <3> DEFINE x == [Ensuring(op, n) EXCEPT !.text = p]
    <3>1. Begin(r, x) /\ x.pc = "ensure" /\ x.op = op
      BY <2>2, <2>3 DEF Save
    <3> HIDE DEF x
    <3> QED
      BY <2>1, <3>1 DEF Saving, Chats
  <2>4. ASSUME NEW n \in Names, NEW op \in {"get", "delete", "by_agent"}, Visit(r, op, n) PROVE Plain(r)
    BY <2>1, <2>2, <2>4 DEF Visit, Chats
  <2>5. CASE ListAgents(r) \/ ListSessions(r)
    BY <2>1, <2>2, <2>5 DEF ListAgents, ListSessions, Chats
  <2>6. ASSUME NEW s \in Sessions, ShowSession(r, s) PROVE Plain(r)
    BY <2>1, <2>2, <2>6 DEF ShowSession, Chats
  <2> QED
    BY <1>4, <2>3, <2>4, <2>5, <2>6 DEF Arrives, Binding
<1>5. CASE Ensured(r)
  <2> DEFINE x == [req[r] EXCEPT !.pc = AfterEnsure(r), !.at = req[r].name,
                                 !.todo = IF req[r].op = "list" THEN folder ELSE {}]
  <2>1. req' = [req EXCEPT ![r] = x]
    BY <1>5 DEF Ensured
  <2>2. x.pc = AfterEnsure(r) /\ x.op = req[r].op /\ x.ses = req[r].ses
    BY <1>1 DEF ReqRows
  <2>3. AfterEnsure(r) \in {"scan", "commit_new", "check"} /\ (req[r].op \in Chats => AfterEnsure(r) = "commit_new")
    BY DEF AfterEnsure, Chats
  <2> HIDE DEF x
  <2> QED
    BY <1>3, <1>5, <2>1, <2>2, <2>3 DEF Ensured
<1>6. CASE CheckAbsent(r) \/ CheckPresent(r) \/ CheckFile(r)
  BY <1>6, GoesPlain DEF CheckAbsent, CheckPresent, CheckFile, LockedIn, NewIn, Copying
<1>7. CASE Load(r)
  <2>1. req[r].op \notin Chats
    BY <1>1, <1>7 DEF Load, RequestOK, Saving, Chats
  <2> QED
    BY <1>7, <2>1, GoesPlain DEF Load, LockedIn, NewIn, Copying
<1>8. CASE ScanOne(r)
  <2>1. ASSUME NEW n \in req[r].todo,
               req' = [req EXCEPT ![r].todo = @ \ {n},
                                  ![r].got = IF HasFile(n) THEN Parsed(data[file[n].md]) ELSE @]
        PROVE  Plain(r)
    <3> DEFINE got == IF HasFile(n) THEN Parsed(data[file[n].md]) ELSE req[r].got
               x == [req[r] EXCEPT !.todo = req[r].todo \ {n}, !.got = got]
    <3>1. req' = [req EXCEPT ![r] = x]
      BY <2>1
    <3> HIDE DEF got
    <3>2. x.pc = "scan" /\ x.op = req[r].op /\ x.ses = req[r].ses
      BY <1>1, <1>8 DEF ScanOne, ReqRows
    <3> HIDE DEF x
    <3>3. Others(r) /\ req'[r] = x
      BY <1>2, <3>1
    <3> QED
      BY <1>8, <3>2, <3>3 DEF ScanOne, Plain, Keeps, LockedIn, NewIn, Copying
  <2> QED
    BY <1>8, <2>1, GoesPlain DEF ScanOne
<1>9. CASE LockTimeout(r) \/ Answered(r)
  BY <1>9, GoesPlain DEF LockTimeout, Answered
<1>10. CASE SelectSessions(r)
  <2>1. req[r].op \notin Chats
    BY <1>1, <1>10 DEF SelectSessions, RequestOK, Lists, Chats
  <2>2. ASSUME req' = [req EXCEPT ![r].pc = "entries", ![r].todo = Listed(r)] PROVE Plain(r)
    <3> DEFINE x == [req[r] EXCEPT !.pc = "entries", !.todo = Listed(r)]
    <3>1. req' = [req EXCEPT ![r] = x] /\ x.pc = "entries" /\ x.op = req[r].op
      BY <1>1, <2>2 DEF ReqRows
    <3> HIDE DEF x
    <3> QED
      BY <1>3, <1>10, <2>1, <3>1 DEF SelectSessions
  <2> QED
    BY <1>10, <2>1, <2>2, GoesPlain DEF SelectSessions
<1>11. CASE BuildEntry(r)
  <2>1. req[r].op \notin Chats
    BY <1>1, <1>11 DEF BuildEntry, RequestOK, Lists, Chats
  <2>2. ASSUME NEW s, req' = [req EXCEPT ![r].todo = @ \ {s}] PROVE Plain(r)
    <3> DEFINE x == [req[r] EXCEPT !.todo = req[r].todo \ {s}]
    <3>1. req' = [req EXCEPT ![r] = x] /\ x.pc = "entries" /\ x.op = req[r].op
      BY <1>1, <1>11, <2>2 DEF BuildEntry, ReqRows
    <3> HIDE DEF x
    <3> QED
      BY <1>3, <1>11, <2>1, <3>1 DEF BuildEntry
  <2> QED
    BY <1>11, <2>1, <2>2, GoesPlain DEF BuildEntry
<1> QED
  BY <1>4, <1>5, <1>6, <1>7, <1>8, <1>9, <1>10, <1>11 DEF Quiet, Binding

(* A step on files is plain. *)
LEMMA BusyIsPlain ==
  ASSUME Types, RequestsOK, NEW r \in Requests, Busy(r)
  PROVE  Plain(r)
<1>1. req \in [Requests -> ReqRows] /\ req[r] \in ReqRows /\ RequestOK(req[r])
  BY DEF Types, RequestsOK
<1>2. \A x : req' = [req EXCEPT ![r] = x] => Others(r) /\ req'[r] = x
  BY <1>1 DEF Others
<1>3. ASSUME NEW x, req' = [req EXCEPT ![r] = x], UNCHANGED <<rows, lock>>, clash \subseteq clash',
             x.pc \notin {"rows", "unlink", "save", "run"}, x.op = req[r].op, x.ses = req[r].ses,
             x.op \notin Chats \/ (x.pc \in Copying \union {"ensure"} /\ req[r].pc \in Copying \union {"ensure"})
      PROVE  Plain(r)
  BY <1>2, <1>3 DEF Plain, Keeps, LockedIn, NewIn
<1>c. Clash(r) => clash \subseteq clash'
  BY DEF Clash
<1>4. CASE Seed(r)
  <2>1. PICK n \in req[r].todo \ folder : req' = [req EXCEPT ![r].todo = @ \ {n}, ![r].pc = "copy", ![r].at = n]
    BY <1>4 DEF Seed
  <2> DEFINE x == [req[r] EXCEPT !.todo = req[r].todo \ {n}, !.pc = "copy", !.at = n]
  <2>2. req' = [req EXCEPT ![r] = x]
    BY <2>1
  <2>3. x.pc = "copy" /\ x.op = req[r].op /\ x.ses = req[r].ses
    BY <1>1 DEF ReqRows
  <2> HIDE DEF x
  <2> QED
    BY <1>3, <1>4, <2>2, <2>3 DEF Seed, Copying
<1>5. CASE Open(r) /\ req[r].at \in folder
  <2> DEFINE x == [req[r] EXCEPT !.pc = IF req[r].pc = "copy" THEN "copying" ELSE "write", !.fd = Inode(r)]
  <2>1. req' = [req EXCEPT ![r] = x]
    BY <1>5, OpenFiles
  <2>2. /\ x.pc = IF req[r].pc = "copy" THEN "copying" ELSE "write"
        /\ x.op = req[r].op /\ x.ses = req[r].ses
    BY <1>1 DEF ReqRows
  <2> HIDE DEF x
  <2>3. req[r].pc = "open" => req[r].op \notin Chats
    BY <1>1 DEF RequestOK, Saving, Chats
  <2>4. req[r].pc \in {"copy", "open"} /\ UNCHANGED <<rows, lock>> /\ clash \subseteq clash'
    BY <1>5, <1>c, OpenFiles DEF Open
  <2> QED
    BY <1>3, <2>1, <2>2, <2>3, <2>4 DEF Copying
<1>6. CASE Open(r) /\ req[r].at \notin folder
  BY <1>6, GoesPlain DEF Open, LockedIn, NewIn, Copying
<1>7. CASE Write(r)
  <2> DEFINE next == IF req[r].pc = "copying" THEN "ensure" ELSE IF req[r].op = "update" THEN "replace" ELSE "load"
             x == [req[r] EXCEPT !.pc = next, !.fd = None]
  <2>1. req' = [req EXCEPT ![r] = x]
    BY <1>7 DEF Write
  <2>2. x.pc = next /\ x.op = req[r].op /\ x.ses = req[r].ses
    BY <1>1 DEF ReqRows
  <2> HIDE DEF x
  <2>3. req[r].pc = "write" => req[r].op \notin Chats
    BY <1>1 DEF RequestOK, Saving, Chats
  <2> QED
    BY <1>3, <1>7, <2>1, <2>2, <2>3 DEF Write, Copying
<1>8. CASE MakeFolder(r) \/ Replace(r) \/ RemoveFolder(r)
  BY <1>8, GoesPlain DEF MakeFolder, Replace, RemoveFolder, LockedIn, NewIn, Copying
<1>9. CASE Unlink(r)
  BY <1>9, <1>c, GoesPlain DEF Unlink, LockedIn, NewIn, Copying
<1> QED
  BY <1>4, <1>5, <1>6, <1>7, <1>8, <1>9 DEF Busy

ChatOf(q) ==
  req[q].op \in Chats => /\ req[q].pc \in LockedIn => lock = q
                         /\ req[q].pc \in NewIn => session[req[q].ses] = "absent"
RowsRooted == \A s \in Sessions : row[s] # None => session[s] = "rooted"

(* What a step of a request has to keep. *)
LEMMA ChatsKept ==
  ASSUME ChatsOK, NEW r \in Requests, Others(r), RowsRooted', ChatOf(r)',
         \A q \in Requests \ {r} : ChatOf(q) => ChatOf(q)',
         req'[r].op \in Chats =>
           Keeps(r) \/ \A q \in Requests \ {r} : req[q].op \in Chats => req[q].ses # req'[r].ses
  PROVE  ChatsOK'
<1>1. \A q \in Requests : ChatOf(q)
  BY DEF ChatsOK, ChatOf, LockedIn, NewIn
<1>2. \A q \in Requests : ChatOf(q)'
  BY <1>1
<1>3. \A q \in Requests \ {r} : req'[q] = req[q]
  BY DEF Others
<1>4. ASSUME NEW o \in Requests, NEW q \in Requests, o # q, req'[o].op \in Chats, req'[q].op \in Chats
      PROVE  req'[o].ses # req'[q].ses
  BY <1>3, <1>4 DEF ChatsOK, Keeps
<1> QED
  BY <1>2, <1>4 DEF ChatsOK, ChatOf, RowsRooted, LockedIn, NewIn

(* A step that binds a chat to its session. *)
LEMMA ChatBinds ==
  ASSUME Types, RequestsOK, ChatsOK, NEW r \in Requests,
         NEW n \in Names, NEW op \in Chats, NEW s \in Sessions, Chat(r, op, n, s)
  PROVE  ChatsOK'
<1> DEFINE x == [Ensuring(op, n) EXCEPT !.pc = IF session[s] = "absent" THEN "begin" ELSE "resolve", !.ses = s]
<1>1. /\ x.op = op /\ x.ses = s
      /\ x.pc \notin LockedIn /\ (x.pc \in NewIn => session[s] = "absent")
  BY DEF Ensuring, Idle, LockedIn, NewIn, Copying
<1>2. Begin(r, x) /\ \A o \in Requests : req[o].ses = s => req[o].op = "detail"
  BY DEF Chat
<1> HIDE DEF x
<1>3. Others(r) /\ req'[r] = x /\ UNCHANGED <<rows, lock>>
  BY <1>2 DEF Begin, Others, Types
<1>4. RowsRooted'
  BY <1>3 DEF rows, RowsRooted, ChatsOK
<1>5. ChatOf(r)'
  BY <1>1, <1>3 DEF ChatOf, rows
<1>6. \A q \in Requests \ {r} : ChatOf(q) => ChatOf(q)'
  BY <1>3 DEF ChatOf, Others, rows
<1>7. \A q \in Requests \ {r} : req[q].op \in Chats => req[q].ses # req'[r].ses
  BY <1>1, <1>2, <1>3 DEF Chats
<1> QED
  BY <1>3, <1>4, <1>5, <1>6, <1>7, ChatsKept

(* A step of a request that goes on, or ends. *)
LEMMA MovesOn ==
  ASSUME Types, NEW r \in Requests
  PROVE  /\ End(r) => Others(r) /\ req'[r].op \notin Chats
         /\ \A pc : Goto(r, pc) => Others(r) /\ Keeps(r) /\ req'[r].pc = pc
<1>1. req \in [Requests -> ReqRows] /\ req[r] \in ReqRows
  BY DEF Types
<1>2. Idle.op \notin Chats
  BY NoneIsNothing DEF Idle, Ops, Chats
<1>3. End(r) => Others(r) /\ req'[r].op \notin Chats
  BY <1>1, <1>2 DEF End, Others
<1>4. ASSUME NEW pc, Goto(r, pc) PROVE Others(r) /\ Keeps(r) /\ req'[r].pc = pc
  BY <1>1, <1>4 DEF Goto, Others, Keeps, ReqRows
<1> QED
  BY <1>3, <1>4

(* Every step keeps chats in their sessions. *)
LEMMA ChatsStep ==
  ASSUME IInv, [Next]_vars
  PROVE  ChatsOK'
<1>1. Types /\ RequestsOK /\ ChatsOK /\ RowsRooted /\ \A q \in Requests : ChatOf(q)
  BY DEF IInv, ChatsOK, RowsRooted, ChatOf, LockedIn, NewIn
<1>2. CASE Crash
  BY <1>1, <1>2, NoneIsNothing DEF Crash, ChatsOK, Idle, rows, Ops, Chats
<1>3. CASE UNCHANGED vars
  BY <1>1, <1>3 DEF vars, ChatsOK
<1>4. ASSUME NEW r \in Requests, Plain(r) PROVE ChatsOK'
  <2>1. ChatOf(r)'
    BY <1>1, <1>4 DEF Plain, Keeps, ChatOf, rows
  <2>2. \A q \in Requests \ {r} : ChatOf(q) => ChatOf(q)'
    BY <1>4 DEF Plain, Others, ChatOf, rows
  <2>3. RowsRooted'
    BY <1>1, <1>4 DEF Plain, RowsRooted, rows
  <2> QED
    BY <1>1, <1>4, <2>1, <2>2, <2>3, ChatsKept DEF Plain
<1>5. ASSUME NEW r \in Requests, lock \in {None, r} PROVE \A q \in Requests \ {r} : req[q].op \in Chats => req[q].pc \notin LockedIn
  BY <1>1, <1>5, NoneIsNothing DEF ChatOf
<1>6. ASSUME NEW r \in Requests, NewSession(r) PROVE ChatsOK'
  <2>1. /\ Others(r) /\ Keeps(r) /\ req'[r].pc = "ensure" /\ lock' = r /\ UNCHANGED rows
        /\ req[r].pc = "begin" /\ lock \in {None, r}
    BY <1>1, <1>6, MovesOn DEF NewSession, Locked
  <2>2. ChatOf(r)'
    BY <1>1, <2>1 DEF Keeps, ChatOf, rows, NewIn
  <2>3. \A q \in Requests \ {r} : ChatOf(q) => ChatOf(q)'
    BY <1>5, <2>1 DEF Others, ChatOf, rows
  <2>4. RowsRooted'
    BY <1>1, <2>1 DEF RowsRooted, rows
  <2> QED
    BY <1>1, <2>1, <2>2, <2>3, <2>4, ChatsKept
<1>7. ASSUME NEW r \in Requests, CommitNew(r) PROVE ChatsOK'
  <2>1. /\ Others(r) /\ Keeps(r) /\ req'[r].pc = "resolve" /\ row' = row
        /\ session' = [session EXCEPT ![req[r].ses] = "rootless"] /\ req[r].pc = "commit_new"
    BY <1>1, <1>7, MovesOn DEF CommitNew
  <2>2. req[r].op \in Chats /\ req[r].ses \in Sessions /\ lock = r /\ session[req[r].ses] = "absent"
    BY <1>1, <2>1 DEF RequestsOK, RequestOK, ChatOf, LockedIn, NewIn
  <2>3. ChatOf(r)'
    BY <2>1 DEF ChatOf, LockedIn, NewIn, Copying
  <2>4. ASSUME NEW q \in Requests \ {r}, ChatOf(q) PROVE ChatOf(q)'
    <3>1. req'[q] = req[q]
      BY <2>1 DEF Others
    <3>2. req[q].op \in Chats => req[q].pc \notin LockedIn /\ req[q].ses # req[r].ses /\ req[q].ses \in Sessions
      BY <1>1, <1>5, <2>2 DEF ChatsOK, RequestsOK, RequestOK
    <3>3. req[q].op \in Chats => session'[req[q].ses] = session[req[q].ses]
      BY <1>1, <2>1, <3>2 DEF Types
    <3> QED
      BY <2>4, <3>1, <3>2, <3>3 DEF ChatOf
  <2>5. RowsRooted'
    BY <1>1, <2>1, <2>2 DEF RowsRooted, Types
  <2> QED
    BY <1>1, <2>1, <2>3, <2>4, <2>5, ChatsKept
<1>r. ASSUME NEW r \in Requests, Resolve(r) PROVE ChatsOK'
  <2>1. /\ UNCHANGED <<rows, lock>> /\ Others(r)
        /\ req'[r].op \notin Chats \/ (Keeps(r) /\ req'[r].pc = "save")
    BY <1>1, <1>r, MovesOn DEF Resolve
  <2>2. ChatOf(r)'
    BY <2>1 DEF ChatOf, LockedIn, NewIn, Copying
  <2>3. \A q \in Requests \ {r} : ChatOf(q) => ChatOf(q)'
    BY <2>1 DEF Others, ChatOf, rows
  <2>4. RowsRooted'
    BY <1>1, <2>1 DEF RowsRooted, rows
  <2> QED
    BY <1>1, <2>1, <2>2, <2>3, <2>4, ChatsKept
<1>8. ASSUME NEW r \in Requests, SaveAgent(r) PROVE ChatsOK'
  <2>1. /\ UNCHANGED rows /\ Others(r) /\ lock \in {None, r} /\ req[r].pc = "save"
        /\ \/ req'[r].op \notin Chats /\ lock' = lock
           \/ Keeps(r) /\ req'[r].pc = "run" /\ lock' = r
    BY <1>1, <1>8, MovesOn DEF SaveAgent, Locked
  <2>2. ChatOf(r)'
    BY <2>1 DEF ChatOf, NewIn, Copying
  <2>3. \A q \in Requests \ {r} : ChatOf(q) => ChatOf(q)'
    BY <1>5, <2>1 DEF Others, ChatOf, rows
  <2>4. RowsRooted'
    BY <1>1, <2>1 DEF RowsRooted, rows
  <2> QED
    BY <1>1, <2>1, <2>2, <2>3, <2>4, ChatsKept
<1>9. ASSUME NEW r \in Requests, EndRun(r) PROVE ChatsOK'
  <2>1. /\ Others(r) /\ req'[r].op \notin Chats /\ req[r].pc = "run"
        /\ req[r].op \in Chats /\ req[r].ses \in Sessions /\ req[r].name \in Names
    BY <1>1, <1>9, MovesOn DEF EndRun, RequestsOK, RequestOK
  <2>2. lock = r
    BY <1>1, <2>1 DEF ChatOf, LockedIn
  <2>3. /\ \A s \in Sessions : s # req[r].ses => session'[s] = session[s] /\ row'[s] = row[s]
        /\ UNCHANGED <<session, row>> \/ session'[req[r].ses] = "rooted"
    BY <1>1, <1>9, <2>1 DEF EndRun, Types, rows
  <2>4. ChatOf(r)'
    BY <2>1 DEF ChatOf
  <2>5. ASSUME NEW q \in Requests \ {r}, ChatOf(q) PROVE ChatOf(q)'
    <3>1. req'[q] = req[q]
      BY <2>1 DEF Others
    <3>2. req[q].op \in Chats => req[q].pc \notin LockedIn /\ req[q].ses # req[r].ses /\ req[q].ses \in Sessions
      BY <1>1, <1>5, <2>1, <2>2 DEF ChatsOK, RequestsOK, RequestOK
    <3> QED
      BY <2>3, <2>5, <3>1, <3>2 DEF ChatOf
  <2>6. RowsRooted'
    BY <1>1, <2>1, <2>3 DEF RowsRooted
  <2> QED
    BY <1>1, <2>1, <2>4, <2>5, <2>6, ChatsKept
<1>10. ASSUME NEW r \in Requests, SelectIds(r) PROVE ChatsOK'
  <2> DEFINE x == [req[r] EXCEPT !.pc = "rows", !.todo = {s \in Sessions : session[s] # "absent"}]
  <2>1. req' = [req EXCEPT ![r] = x] /\ UNCHANGED <<rows, lock>>
    BY <1>10 DEF SelectIds
  <2>2. x.pc = "rows" /\ x.op = req[r].op /\ x.ses = req[r].ses
    BY <1>1 DEF Types, ReqRows
  <2> HIDE DEF x
  <2>3. Others(r) /\ Keeps(r) /\ req'[r].pc = "rows"
    BY <1>1, <2>1, <2>2 DEF Others, Keeps, Types
  <2>4. ChatOf(r)'
    BY <2>3 DEF ChatOf, LockedIn, NewIn, Copying
  <2>5. \A q \in Requests \ {r} : ChatOf(q) => ChatOf(q)'
    BY <2>1, <2>3 DEF Others, ChatOf, rows
  <2>6. RowsRooted'
    BY <1>1, <2>1 DEF RowsRooted, rows
  <2> QED
    BY <1>1, <2>3, <2>4, <2>5, <2>6, ChatsKept
<1>11. ASSUME NEW r \in Requests, DeleteRows(r) PROVE ChatsOK'
  <2>1. /\ Others(r) /\ Keeps(r) /\ req'[r].pc = "unlink" /\ UNCHANGED <<session, lock>>
        /\ \A s \in Sessions : row'[s] \in {None, row[s]}
    BY <1>1, <1>11, MovesOn DEF DeleteRows
  <2>2. ChatOf(r)'
    BY <2>1 DEF ChatOf, LockedIn, NewIn, Copying
  <2>3. \A q \in Requests \ {r} : ChatOf(q) => ChatOf(q)'
    BY <2>1 DEF Others, ChatOf
  <2>4. RowsRooted'
    BY <1>1, <2>1 DEF RowsRooted
  <2> QED
    BY <1>1, <2>1, <2>2, <2>3, <2>4, ChatsKept
<1>12. ASSUME NEW r \in Requests, Binding(r) PROVE ChatsOK'
  BY <1>1, <1>6, <1>7, <1>r, <1>8, <1>9, <1>10, <1>11, <1>12, ChatBinds DEF Binding
<1> QED
  BY <1>1, <1>2, <1>3, <1>4, <1>12, Steps, QuietIsPlain, BusyIsPlain

-------------------------------------------------------------------------------
(* Deletions and the templates of root agents.                             *)

(* Of one deletion: the rows of its agent that are left. *)
DeletesAll(r) ==
  \A s \in Sessions : row[s] = req[r].name /\ req[r].name \notin late =>
    /\ req[r].pc = "rows" => s \in req[r].todo
    /\ req[r].pc # "unlink"

(* The names whose runs have outlasted a deletion stay so. *)
LEMMA LateGrows ==
  ASSUME [Next]_vars
  PROVE  late \subseteq late'
<1>1. ASSUME NEW r \in Requests, Busy(r) PROVE late \subseteq late'
  BY <1>1 DEF Busy, Seed, Open, Write, MakeFolder, Replace, Unlink, RemoveFolder
<1>2. ASSUME NEW r \in Requests, Arrives(r) PROVE late \subseteq late'
  BY <1>2 DEF Arrives, Save, Visit, Chat, ListAgents, ListSessions, ShowSession, Begin
<1>3. ASSUME NEW r \in Requests, Quiet(r), ~Arrives(r), ~EndRun(r) PROVE late' = late
  BY <1>3 DEF Quiet, Ensured, CheckAbsent, CheckPresent, CheckFile, Load, ScanOne, SelectIds, DeleteRows,
       NewSession, CommitNew, Resolve, SaveAgent, LockTimeout, SelectSessions, BuildEntry, Answered
<1>4. ASSUME NEW r \in Requests, EndRun(r) PROVE late \subseteq late'
  BY <1>4 DEF EndRun
<1>5. CASE Crash \/ UNCHANGED vars
  BY <1>5 DEF Crash, vars
<1> QED
  BY <1>1, <1>2, <1>3, <1>4, <1>5, Steps

(* A step that makes no row keeps what other deletions have done. *)
LEMMA DeletionsKept ==
  ASSUME DeletionsOK, NEW r \in Requests, Others(r), late \subseteq late', DeletesAll(r)',
         \A s \in Sessions : row'[s] \in {None, row[s]}, None \notin Names,
         \A q \in Requests : req[q].pc \in {"rows", "unlink"} => req[q].name \in Names
  PROVE  DeletionsOK'
<1>1. ASSUME NEW q \in Requests \ {r} PROVE DeletesAll(q)'
  <2>1. req'[q] = req[q] /\ DeletesAll(q)
    BY DEF Others, DeletionsOK, DeletesAll
  <2> QED
    BY <2>1 DEF DeletesAll
<1> QED
  BY <1>1 DEF DeletionsOK, DeletesAll

(* Every step keeps what deletions have done. *)
LEMMA DeletionsStep ==
  ASSUME IInv, [Next]_vars
  PROVE  DeletionsOK'
<1>1. /\ Types /\ RequestsOK /\ DeletionsOK /\ ChatsOK /\ None \notin Names /\ late \subseteq late'
      /\ \A q \in Requests : req[q].pc \in {"rows", "unlink"} => req[q].name \in Names
  BY NoneIsNothing, LateGrows DEF IInv, RequestsOK, RequestOK
<1>2. CASE Crash
  BY <1>2 DEF Crash, DeletionsOK, Idle, rows
<1>3. CASE UNCHANGED vars
  BY <1>1, <1>3 DEF vars, DeletionsOK
<1>4. ASSUME NEW r \in Requests, Others(r), req'[r].pc \notin {"rows", "unlink"},
             \A s \in Sessions : row'[s] \in {None, row[s]}
      PROVE  DeletionsOK'
  <2>1. DeletesAll(r)'
    BY <1>4 DEF DeletesAll
  <2> QED
    BY <1>1, <1>4, <2>1, DeletionsKept
<1>5. ASSUME NEW r \in Requests, Plain(r) PROVE DeletionsOK'
  BY <1>4, <1>5 DEF Plain, rows
<1>6. ASSUME NEW r \in Requests, NEW n \in Names, NEW op \in Chats, NEW s \in Sessions, Chat(r, op, n, s)
      PROVE  DeletionsOK'
  <2> DEFINE x == [Ensuring(op, n) EXCEPT !.pc = IF session[s] = "absent" THEN "begin" ELSE "resolve", !.ses = s]
  <2>1. x.pc \notin {"rows", "unlink"}
    BY DEF Ensuring, Idle
  <2>2. Begin(r, x)
    BY <1>6 DEF Chat
  <2> HIDE DEF x
  <2>3. Others(r) /\ req'[r] = x /\ row' = row
    BY <1>1, <2>2 DEF Begin, Others, Types, rows
  <2> QED
    BY <1>4, <2>1, <2>3
<1>7. ASSUME NEW r \in Requests, NewSession(r) \/ CommitNew(r) \/ Resolve(r) \/ SaveAgent(r) PROVE DeletionsOK'
  <2>1. Others(r) /\ row' = row
    BY <1>1, <1>7, MovesOn DEF NewSession, CommitNew, Resolve, SaveAgent, rows
  <2>2. req'[r].pc \notin {"rows", "unlink"}
    BY <1>1, <1>7, MovesOn DEF NewSession, CommitNew, Resolve, SaveAgent, End, Idle, Types
  <2> QED
    BY <1>4, <2>1, <2>2
<1>8. ASSUME NEW r \in Requests, SelectIds(r) PROVE DeletionsOK'
  <2> DEFINE all == {s \in Sessions : session[s] # "absent"}
             x == [req[r] EXCEPT !.pc = "rows", !.todo = all]
  <2>1. req' = [req EXCEPT ![r] = x] /\ UNCHANGED rows
    BY <1>8 DEF SelectIds
  <2>2. x.pc = "rows" /\ x.todo = all /\ x.name = req[r].name /\ req[r].name \in Names
    BY <1>1, <1>8 DEF Types, ReqRows, SelectIds, RequestsOK, RequestOK
  <2>3. \A s \in Sessions : row[s] = req[r].name => s \in all
    BY <1>1, <2>2 DEF ChatsOK
  <2> HIDE DEF x, all
  <2>4. Others(r) /\ req'[r] = x
    BY <1>1, <2>1 DEF Others, Types
  <2>5. DeletesAll(r)'
    BY <2>1, <2>2, <2>3, <2>4 DEF DeletesAll, rows
  <2> QED
    BY <1>1, <2>1, <2>4, <2>5, DeletionsKept DEF rows
<1>9. ASSUME NEW r \in Requests, DeleteRows(r) PROVE DeletionsOK'
  <2>1. /\ Others(r) /\ late' = late /\ req[r].pc = "rows" /\ req[r].name \in Names
        /\ row' = [s \in Sessions |-> IF s \in req[r].todo /\ row[s] = req[r].name THEN None ELSE row[s]]
    BY <1>1, <1>9, MovesOn DEF DeleteRows
  <2>2. req'[r].name = req[r].name /\ req'[r].pc = "unlink"
    BY <1>1, <1>9 DEF DeleteRows, Goto, Types, ReqRows
  <2>3. req[r].name \notin late => \A s \in Sessions : row'[s] # req[r].name
    BY <1>1, <2>1 DEF DeletionsOK
  <2>4. DeletesAll(r)'
    BY <2>1, <2>2, <2>3 DEF DeletesAll
  <2> QED
    BY <1>1, <2>1, <2>4, DeletionsKept
<1>10. ASSUME NEW r \in Requests, EndRun(r) PROVE DeletionsOK'
  <2>1. Others(r) /\ req[r].name \in Names /\ req[r].ses \in Sessions
    BY <1>1, <1>10, MovesOn DEF EndRun, RequestsOK, RequestOK
  <2>2. req'[r].pc = "idle"
    BY <1>1, <1>10 DEF EndRun, End, Idle, Types
  <2>3. \A s \in Sessions : \/ row'[s] = row[s]
                            \/ /\ s = req[r].ses /\ row'[s] = req[r].name
                               /\ req[r].name \in PastRows(s) => req[r].name \in late'
    BY <1>1, <1>10, <2>1 DEF EndRun, Types, rows
  <2>5. ASSUME NEW q \in Requests \ {r} PROVE DeletesAll(q)'
    <3>1. req'[q] = req[q] /\ DeletesAll(q)
      BY <1>1, <2>1 DEF Others, DeletionsOK, DeletesAll
    <3>2. ASSUME NEW s \in Sessions, row'[s] = req[r].name, req[q].name = req[r].name, row'[s] # row[s],
                 req[r].name \notin late'
          PROVE  req[q].pc # "unlink" /\ (req[q].pc = "rows" => s \in req[q].todo)
      BY <2>3, <3>2 DEF PastRows
    <3>3. ASSUME NEW s \in Sessions, row'[s] = req'[q].name, req'[q].name \notin late'
          PROVE  req[q].pc # "unlink" /\ (req[q].pc = "rows" => s \in req[q].todo)
      BY <1>1, <2>3, <3>1, <3>2, <3>3 DEF DeletesAll
    <3> QED
      BY <3>1, <3>3 DEF DeletesAll
  <2>6. DeletesAll(r)'
    BY <2>2 DEF DeletesAll
  <2> QED
    BY <2>5, <2>6 DEF DeletionsOK, DeletesAll
<1>11. ASSUME NEW r \in Requests, Binding(r) PROVE DeletionsOK'
  BY <1>6, <1>7, <1>8, <1>9, <1>10, <1>11 DEF Binding
<1> QED
  BY <1>1, <1>2, <1>3, <1>5, <1>11, Steps, QuietIsPlain, BusyIsPlain

(* The row of a root agent is what a run or a deletion makes of it. *)
LEMMA RowsStep ==
  ASSUME IInv, [Next]_vars, NEW s \in Sessions, row'[s] \in Names \ late
  PROVE  row[s] = row'[s] \/ HasFile(row'[s])
<1>1. Types /\ RequestsOK /\ ChatsOK /\ None \notin Names
  BY NoneIsNothing DEF IInv
<1>2. CASE Crash \/ UNCHANGED vars
  BY <1>2 DEF Crash, vars, rows
<1>3. ASSUME NEW r \in Requests, Plain(r) PROVE row' = row
  BY <1>3 DEF Plain, rows
<1>4. ASSUME NEW r \in Requests, Binding(r), ~EndRun(r), ~DeleteRows(r) PROVE row' = row
  BY <1>4 DEF Binding, Chat, Begin, NewSession, CommitNew, Resolve, SaveAgent, SelectIds, rows
<1>5. ASSUME NEW r \in Requests, DeleteRows(r) PROVE row'[s] = row[s]
  BY <1>1, <1>5 DEF DeleteRows
<1>6. ASSUME NEW r \in Requests, EndRun(r) PROVE row[s] = row'[s] \/ HasFile(row'[s])
  <2>1. row'[s] = row[s] \/ row'[s] = req[r].name
    BY <1>1, <1>6 DEF EndRun, Types, rows
  <2>2. req[r].name \notin late => HasFile(req[r].name)
    BY <1>6 DEF EndRun, IInv, RunsOK
  <2> QED
    BY <2>1, <2>2
<1> QED
  BY <1>1, <1>2, <1>3, <1>4, <1>5, <1>6, Steps, QuietIsPlain, BusyIsPlain

(* A template goes only by its deletion. *)
LEMMA TemplateStep ==
  ASSUME IInv, [Next]_vars, NEW n \in Names, HasFile(n)
  PROVE  HasFile(n)' \/ \E r \in Requests : Others(r) /\ Unlinks(r) /\ req[r].at = n
<1>1. Types /\ RequestsOK /\ None \notin Inodes
  BY InodesSuffice, NoneIsNothing DEF IInv, Inodes
<1>2. file \in [Names -> Files] /\ n \in folder /\ file[n].md # None
  BY <1>1 DEF Types, HasFile
<1>3. CASE Crash \/ UNCHANGED vars \/ \E r \in Requests : Aside(r) \/ Writes(r)
  BY <1>2, <1>3 DEF Crash, vars, Aside, Writes, disk, HasFile
<1>4. ASSUME NEW r \in Requests, Makes(r) PROVE HasFile(n)'
  BY <1>2, <1>4 DEF Makes, HasFile
<1>5. ASSUME NEW r \in Requests, Opens(r) PROVE HasFile(n)'
  <2>1. /\ req[r].at \in Names /\ WrittenFile(r) \in {"md", "tmp"} /\ Inode(r) \in Inodes
        /\ file' = [file EXCEPT ![req[r].at][WrittenFile(r)] = Inode(r)] /\ folder' = folder
    BY <1>1, <1>5, OpenedFile DEF Opens
  <2>2. file'[n].md = file[n].md \/ file'[n].md = Inode(r)
    BY <1>2, <2>1 DEF Files
  <2> QED
    BY <1>1, <1>2, <2>1, <2>2 DEF HasFile
<1>6. ASSUME NEW r \in Requests, Replaces(r) PROVE HasFile(n)'
  BY <1>2, <1>6 DEF Replaces, HasFile
<1>7. ASSUME NEW r \in Requests, Unlinks(r), req[r].at # n PROVE HasFile(n)'
  BY <1>2, <1>7 DEF Unlinks, HasFile
<1>8. ASSUME NEW r \in Requests, Removes(r) PROVE HasFile(n)'
  BY <1>2, <1>8 DEF Removes, HasFile, NoFiles
<1> QED
  BY <1>3, <1>4, <1>5, <1>6, <1>7, <1>8, Kinds

(* Every step keeps the templates of the runs. *)
LEMMA RunsStep ==
  ASSUME IInv, [Next]_vars
  PROVE  RunsOK'
<1>1. Types /\ RequestsOK /\ RunsOK /\ late \subseteq late' /\ req \in [Requests -> ReqRows]
  BY LateGrows DEF IInv, Types
<1> DEFINE InRun(q) == req[q].pc \in {"save", "run"}
<1>2. ASSUME NEW q \in Requests, InRun(q)'
      PROVE  req'[q].name = req[q].name /\ (InRun(q) \/ HasFile(req[q].name))
  <2>1. CASE Crash \/ UNCHANGED vars
    BY <1>1, <1>2, <2>1 DEF Crash, vars, Idle
  <2>2. ASSUME NEW r \in Requests, Others(r), req'[r].pc \notin {"save", "run"}
        PROVE  req'[q].name = req[q].name /\ InRun(q)
    BY <1>2, <2>2 DEF Others
  <2>3. ASSUME NEW r \in Requests, Plain(r) PROVE req'[q].name = req[q].name /\ InRun(q)
    BY <2>2, <2>3 DEF Plain
  <2>4. ASSUME NEW r \in Requests, NEW n \in Names, NEW op \in Chats, NEW s \in Sessions, Chat(r, op, n, s)
        PROVE  req'[q].name = req[q].name /\ InRun(q)
    <3> DEFINE x == [Ensuring(op, n) EXCEPT !.pc = IF session[s] = "absent" THEN "begin" ELSE "resolve", !.ses = s]
    <3>1. Begin(r, x) /\ x.pc \notin {"save", "run"}
      BY <2>4 DEF Chat, Ensuring, Idle
    <3> HIDE DEF x
    <3>2. Others(r) /\ req'[r] = x
      BY <1>1, <3>1 DEF Begin, Others
    <3> QED
      BY <2>2, <3>1, <3>2
  <2>5. ASSUME NEW r \in Requests, NewSession(r) \/ CommitNew(r) \/ EndRun(r) \/ DeleteRows(r)
        PROVE  req'[q].name = req[q].name /\ InRun(q)
    <3>1. Others(r) /\ req'[r].pc \notin {"save", "run"}
      BY <1>1, <2>5, MovesOn DEF NewSession, CommitNew, EndRun, DeleteRows, End, Idle
    <3> QED
      BY <2>2, <3>1
  <2>6. ASSUME NEW r \in Requests, SelectIds(r) PROVE req'[q].name = req[q].name /\ InRun(q)
    <3> DEFINE x == [req[r] EXCEPT !.pc = "rows", !.todo = {s \in Sessions : session[s] # "absent"}]
    <3>1. req' = [req EXCEPT ![r] = x] /\ x.pc = "rows"
      BY <1>1, <2>6 DEF SelectIds, ReqRows
    <3> HIDE DEF x
    <3>2. Others(r) /\ req'[r] = x
      BY <1>1, <3>1 DEF Others
    <3> QED
      BY <2>2, <3>1, <3>2
  <2>7. ASSUME NEW r \in Requests, NEW pc, Goto(r, pc)
        PROVE  Others(r) /\ req'[r].name = req[r].name
    BY <1>1, <2>7 DEF Goto, Others, ReqRows
  <2>8. ASSUME NEW r \in Requests, End(r) PROVE req'[q].name = req[q].name /\ InRun(q)
    <3>1. Others(r) /\ req'[r].pc = "idle"
      BY <1>1, <2>8 DEF End, Others, Idle
    <3> QED
      BY <2>2, <3>1
  <2>9. ASSUME NEW r \in Requests, Resolve(r)
        PROVE  req'[q].name = req[q].name /\ (InRun(q) \/ HasFile(req[q].name))
    <3>1. CASE End(r)
      BY <2>8, <3>1
    <3>2. CASE Goto(r, "save") /\ HasFile(req[r].name)
      BY <1>2, <2>7, <3>2 DEF Others
    <3> QED
      BY <2>9, <3>1, <3>2 DEF Resolve
  <2>10. ASSUME NEW r \in Requests, SaveAgent(r) PROVE req'[q].name = req[q].name /\ InRun(q)
    <3>1. CASE End(r)
      BY <2>8, <3>1
    <3>2. CASE Goto(r, "run") /\ req[r].pc = "save"
      BY <1>2, <2>7, <3>2 DEF Others
    <3> QED
      BY <2>10, <3>1, <3>2 DEF SaveAgent
  <2>11. ASSUME NEW r \in Requests, Binding(r)
         PROVE  req'[q].name = req[q].name /\ (InRun(q) \/ HasFile(req[q].name))
    BY <2>4, <2>5, <2>6, <2>9, <2>10, <2>11 DEF Binding
  <2> QED
    BY <1>1, <2>1, <2>3, <2>11, Steps, QuietIsPlain, BusyIsPlain
<1>3. ASSUME NEW q \in Requests, InRun(q)', NEW n, n = req'[q].name, n \notin late'
      PROVE  HasFile(n)'
  <2>1. n = req[q].name /\ n \notin late /\ (InRun(q) \/ HasFile(n))
    BY <1>1, <1>2, <1>3
  <2>2. HasFile(n) /\ n \in Names
    BY <1>1, <2>1 DEF RunsOK, HasFile, Types
  <2>3. ASSUME NEW r \in Requests, Others(r), Unlinks(r), req[r].at = n PROVE FALSE
    <3>1. q # r
      BY <1>3, <2>3 DEF Unlinks
    <3>2. InRun(q)
      BY <1>3, <2>3, <3>1 DEF Others
    <3>3. n \in late'
      BY <2>1, <2>3, <3>2 DEF Unlinks, Running
    <3> QED
      BY <1>3, <3>3
  <2> QED
    BY <2>2, <2>3, TemplateStep
<1>4. (\A q \in Requests : InRun(q) =>
         \E n \in {req[q].name} : n = req[q].name /\ (n \notin late => HasFile(n)))'
  BY <1>3
<1> QED
  BY <1>4 DEF RunsOK

(* Every step keeps the templates of the root agents. *)
LEMMA RootsStep ==
  ASSUME IInv, [Next]_vars
  PROVE  RootsHaveTemplates'
<1>1. Types /\ RequestsOK /\ DeletionsOK /\ RootsHaveTemplates
  BY DEF IInv
<1>2. late \subseteq late'
  BY LateGrows
<1>3. ASSUME NEW s \in Sessions, row'[s] \in Names, row'[s] \notin late'
      PROVE  \E n \in Names : n = row'[s] /\ HasFile(n)'
  <2>1. PICK n \in Names : n = row'[s]
    BY <1>3
  <2>2. n \notin late' /\ n \notin late
    BY <1>2, <1>3, <2>1
  <2>3. row[s] = n \/ HasFile(n)
    BY <2>1, <2>2, RowsStep
  <2>4. HasFile(n)
    BY <1>1, <2>2, <2>3 DEF RootsHaveTemplates
  <2>5. ASSUME NEW r \in Requests, Unlinks(r), req[r].at = n PROVE FALSE
    <3>1. req[r].pc = "unlink" /\ req[r].name = n
      BY <1>1, <2>5 DEF Unlinks, RequestsOK, RequestOK
    <3>2. row[s] # n
      BY <1>1, <2>2, <3>1 DEF DeletionsOK
    <3>3. UNCHANGED row
      BY <2>5 DEF Unlinks, rows
    <3> QED
      BY <2>1, <3>2, <3>3
  <2>6. HasFile(n)'
    BY <2>4, <2>5, TemplateStep
  <2> QED
    BY <2>1, <2>6
<1>4. (\A s \in Sessions : row[s] \in Names \ late => \E n \in Names : n = row[s] /\ HasFile(n))'
  BY <1>3
<1> QED
  BY <1>4 DEF RootsHaveTemplates

-------------------------------------------------------------------------------
(* The invariant.                                                          *)

(* The invariant holds at the start. *)
LEMMA InitIInv ==
  ASSUME Init
  PROVE  IInv
<1> USE DEF Init
<1>1. None \notin Inodes \union Names \union Requests
  BY InodesSuffice, NoneIsNothing DEF Inodes
<1>2. Types
  BY IdleType DEF Types, Files, NoFiles, Inodes, Contents
<1>3. RequestsOK
  BY IdleOK DEF RequestsOK
<1>4. FilesOK /\ OpenOK
  BY DEF FilesOK, OpenOK, NoFiles, Idle
<1>5. AloneOK /\ EngagedOK
  BY DEF AloneOK, EngagedOK, Engaged, Making, Copying, Idle
<1>6. SavedIsKept /\ RootsHaveTemplates
  BY <1>1 DEF SavedIsKept, RootsHaveTemplates
<1>7. ReadsOK
  BY DEF ReadsOK, Contents, Answers, Idle, Inodes
<1>8. ChatsOK
  BY NoneIsNothing DEF ChatsOK, Idle, Copying, Chats, Ops
<1>9. DeletionsOK
  BY DEF DeletionsOK, Idle
<1>10. RunsOK
  BY DEF RunsOK, Idle
<1> QED
  BY <1>2, <1>3, <1>4, <1>5, <1>6, <1>7, <1>8, <1>9, <1>10 DEF IInv

(* Every step keeps it. *)
LEMMA NextIInv ==
  ASSUME IInv, [Next]_vars
  PROVE  IInv'
<1>1. Types' /\ RequestsOK' /\ FilesOK' /\ OpenOK'
  BY TypesStep, RequestsStep, FilesStep, OpenStep
<1>2. AloneOK' /\ EngagedOK' /\ SavedIsKept'
  BY AloneStep, EngagedStep, SavedStep
<1>3. ReadsOK' /\ ChatsOK' /\ DeletionsOK' /\ RunsOK' /\ RootsHaveTemplates'
  BY ReadsStep, ChatsStep, DeletionsStep, RunsStep, RootsStep
<1> QED
  BY <1>1, <1>2, <1>3 DEF IInv

(* The inductive invariant: which files and requests belong together, who  *)
(* is alone with a name, and what deletions and chats have done so far.    *)
THEOREM InvariantHolds == Spec => []IInv
<1>1. Init => IInv
  BY InitIInv
<1>2. IInv /\ [Next]_vars => IInv'
  BY NextIInv
<1> QED
  BY <1>1, <1>2, PTL DEF Spec

(* What was saved is what the file holds, through crashes, seedings and    *)
(* updates that fail; _write_agent_file replaces a file, it never edits it.*)
THEOREM SavedStaysSaved == Spec => []SavedIsKept
<1>1. IInv => SavedIsKept
  BY DEF IInv
<1> QED
  BY <1>1, InvariantHolds, PTL

(* No deletion takes the template of a root agent away: the rows go first. *)
(* A run has found its template and keeps it, so its row has one too; only *)
(* a run that outlasts a deletion of its agent is excepted.                *)
THEOREM RootsKeepTemplates == Spec => []RootsHaveTemplates
<1>1. IInv => RootsHaveTemplates
  BY DEF IInv
<1> QED
  BY <1>1, InvariantHolds, PTL

(* Whole files hold what a client has saved. *)
LEMMA ReadsBack ==
  ASSUME IInv, \A p \in Texts : Legible(p)
  PROVE  SavedIsReadBack
<1>1. Types /\ RequestsOK /\ FilesOK /\ ReadsOK /\ ChatsOK
  BY DEF IInv
<1>2. \A a \in Answers : a \in {Empty, None} \/ Bare(a) \in {Bare(p) : p \in Payloads \union {Shipped}}
  BY ParsesWhatIsRendered DEF Answers, Texts
<1>3. \A r \in Requests : req[r].op \in Saving \union {"get", "list"} =>
        \/ req[r].got \in {Empty, None} \/ (req[r].got = Torn /\ clash # {})
        \/ Bare(req[r].got) \in {Bare(p) : p \in Payloads \union {Shipped}}
  BY <1>1, <1>2 DEF ReadsOK, Saving, Lists
<1>4. TypeOK
  <2>1. folder \subseteq Names /\ (\A n \in Names \ folder : file[n] = NoFiles)
    BY <1>1 DEF Types, FilesOK
  <2>2. ASSUME NEW n \in Names, NEW m \in Names, NEW k \in {"md", "tmp"}, NEW l \in {"md", "tmp"},
               file[n][k] # None
        PROVE  file[n][k] \in 1..MaxInode /\ (file[n][k] = file[m][l] => <<n, k>> = <<m, l>>)
    <3>1. file[n] \in Files
      BY <1>1 DEF Types
    <3>2. file[n][k] \in 1..MaxInode
      BY <2>2, <3>1 DEF Files, Inodes
    <3> QED
      BY <1>1, <2>2, <3>2 DEF FilesOK
  <2>3. \A s \in Sessions : row[s] # None => session[s] = "rooted"
    BY <1>1 DEF ChatsOK
  <2>4. \A r \in Requests : req[r].pc = "run" => lock = r
    BY <1>1 DEF ChatsOK, RequestsOK, RequestOK
  <2> QED
    BY <2>1, <2>2, <2>3, <2>4 DEF TypeOK
<1> QED
  BY <1>3, <1>4 DEF SavedIsReadBack

(* What a save, a get or a list answers was saved by a client, or shipped, *)
(* whatever its length: render_agent_frontmatter and load_agent_template   *)
(* agree, but for blanks around a text, on every template whose            *)
(* description has no line ends and no backslashes and whose tools are not *)
(* blank.                                                                  *)
THEOREM SavedComesBack ==
  ASSUME \A p \in Texts : Legible(p)
  PROVE  Spec => []SavedIsReadBack
<1>1. IInv => SavedIsReadBack
  BY ReadsBack
<1> QED
  BY <1>1, InvariantHolds, PTL

===============================================================================
