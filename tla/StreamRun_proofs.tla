---------------------------- MODULE StreamRun_proofs ----------------------------
(***************************************************************************)
(* What is proved of a streamed run, for every set of calls, every limit   *)
(* of turns and every length of a response.                                *)
(***************************************************************************)
EXTENDS StreamRun, FiniteSetTheorems, SequenceTheorems, TLAPS

(* The run is between the start of a stream and its end. *)
Live == pc \in {"waiting", "taken", "sending", "over"}

(* What the run has of the stream and did not look at yet. *)
AheadOf(h, q) == IF h = None THEN q ELSE <<h>> \o q
Ahead == AheadOf(hand, queue)

Texts(s) == {i \in DOMAIN s : s[i].type = "text"}

(* The events of s are of turn t, and their texts are the pieces from m + 1 *)
(* to n, in order.                                                         *)
Numbered(s, m, n, t) ==
  /\ m <= n
  /\ \A i \in DOMAIN s : s[i].turn = t
  /\ \A i \in Texts(s) : s[i].of \in (m + 1)..n
  /\ \A k \in (m + 1)..n : \E i \in Texts(s) : s[i].of = k
  /\ \A i, j \in Texts(s) : i < j => s[i].of < s[j].of

(* What ends a stream comes last in s, and not while the thread reads. *)
WellEnded(s, reading) ==
  \A i \in DOMAIN s :
    /\ s[i].type \in FromProvider \union {"error", "finished"}
    /\ s[i].type \in {"done", "error"} =>
         i = Len(s) - 1 /\ ~reading /\ s[Len(s)].type = "finished"
    /\ s[i].type = "finished" => i = Len(s) /\ ~reading

StreamInv ==
  /\ WellEnded(Ahead, reader)
  /\ Live => Numbered(Ahead, partial, read.text, turns)

HandInv ==
  /\ pc = "taken" => hand # None
  /\ hand # None => pc \in {"taken", "ended"} /\ hand.type # "finished"

(* The response is all that was read, and came when all else was taken. *)
ResponseInv ==
  response # None =>
    /\ ~reader /\ hand = None
    /\ \A i \in DOMAIN queue : queue[i].type = "finished"
    /\ Live => response = read /\ \E e \in shown : e.type = "done" /\ e.turn = turns

CutInv == cut => signal /\ response = None /\ (hand # None => hand.type # "done")

PlaceInv ==
  /\ pc \notin {"turn", "failing", "escaping", "ended"} => turns < MaxTurns
  /\ status = "lost" => pc \in {"escaping", "ended"}
  /\ pc = "escaping" => status = "lost"
  /\ pc = "tool" => todo # <<>>
  /\ status # "lost" /\ pc \notin {"tools", "tool"} => todo = <<>>
  /\ status # "lost" /\ pc \notin {"tools", "tool", "draining"} => buffer = <<>>
  /\ \A i \in DOMAIN buffer : buffer[i].type \in {"tool_called", "tool_ended"}

-------------------------------------------------------------------------------
(* Sets of calls: in a sequence, stored, and shown or about to be shown.   *)
CallsIn(s)       == {s[i] : i \in DOMAIN s}
Distinct(s)      == \A i, j \in DOMAIN s : s[i] = s[j] => i = j
Kept(st, type)   == {st[i].of : i \in {j \in DOMAIN st : st[j].type = type}}
Told(sh, b, type) == {e.of : e \in {f \in sh \union CallsIn(b) : f.type = type}}

(* The calls that have come, before and in this turn, are new. *)
FreshInv ==
  Live => /\ Distinct(read.calls)
          /\ CallsIn(read.calls) \intersect Kept(stored, "call") = {}

CallsInv ==
  status # "lost" =>
    /\ Distinct(todo) /\ CallsIn(todo) \subseteq Kept(stored, "call")
    /\ Kept(stored, "output") \union waits = Kept(stored, "call") \ CallsIn(todo)
    /\ Told(shown, buffer, "tool_ended") = Kept(stored, "call") \ CallsIn(todo)
    /\ Told(shown, buffer, "tool_called") =
         Kept(stored, "call") \ CallsIn(IF pc = "tool" THEN Tail(todo) ELSE todo)

-------------------------------------------------------------------------------
(* The pieces of a turn that were shown, and its text that is stored. *)
Seen(sh, t)      == {e \in sh : e.type = "text" /\ e.turn = t}
TextItems(st, t) == {i \in DOMAIN st : st[i].type = "text" /\ st[i].turn = t}
Pieces(t, n)     == {[type |-> "text", turn |-> t, of |-> k] : k \in 1..n}

Ongoing(sh, st, t, n) == Seen(sh, t) = Pieces(t, n) /\ TextItems(st, t) = {}

Matching(sh, st, t) ==
  \E n \in Nat :
    /\ Seen(sh, t) = Pieces(t, n)
    /\ n = 0 => TextItems(st, t) = {}
    /\ n # 0 => \E i \in TextItems(st, t) : TextItems(st, t) = {i} /\ st[i].of = n

Closed(sh, st, t, how) ==
  \E n \in Nat :
    /\ Seen(sh, t) = Pieces(t, n)
    /\ \/ /\ TextItems(st, t) = {}
          /\ n = 0 \/ (how = "cancelled" /\ \E e \in sh : e.type = "done" /\ e.turn = t)
       \/ \E i \in TextItems(st, t) : TextItems(st, t) = {i} /\ st[i].of \in {n, n + 1}

(* Nothing of a turn's text is new, shown or stored. *)
SameText(sh, st, sh2, st2, t) ==
  /\ Seen(sh2, t) = Seen(sh, t)
  /\ TextItems(st2, t) = TextItems(st, t)
  /\ \A i \in TextItems(st, t) : st2[i] = st[i]

TextInv ==
  status # "lost" =>
    /\ \A t \in 0..MaxTurns :
         /\ t < turns => Matching(shown, stored, t)
         /\ t > turns => Ongoing(shown, stored, t, 0)
    /\ pc = "turn" => Ongoing(shown, stored, turns, 0)
    /\ Live => Ongoing(shown, stored, turns, partial)
    /\ pc \in {"tools", "tool", "draining"} => Matching(shown, stored, turns)
    /\ pc \in {"failing", "ended"} => Closed(shown, stored, turns, status)

IInv ==
  /\ TypeOK /\ HandInv /\ StreamInv /\ ResponseInv /\ CutInv /\ PlaceInv
  /\ FreshInv /\ CallsInv /\ TextInv

-------------------------------------------------------------------------------
(* Sequences of events.                                                    *)

(* Two events behind a sequence. *)
LEMMA JoinedPair ==
  ASSUME NEW S, NEW s \in Seq(S), NEW x \in S, NEW y \in S
  PROVE  /\ s \o <<x, y>> \in Seq(S) /\ Len(s \o <<x, y>>) = Len(s) + 2
         /\ DOMAIN (s \o <<x, y>>) = 1..(Len(s) + 2)
         /\ \A i \in 1..Len(s) : (s \o <<x, y>>)[i] = s[i]
         /\ (s \o <<x, y>>)[Len(s) + 1] = x
         /\ (s \o <<x, y>>)[Len(s) + 2] = y
  OBVIOUS

(* The next piece of a numbered stream is the one after those that were    *)
(* taken, and what is left is numbered on.                                 *)
LEMMA TailNumbered ==
  ASSUME NEW S, NEW s \in Seq(S), s # <<>>, NEW m \in Nat, NEW n \in Nat, NEW t,
         Numbered(s, m, n, t)
  PROVE  /\ Head(s).turn = t
         /\ Head(s).type = "text" => /\ Head(s).of = m + 1 /\ m + 1 <= n
                                     /\ Numbered(Tail(s), m + 1, n, t)
         /\ Head(s).type # "text" => Numbered(Tail(s), m, n, t)
<1>1. /\ DOMAIN s = 1..Len(s) /\ Len(s) \in Nat /\ Len(s) >= 1 /\ Head(s) = s[1]
      /\ DOMAIN Tail(s) = 1..(Len(s) - 1)
      /\ \A i \in DOMAIN Tail(s) : Tail(s)[i] = s[i + 1] /\ i + 1 \in DOMAIN s
  OBVIOUS
<1>2. \A i \in DOMAIN s : i # 1 => i - 1 \in DOMAIN Tail(s) /\ s[i] = Tail(s)[i - 1]
  BY <1>1
<1>3. \A i \in Texts(Tail(s)) : i + 1 \in Texts(s) /\ Tail(s)[i] = s[i + 1] /\ i \in Nat
  BY <1>1 DEF Texts
<1>4. \A i \in Texts(s) : i # 1 => i - 1 \in Texts(Tail(s)) /\ s[i] = Tail(s)[i - 1]
  BY <1>2 DEF Texts
<1>5. \A i \in Texts(s) : i \in Nat /\ i >= 1 /\ s[i].of \in (m + 1)..n
  BY <1>1 DEF Texts, Numbered
<1>6. \A i, j \in Texts(Tail(s)) : i < j => Tail(s)[i].of < Tail(s)[j].of
  <2> SUFFICES ASSUME NEW i \in Texts(Tail(s)), NEW j \in Texts(Tail(s)), i < j
               PROVE  Tail(s)[i].of < Tail(s)[j].of
    OBVIOUS
  <2>1. i + 1 \in Texts(s) /\ j + 1 \in Texts(s) /\ i + 1 < j + 1
    BY <1>3
  <2>2. s[i + 1].of < s[j + 1].of
    BY <2>1 DEF Numbered
  <2> QED BY <2>2, <1>3
<1>t. s[1].turn = t /\ \A i \in DOMAIN Tail(s) : Tail(s)[i].turn = t
  BY <1>1 DEF Numbered
<1>7. CASE s[1].type = "text"
  <2>1. 1 \in Texts(s)
    BY <1>1, <1>7 DEF Texts
  <2>2. s[1].of = m + 1
    <3>1. m + 1 \in (m + 1)..n
      BY <2>1, <1>5
    <3>2. PICK i \in Texts(s) : s[i].of = m + 1
      BY <3>1 DEF Numbered
    <3>3. i = 1 \/ s[1].of < m + 1
      BY <2>1, <3>2, <1>5 DEF Numbered
    <3> QED BY <3>2, <3>3, <2>1, <1>5
  <2>3. \A i \in Texts(Tail(s)) : Tail(s)[i].of \in (m + 2)..n
    <3> SUFFICES ASSUME NEW i \in Texts(Tail(s))
                 PROVE  Tail(s)[i].of \in (m + 2)..n
      OBVIOUS
    <3>1. i + 1 \in Texts(s) /\ Tail(s)[i] = s[i + 1] /\ 1 < i + 1
      BY <1>3, <1>1 DEF Texts
    <3>2. s[1].of < s[i + 1].of
      BY <3>1, <2>1 DEF Numbered
    <3>3. s[i + 1].of \in (m + 1)..n
      BY <3>1, <1>5
    <3>4. s[i + 1].of \in (m + 2)..n
      BY <3>2, <3>3, <2>2
    <3> QED BY <3>1, <3>4
  <2>4. \A k \in (m + 2)..n : \E i \in Texts(Tail(s)) : Tail(s)[i].of = k
    <3> SUFFICES ASSUME NEW k \in (m + 2)..n
                 PROVE  \E i \in Texts(Tail(s)) : Tail(s)[i].of = k
      OBVIOUS
    <3>1. PICK i \in Texts(s) : s[i].of = k
      BY DEF Numbered
    <3>2. i # 1
      BY <3>1, <2>2
    <3> QED BY <3>1, <3>2, <1>4
  <2>5. m + 1 <= n /\ m + 2 = (m + 1) + 1
    BY <2>1, <1>5
  <2>6. Numbered(Tail(s), m + 1, n, t)
    BY <2>3, <2>4, <2>5, <1>6, <1>t DEF Numbered
  <2> QED BY <2>2, <2>5, <2>6, <1>1, <1>7, <1>t
<1>8. CASE s[1].type # "text"
  <2>1. 1 \notin Texts(s)
    BY <1>8 DEF Texts
  <2>2. \A i \in Texts(Tail(s)) : Tail(s)[i].of \in (m + 1)..n
    BY <1>3, <1>5
  <2>3. \A k \in (m + 1)..n : \E i \in Texts(Tail(s)) : Tail(s)[i].of = k
    <3> SUFFICES ASSUME NEW k \in (m + 1)..n
                 PROVE  \E i \in Texts(Tail(s)) : Tail(s)[i].of = k
      OBVIOUS
    <3>1. PICK i \in Texts(s) : s[i].of = k
      BY DEF Numbered
    <3> QED BY <3>1, <2>1, <1>4
  <2>4. Numbered(Tail(s), m, n, t)
    BY <2>2, <2>3, <1>6, <1>t DEF Numbered
  <2> QED BY <2>4, <1>1, <1>8, <1>t
<1> QED BY <1>7, <1>8

(* What is put behind a numbered stream leaves it numbered if it holds no  *)
(* piece.                                                                  *)
LEMMA PutNumbered ==
  ASSUME NEW S, NEW s \in Seq(S), NEW u \in Seq(S), NEW m \in Nat, NEW n \in Nat, NEW t,
         Numbered(s, m, n, t), Texts(u) = {}, \A i \in DOMAIN u : u[i].turn = t
  PROVE  Numbered(s \o u, m, n, t)
<1>1. /\ DOMAIN s = 1..Len(s) /\ DOMAIN u = 1..Len(u) /\ Len(s) \in Nat /\ Len(u) \in Nat
      /\ DOMAIN (s \o u) = 1..(Len(s) + Len(u))
      /\ \A i \in DOMAIN s : (s \o u)[i] = s[i]
      /\ \A i \in DOMAIN (s \o u) : i \notin DOMAIN s => i - Len(s) \in DOMAIN u /\ (s \o u)[i] = u[i - Len(s)]
  OBVIOUS
<1>2. Texts(s \o u) = Texts(s)
  BY <1>1 DEF Texts
<1>3. \A i \in Texts(s) : (s \o u)[i] = s[i]
  BY <1>1 DEF Texts
<1>4. \A i \in DOMAIN (s \o u) : (s \o u)[i].turn = t
  BY <1>1 DEF Numbered
<1> QED BY <1>2, <1>3, <1>4 DEF Numbered

(* The next piece may be put behind it. *)
LEMMA NextNumbered ==
  ASSUME NEW S, NEW s \in Seq(S), NEW e \in S, NEW m \in Nat, NEW n \in Nat, NEW t,
         Numbered(s, m, n, t), e.type = "text", e.turn = t, e.of = n + 1
  PROVE  Numbered(s \o <<e>>, m, n + 1, t)
<1> DEFINE r == s \o <<e>>
<1>1. /\ DOMAIN s = 1..Len(s) /\ Len(s) \in Nat
      /\ DOMAIN r = 1..(Len(s) + 1)
      /\ \A i \in DOMAIN s : r[i] = s[i]
      /\ r[Len(s) + 1] = e
  OBVIOUS
<1> HIDE DEF r
<1>2. Texts(r) = Texts(s) \union {Len(s) + 1}
  BY <1>1 DEF Texts
<1>3. /\ \A i \in Texts(s) : r[i] = s[i] /\ i \in Nat /\ i < Len(s) + 1 /\ s[i].of \in (m + 1)..n
      /\ m <= n
  BY <1>1 DEF Texts, Numbered
<1>4. \A i \in Texts(r) : r[i].of \in (m + 1)..(n + 1)
  BY <1>1, <1>2, <1>3
<1>5. \A k \in (m + 1)..(n + 1) : \E i \in Texts(r) : r[i].of = k
  <2> SUFFICES ASSUME NEW k \in (m + 1)..(n + 1)
               PROVE  \E i \in Texts(r) : r[i].of = k
    OBVIOUS
  <2>1. CASE k = n + 1
    BY <2>1, <1>1, <1>2
  <2>2. CASE k # n + 1
    <3>1. k \in (m + 1)..n
      BY <2>2
    <3>2. PICK i \in Texts(s) : s[i].of = k
      BY <3>1 DEF Numbered
    <3> QED BY <3>2, <1>2, <1>3
  <2> QED BY <2>1, <2>2
<1>6. \A i, j \in Texts(r) : i < j => r[i].of < r[j].of
  <2> SUFFICES ASSUME NEW i \in Texts(r), NEW j \in Texts(r), i < j
               PROVE  r[i].of < r[j].of
    OBVIOUS
  <2>1. i \in Texts(s)
    BY <1>2, <1>3, <1>1
  <2>2. CASE j \in Texts(s)
    BY <2>1, <2>2, <1>3 DEF Numbered
  <2>3. CASE j = Len(s) + 1
    <3>1. r[i].of \in (m + 1)..n
      BY <2>1, <1>3
    <3>2. r[j].of = n + 1
      BY <2>3, <1>1
    <3> QED BY <3>1, <3>2
  <2> QED BY <2>2, <2>3, <1>2
<1>7. m <= n + 1
  BY <1>3
<1>8. Numbered(r, m, n + 1, t)
  <2>1. \A i \in DOMAIN r : i \in DOMAIN s \/ i = Len(s) + 1
    BY <1>1
  <2>2. \A i \in DOMAIN r : r[i].turn = t
    BY <2>1, <1>1 DEF Numbered
  <2> QED BY <2>2, <1>4, <1>5, <1>6, <1>7 DEF Numbered
<1> QED BY <1>8 DEF r

(* A stream without pieces has no piece left to come. *)
LEMMA NoneNumbered ==
  ASSUME NEW s, NEW m \in Nat, NEW n \in Nat, NEW t,
         Numbered(s, m, n, t), Texts(s) = {}
  PROVE  m = n
<1>1. CASE m < n
  <2>1. m + 1 \in (m + 1)..n
    BY <1>1
  <2> QED BY <2>1 DEF Numbered
<1> QED BY <1>1 DEF Numbered

(* An empty stream before the first piece. *)
LEMMA EmptyNumbered ==
  ASSUME NEW t
  PROVE  Numbered(<<>>, 0, 0, t)
<1>1. Texts(<<>>) = {} /\ DOMAIN <<>> = {}
  BY DEF Texts
<1>2. (0 + 1)..0 = {}
  OBVIOUS
<1> QED BY <1>1, <1>2 DEF Numbered

(* What is left of a stream ends as it does. *)
LEMMA TailEnded ==
  ASSUME NEW S, NEW s \in Seq(S), s # <<>>, NEW b, WellEnded(s, b)
  PROVE  WellEnded(Tail(s), b)
<1>1. /\ DOMAIN s = 1..Len(s) /\ Len(s) \in Nat /\ Len(s) >= 1
      /\ DOMAIN Tail(s) = 1..(Len(s) - 1) /\ Len(Tail(s)) = Len(s) - 1
      /\ \A i \in DOMAIN Tail(s) : Tail(s)[i] = s[i + 1] /\ i + 1 \in DOMAIN s
  OBVIOUS
<1> SUFFICES ASSUME NEW i \in DOMAIN Tail(s)
             PROVE  /\ s[i + 1].type \in FromProvider \union {"error", "finished"}
                    /\ s[i + 1].type \in {"done", "error"} =>
                         i = Len(s) - 2 /\ ~b /\ Tail(s)[Len(s) - 1].type = "finished"
                    /\ s[i + 1].type = "finished" => i = Len(s) - 1 /\ ~b
  BY <1>1 DEF WellEnded
<1>2. i \in Nat /\ i >= 1 /\ i + 1 \in DOMAIN s
  BY <1>1
<1>3. Tail(s)[Len(s) - 1] = s[Len(s)]
  <2>1. Len(s) - 1 \in DOMAIN Tail(s)
    BY <1>1, <1>2
  <2> QED BY <2>1, <1>1
<1>4. /\ s[i + 1].type \in FromProvider \union {"error", "finished"}
      /\ s[i + 1].type \in {"done", "error"} =>
           i + 1 = Len(s) - 1 /\ ~b /\ s[Len(s)].type = "finished"
      /\ s[i + 1].type = "finished" => i + 1 = Len(s) /\ ~b
  BY <1>2 DEF WellEnded
<1>5. (i + 1 = Len(s) - 1 => i = Len(s) - 2) /\ (i + 1 = Len(s) => i = Len(s) - 1)
  <2>1. i \in Nat /\ Len(s) \in Nat
    BY <1>1, <1>2
  <2> QED BY <2>1
<1> QED BY <1>3, <1>4, <1>5

(* While the thread reads, only what does not end the stream is there. *)
LEMMA PutEnded ==
  ASSUME NEW S, NEW s \in Seq(S), NEW e \in S, WellEnded(s, TRUE), e.type \in {"text", "call"}
  PROVE  WellEnded(s \o <<e>>, TRUE)
<1> DEFINE r == s \o <<e>>
<1>1. /\ DOMAIN s = 1..Len(s) /\ Len(s) \in Nat
      /\ DOMAIN r = 1..(Len(s) + 1)
      /\ \A i \in DOMAIN s : r[i] = s[i]
      /\ r[Len(s) + 1] = e
  OBVIOUS
<1> HIDE DEF r
<1>2. \A i \in DOMAIN r : i \in DOMAIN s \/ i = Len(s) + 1
  BY <1>1
<1>3. WellEnded(r, TRUE)
  BY <1>1, <1>2 DEF WellEnded, FromProvider
<1> QED BY <1>3 DEF r

(* The end of the stream may then be put. *)
LEMMA PutLast ==
  ASSUME NEW S, NEW s \in Seq(S), NEW u \in Seq(S), WellEnded(s, TRUE), Len(u) >= 2, WellEnded(u, FALSE)
  PROVE  WellEnded(s \o u, FALSE)
<1> DEFINE r == s \o u
<1>1. /\ DOMAIN s = 1..Len(s) /\ DOMAIN u = 1..Len(u) /\ Len(s) \in Nat /\ Len(u) \in Nat
      /\ DOMAIN r = 1..(Len(s) + Len(u)) /\ Len(r) = Len(s) + Len(u)
      /\ \A i \in DOMAIN s : r[i] = s[i]
      /\ \A i \in DOMAIN r : i \notin DOMAIN s => i - Len(s) \in DOMAIN u /\ r[i] = u[i - Len(s)]
  OBVIOUS
<1> HIDE DEF r
<1>2. r[Len(r)] = u[Len(u)]
  BY <1>1
<1> SUFFICES ASSUME NEW i \in DOMAIN r
             PROVE  /\ r[i].type \in FromProvider \union {"error", "finished"}
                    /\ r[i].type \in {"done", "error"} =>
                         i = Len(r) - 1 /\ r[Len(r)].type = "finished"
                    /\ r[i].type = "finished" => i = Len(r)
  BY DEF r, WellEnded
<1>3. CASE i \in DOMAIN s
  BY <1>1, <1>3 DEF WellEnded
<1>4. CASE i \notin DOMAIN s
  <2>1. i - Len(s) \in DOMAIN u /\ r[i] = u[i - Len(s)]
    BY <1>1, <1>4
  <2>2. /\ r[i].type \in FromProvider \union {"error", "finished"}
        /\ r[i].type \in {"done", "error"} =>
             i - Len(s) = Len(u) - 1 /\ u[Len(u)].type = "finished"
        /\ r[i].type = "finished" => i - Len(s) = Len(u)
    BY <2>1 DEF WellEnded
  <2>3. (i - Len(s) = Len(u) - 1 => i = Len(r) - 1) /\ (i - Len(s) = Len(u) => i = Len(r))
    <3>1. i \in Nat /\ Len(s) \in Nat /\ Len(u) \in Nat /\ Len(r) = Len(s) + Len(u)
      BY <1>1
    <3> QED BY <3>1
  <2> QED BY <2>2, <2>3, <1>2
<1> QED BY <1>3, <1>4

-------------------------------------------------------------------------------
(* What a response becomes.                                                *)

(* What the thread puts, and what is stored and sent, has its type. *)
LEMMA EventTypes ==
  ASSUME TypeOK
  PROVE  /\ \A k \in Nat : About("text", k) \in Events /\ About("text_done", k) \in Events
                           /\ About("text", k) \in Items
         /\ \A c \in Calls : /\ About("call", c) \in Events /\ About("call_done", c) \in Events
                             /\ About("tool_called", c) \in Events /\ About("tool_ended", c) \in Events
                             /\ About("call", c) \in Items /\ About("output", c) \in Items
         /\ Mark("done") \in Events /\ Mark("finished") \in Events /\ Mark("error") \in Events
  BY DEF TypeOK, About, Mark, Events, Items, Ofs, FromProvider

(* _finalize_stream_state puts no piece of text, and the response last. *)
LEMMA FinalPut ==
  ASSUME TypeOK
  PROVE  /\ Final \in Seq(Events) /\ Texts(Final) = {} /\ Len(Final) >= 2 /\ WellEnded(Final, FALSE)
         /\ \A i \in DOMAIN Final : Final[i].turn = turns
<1> DEFINE a == IF read.text = 0 THEN <<>> ELSE <<About("text_done", read.text)>>
           b == [i \in DOMAIN read.calls |-> About("call_done", read.calls[i])]
<1>1. /\ read.calls \in Seq(Calls) /\ read.text \in Nat
      /\ DOMAIN read.calls = 1..Len(read.calls) /\ Len(read.calls) \in Nat
      /\ \A i \in DOMAIN read.calls : read.calls[i] \in Calls
  BY DEF TypeOK, Reads
<1>2. /\ a \in Seq(Events) /\ Len(a) \in Nat /\ DOMAIN a = 1..Len(a)
      /\ \A i \in DOMAIN a : a[i].type = "text_done" /\ a[i].turn = turns
  <2>1. About("text_done", read.text) \in Events /\ About("text_done", read.text).type = "text_done"
        /\ About("text_done", read.text).turn = turns
    BY <1>1, EventTypes DEF About
  <2>2. CASE read.text = 0
    <3>1. a = <<>>
      BY <2>2
    <3> HIDE DEF a
    <3> QED BY <3>1
  <2>3. CASE read.text # 0
    <3>1. a = <<About("text_done", read.text)>>
      BY <2>3
    <3> HIDE DEF a
    <3> QED BY <3>1, <2>1
  <2> QED BY <2>2, <2>3
<1>3. /\ b \in Seq(Events) /\ Len(b) \in Nat /\ DOMAIN b = 1..Len(b)
      /\ \A i \in DOMAIN b : b[i].type = "call_done" /\ b[i].turn = turns
  <2>1. \A i \in 1..Len(read.calls) : b[i] \in Events /\ b[i].type = "call_done" /\ b[i].turn = turns
    BY <1>1, EventTypes DEF About
  <2>2. b = [i \in 1..Len(read.calls) |-> About("call_done", read.calls[i])]
    BY <1>1
  <2>3. b \in [1..Len(read.calls) -> Events] /\ DOMAIN b = 1..Len(read.calls)
    BY <2>1, <2>2
  <2> HIDE DEF b
  <2>4. b \in Seq(Events)
    BY <2>3, <1>1, SeqDef
  <2>5. Len(b) \in Nat /\ DOMAIN b = 1..Len(b)
    BY <2>4
  <2> QED BY <2>1, <2>3, <2>4, <2>5, <1>1
<1>4. /\ Mark("done") \in Events /\ Mark("finished") \in Events
      /\ Mark("done").type = "done" /\ Mark("finished").type = "finished"
      /\ Mark("done").turn = turns /\ Mark("finished").turn = turns
  BY EventTypes DEF Mark, About
<1>5. Final = (a \o b) \o <<Mark("done"), Mark("finished")>>
  BY DEF Final
<1> HIDE DEF a, b
<1> DEFINE c == a \o b
<1>6. /\ c \in Seq(Events) /\ Len(c) \in Nat /\ DOMAIN c = 1..Len(c)
      /\ \A i \in DOMAIN c : c[i].type \in {"text_done", "call_done"} /\ c[i].turn = turns
  <2>1. /\ c \in Seq(Events) /\ Len(c) = Len(a) + Len(b) /\ DOMAIN c = 1..Len(c)
        /\ \A i \in DOMAIN c : (i \in DOMAIN a /\ c[i] = a[i]) \/ (i - Len(a) \in DOMAIN b /\ c[i] = b[i - Len(a)])
    BY <1>2, <1>3
  <2> HIDE DEF c
  <2> QED BY <2>1, <1>2, <1>3
<1>7. Final = c \o <<Mark("done"), Mark("finished")>>
  BY <1>5
<1> HIDE DEF c
<1>8. /\ Final \in Seq(Events) /\ Len(Final) = Len(c) + 2 /\ DOMAIN Final = 1..Len(Final)
      /\ \A i \in DOMAIN c : Final[i] = c[i]
      /\ Final[Len(c) + 1] = Mark("done") /\ Final[Len(c) + 2] = Mark("finished")
  <2> QED BY <1>4, <1>6, <1>7, JoinedPair
<1>9. \A i \in DOMAIN Final : i \in DOMAIN c \/ i = Len(c) + 1 \/ i = Len(c) + 2
  BY <1>6, <1>8
<1>10. Texts(Final) = {}
  BY <1>4, <1>6, <1>8, <1>9 DEF Texts
<1>11. WellEnded(Final, FALSE)
  <2>1. \A i \in DOMAIN c : Final[i].type \in {"text_done", "call_done"}
    BY <1>6, <1>8
  <2>2. Final[Len(c) + 1].type = "done" /\ Final[Len(c) + 2].type = "finished"
    BY <1>4, <1>8
  <2>3. Len(c) + 1 = Len(Final) - 1 /\ Len(c) + 2 = Len(Final)
    BY <1>6, <1>8
  <2> SUFFICES ASSUME NEW i \in DOMAIN Final
               PROVE  /\ Final[i].type \in FromProvider \union {"error", "finished"}
                      /\ Final[i].type \in {"done", "error"} =>
                           i = Len(Final) - 1 /\ Final[Len(Final)].type = "finished"
                      /\ Final[i].type = "finished" => i = Len(Final)
    BY DEF WellEnded
  <2>4. CASE i \in DOMAIN c
    BY <2>4, <2>1 DEF FromProvider
  <2>5. CASE i = Len(c) + 1
    BY <2>5, <2>2, <2>3 DEF FromProvider
  <2>6. CASE i = Len(c) + 2
    BY <2>6, <2>2, <2>3 DEF FromProvider
  <2> QED BY <2>4, <2>5, <2>6, <1>9
<1>12. Len(Final) >= 2
  BY <1>6, <1>8
<1>13. \A i \in DOMAIN Final : Final[i].turn = turns
  BY <1>4, <1>6, <1>8, <1>9
<1> QED BY <1>8, <1>10, <1>11, <1>12, <1>13

(* store_provider_output stores the text of a response in one item, if it  *)
(* has one, and its calls.                                                 *)
LEMMA OutputStored ==
  ASSUME TypeOK, response \in Reads
  PROVE  /\ OutputItems \in Seq(Items)
         /\ \A i \in DOMAIN OutputItems : OutputItems[i].type \in {"text", "call"} /\ OutputItems[i].turn = turns
         /\ response.text = 0 => Texts(OutputItems) = {}
         /\ response.text # 0 => Texts(OutputItems) = {1} /\ OutputItems[1].of = response.text
         /\ Kept(OutputItems, "call") = CallsIn(response.calls)
         /\ Kept(OutputItems, "output") = {}
<1> DEFINE a == IF response.text = 0 THEN <<>> ELSE <<About("text", response.text)>>
           b == [i \in DOMAIN response.calls |-> About("call", response.calls[i])]
           o == OutputItems
<1>1. /\ response.calls \in Seq(Calls) /\ response.text \in Nat
      /\ DOMAIN response.calls = 1..Len(response.calls) /\ Len(response.calls) \in Nat
      /\ \A i \in DOMAIN response.calls : response.calls[i] \in Calls
  BY DEF Reads
<1>2. /\ a \in Seq(Items) /\ Len(a) \in Nat /\ DOMAIN a = 1..Len(a)
      /\ \A i \in DOMAIN a : a[i].type = "text" /\ a[i].turn = turns
      /\ response.text = 0 => Len(a) = 0
      /\ response.text # 0 => Len(a) = 1 /\ a[1].of = response.text
  <2>1. /\ About("text", response.text) \in Items /\ About("text", response.text).type = "text"
        /\ About("text", response.text).turn = turns /\ About("text", response.text).of = response.text
    BY <1>1, EventTypes DEF About
  <2>2. CASE response.text = 0
    <3>1. a = <<>>
      BY <2>2
    <3> HIDE DEF a
    <3> QED BY <3>1, <2>2
  <2>3. CASE response.text # 0
    <3>1. a = <<About("text", response.text)>>
      BY <2>3
    <3> HIDE DEF a
    <3> QED BY <3>1, <2>1, <2>3
  <2> QED BY <2>2, <2>3
<1>3. /\ b \in Seq(Items) /\ Len(b) \in Nat /\ DOMAIN b = 1..Len(b) /\ DOMAIN b = DOMAIN response.calls
      /\ \A i \in DOMAIN b : b[i].type = "call" /\ b[i].turn = turns /\ b[i].of = response.calls[i]
  <2>1. \A i \in 1..Len(response.calls) :
          b[i] \in Items /\ b[i].type = "call" /\ b[i].turn = turns /\ b[i].of = response.calls[i]
    BY <1>1, EventTypes DEF About
  <2>2. b = [i \in 1..Len(response.calls) |-> About("call", response.calls[i])]
    BY <1>1
  <2>3. b \in [1..Len(response.calls) -> Items] /\ DOMAIN b = 1..Len(response.calls)
    BY <2>1, <2>2
  <2> HIDE DEF b
  <2>4. b \in Seq(Items)
    BY <2>3, <1>1, SeqDef
  <2>5. Len(b) \in Nat /\ DOMAIN b = 1..Len(b)
    BY <2>4
  <2> QED BY <2>1, <2>3, <2>4, <2>5, <1>1
<1>4. o = a \o b
  BY DEF OutputItems
<1> HIDE DEF a, b
<1>5. /\ o \in Seq(Items) /\ Len(o) = Len(a) + Len(b) /\ DOMAIN o = 1..(Len(a) + Len(b))
      /\ \A i \in DOMAIN a : i \in DOMAIN o /\ o[i] = a[i]
      /\ \A i \in DOMAIN b : i + Len(a) \in DOMAIN o /\ o[i + Len(a)] = b[i]
      /\ \A i \in DOMAIN o : i \in DOMAIN a \/ (i - Len(a) \in DOMAIN b /\ o[i] = b[i - Len(a)])
  BY <1>2, <1>3, <1>4
<1> HIDE DEF o
<1>6. \A i \in DOMAIN o : o[i].type \in {"text", "call"} /\ o[i].turn = turns
  BY <1>2, <1>3, <1>5
<1>7. Texts(o) = DOMAIN a
  BY <1>2, <1>3, <1>5 DEF Texts
<1>8. response.text = 0 => Texts(o) = {}
  BY <1>7, <1>2
<1>9. response.text # 0 => Texts(o) = {1} /\ o[1].of = response.text
  BY <1>7, <1>2, <1>5
<1>10. Kept(o, "output") = {}
  BY <1>6 DEF Kept
<1>11. Kept(o, "call") = CallsIn(response.calls)
  <2>1. ASSUME NEW c \in Kept(o, "call")
        PROVE  c \in CallsIn(response.calls)
    <3>1. PICK i \in DOMAIN o : o[i].type = "call" /\ o[i].of = c
      BY <2>1 DEF Kept
    <3>2. i \notin DOMAIN a
      BY <3>1, <1>2, <1>5
    <3>3. i - Len(a) \in DOMAIN response.calls /\ o[i].of = response.calls[i - Len(a)]
      BY <3>2, <1>3, <1>5
    <3> QED BY <3>1, <3>3 DEF CallsIn
  <2>2. ASSUME NEW c \in CallsIn(response.calls)
        PROVE  c \in Kept(o, "call")
    <3>1. PICK i \in DOMAIN response.calls : response.calls[i] = c
      BY <2>2 DEF CallsIn
    <3>2. i \in DOMAIN b /\ b[i].type = "call" /\ b[i].of = c
      BY <3>1, <1>3
    <3>3. i + Len(a) \in DOMAIN o /\ o[i + Len(a)].type = "call" /\ o[i + Len(a)].of = c
      BY <3>2, <1>5
    <3> QED BY <3>3 DEF Kept
  <2> QED BY <2>1, <2>2
<1> QED BY <1>5, <1>6, <1>8, <1>9, <1>10, <1>11 DEF o

-------------------------------------------------------------------------------
(* What the run finds when it takes an event, and when it looks at it.     *)

(* While it waits, the run has nothing in hand. *)
LEMMA FoundAhead ==
  ASSUME IInv, pc = "waiting"
  PROVE  /\ hand = None /\ Ahead = queue
         /\ WellEnded(queue, reader) /\ Numbered(queue, partial, read.text, turns)
<1>1. hand = None
  BY DEF IInv, HandInv
<1>2. Ahead = queue
  BY <1>1 DEF Ahead, AheadOf
<1> QED BY <1>1, <1>2 DEF IInv, StreamInv, Live

(* What is in hand is the first of what the run has ahead of it. *)
LEMMA HandIsFirst ==
  ASSUME TypeOK, hand # None
  PROVE  /\ hand \in Events /\ Ahead \in Seq(Events) /\ Ahead # <<>>
         /\ Head(Ahead) = hand /\ Tail(Ahead) = queue
         /\ 1 \in DOMAIN Ahead /\ Ahead[1] = hand /\ Len(Ahead) = Len(queue) + 1
<1>1. hand \in Events /\ queue \in Seq(Events)
  BY DEF TypeOK
<1>2. Ahead = <<hand>> \o queue
  BY DEF Ahead, AheadOf
<1> QED BY <1>1, <1>2

(* The event in hand is the next piece, and after the response nothing *)
(* but the end of the stream is left.                                   *)
LEMMA FoundInHand ==
  ASSUME IInv, pc = "taken"
  PROVE  /\ hand # None /\ hand \in Events /\ hand.type \in FromProvider \union {"error"}
         /\ hand.turn = turns
         /\ WellEnded(queue, reader)
         /\ hand.type = "text" => /\ hand.of = partial + 1
                                  /\ partial + 1 <= read.text /\ partial + 1 <= MaxText
                                  /\ Numbered(queue, partial + 1, read.text, turns)
         /\ hand.type # "text" => Numbered(queue, partial, read.text, turns)
         /\ hand.type \in {"done", "error"} =>
              /\ ~reader
              /\ \A i \in DOMAIN queue : queue[i].type = "finished"
         /\ hand.type = "done" => partial = read.text
<1>1. hand # None /\ TypeOK
  BY DEF IInv, HandInv
<1>2. /\ hand \in Events /\ Ahead \in Seq(Events) /\ Ahead # <<>>
      /\ Head(Ahead) = hand /\ Tail(Ahead) = queue
      /\ 1 \in DOMAIN Ahead /\ Ahead[1] = hand /\ Len(Ahead) = Len(queue) + 1
  BY <1>1, HandIsFirst
<1>3. WellEnded(Ahead, reader) /\ Numbered(Ahead, partial, read.text, turns)
  BY DEF IInv, StreamInv, Live
<1>4. partial \in Nat /\ read.text \in Nat /\ read.text <= MaxText /\ MaxText \in Nat /\ queue \in Seq(Events)
      /\ DOMAIN queue = 1..Len(queue) /\ Len(queue) \in Nat /\ turns \in Nat
  BY <1>1, StreamRunAssumption DEF TypeOK, Reads
<1>6. WellEnded(queue, reader)
  BY <1>2, <1>3, TailEnded
<1>7. /\ Head(Ahead).turn = turns
      /\ Head(Ahead).type = "text" => /\ Head(Ahead).of = partial + 1
                                      /\ partial + 1 <= read.text
                                      /\ Numbered(Tail(Ahead), partial + 1, read.text, turns)
      /\ Head(Ahead).type # "text" => Numbered(Tail(Ahead), partial, read.text, turns)
  BY <1>2, <1>3, <1>4, TailNumbered
<1>8. /\ hand.turn = turns
      /\ hand.type = "text" => /\ hand.of = partial + 1 /\ partial + 1 <= read.text
                               /\ Numbered(queue, partial + 1, read.text, turns)
      /\ hand.type # "text" => Numbered(queue, partial, read.text, turns)
  BY <1>2, <1>7
<1>9. ASSUME hand.type \in {"done", "error"}
      PROVE  ~reader /\ \A i \in DOMAIN queue : queue[i].type = "finished"
  <2>1. 1 = Len(Ahead) - 1 /\ ~reader /\ Ahead[Len(Ahead)].type = "finished"
    BY <1>2, <1>3, <1>9 DEF WellEnded
  <2>2. Len(queue) = 1
    BY <2>1, <1>2, <1>4
  <2>3. Ahead[2] = queue[1]
    BY <1>1, <1>2, <1>4, <2>2 DEF Ahead, AheadOf
  <2> QED BY <2>1, <2>2, <2>3, <1>2, <1>4
<1>10. ASSUME hand.type = "done"
       PROVE  partial = read.text
  <2>1. Texts(queue) = {}
    BY <1>9, <1>10 DEF Texts
  <2> QED BY <2>1, <1>4, <1>8, <1>10, NoneNumbered
<1>11. hand.type # "finished"
  BY <1>1 DEF IInv, HandInv
<1>12. hand.type \in FromProvider \union {"error", "finished"}
  BY <1>2, <1>3 DEF WellEnded
<1> QED BY <1>1, <1>2, <1>4, <1>6, <1>8, <1>9, <1>10, <1>11, <1>12

(* Its type is kept by every step. *)
LEMMA TypeStep ==
  ASSUME IInv, [Next]_vars
  PROVE  TypeOK'
<1>t. TypeOK /\ StreamRunAssumption
  BY StreamRunAssumption DEF IInv
<1>c. /\ MaxTurns \in Nat /\ MaxText \in Nat /\ turns \in Nat /\ read \in Reads /\ read.text \in 0..MaxText
      /\ read.calls \in Seq(Calls) /\ Empty \in Reads
  BY <1>t DEF TypeOK, Reads, Empty
<1>d. /\ read.text < MaxText => [read EXCEPT !.text = @ + 1] \in Reads
      /\ \A c \in Calls : [read EXCEPT !.calls = Append(@, c)] \in Reads
  <2>1. read.text < MaxText => read.text + 1 \in 0..MaxText
    BY <1>c
  <2>2. \A c \in Calls : Append(read.calls, c) \in Seq(Calls)
    BY <1>c
  <2> QED BY <2>1, <2>2, <1>c DEF Reads
<1>s. /\ \A e \in Events : Append(buffer, e) \in Seq(Events)
      /\ \A e \in Items : Append(stored, e) \in Seq(Items)
      /\ \A s \in Seq(Items) : stored \o s \in Seq(Items)
      /\ <<>> \in Seq(Items) /\ stored \in Seq(Items) /\ buffer \in Seq(Events)
      /\ todo \in Seq(Calls) /\ waits \in SUBSET Calls
  BY <1>t DEF TypeOK
<1>e. Mark("error") \in Events /\ Mark("finished") \in Events
  BY <1>t, EventTypes
<1> USE DEF vars, stream, turn, rows
<1>1. CASE UNCHANGED vars
  BY <1>t, <1>1 DEF TypeOK
<1>2. ASSUME ReadText PROVE TypeOK'
  <2>1. About("text", read.text + 1) \in Events
    BY <1>t, <1>c, EventTypes
  <2>2. queue' \in Seq(Events)
    BY <2>1, <1>2, <1>t DEF ReadText, Put, TypeOK
  <2>3. read' \in Reads
    BY <1>c, <1>d, <1>2 DEF ReadText
  <2> QED BY <2>2, <2>3, <1>2, <1>t DEF ReadText, TypeOK
<1>3. ASSUME NEW c \in Calls, ReadCall(c) PROVE TypeOK'
  <2>1. About("call", c) \in Events
    BY <1>t, EventTypes
  <2>2. queue' \in Seq(Events)
    BY <2>1, <1>3, <1>t DEF ReadCall, Put, TypeOK
  <2>3. read' \in Reads
    BY <1>d, <1>3 DEF ReadCall
  <2> QED BY <2>2, <2>3, <1>3, <1>t DEF ReadCall, TypeOK
<1>4. ASSUME EndResponse PROVE TypeOK'
  <2>1. Final \in Seq(Events)
    BY <1>t, FinalPut
  <2>2. queue' \in Seq(Events)
    BY <2>1, <1>4, <1>t DEF EndResponse, Put, TypeOK
  <2> QED BY <2>2, <1>4, <1>t DEF EndResponse, TypeOK
<1>5. ASSUME FailResponse PROVE TypeOK'
  <2>1. queue' \in Seq(Events)
    BY <1>e, <1>5, <1>t DEF FailResponse, Put, TypeOK
  <2> QED BY <2>1, <1>5, <1>t DEF FailResponse, TypeOK
<1>6. ASSUME StartTurn PROVE TypeOK'
  <2>1. stored' \in Seq(Items)
    BY <1>6, <1>s DEF StartTurn, Escape, Fail
  <2>2. read' \in {read, Empty} /\ queue' \in {queue, <<>>} /\ partial' \in {partial, 0}
    BY <1>6 DEF StartTurn
  <2>4. read' \in Reads /\ queue' \in Seq(Events) /\ partial' \in 0..MaxText
    <3>1. queue \in Seq(Events) /\ partial \in 0..MaxText
      BY <1>t DEF TypeOK
    <3>2. 0 \in 0..MaxText
      BY <1>c
    <3>3. read' \in Reads
      BY <2>2, <1>c
    <3>4. <<>> \in Seq(Events)
      OBVIOUS
    <3> QED BY <3>1, <3>2, <3>3, <3>4, <2>2
  <2>3. shown' \in SUBSET Events
    BY <1>6, <1>t, <1>e DEF StartTurn, TypeOK, Fail, Escape, Show
  <2> QED BY <2>1, <2>3, <2>4, <1>6, <1>t DEF StartTurn, TypeOK, Finish, Fail, Escape, PCs
<1>7. ASSUME Take PROVE TypeOK'
  <2>1. Head(queue) \in Events /\ Tail(queue) \in Seq(Events)
    BY <1>7, <1>t DEF Take, TypeOK
  <2> QED BY <2>1, <1>7, <1>t DEF Take, TypeOK, PCs
<1>8. ASSUME Wake PROVE TypeOK'
  BY <1>8, <1>t DEF Wake, TypeOK, PCs
<1>9. ASSUME Look PROVE TypeOK'
  <2>1. /\ hand \in Events /\ partial \in 0..MaxText /\ partial + 1 \in Nat
        /\ hand.type = "text" => partial + 1 \in 0..MaxText
    BY <1>9, <1>t, <1>c, FoundInHand DEF Look, TypeOK
  <2>2. /\ partial' = IF hand.type = "text" THEN partial + 1 ELSE partial
        /\ partial' \in 0..MaxText
    BY <2>1, <1>9 DEF Look
  <2>3. About("text", partial') \in Items
    BY <2>2, <1>t, <1>c, EventTypes
  <2>4. /\ SendOn \/ \E st \in {"cancelled", "failed"} : Stop(partial', st)
        /\ UNCHANGED <<reader, cut, signal, read, queue, buffer, todo, waits, turns>>
        /\ hand' = None
    BY <1>9 DEF Look
  <2>5. CASE SendOn
    BY <2>1, <2>2, <2>4, <2>5, <1>t, <1>c DEF SendOn, Show, TypeOK, PCs
  <2>6. ASSUME NEW st \in {"cancelled", "failed"}, Stop(partial', st) PROVE TypeOK'
    <3>1. stored' \in Seq(Items)
      BY <2>3, <2>6, <1>t DEF Stop, StorePartial, TypeOK
    <3> QED BY <3>1, <2>1, <2>2, <2>4, <2>6, <1>t DEF Stop, Finish, TypeOK, PCs
  <2> QED BY <2>4, <2>5, <2>6
<1>10. ASSUME Sent PROVE TypeOK'
  <2>1. About("text", partial) \in Items
    BY <1>t, <1>c, EventTypes DEF TypeOK
  <2>2. stored' \in Seq(Items)
    BY <2>1, <1>10, <1>s DEF Sent, Stop, StorePartial
  <2> QED BY <2>2, <1>10, <1>t DEF Sent, Stop, Finish, TypeOK, PCs
<1>11. ASSUME Over PROVE TypeOK'
  <2>1. About("text", partial) \in Items
    BY <1>t, <1>c, EventTypes DEF TypeOK
  <2>2. response # None => /\ response \in Reads /\ response.calls \in Seq(Calls) /\ OutputItems \in Seq(Items)
    BY <1>t, OutputStored DEF TypeOK, Reads
  <2>3. stored' \in Seq(Items)
    BY <2>1, <2>2, <1>11, <1>s DEF Over, StorePartial, Escape
  <2>4. todo' \in Seq(Calls)
    BY <2>2, <1>11, <1>t DEF Over, TypeOK
  <2> QED BY <2>3, <2>4, <1>e, <1>11, <1>t DEF Over, Finish, Fail, Escape, Show, TypeOK, PCs
<1>12. ASSUME BeginCall PROVE TypeOK'
  <2>1. About("tool_called", Head(todo)) \in Events
    BY <1>12, <1>t, EventTypes DEF BeginCall, TypeOK
  <2>2. buffer' \in Seq(Events)
    BY <2>1, <1>12, <1>s DEF BeginCall
  <2>3. stored' \in Seq(Items)
    BY <1>12, <1>s DEF BeginCall, Escape
  <2> QED BY <2>2, <2>3, <1>e, <1>12, <1>t DEF BeginCall, Escape, Show, TypeOK, PCs
<1>13. ASSUME EndCall PROVE TypeOK'
  <2>1. Head(todo) \in Calls /\ Tail(todo) \in Seq(Calls)
    BY <1>13, <1>t DEF EndCall, TypeOK, IInv, PlaceInv
  <2>2. About("tool_ended", Head(todo)) \in Events /\ About("output", Head(todo)) \in Items
    BY <2>1, <1>t, EventTypes
  <2>3. buffer' \in Seq(Events) /\ todo' \in Seq(Calls) /\ waits' \in SUBSET Calls
    BY <2>1, <2>2, <1>13, <1>s DEF EndCall
  <2>4. stored' \in Seq(Items)
    BY <2>2, <1>13, <1>s DEF EndCall, Escape
  <2> QED BY <2>3, <2>4, <1>e, <1>13, <1>t DEF EndCall, Escape, Show, TypeOK, PCs
<1>14. ASSUME Drain PROVE TypeOK'
  <2>1. Head(buffer) \in Events /\ Tail(buffer) \in Seq(Events)
    BY <1>14, <1>t DEF Drain, TypeOK
  <2> QED BY <2>1, <1>14, <1>t DEF Drain, Show, TypeOK, PCs
<1>15. ASSUME EndTurn PROVE TypeOK'
  <2>1. turns < MaxTurns
    BY <1>15 DEF EndTurn, IInv, PlaceInv
  <2> QED BY <2>1, <1>15, <1>t, <1>c DEF EndTurn, Finish, TypeOK, PCs
<1>16. ASSUME EndError PROVE TypeOK'
  BY <1>16, <1>t DEF EndError, TypeOK, PCs
<1>17. ASSUME Cancel PROVE TypeOK'
  BY <1>17, <1>t DEF Cancel, TypeOK
<1>18. ASSUME Leave PROVE TypeOK'
  BY <1>18, <1>t DEF Leave, TypeOK, PCs
<1> QED BY <1>1, <1>2, <1>3, <1>4, <1>5, <1>6, <1>7, <1>8, <1>9, <1>10, <1>11, <1>12, <1>13, <1>14, <1>15, <1>16, <1>17, <1>18
        DEF Next, Read, Run

-------------------------------------------------------------------------------
(* The stream.                                                             *)

(* What the thread puts comes behind all that the run has ahead of it. *)
LEMMA AheadGrows ==
  ASSUME NEW h \in Events \union {None}, NEW q \in Seq(Events), NEW u \in Seq(Events)
  PROVE  AheadOf(h, q) \in Seq(Events) /\ AheadOf(h, q \o u) = AheadOf(h, q) \o u
<1>1. CASE h = None
  BY <1>1 DEF AheadOf
<1>2. CASE h # None
  <2>1. <<h>> \in Seq(Events)
    BY <1>2
  <2>2. <<h>> \o (q \o u) = (<<h>> \o q) \o u
    BY <2>1, ConcatAssociative
  <2>3. <<h>> \o q \in Seq(Events)
    BY <2>1
  <2> QED BY <2>2, <2>3, <1>2 DEF AheadOf
<1> QED BY <1>1, <1>2

(* The stream stays numbered and well ended, whoever steps. *)
LEMMA StreamStep ==
  ASSUME IInv, [Next]_vars
  PROVE  StreamInv'
<1>t. TypeOK /\ WellEnded(Ahead, reader) /\ (Live => Numbered(Ahead, partial, read.text, turns))
  BY DEF IInv, StreamInv
<1>c. /\ partial \in Nat /\ read \in Reads /\ read.text \in Nat /\ reader \in BOOLEAN /\ Ahead \in Seq(Events)
      /\ queue \in Seq(Events) /\ hand \in Events \union {None}
  BY <1>t, HandIsFirst DEF TypeOK, Reads, Ahead, AheadOf
<1>s. ASSUME UNCHANGED <<hand, queue, reader>>, Live' => Live /\ UNCHANGED <<partial, read, turns>>
      PROVE  StreamInv'
  <2>1. Ahead' = Ahead
    BY <1>s DEF Ahead, AheadOf
  <2>2. WellEnded(Ahead', reader')
    BY <2>1, <1>s, <1>t
  <2>3. Live' => Numbered(Ahead', partial', read'.text, turns')
    BY <2>1, <1>s, <1>t
  <2> QED BY <2>2, <2>3 DEF StreamInv
<1> USE DEF vars, stream, turn, rows
<1>1. CASE UNCHANGED vars
  BY <1>1, <1>s DEF Live
<1>2. ASSUME ReadText PROVE StreamInv'
  <2> DEFINE e == About("text", read.text + 1)
  <2>1. e \in Events /\ e.type = "text" /\ e.turn = turns /\ e.of = read.text + 1
    <3>1. read.text + 1 \in Nat
      BY <1>c
    <3>2. e \in Events
      BY <3>1, <1>t, EventTypes
    <3> QED BY <3>2 DEF About
  <2>2. reader = TRUE /\ reader' = TRUE /\ queue' = queue \o <<e>> /\ UNCHANGED <<hand, partial, turns, pc>>
        /\ read'.text = read.text + 1
    BY <1>2, <1>c DEF ReadText, Put, Reads
  <2> HIDE DEF e
  <2>3. Ahead' = Ahead \o <<e>>
    <3>1. <<e>> \in Seq(Events)
      BY <2>1
    <3> QED BY <3>1, <2>2, <1>c, AheadGrows DEF Ahead
  <2>4. WellEnded(Ahead \o <<e>>, TRUE)
    BY <2>1, <2>2, <1>t, <1>c, PutEnded
  <2>5. Live => Numbered(Ahead \o <<e>>, partial, read.text + 1, turns)
    BY <2>1, <2>2, <1>t, <1>c, NextNumbered
  <2> QED BY <2>2, <2>3, <2>4, <2>5 DEF StreamInv, Live
<1>3. ASSUME NEW c \in Calls, ReadCall(c) PROVE StreamInv'
  <2> DEFINE e == About("call", c)
  <2>1. e \in Events /\ e.type = "call" /\ e.turn = turns
    BY <1>t, <1>c, EventTypes DEF About
  <2>2. reader = TRUE /\ reader' = TRUE /\ queue' = queue \o <<e>> /\ UNCHANGED <<hand, partial, turns, pc>>
        /\ read'.text = read.text
    BY <1>3, <1>c DEF ReadCall, Put, Reads
  <2> HIDE DEF e
  <2>3. Ahead' = Ahead \o <<e>>
    <3>1. <<e>> \in Seq(Events)
      BY <2>1
    <3> QED BY <3>1, <2>2, <1>c, AheadGrows DEF Ahead
  <2>4. WellEnded(Ahead \o <<e>>, TRUE)
    BY <2>1, <2>2, <1>t, <1>c, PutEnded
  <2>5. Texts(<<e>>) = {} /\ <<e>> \in Seq(Events) /\ \A i \in DOMAIN <<e>> : <<e>>[i].turn = turns
    BY <2>1 DEF Texts
  <2>6. Live => Numbered(Ahead \o <<e>>, partial, read.text, turns)
    BY <2>5, <1>t, <1>c, PutNumbered
  <2> QED BY <2>2, <2>3, <2>4, <2>6 DEF StreamInv, Live
<1>e. ASSUME NEW STATE u, u \in Seq(Events), Texts(u) = {}, Len(u) >= 2, WellEnded(u, FALSE),
             \A i \in DOMAIN u : u[i].turn = turns, reader, ~reader', queue' = queue \o u,
             UNCHANGED <<hand, partial, read, turns, pc>>
      PROVE  StreamInv'
  <2>1. Ahead' = Ahead \o u
    BY <1>e, <1>c, AheadGrows DEF Ahead
  <2>2. reader = TRUE /\ reader' = FALSE
    BY <1>e, <1>c, TypeStep DEF TypeOK
  <2>3. WellEnded(Ahead \o u, FALSE)
    BY <2>2, <1>e, <1>t, <1>c, PutLast
  <2>4. Live => Numbered(Ahead \o u, partial, read.text, turns)
    BY <1>e, <1>t, <1>c, PutNumbered
  <2> QED BY <2>1, <2>2, <2>3, <2>4, <1>e DEF StreamInv, Live
<1>4. ASSUME EndResponse PROVE StreamInv'
  <2>1. /\ Final \in Seq(Events) /\ Texts(Final) = {} /\ Len(Final) >= 2 /\ WellEnded(Final, FALSE)
        /\ \A i \in DOMAIN Final : Final[i].turn = turns
    BY <1>t, FinalPut
  <2>2. reader /\ ~reader' /\ queue' = queue \o Final /\ UNCHANGED <<hand, partial, read, turns, pc>>
    BY <1>4 DEF EndResponse, Put
  <2> QED BY <2>1, <2>2, <1>e
<1>5. ASSUME FailResponse PROVE StreamInv'
  <2> DEFINE u == <<Mark("error"), Mark("finished")>>
  <2>1. /\ Mark("error") \in Events /\ Mark("finished") \in Events
        /\ Mark("error").type = "error" /\ Mark("finished").type = "finished"
        /\ Mark("error").turn = turns /\ Mark("finished").turn = turns
    BY <1>t, EventTypes DEF Mark, About
  <2>2. u \in Seq(Events) /\ Len(u) = 2 /\ DOMAIN u = 1..2 /\ u[1].type = "error" /\ u[2].type = "finished"
        /\ u[1].turn = turns /\ u[2].turn = turns
    BY <2>1
  <2>3. reader /\ ~reader' /\ queue' = queue \o u /\ UNCHANGED <<hand, partial, read, turns, pc>>
    BY <1>5 DEF FailResponse, Put
  <2> HIDE DEF u
  <2>4. \A i \in DOMAIN u : i = 1 \/ i = 2
    BY <2>2
  <2>5. Texts(u) = {}
    BY <2>2, <2>4 DEF Texts
  <2>6. WellEnded(u, FALSE)
    BY <2>2, <2>4 DEF WellEnded, FromProvider
  <2>7. u \in Seq(Events) /\ Len(u) >= 2 /\ \A i \in DOMAIN u : u[i].turn = turns
    BY <2>2, <2>4
  <2> QED BY <2>3, <2>5, <2>6, <2>7, <1>e
<1>6. ASSUME StartTurn PROVE StreamInv'
  <2>1. CASE pc' # "waiting"
    <3>1. UNCHANGED <<hand, queue, reader>> /\ ~Live'
      BY <1>6, <2>1 DEF StartTurn, Finish, Fail, Escape, Live
    <3> QED BY <3>1, <1>s
  <2>2. CASE pc' = "waiting"
    <3>1. /\ read' = Empty /\ queue' = <<>> /\ partial' = 0 /\ hand' = hand
      BY <1>6, <2>2 DEF StartTurn, Finish, Fail, Escape
    <3>2. hand = None
      BY <1>6 DEF StartTurn, IInv, HandInv
    <3>3. Ahead' = <<>>
      BY <3>1, <3>2 DEF Ahead, AheadOf
    <3>4. WellEnded(Ahead', reader')
      BY <3>3 DEF WellEnded
    <3>5. Numbered(Ahead', partial', read'.text, turns')
      BY <3>1, <3>3, EmptyNumbered DEF Empty
    <3> QED BY <3>4, <3>5 DEF StreamInv
  <2> QED BY <2>1, <2>2
<1>7. ASSUME Take PROVE StreamInv'
  <2>1. /\ hand = None /\ WellEnded(queue, reader) /\ Numbered(queue, partial, read.text, turns) /\ queue # <<>>
        /\ queue' = Tail(queue) /\ UNCHANGED <<reader, partial, read, turns>>
    BY <1>7, FoundAhead DEF Take
  <2>2. Head(queue) \in Events /\ Head(queue) # None
    BY <2>1, <1>c, NoneIsNothing
  <2>3. CASE Head(queue).type = "finished"
    <3>1. Ahead' = Tail(queue)
      BY <1>7, <2>1, <2>3 DEF Take, Ahead, AheadOf
    <3>2. WellEnded(Tail(queue), reader)
      BY <2>1, <1>c, TailEnded
    <3>3. Numbered(Tail(queue), partial, read.text, turns)
      BY <2>1, <2>3, <1>c, TailNumbered
    <3> QED BY <3>1, <3>2, <3>3, <2>1 DEF StreamInv
  <2>4. CASE Head(queue).type # "finished"
    <3>1. hand' = Head(queue)
      BY <1>7, <2>4 DEF Take
    <3>2. <<Head(queue)>> \o Tail(queue) = queue
      BY <2>1, <1>c
    <3>3. Ahead' = queue
      BY <3>1, <3>2, <2>1, <2>2 DEF Ahead, AheadOf
    <3> QED BY <3>3, <2>1 DEF StreamInv
  <2> QED BY <2>3, <2>4
<1>8. ASSUME Wake PROVE StreamInv'
  BY <1>8, <1>s DEF Wake, Live
<1>9. ASSUME Look PROVE StreamInv'
  <2>1. pc = "taken" /\ hand' = None /\ UNCHANGED <<queue, reader, read, turns>>
        /\ partial' = IF hand.type = "text" THEN partial + 1 ELSE partial
    BY <1>9 DEF Look
  <2>2. Ahead' = queue
    BY <2>1 DEF Ahead, AheadOf
  <2> QED BY <2>1, <2>2, FoundInHand DEF StreamInv
<1>10. ASSUME Sent PROVE StreamInv'
  BY <1>10, <1>s DEF Sent, Stop, Finish, Live
<1>11. ASSUME Over PROVE StreamInv'
  BY <1>11, <1>s DEF Over, Finish, Fail, Escape, Live
<1>12. ASSUME BeginCall PROVE StreamInv'
  BY <1>12, <1>s DEF BeginCall, Escape, Live
<1>13. ASSUME EndCall PROVE StreamInv'
  BY <1>13, <1>s DEF EndCall, Escape, Live
<1>14. ASSUME Drain PROVE StreamInv'
  BY <1>14, <1>s DEF Drain, Live
<1>15. ASSUME EndTurn PROVE StreamInv'
  BY <1>15, <1>s DEF EndTurn, Finish, Live
<1>16. ASSUME EndError PROVE StreamInv'
  BY <1>16, <1>s DEF EndError, Live
<1>17. ASSUME Cancel PROVE StreamInv'
  BY <1>17, <1>s DEF Cancel, Live
<1>18. ASSUME Leave PROVE StreamInv'
  BY <1>18, <1>s DEF Leave, Live
<1> QED BY <1>1, <1>2, <1>3, <1>4, <1>5, <1>6, <1>7, <1>8, <1>9, <1>10, <1>11, <1>12, <1>13, <1>14, <1>15, <1>16, <1>17, <1>18
        DEF Next, Read, Run

-------------------------------------------------------------------------------
(* The hand, the response, and the signal.                                 *)

(* The run holds an event only between the wait and the look at it. *)
LEMMA HandStep ==
  ASSUME IInv, [Next]_vars
  PROVE  HandInv'
<1>t. TypeOK /\ HandInv
  BY DEF IInv
<1> USE DEF vars, stream, turn, rows, HandInv
<1>1. CASE UNCHANGED vars
  BY <1>1, <1>t
<1>2. ASSUME Read PROVE HandInv'
  BY <1>2, <1>t DEF Read, ReadText, ReadCall, EndResponse, FailResponse
<1>3. ASSUME StartTurn PROVE HandInv'
  BY <1>3, <1>t DEF StartTurn, Finish, Fail, Escape
<1>4. ASSUME Take PROVE HandInv'
  <2>1. Head(queue) # None
    BY <1>4, <1>t, NoneIsNothing DEF Take, TypeOK
  <2> QED BY <2>1, <1>4, <1>t DEF Take
<1>5. ASSUME Wake \/ Sent PROVE HandInv'
  BY <1>5, <1>t DEF Wake, Sent, Stop, Finish
<1>6. ASSUME Look PROVE HandInv'
  BY <1>6, <1>t DEF Look, Stop, Finish, SendOn
<1>7. ASSUME Over \/ BeginCall \/ EndCall PROVE HandInv'
  BY <1>7, <1>t DEF Over, BeginCall, EndCall, Finish, Fail, Escape
<1>8. ASSUME Drain \/ EndTurn \/ EndError PROVE HandInv'
  BY <1>8, <1>t DEF Drain, EndTurn, EndError, Finish
<1>9. ASSUME Cancel \/ Leave PROVE HandInv'
  BY <1>9, <1>t DEF Cancel, Leave
<1> QED BY <1>1, <1>2, <1>3, <1>4, <1>5, <1>6, <1>7, <1>8, <1>9 DEF Next, Run

(* A response is found only when the thread has ended, and nothing but the *)
(* end of the stream is left.                                              *)
LEMMA ResponseStep ==
  ASSUME IInv, [Next]_vars
  PROVE  ResponseInv'
<1>t. TypeOK /\ ResponseInv /\ queue \in Seq(Events)
  BY DEF IInv, TypeOK
<1> USE DEF vars, stream, turn, rows
<1>s. ASSUME UNCHANGED <<response, reader, hand, queue>>,
             Live' => Live /\ UNCHANGED <<read, shown, turns>>
      PROVE  ResponseInv'
  BY <1>s, <1>t DEF ResponseInv
<1>1. CASE UNCHANGED vars
  BY <1>1, <1>s DEF Live
<1>2. ASSUME Read PROVE ResponseInv'
  <2>1. reader /\ response' = response
    BY <1>2 DEF Read, ReadText, ReadCall, EndResponse, FailResponse
  <2> QED BY <2>1, <1>t DEF ResponseInv
<1>3. ASSUME StartTurn PROVE ResponseInv'
  <2>1. CASE pc' = "waiting"
    <3>1. response' = None
      BY <1>3, <2>1 DEF StartTurn, Finish, Fail, Escape
    <3> QED BY <3>1 DEF ResponseInv
  <2>2. CASE pc' # "waiting"
    BY <1>3, <2>2, <1>s DEF StartTurn, Finish, Fail, Escape, Live
  <2> QED BY <2>1, <2>2
<1>4. ASSUME Take PROVE ResponseInv'
  <2>1. pc = "waiting" /\ queue # <<>> /\ queue' = Tail(queue) /\ UNCHANGED <<response, reader, read, shown, turns>>
    BY <1>4 DEF Take
  <2>2. ASSUME response # None
        PROVE  hand' = None /\ \A i \in DOMAIN queue' : queue'[i].type = "finished"
    <3>1. hand = None /\ \A i \in DOMAIN queue : queue[i].type = "finished"
      BY <2>2, <1>t DEF ResponseInv
    <3>2. /\ 1 \in DOMAIN queue /\ Head(queue) = queue[1]
          /\ \A i \in DOMAIN queue' : i + 1 \in DOMAIN queue /\ queue'[i] = queue[i + 1]
      BY <2>1, <1>t
    <3> QED BY <3>1, <3>2, <1>4 DEF Take
  <2>3. Live
    BY <2>1 DEF Live
  <2> QED BY <2>1, <2>2, <2>3, <1>t DEF ResponseInv
<1>5. ASSUME Wake \/ Sent PROVE ResponseInv'
  BY <1>5, <1>s DEF Wake, Sent, Stop, Finish, Live
<1>6. ASSUME Look PROVE ResponseInv'
  <2>1. hand # None /\ hand.turn = turns /\ response = None /\ pc = "taken"
    BY <1>6, <1>t, FoundInHand DEF Look, ResponseInv
  <2>2. hand' = None /\ UNCHANGED <<queue, reader, read, turns>>
    BY <1>6 DEF Look
  <2>3. ASSUME response' # None
        PROVE  hand.type = "done" /\ response' = read /\ hand \in shown'
    BY <2>3, <2>1, <1>6 DEF Look, Stop, SendOn, Show
  <2>4. ASSUME response' # None
        PROVE  ~reader /\ \A i \in DOMAIN queue : queue[i].type = "finished"
    BY <2>3, <2>4, <2>1, FoundInHand
  <2> QED BY <2>1, <2>2, <2>3, <2>4 DEF ResponseInv
<1>7. ASSUME Over \/ BeginCall \/ EndCall PROVE ResponseInv'
  BY <1>7, <1>s DEF Over, BeginCall, EndCall, Finish, Fail, Escape, Live
<1>8. ASSUME Drain \/ EndTurn \/ EndError PROVE ResponseInv'
  BY <1>8, <1>s DEF Drain, EndTurn, EndError, Finish, Live
<1>9. ASSUME Cancel \/ Leave PROVE ResponseInv'
  BY <1>9, <1>s DEF Cancel, Leave, Live
<1> QED BY <1>1, <1>2, <1>3, <1>4, <1>5, <1>6, <1>7, <1>8, <1>9 DEF Next, Run

(* A response that was cut off finds nobody who takes it: it was cut after *)
(* the signal, and before its done event was put.                          *)
LEMMA CutStep ==
  ASSUME IInv, [Next]_vars
  PROVE  CutInv'
<1>t. TypeOK /\ CutInv /\ ResponseInv /\ WellEnded(Ahead, reader)
  BY DEF IInv, StreamInv
<1>r. ASSUME reader
      PROVE  response = None /\ (hand # None => hand.type # "done")
  <2>1. response = None
    BY <1>r, <1>t DEF ResponseInv
  <2>2. ASSUME hand # None
        PROVE  hand.type # "done"
    <3>1. 1 \in DOMAIN Ahead /\ Ahead[1] = hand
      BY <2>2, <1>t, HandIsFirst
    <3> QED BY <3>1, <1>r, <1>t DEF WellEnded
  <2> QED BY <2>1, <2>2
<1> USE DEF vars, stream, turn, rows, CutInv
<1>1. CASE UNCHANGED vars
  BY <1>1, <1>t
<1>2. ASSUME Read PROVE CutInv'
  <2>1. UNCHANGED <<response, hand, signal>> /\ (cut' = cut \/ (reader /\ cut' \in {FALSE, signal}))
    BY <1>2 DEF Read, ReadText, ReadCall, EndResponse, FailResponse
  <2> QED BY <2>1, <1>t, <1>r
<1>3. ASSUME StartTurn PROVE CutInv'
  BY <1>3, <1>t DEF StartTurn, Finish, Fail, Escape
<1>4. ASSUME Take PROVE CutInv'
  BY <1>4, <1>t DEF Take
<1>5. ASSUME Wake \/ Sent PROVE CutInv'
  BY <1>5, <1>t DEF Wake, Sent, Stop, Finish
<1>6. ASSUME Look PROVE CutInv'
  BY <1>6, <1>t DEF Look, Stop, SendOn
<1>7. ASSUME Over \/ BeginCall \/ EndCall PROVE CutInv'
  BY <1>7, <1>t DEF Over, BeginCall, EndCall
<1>8. ASSUME Drain \/ EndTurn \/ EndError PROVE CutInv'
  BY <1>8, <1>t DEF Drain, EndTurn, EndError
<1>9. ASSUME Cancel \/ Leave PROVE CutInv'
  BY <1>9, <1>t DEF Cancel, Leave
<1> QED BY <1>1, <1>2, <1>3, <1>4, <1>5, <1>6, <1>7, <1>8, <1>9 DEF Next, Run

-------------------------------------------------------------------------------
(* Where the run stands.                                                   *)

(* A run that is not lost has no calls or tool events left but in the turn *)
(* that they belong to.                                                    *)
LEMMA PlaceStep ==
  ASSUME IInv, [Next]_vars
  PROVE  PlaceInv'
<1>t. PlaceInv /\ TypeOK /\ buffer \in Seq(Events) /\ todo \in Seq(Calls)
  BY DEF IInv, TypeOK
<1>b. buffer # <<>> => /\ \A i \in DOMAIN Tail(buffer) : i + 1 \in DOMAIN buffer /\ Tail(buffer)[i] = buffer[i + 1]
                       /\ 1 \in DOMAIN buffer /\ Head(buffer) = buffer[1]
  BY <1>t
<1>a. ASSUME NEW STATE e, e \in Events, e.type \in {"tool_called", "tool_ended"}
      PROVE  \A i \in DOMAIN Append(buffer, e) : Append(buffer, e)[i].type \in {"tool_called", "tool_ended"}
  <2>1. \A i \in DOMAIN Append(buffer, e) :
          (i \in DOMAIN buffer /\ Append(buffer, e)[i] = buffer[i]) \/ Append(buffer, e)[i] = e
    BY <1>a, <1>t
  <2> QED BY <2>1, <1>a, <1>t DEF PlaceInv
<1> USE DEF vars, stream, turn, rows, PlaceInv
<1>1. CASE UNCHANGED vars
  BY <1>1, <1>t
<1>2. ASSUME Read PROVE PlaceInv'
  BY <1>2, <1>t DEF Read, ReadText, ReadCall, EndResponse, FailResponse
<1>3. ASSUME StartTurn PROVE PlaceInv'
  BY <1>3, <1>t DEF StartTurn, Finish, Fail, Escape
<1>4. ASSUME Take \/ Wake PROVE PlaceInv'
  BY <1>4, <1>t DEF Take, Wake
<1>5. ASSUME Look \/ Sent PROVE PlaceInv'
  BY <1>5, <1>t DEF Look, Sent, Stop, SendOn, Finish
<1>7. ASSUME Over PROVE PlaceInv'
  BY <1>7, <1>t DEF Over, Finish, Fail, Escape
<1>8. ASSUME BeginCall PROVE PlaceInv'
  <2>1. About("tool_called", Head(todo)) \in Events
    BY <1>8, <1>t, EventTypes DEF BeginCall
  <2>2. \A i \in DOMAIN Append(buffer, About("tool_called", Head(todo))) :
          Append(buffer, About("tool_called", Head(todo)))[i].type \in {"tool_called", "tool_ended"}
    BY <2>1, <1>a DEF About
  <2>3. \A i \in DOMAIN buffer' : buffer'[i].type \in {"tool_called", "tool_ended"}
    BY <2>2, <1>8, <1>t DEF BeginCall
  <2> QED BY <2>3, <1>8, <1>t DEF BeginCall, Escape
<1>9. ASSUME EndCall PROVE PlaceInv'
  <2>1. About("tool_ended", Head(todo)) \in Events
    BY <1>9, <1>t, EventTypes DEF EndCall
  <2>2. \A i \in DOMAIN Append(buffer, About("tool_ended", Head(todo))) :
          Append(buffer, About("tool_ended", Head(todo)))[i].type \in {"tool_called", "tool_ended"}
    BY <2>1, <1>a DEF About
  <2>3. \A i \in DOMAIN buffer' : buffer'[i].type \in {"tool_called", "tool_ended"}
    BY <2>2, <1>9, <1>t DEF EndCall
  <2> QED BY <2>3, <1>9, <1>t DEF EndCall, Escape
<1>10. ASSUME Drain PROVE PlaceInv'
  BY <1>10, <1>t, <1>b DEF Drain
<1>11. ASSUME EndTurn \/ EndError PROVE PlaceInv'
  BY <1>11, <1>t DEF EndTurn, EndError, Finish
<1>12. ASSUME Cancel \/ Leave PROVE PlaceInv'
  BY <1>12, <1>t DEF Cancel, Leave
<1> QED BY <1>1, <1>2, <1>3, <1>4, <1>5, <1>7, <1>8, <1>9, <1>10, <1>11, <1>12 DEF Next, Run

-------------------------------------------------------------------------------
(* Calls.                                                                  *)

(* One more item is stored. *)
LEMMA KeptAppend ==
  ASSUME NEW st \in Seq(Items), NEW e \in Items, NEW type
  PROVE  /\ e.type = type => Kept(Append(st, e), type) = Kept(st, type) \union {e.of}
         /\ e.type # type => Kept(Append(st, e), type) = Kept(st, type)
<1> DEFINE r == Append(st, e)
<1>1. /\ \A i \in DOMAIN st : i \in DOMAIN r /\ r[i] = st[i]
      /\ Len(st) + 1 \in DOMAIN r /\ r[Len(st) + 1] = e
      /\ \A i \in DOMAIN r : i \in DOMAIN st \/ i = Len(st) + 1
  OBVIOUS
<1> HIDE DEF r
<1>2. \A x : x \in Kept(r, type) <=> x \in Kept(st, type) \/ (e.type = type /\ x = e.of)
  <2> TAKE x
  <2>1. ASSUME x \in Kept(r, type) PROVE x \in Kept(st, type) \/ (e.type = type /\ x = e.of)
    BY <2>1, <1>1 DEF Kept
  <2>2. ASSUME x \in Kept(st, type) PROVE x \in Kept(r, type)
    BY <2>2, <1>1 DEF Kept
  <2>3. ASSUME e.type = type, x = e.of PROVE x \in Kept(r, type)
    BY <2>3, <1>1 DEF Kept
  <2> QED BY <2>1, <2>2, <2>3
<1>3. e.type = type => Kept(r, type) = Kept(st, type) \union {e.of}
  BY <1>2
<1>4. e.type # type => Kept(r, type) = Kept(st, type)
  BY <1>2
<1> QED BY <1>3, <1>4 DEF r

(* The items of a response are stored. *)
LEMMA KeptJoined ==
  ASSUME NEW st \in Seq(Items), NEW u \in Seq(Items), NEW type
  PROVE  Kept(st \o u, type) = Kept(st, type) \union Kept(u, type)
<1> DEFINE r == st \o u
<1>1. /\ \A i \in DOMAIN st : i \in DOMAIN r /\ r[i] = st[i]
      /\ \A i \in DOMAIN u : i + Len(st) \in DOMAIN r /\ r[i + Len(st)] = u[i]
      /\ \A i \in DOMAIN r : i \in DOMAIN st \/ (i - Len(st) \in DOMAIN u /\ r[i] = u[i - Len(st)])
  <2>1. /\ DOMAIN st = 1..Len(st) /\ DOMAIN u = 1..Len(u) /\ Len(st) \in Nat /\ Len(u) \in Nat
        /\ DOMAIN r = 1..(Len(st) + Len(u))
        /\ \A i \in 1..(Len(st) + Len(u)) : r[i] = IF i <= Len(st) THEN st[i] ELSE u[i - Len(st)]
    BY ConcatProperties
  <2> HIDE DEF r
  <2>2. \A i \in DOMAIN st : i \in DOMAIN r /\ r[i] = st[i]
    BY <2>1
  <2>3. \A i \in DOMAIN r : i \in DOMAIN st \/ (i - Len(st) \in DOMAIN u /\ r[i] = u[i - Len(st)])
    BY <2>1
  <2>4. ASSUME NEW i \in DOMAIN u
        PROVE  i + Len(st) \in DOMAIN r /\ r[i + Len(st)] = u[i]
    <3>1. i \in Nat /\ i >= 1 /\ i <= Len(u)
      BY <2>1
    <3>2. i + Len(st) \in 1..(Len(st) + Len(u)) /\ ~(i + Len(st) <= Len(st)) /\ (i + Len(st)) - Len(st) = i
      BY <3>1, <2>1
    <3> QED BY <3>2, <2>1
  <2> QED BY <2>2, <2>3, <2>4
<1> HIDE DEF r
<1>2. \A x : x \in Kept(r, type) <=> x \in Kept(st, type) \/ x \in Kept(u, type)
  <2> TAKE x
  <2>1. ASSUME x \in Kept(r, type) PROVE x \in Kept(st, type) \/ x \in Kept(u, type)
    BY <2>1, <1>1 DEF Kept
  <2>2. ASSUME x \in Kept(st, type) PROVE x \in Kept(r, type)
    BY <2>2, <1>1 DEF Kept
  <2>3. ASSUME x \in Kept(u, type) PROVE x \in Kept(r, type)
    <3>1. PICK i \in DOMAIN u : u[i].type = type /\ u[i].of = x
      BY <2>3 DEF Kept
    <3>2. i + Len(st) \in DOMAIN r /\ r[i + Len(st)].type = type /\ r[i + Len(st)].of = x
      BY <3>1, <1>1
    <3> QED BY <3>2 DEF Kept
  <2> QED BY <2>1, <2>2, <2>3
<1>3. Kept(r, type) = Kept(st, type) \union Kept(u, type)
  BY <1>2
<1> QED BY <1>3 DEF r

(* The next call of a list of different calls is none of the rest. *)
LEMMA NextCall ==
  ASSUME NEW s \in Seq(Calls), s # <<>>, Distinct(s)
  PROVE  /\ CallsIn(s) = CallsIn(Tail(s)) \union {Head(s)} /\ Head(s) \notin CallsIn(Tail(s))
         /\ Distinct(Tail(s)) /\ Tail(s) \in Seq(Calls) /\ Head(s) \in Calls
<1>1. /\ 1 \in DOMAIN s /\ Head(s) = s[1] /\ Tail(s) \in Seq(Calls) /\ Head(s) \in Calls
      /\ \A i \in DOMAIN Tail(s) : i + 1 \in DOMAIN s /\ Tail(s)[i] = s[i + 1] /\ i \in Nat /\ i + 1 # 1
      /\ \A i \in DOMAIN s : i = 1 \/ (i - 1 \in DOMAIN Tail(s) /\ s[i] = Tail(s)[i - 1])
  OBVIOUS
<1>2. \A x : x \in CallsIn(s) <=> x \in CallsIn(Tail(s)) \/ x = Head(s)
  <2> TAKE x
  <2>1. ASSUME x \in CallsIn(s) PROVE x \in CallsIn(Tail(s)) \/ x = Head(s)
    BY <2>1, <1>1 DEF CallsIn
  <2>2. ASSUME x \in CallsIn(Tail(s)) PROVE x \in CallsIn(s)
    BY <2>2, <1>1 DEF CallsIn
  <2>3. Head(s) \in CallsIn(s)
    BY <1>1 DEF CallsIn
  <2> QED BY <2>1, <2>2, <2>3
<1>3. Head(s) \notin CallsIn(Tail(s))
  BY <1>1 DEF CallsIn, Distinct
<1>4. Distinct(Tail(s))
  <2> SUFFICES ASSUME NEW i \in DOMAIN Tail(s), NEW j \in DOMAIN Tail(s), Tail(s)[i] = Tail(s)[j]
               PROVE  i = j
    BY DEF Distinct
  <2>1. i + 1 = j + 1
    BY <1>1 DEF Distinct
  <2> QED BY <2>1, <1>1
<1> QED BY <1>1, <1>2, <1>3, <1>4

(* A call that is new to a list of different calls. *)
LEMMA NewCall ==
  ASSUME NEW s \in Seq(Calls), NEW c \in Calls, c \notin CallsIn(s), Distinct(s)
  PROVE  Distinct(Append(s, c)) /\ CallsIn(Append(s, c)) = CallsIn(s) \union {c}
<1> DEFINE r == Append(s, c)
<1>1. /\ \A i \in DOMAIN s : i \in DOMAIN r /\ r[i] = s[i]
      /\ Len(s) + 1 \in DOMAIN r /\ r[Len(s) + 1] = c
      /\ \A i \in DOMAIN r : i \in DOMAIN s \/ i = Len(s) + 1
  OBVIOUS
<1> HIDE DEF r
<1>2. Distinct(r)
  BY <1>1 DEF Distinct, CallsIn
<1>3. CallsIn(r) = CallsIn(s) \union {c}
  <2>1. \A x : x \in CallsIn(r) <=> x \in CallsIn(s) \/ x = c
    BY <1>1 DEF CallsIn
  <2> QED BY <2>1
<1> QED BY <1>2, <1>3 DEF r

(* What is told of a kind, by the events that were shown and those that    *)
(* are kept back.                                                          *)
LEMMA ToldOther ==
  ASSUME NEW sh, NEW b, NEW type, NEW e, e.type # type
  PROVE  Told(sh \union {e}, b, type) = Told(sh, b, type)
  BY DEF Told

(* An event that is kept back is told of, too. *)
LEMMA ToldLater ==
  ASSUME NEW sh, NEW b \in Seq(Events), NEW type, NEW e \in Events
  PROVE  /\ e.type = type => Told(sh, Append(b, e), type) = Told(sh, b, type) \union {e.of}
         /\ e.type # type => Told(sh, Append(b, e), type) = Told(sh, b, type)
<1>1. CallsIn(Append(b, e)) = CallsIn(b) \union {e}
  <2> DEFINE r == Append(b, e)
  <2>1. /\ \A i \in DOMAIN b : i \in DOMAIN r /\ r[i] = b[i]
        /\ Len(b) + 1 \in DOMAIN r /\ r[Len(b) + 1] = e
        /\ \A i \in DOMAIN r : i \in DOMAIN b \/ i = Len(b) + 1
    OBVIOUS
  <2> HIDE DEF r
  <2>2. \A x : x \in CallsIn(r) <=> x \in CallsIn(b) \/ x = e
    BY <2>1 DEF CallsIn
  <2>3. CallsIn(r) = CallsIn(b) \union {e}
    BY <2>2
  <2> QED BY <2>3 DEF r
<1> HIDE DEF CallsIn
<1> QED BY <1>1 DEF Told

(* To send an event that was kept back tells nothing new. *)
LEMMA ToldNow ==
  ASSUME NEW sh, NEW b \in Seq(Events), b # <<>>, NEW type
  PROVE  Told(sh \union {Head(b)}, Tail(b), type) = Told(sh, b, type)
<1>1. /\ 1 \in DOMAIN b /\ Head(b) = b[1]
      /\ \A i \in DOMAIN Tail(b) : i + 1 \in DOMAIN b /\ Tail(b)[i] = b[i + 1]
      /\ \A i \in DOMAIN b : i = 1 \/ (i - 1 \in DOMAIN Tail(b) /\ b[i] = Tail(b)[i - 1])
  OBVIOUS
<1>2. CallsIn(b) = CallsIn(Tail(b)) \union {Head(b)}
  <2>1. \A x : x \in CallsIn(b) <=> x \in CallsIn(Tail(b)) \/ x = Head(b)
    <3> TAKE x
    <3>1. ASSUME x \in CallsIn(b) PROVE x \in CallsIn(Tail(b)) \/ x = Head(b)
      BY <3>1, <1>1 DEF CallsIn
    <3>2. ASSUME x \in CallsIn(Tail(b)) PROVE x \in CallsIn(b)
      BY <3>2, <1>1 DEF CallsIn
    <3>3. Head(b) \in CallsIn(b)
      BY <1>1 DEF CallsIn
    <3> QED BY <3>1, <3>2, <3>3
  <2> QED BY <2>1
<1>3. (sh \union {Head(b)}) \union CallsIn(Tail(b)) = sh \union CallsIn(b)
  BY <1>2
<1> QED BY <1>3 DEF Told

(* The calls that the model makes are all new ones. *)
LEMMA FreshStep ==
  ASSUME IInv, [Next]_vars
  PROVE  FreshInv'
<1>t. TypeOK /\ FreshInv
  BY DEF IInv
<1> USE DEF vars, stream, turn, rows
<1>s. ASSUME Live' => Live /\ UNCHANGED <<read, stored>>
      PROVE  FreshInv'
  BY <1>s, <1>t DEF FreshInv
<1>1. CASE UNCHANGED vars
  BY <1>1, <1>s DEF Live
<1>2. ASSUME ReadText PROVE FreshInv'
  <2>1. read'.calls = read.calls /\ UNCHANGED <<stored, pc>>
    BY <1>2, <1>t DEF ReadText, TypeOK, Reads
  <2> QED BY <2>1, <1>t DEF FreshInv, Live
<1>3. ASSUME NEW c \in Calls, ReadCall(c) PROVE FreshInv'
  <2>1. read'.calls = Append(read.calls, c) /\ UNCHANGED <<stored, pc>> /\ read.calls \in Seq(Calls)
    BY <1>3, <1>t DEF ReadCall, TypeOK, Reads
  <2>2. c \notin CallsIn(read.calls) /\ c \notin Kept(stored, "call")
    BY <1>3 DEF ReadCall, CallsIn, Kept
  <2>3. ASSUME Live
        PROVE  Distinct(read'.calls) /\ CallsIn(read'.calls) = CallsIn(read.calls) \union {c}
    BY <2>1, <2>2, <2>3, <1>t, NewCall DEF FreshInv
  <2> QED BY <2>1, <2>2, <2>3, <1>t DEF FreshInv, Live
<1>4. ASSUME EndResponse \/ FailResponse PROVE FreshInv'
  BY <1>4, <1>s DEF EndResponse, FailResponse, Live
<1>5. ASSUME StartTurn PROVE FreshInv'
  <2>1. CASE pc' = "waiting"
    <3>1. read'.calls = <<>>
      BY <1>5, <2>1 DEF StartTurn, Finish, Fail, Escape, Empty
    <3>2. Distinct(<<>>) /\ CallsIn(<<>>) = {}
      BY DEF Distinct, CallsIn
    <3> QED BY <3>1, <3>2 DEF FreshInv
  <2>2. CASE pc' # "waiting"
    BY <1>5, <2>2, <1>s DEF StartTurn, Finish, Fail, Escape, Live
  <2> QED BY <2>1, <2>2
<1>6. ASSUME Take \/ Wake PROVE FreshInv'
  BY <1>6, <1>s DEF Take, Wake, Live
<1>7. ASSUME Look \/ Sent PROVE FreshInv'
  BY <1>7, <1>s DEF Look, Sent, Stop, SendOn, Finish, Live
<1>8. ASSUME Over \/ BeginCall \/ EndCall PROVE FreshInv'
  BY <1>8, <1>s DEF Over, BeginCall, EndCall, Finish, Fail, Escape, Live
<1>9. ASSUME Drain \/ EndTurn \/ EndError PROVE FreshInv'
  BY <1>9, <1>s DEF Drain, EndTurn, EndError, Finish, Live
<1>10. ASSUME Cancel \/ Leave PROVE FreshInv'
  BY <1>10, <1>s DEF Cancel, Leave, Live
<1> QED BY <1>1, <1>2, <1>3, <1>4, <1>5, <1>6, <1>7, <1>8, <1>9, <1>10 DEF Next, Read, Run

(* Each call is begun, ended and answered once, and told of as often. *)
LEMMA CallsStep ==
  ASSUME IInv, [Next]_vars
  PROVE  CallsInv'
<1> DEFINE C == Kept(stored, "call")
           O == Kept(stored, "output")
           B == Told(shown, buffer, "tool_called")
           E == Told(shown, buffer, "tool_ended")
<1>t. /\ TypeOK /\ PlaceInv /\ stored \in Seq(Items) /\ buffer \in Seq(Events) /\ todo \in Seq(Calls)
  BY DEF IInv, TypeOK
<1>i. status # "lost" => /\ Distinct(todo) /\ CallsIn(todo) \subseteq C
                         /\ O \union waits = C \ CallsIn(todo)
                         /\ E = C \ CallsIn(todo)
                         /\ B = C \ CallsIn(IF pc = "tool" THEN Tail(todo) ELSE todo)
  BY DEF IInv, CallsInv
<1> USE DEF vars, stream, turn, rows
<1>s. ASSUME status' # "lost" =>
               /\ status # "lost" /\ UNCHANGED <<todo, waits>> /\ (pc' = "tool" <=> pc = "tool")
               /\ Kept(stored, "call")' = C /\ Kept(stored, "output")' = O
               /\ Told(shown, buffer, "tool_called")' = B /\ Told(shown, buffer, "tool_ended")' = E
      PROVE  CallsInv'
  BY <1>s, <1>i DEF CallsInv
<1> HIDE DEF C, O, B, E
<1>o. /\ UNCHANGED stored => Kept(stored, "call")' = C /\ Kept(stored, "output")' = O
      /\ UNCHANGED <<shown, buffer>> =>
           Told(shown, buffer, "tool_called")' = B /\ Told(shown, buffer, "tool_ended")' = E
  BY DEF C, O, B, E
<1>e. \A e : /\ e.type \notin {"tool_called", "tool_ended"}
             /\ shown' = shown \union {e} /\ buffer' = buffer
             => Told(shown, buffer, "tool_called")' = B /\ Told(shown, buffer, "tool_ended")' = E
  BY ToldOther DEF B, E
<1>p. \A n \in Nat : stored' \in {stored, Append(stored, About("text", n))} =>
             Kept(stored, "call")' = C /\ Kept(stored, "output")' = O
  <2> SUFFICES ASSUME NEW n \in Nat, stored' = Append(stored, About("text", n))
               PROVE  Kept(stored, "call")' = C /\ Kept(stored, "output")' = O
    BY <1>o
  <2>1. About("text", n) \in Items
    BY <1>t, EventTypes
  <2>2. About("text", n).type = "text"
    BY DEF About
  <2>3. /\ Kept(Append(stored, About("text", n)), "call") = C
        /\ Kept(Append(stored, About("text", n)), "output") = O
    BY <2>1, <2>2, <1>t, KeptAppend DEF C, O
  <2> QED BY <2>3
<1>1. CASE UNCHANGED vars
  BY <1>1, <1>s, <1>o
<1>2. ASSUME Read PROVE CallsInv'
  BY <1>2, <1>s, <1>o DEF Read, ReadText, ReadCall, EndResponse, FailResponse
<1>m. Mark("error").type \notin {"tool_called", "tool_ended"}
  BY DEF Mark, About
<1>3. ASSUME StartTurn PROVE CallsInv'
  <2>1. CASE status' = "lost"
    BY <2>1, <1>s
  <2>2. CASE status' # "lost"
    <3>1. /\ UNCHANGED <<stored, todo, waits, buffer>> /\ pc' # "tool" /\ pc # "tool" /\ status # "lost"
          /\ shown' = shown \/ shown' = shown \union {Mark("error")}
      BY <1>3, <2>2, <1>t DEF StartTurn, Finish, Fail, Escape, Show, PlaceInv
    <3> QED BY <3>1, <1>s, <1>o, <1>e, <1>m
  <2> QED BY <2>1, <2>2
<1>4. ASSUME Take \/ Wake PROVE CallsInv'
  BY <1>4, <1>s, <1>o DEF Take, Wake
<1>5. ASSUME Look PROVE CallsInv'
  <2>1. /\ UNCHANGED <<todo, waits, buffer>> /\ pc = "taken" /\ pc' # "tool" /\ status # "lost"
        /\ partial' \in Nat
        /\ stored' \in {stored, Append(stored, About("text", partial'))}
        /\ shown' = shown \/ shown' = shown \union {hand}
    <3>1. partial' \in Nat
      BY <1>t, TypeStep, StreamRunAssumption DEF TypeOK
    <3> QED BY <3>1, <1>5, <1>t DEF Look, Stop, StorePartial, SendOn, Finish, Show, PlaceInv
  <2>2. hand.type \notin {"tool_called", "tool_ended"}
    BY <2>1, FoundInHand DEF FromProvider
  <2>3. Kept(stored, "call")' = C /\ Kept(stored, "output")' = O
    BY <2>1, <1>p
  <2>4. Told(shown, buffer, "tool_called")' = B /\ Told(shown, buffer, "tool_ended")' = E
    BY <2>1, <2>2, <1>o, <1>e
  <2> QED BY <2>1, <2>3, <2>4, <1>s
<1>6. ASSUME Sent PROVE CallsInv'
  <2>1. /\ UNCHANGED <<todo, waits, buffer, shown>> /\ pc = "sending" /\ pc' # "tool" /\ status # "lost"
        /\ partial \in Nat
        /\ stored' \in {stored, Append(stored, About("text", partial))}
    <3>1. partial \in Nat
      BY <1>t, StreamRunAssumption DEF TypeOK
    <3> QED BY <3>1, <1>6, <1>t DEF Sent, Stop, StorePartial, Finish, PlaceInv
  <2> QED BY <2>1, <1>o, <1>p, <1>s
<1>7. ASSUME Over PROVE CallsInv'
  <2>1. pc = "over" /\ status # "lost" /\ UNCHANGED <<waits, buffer>> /\ pc' # "tool" /\ todo = <<>>
    BY <1>7, <1>t DEF Over, Finish, Fail, Escape, PlaceInv
  <2>2. CASE status' = "lost"
    BY <2>2, <1>s
  <2>3. CASE response = None /\ status' # "lost"
    <3>1. /\ UNCHANGED todo /\ shown' = shown \union {Mark("error")} /\ partial \in Nat
          /\ stored' \in {stored, Append(stored, About("text", partial))}
      <4>1. partial \in Nat
        BY <1>t, StreamRunAssumption DEF TypeOK
      <4> QED BY <4>1, <1>7, <2>3 DEF Over, StorePartial, Fail, Show
    <3> QED BY <2>1, <3>1, <1>e, <1>m, <1>p, <1>s
  <2>4. CASE response # None /\ status' # "lost"
    <3>1. stored' = stored \o OutputItems /\ todo' = response.calls /\ UNCHANGED shown
      BY <1>7, <2>4 DEF Over, Escape
    <3>2. response = read /\ response \in Reads /\ response.calls \in Seq(Calls)
      BY <1>t, <2>1, <2>4 DEF IInv, ResponseInv, Live, TypeOK, Reads
    <3>3. Distinct(response.calls) /\ CallsIn(response.calls) \intersect C = {}
      BY <3>2, <2>1 DEF IInv, FreshInv, Live, C
    <3>4. Kept(stored, "call")' = C \union CallsIn(response.calls) /\ Kept(stored, "output")' = O
      <4>1. /\ OutputItems \in Seq(Items)
            /\ Kept(OutputItems, "call") = CallsIn(response.calls) /\ Kept(OutputItems, "output") = {}
        BY <3>2, <1>t, OutputStored
      <4>2. /\ Kept(stored \o OutputItems, "call") = C \union CallsIn(response.calls)
            /\ Kept(stored \o OutputItems, "output") = O
        <5>1. Kept(stored \o OutputItems, "call") = Kept(stored, "call") \union Kept(OutputItems, "call")
          BY <4>1, <1>t, KeptJoined
        <5>2. Kept(stored \o OutputItems, "output") = Kept(stored, "output") \union Kept(OutputItems, "output")
          BY <4>1, <1>t, KeptJoined
        <5> QED BY <4>1, <5>1, <5>2 DEF C, O
      <4> QED BY <4>2, <3>1
    <3>5. CallsIn(todo) = {}
      BY <2>1 DEF CallsIn
    <3>6. O \union waits = C /\ E = C /\ B = C
      BY <3>5, <2>1, <1>i
    <3>7. Told(shown, buffer, "tool_called")' = B /\ Told(shown, buffer, "tool_ended")' = E
      BY <3>1, <2>1, <1>o
    <3> HIDE DEF C, O, B, E
    <3> QED BY <3>1, <3>3, <3>4, <3>6, <3>7, <2>1 DEF CallsInv
  <2> QED BY <2>2, <2>3, <2>4
<1>8. ASSUME BeginCall PROVE CallsInv'
  <2>1. CASE status' = "lost"
    BY <2>1, <1>s
  <2>2. CASE status' # "lost"
    <3>1. /\ buffer' = Append(buffer, About("tool_called", Head(todo))) /\ todo # <<>>
          /\ pc = "tools" /\ pc' = "tool" /\ status # "lost" /\ UNCHANGED <<todo, waits, stored, shown>>
      BY <1>8, <2>2, <1>t DEF BeginCall, Escape, PlaceInv
    <3>2. /\ CallsIn(todo) = CallsIn(Tail(todo)) \union {Head(todo)} /\ Head(todo) \notin CallsIn(Tail(todo))
          /\ Head(todo) \in Calls
      BY <3>1, <1>t, <1>i, NextCall
    <3>3. About("tool_called", Head(todo)) \in Events
      BY <3>2, <1>t, EventTypes
    <3>4. About("tool_called", Head(todo)).type = "tool_called" /\ About("tool_called", Head(todo)).of = Head(todo)
      BY DEF About
    <3>5. /\ Told(shown, Append(buffer, About("tool_called", Head(todo))), "tool_called") = B \union {Head(todo)}
          /\ Told(shown, Append(buffer, About("tool_called", Head(todo))), "tool_ended") = E
      <4> DEFINE e == About("tool_called", Head(todo))
      <4>1. e \in Events /\ e.type = "tool_called" /\ e.of = Head(todo) /\ buffer \in Seq(Events)
        BY <3>3, <3>4, <1>t
      <4> HIDE DEF e
      <4>2. Told(shown, Append(buffer, e), "tool_called") = B \union {Head(todo)}
        BY <4>1, ToldLater DEF B
      <4>3. Told(shown, Append(buffer, e), "tool_ended") = E
        <5>1. e \in Events /\ e.type # "tool_ended" /\ buffer \in Seq(Events)
          BY <4>1
        <5>2. Told(shown, Append(buffer, e), "tool_ended") = Told(shown, buffer, "tool_ended")
          BY <5>1, ToldLater
        <5> QED BY <5>2 DEF E
      <4> QED BY <4>2, <4>3 DEF e
    <3>6. Told(shown, buffer, "tool_called")' = B \union {Head(todo)} /\ Told(shown, buffer, "tool_ended")' = E
      BY <3>1, <3>5
    <3>7. Kept(stored, "call")' = C /\ Kept(stored, "output")' = O
      BY <3>1, <1>o
    <3>8. B \union {Head(todo)} = C \ CallsIn(Tail(todo))
      BY <3>1, <3>2, <1>i
    <3> QED BY <3>1, <3>6, <3>7, <3>8, <1>i DEF CallsInv
  <2> QED BY <2>1, <2>2
<1>9. ASSUME EndCall PROVE CallsInv'
  <2>1. CASE status' = "lost"
    BY <2>1, <1>s
  <2>2. CASE status' # "lost"
    <3>1. /\ buffer' = Append(buffer, About("tool_ended", Head(todo))) /\ todo # <<>> /\ todo' = Tail(todo)
          /\ pc = "tool" /\ pc' = "tools" /\ status # "lost" /\ UNCHANGED shown
      BY <1>9, <2>2, <1>t DEF EndCall, Escape, PlaceInv
    <3>2. /\ CallsIn(todo) = CallsIn(Tail(todo)) \union {Head(todo)} /\ Head(todo) \notin CallsIn(Tail(todo))
          /\ Head(todo) \in Calls /\ Distinct(Tail(todo))
      BY <3>1, <1>t, <1>i, NextCall
    <3>3. About("tool_ended", Head(todo)) \in Events /\ About("output", Head(todo)) \in Items
      BY <3>2, <1>t, EventTypes
    <3>4. /\ About("tool_ended", Head(todo)).type = "tool_ended" /\ About("tool_ended", Head(todo)).of = Head(todo)
          /\ About("output", Head(todo)).type = "output" /\ About("output", Head(todo)).of = Head(todo)
      BY DEF About
    <3>5. /\ Told(shown, Append(buffer, About("tool_ended", Head(todo))), "tool_ended") = E \union {Head(todo)}
          /\ Told(shown, Append(buffer, About("tool_ended", Head(todo))), "tool_called") = B
      <4> DEFINE e == About("tool_ended", Head(todo))
      <4>1. e \in Events /\ e.type = "tool_ended" /\ e.of = Head(todo) /\ buffer \in Seq(Events)
        BY <3>3, <3>4, <1>t
      <4> HIDE DEF e
      <4>2. Told(shown, Append(buffer, e), "tool_ended") = E \union {Head(todo)}
        BY <4>1, ToldLater DEF E
      <4>3. Told(shown, Append(buffer, e), "tool_called") = B
        <5>1. e \in Events /\ e.type # "tool_called" /\ buffer \in Seq(Events)
          BY <4>1
        <5>2. Told(shown, Append(buffer, e), "tool_called") = Told(shown, buffer, "tool_called")
          BY <5>1, ToldLater
        <5> QED BY <5>2 DEF B
      <4> QED BY <4>2, <4>3 DEF e
    <3>6. Told(shown, buffer, "tool_ended")' = E \union {Head(todo)} /\ Told(shown, buffer, "tool_called")' = B
      BY <3>1, <3>5
    <3>7. /\ Kept(Append(stored, About("output", Head(todo))), "call") = C
          /\ Kept(Append(stored, About("output", Head(todo))), "output") = O \union {Head(todo)}
      BY <3>3, <3>4, <1>t, KeptAppend DEF C, O
    <3>8. /\ Kept(stored, "call")' = C
          /\ Kept(stored, "output")' \union waits' = (O \union waits) \union {Head(todo)}
      <4>1. \/ stored' = Append(stored, About("output", Head(todo))) /\ UNCHANGED waits
            \/ waits' = waits \union {Head(todo)} /\ UNCHANGED stored
        BY <1>9, <2>2 DEF EndCall, Escape
      <4>2. CASE stored' = Append(stored, About("output", Head(todo))) /\ UNCHANGED waits
        BY <4>2, <3>7
      <4>3. CASE waits' = waits \union {Head(todo)} /\ UNCHANGED stored
        BY <4>3, <1>o
      <4> QED BY <4>1, <4>2, <4>3
    <3>9. /\ (O \union waits) \union {Head(todo)} = C \ CallsIn(Tail(todo))
          /\ E \union {Head(todo)} = C \ CallsIn(Tail(todo))
          /\ B = C \ CallsIn(Tail(todo)) /\ CallsIn(Tail(todo)) \subseteq C
      BY <3>1, <3>2, <1>i
    <3> QED BY <3>1, <3>2, <3>6, <3>8, <3>9 DEF CallsInv
  <2> QED BY <2>1, <2>2
<1>10. ASSUME Drain PROVE CallsInv'
  <2>1. /\ buffer # <<>> /\ buffer' = Tail(buffer) /\ shown' = shown \union {Head(buffer)}
        /\ UNCHANGED <<status, stored, todo, waits>> /\ pc # "tool" /\ pc' # "tool"
    BY <1>10 DEF Drain, Show
  <2>2. /\ Told(shown \union {Head(buffer)}, Tail(buffer), "tool_called") = B
        /\ Told(shown \union {Head(buffer)}, Tail(buffer), "tool_ended") = E
    BY <2>1, <1>t, ToldNow DEF B, E
  <2>3. Told(shown, buffer, "tool_called")' = B /\ Told(shown, buffer, "tool_ended")' = E
    BY <2>1, <2>2
  <2> QED BY <2>1, <2>3, <1>o, <1>s
<1>11. ASSUME EndTurn \/ EndError PROVE CallsInv'
  <2>1. /\ UNCHANGED <<todo, waits, buffer, stored, shown>> /\ pc # "tool" /\ pc' # "tool"
        /\ status' # "lost" => status # "lost"
    BY <1>11, <1>t DEF EndTurn, EndError, Finish, PlaceInv
  <2> QED BY <2>1, <1>o, <1>s
<1>12. ASSUME Cancel PROVE CallsInv'
  BY <1>12, <1>o, <1>s DEF Cancel
<1>13. ASSUME Leave PROVE CallsInv'
  BY <1>13, <1>s DEF Leave
<1> QED BY <1>1, <1>2, <1>3, <1>4, <1>5, <1>6, <1>7, <1>8, <1>9, <1>10, <1>11, <1>12, <1>13 DEF Next, Run

-------------------------------------------------------------------------------
(* Texts.                                                                  *)

(* Where nothing is new, what was shown still matches what was stored. *)
LEMMA SameKeeps ==
  ASSUME NEW sh, NEW st, NEW sh2, NEW st2, NEW t, SameText(sh, st, sh2, st2, t)
  PROVE  /\ Matching(sh, st, t) => Matching(sh2, st2, t)
         /\ \A n : Ongoing(sh, st, t, n) => Ongoing(sh2, st2, t, n)
  BY DEF SameText, Matching, Ongoing

(* An event that is no text of the turn is shown. *)
LEMMA ShownElsewhere ==
  ASSUME NEW sh, NEW st, NEW e, NEW t, e.type # "text" \/ e.turn # t
  PROVE  SameText(sh, st, sh \union {e}, st, t)
  BY DEF SameText, Seen

(* Nothing is shown or stored. *)
LEMMA NothingNew ==
  ASSUME NEW sh, NEW st, NEW t
  PROVE  SameText(sh, st, sh, st, t)
  BY DEF SameText

(* An item that is no text of the turn is stored. *)
LEMMA StoredElsewhere ==
  ASSUME NEW sh, NEW st \in Seq(Items), NEW e \in Items, NEW t, e.type # "text" \/ e.turn # t
  PROVE  SameText(sh, st, sh, Append(st, e), t)
<1> DEFINE r == Append(st, e)
<1>1. /\ \A i \in DOMAIN st : i \in DOMAIN r /\ r[i] = st[i]
      /\ Len(st) + 1 \in DOMAIN r /\ r[Len(st) + 1] = e
      /\ \A i \in DOMAIN r : i \in DOMAIN st \/ i = Len(st) + 1
  OBVIOUS
<1> HIDE DEF r
<1>2. TextItems(r, t) = TextItems(st, t)
  BY <1>1 DEF TextItems
<1>3. \A i \in TextItems(st, t) : r[i] = st[i]
  BY <1>1 DEF TextItems
<1> QED BY <1>2, <1>3 DEF SameText, r

(* The next piece is shown. *)
LEMMA ShownNext ==
  ASSUME NEW sh, NEW st, NEW t, NEW n \in Nat, Ongoing(sh, st, t, n),
         NEW e \in Events, e.type = "text", e.turn = t, e.of = n + 1
  PROVE  Ongoing(sh \union {e}, st, t, n + 1)
<1>1. e = [type |-> "text", turn |-> t, of |-> n + 1]
  BY DEF Events
<1>2. Seen(sh \union {e}, t) = Seen(sh, t) \union {e}
  BY DEF Seen
<1>3. Pieces(t, n + 1) = Pieces(t, n) \union {e}
  <2>1. 1..(n + 1) = 1..n \union {n + 1}
    OBVIOUS
  <2> QED BY <1>1, <2>1 DEF Pieces
<1> QED BY <1>2, <1>3 DEF Ongoing

(* What was shown of a text is stored when the run ends, and maybe the one *)
(* piece that was in hand with it.                                         *)
LEMMA PartialStored ==
  ASSUME NEW sh, NEW st \in Seq(Items), NEW t, NEW n \in Nat, Ongoing(sh, st, t, n),
         NEW m \in {n, n + 1}, NEW how,
         NEW e \in Items, e.type = "text", e.turn = t, e.of = m
  PROVE  /\ m = 0 => Closed(sh, st, t, how)
         /\ Closed(sh, Append(st, e), t, how)
<1> DEFINE r == Append(st, e)
<1>1. /\ \A i \in DOMAIN st : i \in DOMAIN r /\ r[i] = st[i]
      /\ Len(st) + 1 \in DOMAIN r /\ r[Len(st) + 1] = e
      /\ \A i \in DOMAIN r : i \in DOMAIN st \/ i = Len(st) + 1
  OBVIOUS
<1> HIDE DEF r
<1>2. TextItems(r, t) = {Len(st) + 1}
  BY <1>1 DEF Ongoing, TextItems
<1>3. Closed(sh, r, t, how)
  BY <1>1, <1>2 DEF Ongoing, Closed
<1>4. m = 0 => Closed(sh, st, t, how)
  BY DEF Ongoing, Closed
<1> QED BY <1>3, <1>4 DEF r

(* All of it is stored with the response. *)
LEMMA ResponseStored ==
  ASSUME NEW sh, NEW st \in Seq(Items), NEW t, NEW n \in Nat, Ongoing(sh, st, t, n),
         NEW u \in Seq(Items), \A i \in DOMAIN u : u[i].turn = t,
         n = 0 => Texts(u) = {},
         n # 0 => Texts(u) = {1} /\ u[1].of = n
  PROVE  /\ Matching(sh, st \o u, t)
         /\ \A t2 : t2 # t => SameText(sh, st, sh, st \o u, t2)
<1> DEFINE r == st \o u
<1>1. /\ DOMAIN st = 1..Len(st) /\ DOMAIN u = 1..Len(u) /\ Len(st) \in Nat /\ Len(u) \in Nat
      /\ DOMAIN r = 1..(Len(st) + Len(u))
      /\ \A i \in 1..(Len(st) + Len(u)) : r[i] = IF i <= Len(st) THEN st[i] ELSE u[i - Len(st)]
  BY ConcatProperties
<1> HIDE DEF r
<1>2. /\ \A i \in DOMAIN st : i \in DOMAIN r /\ r[i] = st[i]
      /\ \A i \in DOMAIN r : i \in DOMAIN st \/ (i - Len(st) \in DOMAIN u /\ r[i] = u[i - Len(st)])
  BY <1>1
<1>3. ASSUME NEW t2, t2 # t
      PROVE  SameText(sh, st, sh, r, t2)
  <2>1. TextItems(r, t2) = TextItems(st, t2)
    BY <1>2, <1>3 DEF TextItems
  <2>2. \A i \in TextItems(st, t2) : r[i] = st[i]
    BY <1>2 DEF TextItems
  <2> QED BY <2>1, <2>2 DEF SameText
<1>4. CASE n = 0
  <2>1. TextItems(r, t) = {}
    BY <1>2, <1>4 DEF TextItems, Ongoing, Texts
  <2> QED BY <2>1, <1>3, <1>4 DEF Matching, Ongoing, r
<1>5. CASE n # 0
  <2>1. 1 \in DOMAIN u /\ u[1].type = "text" /\ u[1].of = n /\ u[1].turn = t
    BY <1>5 DEF Texts
  <2>2. Len(st) + 1 \in DOMAIN r /\ r[Len(st) + 1] = u[1]
    <3>1. Len(st) + 1 \in 1..(Len(st) + Len(u)) /\ ~(Len(st) + 1 <= Len(st)) /\ (Len(st) + 1) - Len(st) = 1
      BY <2>1, <1>1
    <3> QED BY <3>1, <1>1
  <2>3. \A i \in TextItems(r, t) : i = Len(st) + 1
    <3> SUFFICES ASSUME NEW i \in TextItems(r, t) PROVE i = Len(st) + 1
      OBVIOUS
    <3>1. i \in DOMAIN r /\ i \notin DOMAIN st
      BY <1>2 DEF TextItems, Ongoing
    <3>2. i - Len(st) \in Texts(u)
      BY <3>1, <1>2 DEF TextItems, Texts
    <3>3. i - Len(st) = 1
      BY <3>2, <1>5
    <3> QED BY <3>1, <3>3, <1>1
  <2>4. TextItems(r, t) = {Len(st) + 1} /\ r[Len(st) + 1].of = n
    BY <2>1, <2>2, <2>3 DEF TextItems
  <2>5. Matching(sh, r, t)
    BY <2>4, <1>5 DEF Matching, Ongoing
  <2> QED BY <2>5, <1>3 DEF r
<1> QED BY <1>4, <1>5

(* With the response all of the text was shown. *)
LEMMA AllIsShown ==
  ASSUME IInv, Live, response # None
  PROVE  response = read /\ partial = read.text /\ response \in Reads
         /\ \E e \in shown : e.type = "done" /\ e.turn = turns
<1>1. /\ TypeOK /\ hand = None /\ response = read
      /\ \A i \in DOMAIN queue : queue[i].type = "finished"
      /\ \E e \in shown : e.type = "done" /\ e.turn = turns
      /\ Numbered(Ahead, partial, read.text, turns)
  BY DEF IInv, ResponseInv, StreamInv
<1>2. Texts(Ahead) = {}
  BY <1>1 DEF Ahead, AheadOf, Texts
<1>3. partial \in Nat /\ read.text \in Nat /\ read \in Reads
  BY <1>1, StreamRunAssumption DEF TypeOK, Reads
<1> QED BY <1>1, <1>2, <1>3, NoneNumbered

(* A text that is stored as it was shown may end the run. *)
LEMMA MatchingCloses ==
  ASSUME NEW sh, NEW st, NEW t, NEW how, Matching(sh, st, t)
  PROVE  Closed(sh, st, t, how)
<1>1. PICK n \in Nat :
        /\ Seen(sh, t) = Pieces(t, n)
        /\ n = 0 => TextItems(st, t) = {}
        /\ n # 0 => \E i \in TextItems(st, t) : TextItems(st, t) = {i} /\ st[i].of = n
  BY DEF Matching
<1>2. CASE n = 0
  BY <1>1, <1>2 DEF Closed
<1>3. CASE n # 0
  BY <1>1, <1>3 DEF Closed
<1> QED BY <1>2, <1>3

(* What was shown of a text is what is stored of it, turn by turn. *)
LEMMA TextStep ==
  ASSUME IInv, [Next]_vars
  PROVE  TextInv'
<1>t. /\ TypeOK /\ PlaceInv /\ stored \in Seq(Items) /\ buffer \in Seq(Events) /\ todo \in Seq(Calls)
      /\ partial \in Nat /\ turns \in 0..MaxTurns /\ MaxTurns \in Nat
  BY StreamRunAssumption DEF IInv, TypeOK
<1>i. status # "lost" =>
        /\ \A t \in 0..MaxTurns : /\ t < turns => Matching(shown, stored, t)
                                  /\ t > turns => Ongoing(shown, stored, t, 0)
        /\ pc = "turn" => Ongoing(shown, stored, turns, 0)
        /\ Live => Ongoing(shown, stored, turns, partial)
        /\ pc \in {"tools", "tool", "draining"} => Matching(shown, stored, turns)
        /\ pc \in {"failing", "ended"} => Closed(shown, stored, turns, status)
  BY DEF IInv, TextInv
<1> DEFINE Same(t) == SameText(shown, stored, shown', stored', t)
           Close == Closed(shown', stored', turns', status')
<1>l. status' = "lost" => TextInv'
  BY DEF TextInv
(* The other turns. *)
<1>o. ASSUME status # "lost", turns' = turns, \A t \in 0..MaxTurns : t # turns => Same(t),
             NEW t \in 0..MaxTurns
      PROVE  /\ t < turns' => Matching(shown', stored', t)
             /\ t > turns' => Ongoing(shown', stored', t, 0)
  <2>1. t # turns => SameText(shown, stored, shown', stored', t)
    BY <1>o
  <2> HIDE DEF Same
  <2>2. t < turns => t # turns
    BY <1>t
  <2>3. t > turns => t # turns
    BY <1>t
  <2>4. t # turns => /\ Matching(shown, stored, t) => Matching(shown', stored', t)
                     /\ Ongoing(shown, stored, t, 0) => Ongoing(shown', stored', t, 0)
    BY <2>1, SameKeeps
  <2> QED BY <2>2, <2>3, <2>4, <1>o, <1>i
(* A run that ends. *)
<1>c. ASSUME status # "lost", turns' = turns, \A t \in 0..MaxTurns : t # turns => Same(t),
             pc' \in {"failing", "ended"}, Close
      PROVE  TextInv'
  <2>1. \A t \in 0..MaxTurns : /\ t < turns' => Matching(shown', stored', t)
                               /\ t > turns' => Ongoing(shown', stored', t, 0)
    BY <1>c, <1>o
  <2> QED BY <2>1, <1>c DEF TextInv, Live
(* A run that goes on. *)
<1>g. ASSUME status # "lost", turns' = turns, \A t \in 0..MaxTurns : Same(t),
             pc' = "turn" => pc = "turn",
             Live' => (Live /\ partial' = partial) \/ (pc = "turn" /\ partial' = 0),
             pc' \in {"tools", "tool", "draining"} => pc \in {"tools", "tool", "draining"},
             pc' \notin {"failing", "ended"}
      PROVE  TextInv'
  <2>1. \A t \in 0..MaxTurns : /\ t < turns' => Matching(shown', stored', t)
                               /\ t > turns' => Ongoing(shown', stored', t, 0)
    BY <1>g, <1>o
  <2>2. SameText(shown, stored, shown', stored', turns)
    BY <1>g, <1>t
  <2>3. /\ Matching(shown, stored, turns) => Matching(shown', stored', turns)
        /\ \A n : Ongoing(shown, stored, turns, n) => Ongoing(shown', stored', turns, n)
    BY <2>2, SameKeeps
  <2> HIDE DEF Same, Close
  <2> QED BY <2>1, <2>3, <1>g, <1>i DEF TextInv
<1>n. UNCHANGED <<shown, stored>> => \A t : Same(t)
  BY NothingNew
<1>p. \A e : e.type # "text" /\ shown' = shown \union {e} /\ stored' = stored => \A t : Same(t)
  BY ShownElsewhere
<1>q. \A e \in Items : e.type = "text" /\ e.turn = turns /\ stored' = Append(stored, e) /\ shown' = shown
                         => \A t : t # turns => Same(t)
  BY <1>t, StoredElsewhere
<1>m. Mark("error").type # "text"
  BY DEF Mark, About
<1> HIDE DEF Same, Close
<1> USE DEF vars, stream, turn, rows
<1>u. ASSUME UNCHANGED <<shown, stored, status, turns, pc>>, Live => UNCHANGED partial
      PROVE  TextInv'
  BY <1>u, <1>i DEF TextInv, Live
<1>1. CASE UNCHANGED vars
  BY <1>1, <1>u
<1>2. ASSUME Read PROVE TextInv'
  BY <1>2, <1>u DEF Read, ReadText, ReadCall, EndResponse, FailResponse
<1>3. ASSUME StartTurn PROVE TextInv'
  <2>1. CASE status' = "lost"
    BY <2>1, <1>l
  <2>2. CASE status' # "lost"
    <3>1. /\ pc = "turn" /\ status # "lost" /\ turns' = turns /\ stored' = stored
          /\ shown' = shown \/ shown' = shown \union {Mark("error")}
          /\ \/ pc' \in {"failing", "ended"}
             \/ pc' = "waiting" /\ partial' = 0
      BY <1>3, <2>2, <1>t DEF StartTurn, Finish, Fail, Escape, Show, PlaceInv
    <3>2. \A t \in 0..MaxTurns : Same(t)
      BY <3>1, <1>n, <1>p, <1>m
    <3>3. CASE pc' \in {"failing", "ended"}
      <4>1. SameText(shown, stored, shown', stored', turns)
        BY <3>2, <1>t DEF Same
      <4>2. Ongoing(shown', stored', turns, 0)
        BY <4>1, <3>1, <1>i, SameKeeps
      <4>3. Close
        BY <4>2, <3>1 DEF Close, Ongoing, Closed
      <4> QED BY <3>1, <3>2, <3>3, <4>3, <1>c
    <3>4. CASE pc' = "waiting" /\ partial' = 0
      BY <3>1, <3>2, <3>4, <1>g
    <3> QED BY <3>1, <3>3, <3>4
  <2> QED BY <2>1, <2>2
<1>4. ASSUME Take \/ Wake PROVE TextInv'
  <2>1. /\ UNCHANGED <<shown, stored, turns, partial>> /\ pc = "waiting" /\ pc' \in {"taken", "over"}
        /\ status # "lost"
    BY <1>4, <1>t DEF Take, Wake, PlaceInv
  <2> QED BY <2>1, <1>n, <1>g DEF Live
(* store_partial_text_once, while the run ends. *)
<1>h. ASSUME NEW STATE sh, shown' = sh, Ongoing(sh, stored, turns, partial), status # "lost", turns' = turns,
             NEW STATE pieces, pieces \in {partial, partial + 1}, response = None, StorePartial(pieces)
      PROVE  Close /\ \A t \in 0..MaxTurns : t # turns => SameText(sh, stored, sh, stored', t)
  <2>1. pieces \in Nat
    BY <1>h, <1>t
  <2> DEFINE e == About("text", pieces)
  <2>2. e \in Items /\ e.type = "text" /\ e.turn = turns /\ e.of = pieces
    <3>1. e \in Items
      BY <2>1, <1>t, EventTypes
    <3> QED BY <3>1 DEF About
  <2>3. stored' = IF pieces = 0 THEN stored ELSE Append(stored, e)
    BY <1>h DEF StorePartial
  <2> HIDE DEF e
  <2>4. /\ pieces = 0 => Closed(sh, stored, turns, status')
        /\ Closed(sh, Append(stored, e), turns, status')
    BY <2>2, <1>h, <1>t, PartialStored
  <2>5. Close
    BY <2>3, <2>4, <1>h DEF Close
  <2>6. \A t : t # turns => SameText(sh, stored, sh, Append(stored, e), t)
    BY <2>2, <1>t, StoredElsewhere
  <2>7. \A t : SameText(sh, stored, sh, stored, t)
    BY NothingNew
  <2> QED BY <2>3, <2>5, <2>6, <2>7
<1>5. ASSUME Look PROVE TextInv'
  <2>1. /\ pc = "taken" /\ status # "lost" /\ Live /\ UNCHANGED <<turns>>
        /\ partial' = IF hand.type = "text" THEN partial + 1 ELSE partial
    BY <1>5, <1>t DEF Look, PlaceInv, Live
  <2>2. hand \in Events /\ hand # None /\ hand.turn = turns /\ (hand.type = "text" => hand.of = partial + 1)
    BY <2>1, FoundInHand
  <2>3. response = None
    BY <2>2 DEF IInv, ResponseInv
  <2>4. Ongoing(shown, stored, turns, partial)
    BY <2>1, <1>i
  <2>5. CASE shown' = shown /\ StorePartial(partial') /\ pc' = "ended"
    <3>1. partial' \in {partial, partial + 1}
      BY <2>1
    <3>2. Close /\ \A t \in 0..MaxTurns : t # turns => SameText(shown, stored, shown, stored', t)
      BY <3>1, <2>1, <2>3, <2>4, <2>5, <1>h
    <3> QED BY <3>2, <2>1, <2>5, <1>c DEF Same
  <2>6. CASE SendOn
    <3>1. shown' = shown \union {hand} /\ UNCHANGED <<stored, status>> /\ pc' = "sending"
      BY <2>6 DEF SendOn, Show
    <3>2. CASE hand.type # "text"
      BY <3>1, <3>2, <2>1, <1>p, <1>g DEF Live
    <3>3. CASE hand.type = "text"
      <4>1. \A t \in 0..MaxTurns : t # turns => Same(t)
        BY <3>1, <2>2, ShownElsewhere DEF Same
      <4>2. \A t \in 0..MaxTurns : /\ t < turns' => Matching(shown', stored', t)
                                   /\ t > turns' => Ongoing(shown', stored', t, 0)
        BY <4>1, <2>1, <1>o
      <4>3. Ongoing(shown', stored', turns', partial')
        BY <3>1, <3>3, <2>1, <2>2, <2>4, <1>t, ShownNext
      <4> QED BY <4>2, <4>3, <3>1 DEF TextInv
    <3> QED BY <3>2, <3>3
  <2> QED BY <2>5, <2>6, <1>5 DEF Look, Stop, Finish
<1>6. ASSUME Sent PROVE TextInv'
  <2>1. /\ pc = "sending" /\ status # "lost" /\ Live /\ UNCHANGED <<turns, partial, shown>>
    BY <1>6, <1>t DEF Sent, Stop, PlaceInv, Live
  <2>2. Ongoing(shown, stored, turns, partial)
    BY <2>1, <1>i
  <2>3. CASE pc' = "waiting" /\ UNCHANGED stored
    BY <2>1, <2>3, <1>n, <1>g DEF Live
  <2>4. CASE StorePartial(partial) /\ status' = "cancelled" /\ pc' = "ended"
    <3>1. CASE response = None
      <4>1. partial \in {partial, partial + 1}
        OBVIOUS
      <4>2. Close /\ \A t \in 0..MaxTurns : t # turns => SameText(shown, stored, shown, stored', t)
        BY <4>1, <3>1, <2>1, <2>2, <2>4, <1>h
      <4> QED BY <4>2, <2>1, <2>4, <1>c DEF Same
    <3>2. CASE response # None
      <4>1. stored' = stored
        BY <3>2, <2>4 DEF StorePartial
      <4>2. \E e \in shown : e.type = "done" /\ e.turn = turns
        BY <3>2, <2>1, AllIsShown
      <4>3. Close
        BY <4>1, <4>2, <2>1, <2>2, <2>4, <1>t DEF Close, Closed, Ongoing
      <4> QED BY <4>1, <4>3, <2>1, <2>4, <1>n, <1>c
    <3> QED BY <3>1, <3>2
  <2> QED BY <2>3, <2>4, <1>6 DEF Sent, Stop, Finish
<1>7. ASSUME Over PROVE TextInv'
  <2>1. pc = "over" /\ status # "lost" /\ Live /\ UNCHANGED turns
    BY <1>7, <1>t DEF Over, PlaceInv, Live
  <2>2. Ongoing(shown, stored, turns, partial)
    BY <2>1, <1>i
  <2>3. CASE status' = "lost"
    BY <2>3, <1>l
  <2>4. CASE response = None /\ status' # "lost"
    <3>1. StorePartial(partial) /\ shown' = shown \union {Mark("error")} /\ pc' = "failing"
      BY <1>7, <2>4 DEF Over, Fail, Show
    <3>2. \A t : SameText(shown, stored, shown', stored, t)
      BY <3>1, <1>m, ShownElsewhere
    <3>3. Ongoing(shown', stored, turns, partial)
      BY <3>2, <2>2, SameKeeps
    <3>4. partial \in {partial, partial + 1}
      OBVIOUS
    <3>5. /\ Close
          /\ \A t \in 0..MaxTurns : t # turns => SameText(shown \union {Mark("error")}, stored, shown \union {Mark("error")}, stored', t)
      BY <3>1, <3>3, <3>4, <2>1, <2>4, <1>h
    <3>6. \A t \in 0..MaxTurns : t # turns => Same(t)
      BY <3>1, <3>2, <3>5 DEF Same, SameText
    <3> QED BY <3>1, <3>5, <3>6, <2>1, <1>c
  <2>5. CASE response # None /\ status' # "lost"
    <3>1. stored' = stored \o OutputItems /\ UNCHANGED shown /\ pc' \in {"ended", "tools"}
      BY <1>7, <2>5 DEF Over, Escape, Finish
    <3>2. partial = response.text /\ response \in Reads
      BY <2>1, <2>5, AllIsShown
    <3>3. /\ OutputItems \in Seq(Items)
          /\ \A i \in DOMAIN OutputItems : OutputItems[i].turn = turns
          /\ partial = 0 => Texts(OutputItems) = {}
          /\ partial # 0 => Texts(OutputItems) = {1} /\ OutputItems[1].of = partial
      BY <3>2, <1>t, OutputStored
    <3>4. /\ Matching(shown, stored \o OutputItems, turns)
          /\ \A t : t # turns => SameText(shown, stored, shown, stored \o OutputItems, t)
      BY <3>3, <2>2, <1>t, ResponseStored
    <3>5. Matching(shown', stored', turns') /\ \A t \in 0..MaxTurns : t # turns => Same(t)
      BY <3>1, <3>4, <2>1 DEF Same
    <3>6. Close
      BY <3>5, MatchingCloses DEF Close
    <3>7. \A t \in 0..MaxTurns : /\ t < turns' => Matching(shown', stored', t)
                                 /\ t > turns' => Ongoing(shown', stored', t, 0)
      BY <3>5, <2>1, <1>o
    <3> QED BY <3>1, <3>5, <3>6, <3>7 DEF TextInv, Live, Close
  <2> QED BY <2>3, <2>4, <2>5
<1>8. ASSUME BeginCall \/ EndCall PROVE TextInv'
  <2>1. CASE status' = "lost"
    BY <2>1, <1>l
  <2>2. CASE status' # "lost"
    <3>1. /\ UNCHANGED <<shown, turns>> /\ status # "lost"
          /\ pc \in {"tools", "tool"} /\ pc' \in {"tools", "tool"} /\ todo # <<>>
          /\ stored' \in {stored, Append(stored, About("output", Head(todo)))}
      BY <1>8, <2>2, <1>t DEF BeginCall, EndCall, Escape, PlaceInv
    <3>2. About("output", Head(todo)) \in Items /\ About("output", Head(todo)).type # "text"
      <4>1. Head(todo) \in Calls
        BY <3>1, <1>t
      <4>2. About("output", Head(todo)) \in Items
        BY <4>1, <1>t, EventTypes
      <4> QED BY <4>2 DEF About
    <3>3. \A t : SameText(shown, stored, shown, Append(stored, About("output", Head(todo))), t)
      BY <3>2, <1>t, StoredElsewhere
    <3>4. \A t \in 0..MaxTurns : Same(t)
      BY <3>1, <3>3, <1>n DEF Same
    <3> QED BY <3>1, <3>4, <1>g DEF Live
  <2> QED BY <2>1, <2>2
<1>9. ASSUME Drain PROVE TextInv'
  <2>1. /\ buffer # <<>> /\ shown' = shown \union {Head(buffer)} /\ UNCHANGED <<stored, turns, status>>
        /\ pc \in {"tools", "draining"} /\ pc' = "draining" /\ status # "lost"
    BY <1>9, <1>t DEF Drain, Show, PlaceInv
  <2>2. Head(buffer).type # "text"
    <3>1. 1 \in DOMAIN buffer /\ Head(buffer) = buffer[1]
      BY <2>1, <1>t
    <3> QED BY <3>1, <1>t DEF PlaceInv
  <2>3. \A t \in 0..MaxTurns : Same(t)
    BY <2>1, <2>2, <1>p
  <2> QED BY <2>1, <2>3, <1>g DEF Live
<1>10. ASSUME EndTurn PROVE TextInv'
  <2>1. /\ UNCHANGED <<shown, stored>> /\ pc = "draining" /\ pc' \in {"turn", "ended"} /\ turns' = turns + 1
        /\ status # "lost" /\ turns < MaxTurns
    BY <1>10, <1>t DEF EndTurn, Finish, PlaceInv
  <2>2. Matching(shown, stored, turns)
    BY <2>1, <1>i
  <2>3. turns' \in 0..MaxTurns /\ turns' > turns
    BY <2>1, <1>t
  <2>4. Ongoing(shown, stored, turns', 0)
    BY <2>1, <2>3, <1>i
  <2>5. \A t \in 0..MaxTurns : /\ t < turns' => Matching(shown', stored', t)
                               /\ t > turns' => Ongoing(shown', stored', t, 0)
    <3> TAKE t \in 0..MaxTurns
    <3>1. (t < turns' => t < turns \/ t = turns) /\ (t > turns' => t > turns)
      BY <2>1, <1>t
    <3> QED BY <3>1, <2>1, <2>2, <1>i
  <2>6. Closed(shown', stored', turns', status')
    BY <2>1, <2>4 DEF Closed, Ongoing
  <2> QED BY <2>1, <2>4, <2>5, <2>6 DEF TextInv, Live
<1>11. ASSUME EndError PROVE TextInv'
  <2>1. UNCHANGED <<shown, stored, status, turns>> /\ pc' = "ended" /\ (pc = "failing" \/ status = "lost")
    BY <1>11, <1>t DEF EndError, PlaceInv
  <2> QED BY <2>1, <1>i DEF TextInv, Live
<1>12. ASSUME Cancel PROVE TextInv'
  BY <1>12, <1>u DEF Cancel
<1>13. ASSUME Leave PROVE TextInv'
  BY <1>13, <1>l DEF Leave
<1> QED BY <1>1, <1>2, <1>3, <1>4, <1>5, <1>6, <1>7, <1>8, <1>9, <1>10, <1>11, <1>12, <1>13 DEF Next, Run

-------------------------------------------------------------------------------
(* The invariant, and what follows from it.                                *)

(* The invariant holds of a run that has not begun. *)
LEMMA Initially ==
  Init => IInv
<1> SUFFICES ASSUME Init PROVE IInv
  OBVIOUS
<1>1. TypeOK
  <2>1. /\ read \in Reads /\ todo \in Seq(Calls) /\ queue \in Seq(Events) /\ buffer \in Seq(Events)
        /\ stored \in Seq(Items) /\ shown \in SUBSET Events /\ waits \in SUBSET Calls
    BY StreamRunAssumption DEF Init, Reads, Empty
  <2>2. partial \in 0..MaxText /\ turns \in 0..MaxTurns
    BY StreamRunAssumption DEF Init
  <2> QED BY <2>1, <2>2 DEF Init, TypeOK, PCs
<1>2. HandInv /\ ResponseInv /\ CutInv /\ PlaceInv /\ FreshInv
  BY DEF Init, HandInv, ResponseInv, CutInv, PlaceInv, FreshInv, Live
<1>3. StreamInv
  BY DEF Init, StreamInv, Live, Ahead, AheadOf, WellEnded
<1>4. CallsInv
  BY DEF Init, CallsInv, Distinct, CallsIn, Kept, Told
<1>5. TextInv
  <2>1. \A t : Seen({}, t) = {} /\ TextItems(<<>>, t) = {} /\ Pieces(t, 0) = {}
    BY DEF Seen, TextItems, Pieces
  <2>2. \A t : Ongoing(shown, stored, t, 0)
    BY <2>1 DEF Init, Ongoing
  <2>3. turns = 0 /\ pc = "turn" /\ \A t \in 0..MaxTurns : ~(t < turns)
    BY StreamRunAssumption DEF Init
  <2> QED BY <2>2, <2>3 DEF TextInv, Live
<1> QED BY <1>1, <1>2, <1>3, <1>4, <1>5 DEF IInv

(* It is kept by every step. *)
LEMMA EveryStep ==
  IInv /\ [Next]_vars => IInv'
  BY TypeStep, HandStep, StreamStep, ResponseStep, CutStep, PlaceStep, FreshStep, CallsStep, TextStep DEF IInv

(* Every part of the invariant holds of every run. *)
THEOREM InvariantHolds == Spec => []IInv
  BY Initially, EveryStep, PTL DEF Spec

(* A response that the reader thread has cut off because of the signal is  *)
(* never taken for the model's, so that no tool is called with half of its *)
(* arguments.                                                              *)
THEOREM HalfIsNeverTaken == Spec => []NoHalfResponse
<1>1. IInv => NoHalfResponse
  <2> SUFFICES ASSUME IInv PROVE NoHalfResponse
    OBVIOUS
  <2>1. TypeOK /\ CutInv
    BY DEF IInv
  <2>2. Mark("done") \in Events /\ Mark("done").type = "done"
    <3>1. Mark("done") \in Events
      BY <2>1, EventTypes
    <3> QED BY <3>1 DEF Mark, About
  <2>3. Mark("done") # None
    BY <2>2, NoneIsNothing
  <2> QED BY <2>1, <2>2, <2>3 DEF NoHalfResponse, CutInv
<1> QED BY <1>1, InvariantHolds, PTL

(* After a cancel nothing of the model's is sent to the client any more,   *)
(* although the reader thread may still put it into the queue.             *)
THEOREM CancelSilences == Spec => SilentAfterCancel
<1>1. IInv /\ [Next]_vars => [signal => \A e \in shown' \ shown : e.type \notin FromProvider]_vars
  <2> SUFFICES ASSUME IInv, [Next]_vars, signal, NEW e \in shown' \ shown
               PROVE  e.type \notin FromProvider
    OBVIOUS
  <2>t. TypeOK /\ PlaceInv /\ buffer \in Seq(Events)
    BY DEF IInv, TypeOK
  <2>m. Mark("error").type \notin FromProvider
    BY DEF Mark, About, FromProvider
  <2>e. shown' = shown \union {Mark("error")} => e.type \notin FromProvider
    BY <2>m
  <2> USE DEF vars, stream, turn, rows
  <2>1. UNCHANGED shown => FALSE
    OBVIOUS
  <2>2. ASSUME Read PROVE FALSE
    BY <2>1, <2>2 DEF Read, ReadText, ReadCall, EndResponse, FailResponse
  <2>3. ASSUME StartTurn \/ Over \/ BeginCall \/ EndCall PROVE e.type \notin FromProvider
    BY <2>1, <2>3, <2>e DEF StartTurn, Over, BeginCall, EndCall, Fail, Escape, Show
  <2>4. ASSUME Take \/ Wake \/ Look \/ Sent PROVE FALSE
    BY <2>1, <2>4 DEF Take, Wake, Look, Sent, Stop
  <2>5. ASSUME Drain PROVE e.type \notin FromProvider
    <3>1. e = Head(buffer) /\ buffer # <<>>
      BY <2>5 DEF Drain, Show
    <3>2. 1 \in DOMAIN buffer /\ e = buffer[1]
      BY <3>1, <2>t
    <3> QED BY <3>2, <2>t DEF PlaceInv, FromProvider
  <2>6. ASSUME EndTurn \/ EndError \/ Cancel \/ Leave PROVE FALSE
    BY <2>1, <2>6 DEF EndTurn, EndError, Cancel, Leave
  <2> QED BY <2>1, <2>2, <2>3, <2>4, <2>5, <2>6 DEF Next, Run
<1> QED BY <1>1, InvariantHolds, PTL DEF Spec, SilentAfterCancel

(* What the client was shown of a run that is committed, its tools' begins *)
(* and ends, is what its transcript says.                                  *)
THEOREM ToolsAreTold == Spec => []ToolEventsMatch
<1>1. IInv => ToolEventsMatch
  <2> SUFFICES ASSUME IInv, Committed
               PROVE  /\ ShownOf("tool_called") = StoredOf("call")
                      /\ ShownOf("tool_ended") = StoredOf("call")
                      /\ StoredOf("output") \union waits = StoredOf("call")
    BY DEF ToolEventsMatch
  <2>1. todo = <<>> /\ buffer = <<>> /\ status # "lost" /\ pc # "tool"
    BY DEF Committed, IInv, PlaceInv
  <2>2. CallsIn(todo) = {} /\ CallsIn(buffer) = {}
    BY <2>1 DEF CallsIn
  <2>3. /\ Kept(stored, "output") \union waits = Kept(stored, "call")
        /\ Told(shown, buffer, "tool_ended") = Kept(stored, "call")
        /\ Told(shown, buffer, "tool_called") = Kept(stored, "call")
    BY <2>1, <2>2 DEF IInv, CallsInv
  <2>4. \A type : Told(shown, buffer, type) = ShownOf(type) /\ Kept(stored, type) = StoredOf(type)
    BY <2>2 DEF Told, ShownOf, Kept, StoredOf
  <2> QED BY <2>3, <2>4
<1> QED BY <1>1, InvariantHolds, PTL

(* So many pieces are that many events. *)
LEMMA PiecesCounted ==
  ASSUME NEW t, NEW n \in Nat
  PROVE  Cardinality(Pieces(t, n)) = n
<1> DEFINE f == [k \in 1..n |-> [type |-> "text", turn |-> t, of |-> k]]
<1>1. f \in Bijection(1..n, Pieces(t, n))
  <2>1. f \in [1..n -> Pieces(t, n)]
    BY DEF Pieces
  <2>2. \A a, b \in 1..n : f[a] = f[b] => a = b
    <3> SUFFICES ASSUME NEW a \in 1..n, NEW b \in 1..n, f[a] = f[b] PROVE a = b
      OBVIOUS
    <3>1. f[a].of = a /\ f[b].of = b
      OBVIOUS
    <3> QED BY <3>1
  <2>3. \A e \in Pieces(t, n) : \E k \in 1..n : f[k] = e
    BY DEF Pieces
  <2> HIDE DEF f
  <2> QED BY <2>1, <2>2, <2>3 DEF Bijection, Injection, Surjection, IsInjective
<1>2. ExistsBijection(1..n, Pieces(t, n))
  BY <1>1 DEF ExistsBijection
<1>3. IsFiniteSet(1..n) /\ Cardinality(1..n) = n
  BY FS_Interval
<1> QED BY <1>2, <1>3, FS_Bijection

(* The text that the client has seen is the text that is stored, of every  *)
(* turn of a run that is committed.                                        *)
THEOREM TextOutlivesRun == Spec => []TextIsKept
<1>1. IInv => TextIsKept
  <2> SUFFICES ASSUME IInv, Committed, NEW t \in 0..MaxTurns
               PROVE  /\ \A i \in TextItems(stored, t) :
                           stored[i].of - Cardinality(Seen(shown, t)) \in {0, 1} /\ TextItems(stored, t) = {i}
                      /\ TextItems(stored, t) = {} =>
                           \/ Seen(shown, t) = {}
                           \/ status = "cancelled" /\ \E e \in shown : e.type = "done" /\ e.turn = t
    BY DEF TextIsKept, TextItems, Seen
  <2>1. turns \in Nat /\ t \in Nat
    BY StreamRunAssumption DEF IInv, TypeOK
  <2>2. /\ t < turns => Matching(shown, stored, t)
        /\ t > turns => Ongoing(shown, stored, t, 0)
        /\ Closed(shown, stored, turns, status)
    BY DEF Committed, IInv, TextInv
  <2>3. Closed(shown, stored, t, status)
    <3>1. CASE t < turns
      BY <3>1, <2>2, MatchingCloses
    <3>2. CASE t > turns
      BY <3>2, <2>2 DEF Ongoing, Closed
    <3>3. CASE t = turns
      BY <3>3, <2>2
    <3> QED BY <2>1, <3>1, <3>2, <3>3
  <2>4. PICK n \in Nat :
          /\ Seen(shown, t) = Pieces(t, n)
          /\ \/ /\ TextItems(stored, t) = {}
                /\ n = 0 \/ (status = "cancelled" /\ \E e \in shown : e.type = "done" /\ e.turn = t)
             \/ \E i \in TextItems(stored, t) : TextItems(stored, t) = {i} /\ stored[i].of \in {n, n + 1}
    BY <2>3 DEF Closed
  <2>5. Cardinality(Seen(shown, t)) = n
    BY <2>4, PiecesCounted
  <2>6. n = 0 => Seen(shown, t) = {}
    BY <2>4 DEF Pieces
  <2>7. \A m \in {n, n + 1} : m - n \in {0, 1}
    BY <2>4
  <2> QED BY <2>4, <2>5, <2>6, <2>7
<1> QED BY <1>1, InvariantHolds, PTL

===============================================================================
