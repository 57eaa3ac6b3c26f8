-------------------------- MODULE OrderStream_proofs --------------------------
(***************************************************************************)
(* What a client of an SSE stream is owed, and what it may cost, for any   *)
(* number of connections, users and events and for any limits.  A process  *)
(* is used as EventFeed describes it.                                      *)
(***************************************************************************)
EXTENDS OrderStream, FiniteSetTheorems, SequenceTheorems, TLAPS

LEMMA LimitsAreNumbers ==
  /\ MaxHead \in Nat /\ Total \in Nat /\ PerUser \in Nat /\ ReplayLimit \in Nat
  /\ QueueLimit \in Nat
  BY OrderStreamAssumption

(***************************************************************************)
(* Sequences of cursors.                                                   *)
(***************************************************************************)
(* The numbers are well ordered.                                           *)
LEMMA LeastNumber ==
  ASSUME NEW S \in SUBSET Nat, S # {}
  PROVE  \E n \in S : \A m \in S : n <= m
<1>1. PICK n \in S : \A m \in S : <<m, n>> \notin OpToRel(<, Nat)
  BY WFMin, NatLessThanWellFounded
<1>2. ASSUME NEW m \in S PROVE n <= m
  <2>1. ~(m < n)
    BY <1>1 DEF OpToRel
  <2> QED BY <2>1
<1> QED BY <1>2

LEMMA CursorsAreASequence ==
  ASSUME NEW a \in Nat, NEW b \in Nat, a <= b
  PROVE  /\ Cursors(a, b) \in Seq(Nat)
         /\ Len(Cursors(a, b)) = b - a
         /\ DOMAIN Cursors(a, b) = 1..(b - a)
         /\ \A n \in 1..(b - a) : Cursors(a, b)[n] = a + n
<1>1. b - a \in Nat /\ \A n \in 1..(b - a) : a + n \in Nat
  OBVIOUS
<1> QED BY <1>1 DEF Cursors

(* Nothing, and what is after a cursor when one goes on.                   *)
LEMMA CursorsGoOn ==
  ASSUME NEW a \in Nat, NEW b \in Nat, NEW d \in Nat, a <= b, b <= d
  PROVE  Cursors(a, b) \o Cursors(b, d) = Cursors(a, d)
<1> DEFINE s == Cursors(a, b)
           t == Cursors(b, d)
           u == Cursors(a, d)
<1>1. s \in Seq(Nat) /\ Len(s) = b - a /\ \A n \in 1..(b - a) : s[n] = a + n
  BY CursorsAreASequence
<1>2. t \in Seq(Nat) /\ Len(t) = d - b /\ \A n \in 1..(d - b) : t[n] = b + n
  BY CursorsAreASequence
<1>3. u \in Seq(Nat) /\ Len(u) = d - a /\ \A n \in 1..(d - a) : u[n] = a + n
  <2>1. a <= d
    OBVIOUS
  <2> QED BY <2>1, CursorsAreASequence
<1> HIDE DEF s, t, u
<1>4. /\ s \o t \in Seq(Nat) /\ Len(s \o t) = Len(s) + Len(t)
      /\ \A i \in 1..(Len(s) + Len(t)) :
           (s \o t)[i] = IF i <= Len(s) THEN s[i] ELSE t[i - Len(s)]
  BY <1>1, <1>2, ConcatProperties
<1>5. Len(s \o t) = d - a
  BY <1>1, <1>2, <1>4
<1>6. ASSUME NEW i \in 1..(d - a) PROVE (s \o t)[i] = a + i
  <2>1. CASE i <= b - a
    BY <1>1, <1>2, <1>4, <2>1
  <2>2. CASE i > b - a
    <3>1. i - (b - a) \in 1..(d - b)
      BY <2>2
    <3>2. (s \o t)[i] = t[i - (b - a)]
      BY <1>1, <1>2, <1>4, <2>2
    <3> QED BY <1>2, <3>1, <3>2
  <2>3. i <= b - a \/ i > b - a
    OBVIOUS
  <2> QED BY <2>1, <2>2, <2>3, Zenon
<1>7. s \o t = u
  <2> PICK v : v = s \o t
    OBVIOUS
  <2>1. v \in Seq(Nat) /\ u \in Seq(Nat) /\ Len(v) = Len(u)
    BY <1>3, <1>4, <1>5
  <2>2. \A i \in 1..Len(v) : v[i] = u[i]
    BY <1>3, <1>5, <1>6
  <2>3. v = u
    BY <2>1, <2>2, SeqEqual
  <2> QED BY <2>3
<1> QED BY <1>7 DEF s, t, u

LEMMA CursorsOfNothing ==
  ASSUME NEW a \in Nat
  PROVE  Cursors(a, a) = <<>>
<1>1. Cursors(a, a) \in Seq(Nat) /\ Len(Cursors(a, a)) = 0
  BY CursorsAreASequence
<1> QED BY <1>1, EmptySeq

(* A piece of the log, put in order, is the piece.                         *)
LEMMA PieceInOrder ==
  ASSUME NEW a \in Nat, NEW b \in Nat, a <= b
  PROVE  InOrder((a + 1)..b) = Cursors(a, b)
<1> DEFINE S == (a + 1)..b
<1>0. a + 1 \in Int /\ b \in Int
  OBVIOUS
<1>1. Cardinality(S) = b - a
  <2>1. Cardinality((a + 1)..b) = IF a + 1 > b THEN 0 ELSE b - (a + 1) + 1
    BY <1>0, FS_Interval
  <2> QED BY <2>1
<1>2. ASSUME NEW r \in S PROVE Cardinality({q \in S : q <= r}) = r - a
  <2>1. {q \in S : q <= r} = (a + 1)..r /\ r \in Int
    OBVIOUS
  <2>2. Cardinality((a + 1)..r) = r - a
    BY <1>0, <2>1, FS_Interval
  <2> QED BY <2>1, <2>2
<1>3. ASSUME NEW n \in 1..(b - a)
      PROVE  (CHOOSE r \in S : Cardinality({q \in S : q <= r}) = n) = a + n
  <2>1. a + n \in S /\ (a + n) - a = n
    OBVIOUS
  <2>2. \A r \in S : Cardinality({q \in S : q <= r}) = n => r = a + n
    BY <1>2
  <2>3. Cardinality({q \in S : q <= a + n}) = n
    BY <1>2, <2>1
  <2> QED BY <2>1, <2>2, <2>3
<1> QED BY <1>1, <1>3 DEF InOrder, Cursors

(***************************************************************************)
(* deliver(): from rows that may repeat and go back, but leave no gap, the *)
(* rows that count are the piece of the log after the cursor.              *)
(***************************************************************************)
NoGap(from, rows) ==
  \A n \in DOMAIN rows :
    rows[n] <= from + 1 \/ \E m \in 1..(n - 1) : rows[n] <= rows[m] + 1

UpTo(rows, h) == \A n \in DOMAIN rows : rows[n] <= h

LEMMA FreshIsAPiece ==
  ASSUME NEW from \in Nat, NEW h \in Nat, NEW rows \in Seq(Nat),
         NoGap(from, rows), UpTo(rows, h)
  PROVE  \E to \in Nat :
           /\ from <= to
           /\ \A n \in DOMAIN rows : rows[n] <= to
           /\ Fresh(from, rows) = Cursors(from, to)
<1> DEFINE bounds == {u \in Nat : from <= u /\ UpTo(rows, u)}
<1>0. DOMAIN rows = 1..Len(rows) /\ Len(rows) \in Nat
      /\ \A n \in DOMAIN rows : rows[n] \in Nat
  BY LenProperties, ElementOfSeq
<1>1. bounds # {}
  <2>1. CASE from <= h
    BY <2>1
  <2>2. CASE h < from
    <3>1. UpTo(rows, from)
      BY <1>0, <2>2 DEF UpTo
    <3> QED BY <3>1
  <2> QED BY <2>1, <2>2
<1>2. PICK to \in bounds : \A u \in bounds : to <= u
  BY <1>1, LeastNumber
<1>3. to \in Nat /\ from <= to /\ \A n \in DOMAIN rows : rows[n] <= to
  BY <1>2 DEF UpTo
<1> HIDE DEF bounds
<1>4. to = from \/ \E n \in DOMAIN rows : rows[n] = to
  <2> SUFFICES ASSUME to # from, \A n \in DOMAIN rows : rows[n] # to PROVE FALSE
    OBVIOUS
  <2>1. to - 1 \in Nat /\ from <= to - 1
    BY <1>3
  <2>2. \A n \in DOMAIN rows : rows[n] <= to - 1
    BY <1>0, <1>3
  <2>3. to - 1 \in bounds
    BY <2>1, <2>2 DEF bounds, UpTo
  <2> QED BY <1>2, <1>3, <2>3
<1> DEFINE past == {m \in DOMAIN rows :
                      rows[m] > from /\ \A l \in 1..(m - 1) : rows[m] > rows[l]}
           new == {rows[n] : n \in past}
<1>5. new \subseteq (from + 1)..to
  BY <1>0, <1>3
<1>6. ASSUME NEW v \in (from + 1)..to PROVE v \in new
  <2> DEFINE hits == {n \in DOMAIN rows : rows[n] >= v}
  <2>1. hits # {} /\ hits \subseteq Nat
    BY <1>0, <1>3, <1>4
  <2>2. PICK n \in hits : \A m \in hits : n <= m
    BY <2>1, LeastNumber
  <2>3. n \in DOMAIN rows /\ rows[n] >= v /\ rows[n] \in Nat
    BY <1>0
  <2>4. \A l \in 1..(n - 1) : rows[l] < v /\ rows[l] \in Nat
    BY <1>0, <2>2, <2>3
  <2>5. rows[n] = v
    <3>1. rows[n] <= from + 1 \/ \E m \in 1..(n - 1) : rows[n] <= rows[m] + 1
      BY <2>3 DEF NoGap
    <3>2. v \in Nat /\ from + 1 <= v
      OBVIOUS
    <3>3. CASE rows[n] <= from + 1
      BY <2>3, <3>2, <3>3
    <3>4. ASSUME NEW m \in 1..(n - 1), rows[n] <= rows[m] + 1 PROVE rows[n] = v
      <4>1. rows[m] \in Nat /\ rows[m] < v
        BY <2>4
      <4>2. PICK x \in Nat, y \in Nat : x = rows[n] /\ y = rows[m]
        BY <2>3, <4>1
      <4>3. x <= y + 1 /\ y < v /\ x >= v
        BY <2>3, <3>4, <4>1, <4>2
      <4>4. x = v
        BY <3>2, <4>3
      <4> QED BY <4>2, <4>4
    <3> QED BY <3>1, <3>3, <3>4
  <2>6. n \in past
    BY <2>3, <2>4, <2>5
  <2> QED BY <2>5, <2>6
<1>7. new = (from + 1)..to
  BY <1>5, <1>6
<1>8. Fresh(from, rows) = Cursors(from, to)
  BY <1>3, <1>7, PieceInOrder DEF Fresh
<1> QED BY <1>3, <1>8

(* What has been called back leaves no gap, and the rest may follow it.    *)
LEMMA RowsLeaveNoGap ==
  ASSUME NEW a \in Nat, NEW b \in Nat, a <= b, NEW from \in Nat, a <= from
  PROVE  NoGap(from, Cursors(a, b)) /\ UpTo(Cursors(a, b), b)
<1>1. /\ DOMAIN Cursors(a, b) = 1..(b - a)
      /\ \A n \in 1..(b - a) : Cursors(a, b)[n] = a + n
  BY CursorsAreASequence
<1>2. UpTo(Cursors(a, b), b)
  BY <1>1 DEF UpTo
<1>3. ASSUME NEW n \in 1..(b - a)
      PROVE  \/ Cursors(a, b)[n] <= from + 1
             \/ \E m \in 1..(n - 1) : Cursors(a, b)[n] <= Cursors(a, b)[m] + 1
  <2>1. CASE n = 1
    BY <1>1, <2>1
  <2>2. CASE n # 1
    <3>1. n - 1 \in 1..(n - 1) /\ n - 1 \in 1..(b - a)
      BY <2>2
    <3>2. Cursors(a, b)[n] <= Cursors(a, b)[n - 1] + 1
      BY <1>1, <3>1
    <3> QED BY <3>1, <3>2
  <2> QED BY <2>1, <2>2
<1> QED BY <1>1, <1>2, <1>3 DEF NoGap

(* Rows begin no later than right after something there is before them.    *)
LEMMA ConcatLeavesNoGap ==
  ASSUME NEW from \in Nat, NEW s \in Seq(Nat), NEW t \in Seq(Nat), NEW p \in Nat,
         NoGap(from, s), NoGap(p, t),
         p <= from \/ \E n \in DOMAIN s : p <= s[n]
  PROVE  NoGap(from, s \o t)
<1>1. /\ s \o t \in Seq(Nat) /\ Len(s \o t) = Len(s) + Len(t)
      /\ \A i \in 1..(Len(s) + Len(t)) :
           (s \o t)[i] = IF i <= Len(s) THEN s[i] ELSE t[i - Len(s)]
  BY ConcatProperties
<1>2. /\ DOMAIN s = 1..Len(s) /\ DOMAIN t = 1..Len(t)
      /\ Len(s) \in Nat /\ Len(t) \in Nat
      /\ \A i \in 1..Len(s) : s[i] \in Nat
      /\ \A i \in 1..Len(t) : t[i] \in Nat
  BY LenProperties, ElementOfSeq
<1> DEFINE q == s \o t
<1>3. DOMAIN q = 1..(Len(s) + Len(t))
  BY <1>1, LenProperties
<1>4. ASSUME NEW n \in 1..Len(s)
      PROVE  q[n] <= from + 1 \/ \E m \in 1..(n - 1) : q[n] <= q[m] + 1
  <2>1. q[n] = s[n] /\ \A m \in 1..(n - 1) : q[m] = s[m]
    BY <1>1, <1>2
  <2> QED BY <1>2, <2>1 DEF NoGap
<1>5. ASSUME NEW n \in (Len(s) + 1)..(Len(s) + Len(t))
      PROVE  q[n] <= from + 1 \/ \E m \in 1..(n - 1) : q[n] <= q[m] + 1
  <2>1. n - Len(s) \in 1..Len(t) /\ q[n] = t[n - Len(s)]
    BY <1>1, <1>2
  <2>2. CASE t[n - Len(s)] <= p + 1
    <3>1. CASE p <= from
      BY <1>2, <2>1, <2>2, <3>1
    <3>2. CASE \E k \in DOMAIN s : p <= s[k]
      <4>1. PICK k \in 1..Len(s) : p <= s[k]
        BY <1>2, <3>2
      <4>2. k \in 1..(n - 1) /\ q[k] = s[k]
        BY <1>1, <1>2
      <4> QED BY <1>2, <2>1, <2>2, <4>1, <4>2
    <3> QED BY <3>1, <3>2
  <2>3. CASE \E m \in 1..(n - Len(s) - 1) : t[n - Len(s)] <= t[m] + 1
    <3>1. PICK m \in 1..(n - Len(s) - 1) : t[n - Len(s)] <= t[m] + 1
      BY <2>3
    <3>2. /\ Len(s) + m \in 1..(n - 1) /\ Len(s) + m \in 1..(Len(s) + Len(t))
          /\ ~(Len(s) + m <= Len(s)) /\ (Len(s) + m) - Len(s) = m
      BY <1>2
    <3>3. q[Len(s) + m] = t[m]
      BY <1>1, <3>2
    <3> QED BY <2>1, <3>1, <3>2, <3>3
  <2> QED BY <1>2, <2>1, <2>2, <2>3 DEF NoGap
<1> HIDE DEF q
<1>6. ASSUME NEW n \in DOMAIN q
      PROVE  q[n] <= from + 1 \/ \E m \in 1..(n - 1) : q[n] <= q[m] + 1
  <2>1. n \in 1..Len(s) \/ n \in (Len(s) + 1)..(Len(s) + Len(t))
    BY <1>2, <1>3
  <2> QED BY <1>4, <1>5, <2>1
<1>7. NoGap(from, q)
  BY <1>6 DEF NoGap
<1> QED BY <1>7 DEF q

LEMMA ConcatIsUpTo ==
  ASSUME NEW h \in Nat, NEW s \in Seq(Nat), NEW t \in Seq(Nat), UpTo(s, h), UpTo(t, h)
  PROVE  UpTo(s \o t, h)
<1>1. /\ s \o t \in Seq(Nat) /\ Len(s \o t) = Len(s) + Len(t)
      /\ \A i \in 1..(Len(s) + Len(t)) :
           (s \o t)[i] = IF i <= Len(s) THEN s[i] ELSE t[i - Len(s)]
  BY ConcatProperties
<1>2. /\ DOMAIN s = 1..Len(s) /\ DOMAIN t = 1..Len(t)
      /\ Len(s) \in Nat /\ Len(t) \in Nat
      /\ DOMAIN (s \o t) = 1..(Len(s) + Len(t))
  BY <1>1, LenProperties
<1>3. ASSUME NEW i \in 1..(Len(s) + Len(t)) PROVE (s \o t)[i] <= h
  <2>1. CASE i <= Len(s)
    <3>1. i \in 1..Len(s) /\ (s \o t)[i] = s[i]
      BY <1>1, <1>2, <2>1
    <3> QED BY <1>2, <3>1 DEF UpTo
  <2>2. CASE i > Len(s)
    <3>1. i - Len(s) \in 1..Len(t) /\ (s \o t)[i] = t[i - Len(s)]
      BY <1>1, <1>2, <2>2
    <3> QED BY <1>2, <3>1 DEF UpTo
  <2> QED BY <1>2, <2>1, <2>2
<1> QED BY <1>2, <1>3 DEF UpTo

LEMMA ConcatNumbers ==
  ASSUME NEW s \in Seq(Nat), NEW t \in Seq(Nat), NEW u \in Seq(Nat)
  PROVE  (s \o t) \o u = s \o (t \o u)
  BY ConcatAssociative

(***************************************************************************)
(* One stream, when the log has h events and was called back with up to p. *)
(***************************************************************************)
Stream ==
  [phase : {"closed", "authorized", "opening", "answered", "live"},
   user : Users \cup {None}, start : Nat \cup {None}, cursor : Nat,
   rows : Seq(Nat), pending : Seq(Nat), sent : Seq(Nat), queue : Seq(Nat),
   beats : Nat, bytes : Nat, blocked : BOOLEAN]

(* What it may cost.                                                       *)
Limited(s) ==
  /\ s.bytes = Len(s.queue) + s.beats
  /\ s.bytes <= QueueLimit
  /\ Len(s.pending) <= ReplayLimit
  /\ s.bytes > 0 => s.blocked

(* Before it is live nothing is written to it.                             *)
Unwritten(s) ==
  s.sent = <<>> /\ s.queue = <<>> /\ s.beats = 0 /\ s.bytes = 0 /\ ~s.blocked

(* The rows and what was announced meanwhile reach what was called back.   *)
Reaches(from, rows, p) == p <= from \/ \E n \in DOMAIN rows : p <= rows[n]

Replayed(s, h, p) ==
  /\ s.start \in Nat
  /\ NoGap(s.start, s.rows \o s.pending)
  /\ UpTo(s.rows \o s.pending, h)
  /\ Reaches(s.start, s.rows \o s.pending, p)

Complete(s, p) ==
  /\ s.start \in Nat /\ s.start <= s.cursor
  /\ s.sent \o s.queue = Cursors(s.start, s.cursor)
  /\ p <= s.cursor

Sound(s, h, p) ==
  /\ s \in Stream
  /\ Limited(s)
  /\ s.phase # "live" => Unwritten(s)
  /\ s.phase \in {"closed", "authorized"} => s.pending = <<>>
  /\ s.phase = "opening" => UpTo(s.pending, h)
  /\ s.phase = "answered" => Replayed(s, h, p)
  /\ s.phase = "live" => Complete(s, p)

(* A connection stays its user's, and only openings make one.              *)
Connected(s) == s.phase \in {"opening", "answered", "live"}
Follows(s, t) == Connected(t) => Connected(s) /\ t.user = s.user

LEMMA IdleIsSound ==
  /\ Idle \in Stream
  /\ \A h, p \in Nat : Sound(Idle, h, p)
  /\ \A s : Follows(s, Idle)
<1>1. <<>> \in Seq(Nat) /\ Len(<<>>) = 0
  BY EmptySeq
<1>2. Idle \in Stream
  BY <1>1 DEF Idle, Stream
<1>3. Limited(Idle) /\ Unwritten(Idle)
  BY <1>1, LimitsAreNumbers DEF Idle, Limited, Unwritten
<1> QED BY <1>2, <1>3 DEF Sound, Idle, Follows, Connected

(* The log grows: what was sound stays so.                                 *)
LEMMA GrowthIsSound ==
  ASSUME NEW h \in Nat, NEW i \in Nat, h <= i, NEW p, NEW s, Sound(s, h, p)
  PROVE  Sound(s, i, p)
<1>1. ASSUME NEW q \in Seq(Nat), UpTo(q, h) PROVE UpTo(q, i)
  <2>1. \A n \in DOMAIN q : q[n] \in Nat
    BY LenProperties, ElementOfSeq
  <2> QED BY <1>1, <2>1 DEF UpTo
<1>2. s.pending \in Seq(Nat) /\ s.rows \in Seq(Nat)
  BY DEF Sound, Stream
<1>3. s.rows \o s.pending \in Seq(Nat)
  BY <1>2, ConcatProperties
<1> QED BY <1>1, <1>2, <1>3 DEF Sound, Replayed

(* send(): all is sent or owed, in order, or the stream is closed.         *)
LEMMA SendAddsTheFrames ==
  ASSUME NEW s \in Stream, Limited(s), NEW frames \in Seq(Nat), NEW k \in Nat,
         Send(s, frames, k) # Idle
  PROVE  LET t == Send(s, frames, k) IN
         /\ t \in Stream
         /\ Limited(t)
         /\ t.sent \o t.queue = (s.sent \o s.queue) \o frames
         /\ t.phase = s.phase /\ t.user = s.user
         /\ t.start = s.start /\ t.cursor = s.cursor
         /\ t.rows = s.rows /\ t.pending = s.pending
<1> DEFINE taken == IF s.blocked THEN 0
                    ELSE IF k < Len(frames) THEN k ELSE Len(frames)
           first == SubSeq(frames, 1, taken)
           rest  == SubSeq(frames, taken + 1, Len(frames))
           t     == [s EXCEPT !.sent = @ \o first,
                              !.queue = @ \o rest, !.bytes = @ + Len(rest),
                              !.blocked = @ \/ k <= Len(frames)]
<1>1. /\ s.sent \in Seq(Nat) /\ s.queue \in Seq(Nat) /\ s.beats \in Nat
      /\ s.bytes \in Nat /\ s.blocked \in BOOLEAN /\ Len(frames) \in Nat
      /\ Len(s.queue) \in Nat
  <2>1. s.sent \in Seq(Nat) /\ s.queue \in Seq(Nat) /\ s.beats \in Nat
        /\ s.bytes \in Nat /\ s.blocked \in BOOLEAN
    BY DEF Stream
  <2> QED BY <2>1, LenProperties
<1>2. taken \in 0..Len(frames)
  BY <1>1
<1>3. /\ first \in Seq(Nat) /\ rest \in Seq(Nat)
      /\ Len(rest) = Len(frames) - taken /\ Len(rest) \in Nat
  <2>1. /\ \A i \in 1..taken : frames[i] \in Nat
        /\ \A i \in (taken + 1)..Len(frames) : frames[i] \in Nat
    BY <1>1, <1>2, ElementOfSeq
  <2>2. 1 \in Int /\ taken \in Int /\ taken + 1 \in Int /\ Len(frames) \in Int
    BY <1>1, <1>2
  <2>3. first \in Seq(Nat)
    BY <2>1, <2>2, SubSeqProperties
  <2>4. /\ rest \in Seq(Nat)
        /\ Len(rest) = IF taken + 1 <= Len(frames)
                       THEN Len(frames) - (taken + 1) + 1 ELSE 0
    <3> HIDE DEF taken
    <3> QED BY <2>1, <2>2, SubSeqProperties
  <2>5. Len(rest) = Len(frames) - taken
    <3>1. Len(frames) \in Nat /\ taken \in 0..Len(frames)
      BY <1>1, <1>2
    <3>2. Len(rest) = IF taken + 1 <= Len(frames)
                       THEN Len(frames) - (taken + 1) + 1 ELSE 0
      BY <2>4
    <3> HIDE DEF rest, taken
    <3> QED BY <3>1, <3>2
  <2>6. Len(frames) - taken \in Nat
    BY <1>1, <1>2
  <2> HIDE DEF first, rest, taken
  <2> QED BY <2>3, <2>4, <2>5, <2>6
<1>4. first \o rest = frames
  <2>1. /\ 1 \in 1..(Len(frames) + 1) /\ taken \in (1 - 1)..Len(frames)
        /\ Len(frames) \in taken..Len(frames)
    BY <1>1, <1>2
  <2>2. SubSeq(frames, 1, taken) \o SubSeq(frames, taken + 1, Len(frames))
          = SubSeq(frames, 1, Len(frames))
    <3> HIDE DEF taken
    <3> QED BY <2>1, ConcatAdjacentSubSeq
  <2> QED BY <2>2, SubSeqFull
<1>5. Send(s, frames, k) = t /\ t.bytes <= QueueLimit
  <2>1. Send(s, frames, k) = IF t.bytes > QueueLimit THEN Idle ELSE t
    BY DEF Send
  <2>2. t.bytes = s.bytes + Len(rest)
    BY DEF Stream
  <2>3. t.bytes \in Nat
    <3> HIDE DEF rest, t
    <3> QED BY <1>1, <1>3, <2>2
  <2> HIDE DEF t
  <2> QED BY <2>1, <2>3, LimitsAreNumbers
<1>6. /\ t.sent = s.sent \o first /\ t.queue = s.queue \o rest
      /\ t.bytes = s.bytes + Len(rest) /\ t.beats = s.beats
      /\ t.blocked = (s.blocked \/ k <= Len(frames))
      /\ t.phase = s.phase /\ t.user = s.user
      /\ t.start = s.start /\ t.cursor = s.cursor
      /\ t.rows = s.rows /\ t.pending = s.pending
  BY DEF Stream
<1>7. s.sent \o first \in Seq(Nat) /\ s.queue \o rest \in Seq(Nat)
      /\ Len(s.queue \o rest) = Len(s.queue) + Len(rest)
  <2> HIDE DEF first, rest
  <2> QED BY <1>1, <1>3, ConcatProperties
<1>8. t \in Stream
  <2>1. s.bytes + Len(rest) \in Nat /\ (s.blocked \/ k <= Len(frames)) \in BOOLEAN
    <3> HIDE DEF rest
    <3> QED BY <1>1, <1>3
  <2> HIDE DEF first, rest
  <2> QED BY <1>7, <2>1 DEF Stream
<1>9. Limited(t)
  <2>1. t.bytes = Len(t.queue) + t.beats
    <3>1. s.bytes = Len(s.queue) + s.beats
      BY DEF Limited
    <3>2. Len(t.queue) = Len(s.queue) + Len(rest)
      <4> HIDE DEF t, first, rest
      <4> QED BY <1>6, <1>7
    <3>3. t.bytes = s.bytes + Len(rest) /\ t.beats = s.beats
      BY <1>6
    <3>4. Len(s.queue) \in Nat /\ s.beats \in Nat /\ Len(rest) \in Nat
      BY <1>1, <1>3
    <3> HIDE DEF t, first, rest
    <3> QED BY <3>1, <3>2, <3>3, <3>4
  <2>2. t.bytes > 0 => t.blocked
    <3>1. CASE s.blocked
      <4> HIDE DEF t
      <4> QED BY <1>6, <3>1
    <3>2. CASE k <= Len(frames)
      <4> HIDE DEF t
      <4> QED BY <1>6, <3>2
    <3>3. CASE ~s.blocked /\ ~(k <= Len(frames))
      <4>1. taken = Len(frames)
        BY <1>1, <3>3
      <4>2. s.bytes = 0 /\ Len(rest) = 0
        <5> HIDE DEF taken, rest
        <5> QED BY <1>1, <1>3, <3>3, <4>1 DEF Limited
      <4> HIDE DEF t, rest
      <4> QED BY <1>6, <4>2
    <3> QED BY <3>1, <3>2, <3>3
  <2>3. t.bytes <= QueueLimit /\ Len(t.pending) <= ReplayLimit
    <3> HIDE DEF t
    <3> QED BY <1>5, <1>6 DEF Limited
  <2> HIDE DEF t
  <2> QED BY <2>1, <2>2, <2>3 DEF Limited
<1>10. (s.sent \o first) \o (s.queue \o rest) = (s.sent \o s.queue) \o frames
  <2>1. CASE s.blocked
    <3>1. taken = 0
      BY <2>1
    <3>2. first = <<>>
      <4> HIDE DEF taken
      <4> QED BY <3>1, SubSeqEmpty
    <3> HIDE DEF first, rest
    <3>3. rest = frames
      BY <1>3, <1>4, <3>2, ConcatEmptySeq
    <3>4. s.sent \o first = s.sent
      BY <1>1, <3>2, ConcatEmptySeq
    <3>5. s.sent \o (s.queue \o frames) = (s.sent \o s.queue) \o frames
      <4>1. s.sent \in Seq(Nat) /\ s.queue \in Seq(Nat)
        BY <1>1
      <4> QED BY <4>1, ConcatNumbers
    <3> QED BY <3>3, <3>4, <3>5
  <2>2. CASE ~s.blocked
    <3>1. Len(s.queue) = 0
      BY <1>1, <2>2 DEF Limited
    <3>2. s.queue = <<>>
      BY <1>1, <3>1, EmptySeq
    <3> HIDE DEF first, rest
    <3>3. s.queue \o rest = rest /\ s.sent \o s.queue = s.sent
      BY <1>1, <1>3, <3>2, ConcatEmptySeq
    <3>4. s.sent \o (first \o rest) = (s.sent \o first) \o rest
      <4>1. s.sent \in Seq(Nat) /\ first \in Seq(Nat) /\ rest \in Seq(Nat)
        BY <1>1, <1>3
      <4> QED BY <4>1, ConcatNumbers
    <3> QED BY <1>4, <3>3, <3>4
  <2> QED BY <2>1, <2>2
<1>11. t.sent \o t.queue = (s.sent \o s.queue) \o frames
  <2> HIDE DEF t, first, rest
  <2> QED BY <1>6, <1>10
<1> HIDE DEF t
<1> QED BY <1>5, <1>6, <1>8, <1>9, <1>11

(* deliver(): the client is brought to the last row, and misses none.      *)
LEMMA DeliverIsSound ==
  ASSUME NEW h \in Nat, NEW p \in Nat, NEW k \in Nat,
         NEW s \in Stream, Limited(s), s.phase = "live", Complete(s, 0),
         NEW rows \in Seq(Nat), NoGap(s.cursor, rows), UpTo(rows, h),
         Reaches(s.cursor, rows, p)
  PROVE  /\ Sound(Deliver(s, rows, k), h, p)
         /\ Follows(s, Deliver(s, rows, k))
<1> DEFINE new == Fresh(s.cursor, rows)
           t   == Send(s, new, k)
           d   == Deliver(s, rows, k)
<1>1. s.cursor \in Nat /\ s.start \in Nat /\ s.start <= s.cursor
  BY DEF Stream, Complete
<1>2. PICK to \in Nat :
        /\ s.cursor <= to
        /\ \A n \in DOMAIN rows : rows[n] <= to
        /\ new = Cursors(s.cursor, to)
  BY <1>1, FreshIsAPiece
<1>3. /\ new \in Seq(Nat) /\ Len(new) = to - s.cursor
      /\ \A n \in 1..(to - s.cursor) : new[n] = s.cursor + n
  <2>1. /\ Cursors(s.cursor, to) \in Seq(Nat)
        /\ Len(Cursors(s.cursor, to)) = to - s.cursor
        /\ \A n \in 1..(to - s.cursor) : Cursors(s.cursor, to)[n] = s.cursor + n
    BY <1>1, <1>2, CursorsAreASequence
  <2> HIDE DEF new
  <2> QED BY <1>2, <2>1
<1>4. p <= to
  <2>1. CASE p <= s.cursor
    BY <1>1, <1>2, <2>1
  <2>2. CASE \E n \in DOMAIN rows : p <= rows[n]
    <3>1. PICK n \in DOMAIN rows : p <= rows[n]
      BY <2>2
    <3>2. rows[n] \in Nat /\ rows[n] <= to
      BY <1>2, LenProperties, ElementOfSeq
    <3> QED BY <3>1, <3>2
  <2> QED BY <2>1, <2>2 DEF Reaches
<1>5. d = IF new = <<>> \/ t = Idle THEN t ELSE [t EXCEPT !.cursor = Last(new)]
  BY DEF Deliver
<1>6. CASE t = Idle
  <2>1. d = Idle
    BY <1>5, <1>6
  <2> QED BY <2>1, IdleIsSound
<1>7. CASE t # Idle
  <2>1. /\ t \in Stream /\ Limited(t)
        /\ t.sent \o t.queue = (s.sent \o s.queue) \o new
        /\ t.phase = s.phase /\ t.user = s.user
        /\ t.start = s.start /\ t.cursor = s.cursor
        /\ t.rows = s.rows /\ t.pending = s.pending
    <3> HIDE DEF new
    <3> QED BY <1>3, <1>7, SendAddsTheFrames
  <2> HIDE DEF t, new
  <2>2. t.sent \o t.queue = Cursors(s.start, to)
    <3>1. s.sent \o s.queue = Cursors(s.start, s.cursor)
      BY DEF Complete
    <3>2. Cursors(s.start, s.cursor) \o Cursors(s.cursor, to) = Cursors(s.start, to)
      BY <1>1, <1>2, CursorsGoOn
    <3> QED BY <1>2, <2>1, <3>1, <3>2
  <2>3. d = [t EXCEPT !.cursor = to]
    <3>1. CASE new = <<>>
      <4>1. to = s.cursor
        BY <1>1, <1>3, <3>1, EmptySeq
      <4>2. t = [t EXCEPT !.cursor = to]
        BY <2>1, <4>1 DEF Stream
      <4> QED BY <1>5, <3>1, <4>2
    <3>2. CASE new # <<>>
      <4>1. Len(new) \in Nat \ {0}
        BY <1>3, <3>2, EmptySeq
      <4>2. Len(new) \in 1..(to - s.cursor)
        BY <1>1, <1>3, <4>1
      <4>3. Last(new) = to
        BY <1>1, <1>3, <4>2 DEF Last
      <4> QED BY <1>5, <1>7, <3>2, <4>3
    <3> QED BY <3>1, <3>2
  <2> HIDE DEF d
  <2>4. /\ d \in Stream /\ d.cursor = to
        /\ d.sent = t.sent /\ d.queue = t.queue /\ d.beats = t.beats
        /\ d.bytes = t.bytes /\ d.blocked = t.blocked /\ d.pending = t.pending
        /\ d.phase = "live" /\ d.user = s.user /\ d.start = s.start
    BY <2>1, <2>3 DEF Stream
  <2>5. Limited(d)
    BY <2>1, <2>4, Zenon DEF Limited
  <2>6. Complete(d, p)
    <3>1. d.start <= d.cursor /\ p <= d.cursor
      BY <1>1, <1>2, <1>4, <2>4
    <3>2. d.sent \o d.queue = Cursors(d.start, d.cursor)
      BY <2>2, <2>4
    <3> QED BY <1>1, <2>4, <3>1, <3>2 DEF Complete
  <2>7. Sound(d, h, p)
    BY <2>4, <2>5, <2>6 DEF Sound
  <2>8. Follows(s, d)
    BY <2>4 DEF Follows, Connected
  <2> QED BY <2>7, <2>8 DEF d
<1> QED BY <1>6, <1>7

(* send() of a heartbeat to a live stream.                                 *)
LEMMA BeatIsSound ==
  ASSUME NEW h \in Nat, NEW p \in Nat, NEW fills \in BOOLEAN,
         NEW s, Sound(s, h, p), s.phase = "live"
  PROVE  Sound(Beat(s, fills), h, p) /\ Follows(s, Beat(s, fills))
<1> DEFINE b == Beat(s, fills)
<1>1. /\ s \in Stream /\ Limited(s) /\ Complete(s, p)
      /\ s.queue \in Seq(Nat) /\ s.bytes \in Nat /\ s.beats \in Nat
      /\ s.blocked \in BOOLEAN
  BY DEF Sound, Stream
<1>2. CASE ~s.blocked
  <2>1. b = [s EXCEPT !.blocked = fills]
    BY <1>2 DEF Beat
  <2> HIDE DEF b
  <2>2. /\ b \in Stream /\ b.phase = "live" /\ b.user = s.user
        /\ b.start = s.start /\ b.cursor = s.cursor /\ b.sent = s.sent
        /\ b.queue = s.queue /\ b.beats = s.beats /\ b.bytes = s.bytes
        /\ b.pending = s.pending
    BY <1>1, <2>1 DEF Stream
  <2>3. Limited(b)
    <3>1. s.bytes = 0
      BY <1>1, <1>2 DEF Limited
    <3> QED BY <1>1, <2>2, <3>1 DEF Limited
  <2>4. Complete(b, p)
    BY <1>1, <2>2 DEF Complete
  <2> QED BY <2>2, <2>3, <2>4 DEF Sound, Follows, Connected, b
<1>3. CASE s.blocked /\ s.bytes + 1 > QueueLimit
  BY <1>3, IdleIsSound DEF Beat
<1>4. CASE s.blocked /\ ~(s.bytes + 1 > QueueLimit)
  <2>1. b = [s EXCEPT !.beats = @ + 1, !.bytes = @ + 1]
    BY <1>4 DEF Beat
  <2> HIDE DEF b
  <2>2. /\ b \in Stream /\ b.phase = "live" /\ b.user = s.user
        /\ b.start = s.start /\ b.cursor = s.cursor /\ b.sent = s.sent
        /\ b.queue = s.queue /\ b.beats = s.beats + 1 /\ b.bytes = s.bytes + 1
        /\ b.pending = s.pending /\ b.blocked = s.blocked
    <3>1. s.beats + 1 \in Nat /\ s.bytes + 1 \in Nat
      BY <1>1
    <3> QED BY <1>1, <2>1, <3>1 DEF Stream
  <2>3. Limited(b)
    <3>1. Len(s.queue) \in Nat
      BY <1>1, LenProperties
    <3>2. b.bytes = Len(b.queue) + b.beats
      BY <1>1, <2>2, <3>1 DEF Limited
    <3>3. b.bytes <= QueueLimit
      BY <1>1, <1>4, <2>2, LimitsAreNumbers
    <3> QED BY <1>1, <1>4, <2>2, <3>2, <3>3 DEF Limited
  <2>4. Complete(b, p)
    BY <1>1, <2>2 DEF Complete
  <2> QED BY <2>2, <2>3, <2>4 DEF Sound, Follows, Connected, b
<1> QED BY <1>1, <1>2, <1>3, <1>4

(* What is called back with, for one stream.                               *)
LEMMA OnRowsIsSound ==
  ASSUME NEW h \in Nat, NEW p \in Nat, NEW k \in Nat, NEW s, Sound(s, h, p),
         NEW f \in Nat \ {0}, NEW t \in Nat, f <= p + 1, f - 1 <= t, t <= h
  PROVE  /\ Sound(OnRows(s, Cursors(f - 1, t), k), h, t)
         /\ Follows(s, OnRows(s, Cursors(f - 1, t), k))
<1> DEFINE rows == Cursors(f - 1, t)
           o    == OnRows(s, rows, k)
<1>1. f - 1 \in Nat /\ f - 1 <= p
  OBVIOUS
<1>2. /\ rows \in Seq(Nat) /\ Len(rows) = t - (f - 1)
      /\ DOMAIN rows = 1..(t - (f - 1))
      /\ \A n \in 1..(t - (f - 1)) : rows[n] = f - 1 + n
  BY <1>1, CursorsAreASequence
<1>3. NoGap(p, rows) /\ UpTo(rows, h)
  <2>1. NoGap(p, rows) /\ UpTo(rows, t)
    BY <1>1, RowsLeaveNoGap
  <2> QED BY <1>2, <2>1 DEF UpTo
<1>4. Reaches(p, rows, t)
  <2>1. CASE t = f - 1
    BY <1>1, <2>1 DEF Reaches
  <2>2. CASE t # f - 1
    <3>1. t - (f - 1) \in 1..(t - (f - 1)) /\ rows[t - (f - 1)] = t
      <4>1. t - (f - 1) \in 1..(t - (f - 1)) /\ f - 1 + (t - (f - 1)) = t
        BY <1>1, <2>2
      <4> HIDE DEF rows
      <4> QED BY <1>2, <4>1
    <3> QED BY <1>2, <3>1 DEF Reaches
  <2> QED BY <2>1, <2>2
<1>5. s \in Stream /\ Limited(s) /\ s.pending \in Seq(Nat) /\ s.rows \in Seq(Nat)
  BY DEF Sound, Stream
<1> HIDE DEF rows
<1>6. CASE s.phase = "live"
  <2>1. Complete(s, 0) /\ s.cursor \in Nat /\ p <= s.cursor
    BY <1>6 DEF Sound, Complete, Stream
  <2>2. NoGap(s.cursor, rows)
    <3>1. f - 1 <= s.cursor
      BY <1>1, <2>1
    <3> QED BY <1>1, <2>1, <3>1, RowsLeaveNoGap DEF rows
  <2>3. Reaches(s.cursor, rows, t)
    <3>1. t <= p => t <= s.cursor
      BY <2>1
    <3> QED BY <1>4, <3>1 DEF Reaches
  <2>4. o = Deliver(s, rows, k)
    BY <1>6 DEF OnRows
  <2> QED BY <1>2, <1>3, <1>5, <1>6, <2>1, <2>2, <2>3, <2>4, DeliverIsSound DEF rows
<1>7. CASE s.phase \in {"opening", "answered"}
  <2>1. o = IF Len(s.pending) + Len(rows) > ReplayLimit THEN Idle
            ELSE [s EXCEPT !.pending = @ \o rows]
    BY <1>7 DEF OnRows
  <2>2. CASE Len(s.pending) + Len(rows) > ReplayLimit
    BY <2>1, <2>2, IdleIsSound DEF rows
  <2>3. CASE ~(Len(s.pending) + Len(rows) > ReplayLimit)
    <3>1. o = [s EXCEPT !.pending = @ \o rows]
      BY <2>1, <2>3
    <3>2. /\ s.pending \o rows \in Seq(Nat)
          /\ Len(s.pending \o rows) = Len(s.pending) + Len(rows)
      BY <1>2, <1>5, ConcatProperties
    <3> HIDE DEF o
    <3>3. /\ o \in Stream /\ o.phase = s.phase /\ o.user = s.user
          /\ o.start = s.start /\ o.cursor = s.cursor /\ o.sent = s.sent
          /\ o.queue = s.queue /\ o.beats = s.beats /\ o.bytes = s.bytes
          /\ o.blocked = s.blocked /\ o.rows = s.rows
          /\ o.pending = s.pending \o rows
      BY <1>5, <3>1, <3>2 DEF Stream
    <3>4. Limited(o)
      <4>1. Len(o.pending) <= ReplayLimit
        <5>1. Len(s.pending) \in Nat /\ Len(rows) \in Nat
          BY <1>2, <1>5, LenProperties
        <5> QED BY <2>3, <3>2, <3>3, <5>1, LimitsAreNumbers
      <4> QED BY <1>5, <3>3, <4>1 DEF Limited
    <3>5. Unwritten(o)
      BY <1>7, <3>3 DEF Sound, Unwritten
    <3>6. s.phase = "opening" => UpTo(o.pending, h)
      BY <1>2, <1>3, <1>5, <3>3, ConcatIsUpTo DEF Sound
    <3>7. ASSUME s.phase = "answered" PROVE Replayed(o, h, t)
      <4> DEFINE q == s.rows \o s.pending
      <4>1. /\ s.start \in Nat /\ NoGap(s.start, q) /\ UpTo(q, h)
            /\ Reaches(s.start, q, p)
        BY <3>7 DEF Sound, Replayed
      <4>2. q \in Seq(Nat) /\ q \o rows = o.rows \o o.pending
        <5>1. q \in Seq(Nat)
          BY <1>5, ConcatProperties
        <5>2. (s.rows \o s.pending) \o rows = s.rows \o (s.pending \o rows)
          BY <1>2, <1>5, ConcatNumbers
        <5> QED BY <3>3, <5>1, <5>2
      <4> HIDE DEF q
      <4>3. NoGap(s.start, q \o rows)
        BY <1>2, <1>3, <4>1, <4>2, ConcatLeavesNoGap DEF Reaches
      <4>4. UpTo(q \o rows, h)
        BY <1>2, <1>3, <4>2, <4>1, ConcatIsUpTo
      <4>5. Reaches(s.start, q \o rows, t)
        <5>1. /\ Len(q) \in Nat /\ Len(rows) \in Nat
              /\ DOMAIN q = 1..Len(q) /\ DOMAIN rows = 1..Len(rows)
              /\ DOMAIN (q \o rows) = 1..(Len(q) + Len(rows))
              /\ \A i \in 1..(Len(q) + Len(rows)) :
                   (q \o rows)[i] = IF i <= Len(q) THEN q[i] ELSE rows[i - Len(q)]
          <6>1. /\ q \o rows \in Seq(Nat)
                /\ Len(q \o rows) = Len(q) + Len(rows)
                /\ \A i \in 1..(Len(q) + Len(rows)) :
                     (q \o rows)[i] = IF i <= Len(q) THEN q[i] ELSE rows[i - Len(q)]
            BY <1>2, <4>2, ConcatProperties
          <6>2. DOMAIN (q \o rows) = 1..(Len(q) + Len(rows))
            BY <6>1, LenProperties
          <6> QED BY <1>2, <4>2, <6>1, <6>2, LenProperties
        <5>2. CASE t <= p /\ p <= s.start
          BY <4>1, <5>2 DEF Reaches
        <5>3. CASE t <= p /\ \E n \in DOMAIN q : p <= q[n]
          <6>1. PICK n \in 1..Len(q) : p <= q[n]
            BY <5>1, <5>3
          <6>2. q[n] \in Nat
            BY <4>2, ElementOfSeq
          <6>3. n \in DOMAIN (q \o rows) /\ (q \o rows)[n] = q[n]
            BY <5>1
          <6>4. t <= q[n]
            BY <5>3, <6>1, <6>2
          <6> QED BY <6>3, <6>4 DEF Reaches
        <5>4. CASE \E n \in DOMAIN rows : t <= rows[n]
          <6>1. PICK n \in 1..Len(rows) : t <= rows[n]
            BY <5>1, <5>4
          <6>2. /\ Len(q) + n \in DOMAIN (q \o rows)
                /\ ~(Len(q) + n <= Len(q)) /\ (Len(q) + n) - Len(q) = n
            BY <5>1
          <6>3. (q \o rows)[Len(q) + n] = rows[n]
            BY <5>1, <6>2
          <6> QED BY <6>1, <6>2, <6>3 DEF Reaches
        <5> QED BY <1>4, <4>1, <5>2, <5>3, <5>4 DEF Reaches
      <4> QED BY <3>3, <4>1, <4>2, <4>3, <4>4, <4>5 DEF Replayed
    <3>8. Sound(o, h, t)
      BY <1>7, <3>3, <3>4, <3>5, <3>6, <3>7 DEF Sound
    <3>9. Follows(s, o)
      BY <1>7, <3>3 DEF Follows, Connected
    <3> QED BY <3>8, <3>9 DEF o, rows
  <2> QED BY <2>2, <2>3
<1>8. CASE s.phase \notin {"live", "opening", "answered"}
  <2>1. o = s
    BY <1>8 DEF OnRows
  <2>2. Sound(s, h, t)
    BY <1>8 DEF Sound
  <2>3. Follows(s, s)
    BY DEF Follows
  <2> QED BY <2>1, <2>2, <2>3 DEF rows
<1> QED BY <1>6, <1>7, <1>8

(* 'drain': what was owed first is sent first.                             *)
LEMMA DrainIsSound ==
  ASSUME NEW h \in Nat, NEW p \in Nat, NEW s, Sound(s, h, p), s.blocked,
         NEW k \in Nat, NEW b \in Nat, NEW full \in BOOLEAN,
         k <= Len(s.queue), b <= s.beats,
         k + b = Len(s.queue) + s.beats \/ (full /\ k + b > 0)
  PROVE  LET t == [s EXCEPT !.sent = @ \o SubSeq(s.queue, 1, k),
                            !.queue = SubSeq(s.queue, k + 1, Len(s.queue)),
                            !.beats = @ - b, !.bytes = @ - (k + b), !.blocked = full]
         IN Sound(t, h, p) /\ Follows(s, t)
<1> DEFINE first == SubSeq(s.queue, 1, k)
           rest  == SubSeq(s.queue, k + 1, Len(s.queue))
           t == [s EXCEPT !.sent = @ \o first, !.queue = rest,
                          !.beats = @ - b, !.bytes = @ - (k + b), !.blocked = full]
<1>1. /\ s \in Stream /\ Limited(s) /\ s.phase = "live" /\ Complete(s, p)
      /\ s.sent \in Seq(Nat) /\ s.queue \in Seq(Nat)
      /\ s.bytes \in Nat /\ s.beats \in Nat
  BY DEF Sound, Stream, Unwritten
<1>2. Len(s.queue) \in Nat /\ s.bytes = Len(s.queue) + s.beats /\ s.bytes <= QueueLimit
  BY <1>1, LenProperties DEF Limited
<1>3. /\ first \in Seq(Nat) /\ rest \in Seq(Nat) /\ Len(rest) = Len(s.queue) - k
      /\ first \o rest = s.queue
  <2>1. /\ 1 \in Int /\ k \in Int /\ k + 1 \in Int /\ Len(s.queue) \in Int
        /\ 1 \in 1..(Len(s.queue) + 1) /\ k \in (1 - 1)..Len(s.queue)
        /\ Len(s.queue) \in k..Len(s.queue)
    BY <1>2
  <2>2. /\ \A i \in 1..k : s.queue[i] \in Nat
        /\ \A i \in (k + 1)..Len(s.queue) : s.queue[i] \in Nat
    <3>1. \A i \in 1..Len(s.queue) : s.queue[i] \in Nat
      BY <1>1, ElementOfSeq
    <3> QED BY <1>2, <3>1
  <2>3. first \in Seq(Nat)
    BY <2>1, <2>2, SubSeqProperties
  <2>4. rest \in Seq(Nat) /\ Len(rest) = IF k + 1 <= Len(s.queue)
                                         THEN Len(s.queue) - (k + 1) + 1 ELSE 0
    BY <2>1, <2>2, SubSeqProperties
  <2>5. first \o rest = SubSeq(s.queue, 1, Len(s.queue))
    BY <1>1, <2>1, ConcatAdjacentSubSeq
  <2>6. SubSeq(s.queue, 1, Len(s.queue)) = s.queue
    BY <1>1, SubSeqFull
  <2> HIDE DEF first, rest
  <2> QED BY <1>2, <2>3, <2>4, <2>5, <2>6
<1> HIDE DEF first, rest
<1>4. s.sent \o first \in Seq(Nat) /\ s.beats - b \in Nat /\ s.bytes - (k + b) \in Nat
  <2>1. s.sent \o first \in Seq(Nat)
    BY <1>1, <1>3, ConcatProperties
  <2> QED BY <1>1, <1>2, <2>1
<1>5. /\ t \in Stream /\ t.phase = "live" /\ t.user = s.user
      /\ t.start = s.start /\ t.cursor = s.cursor /\ t.sent = s.sent \o first
      /\ t.queue = rest /\ t.beats = s.beats - b /\ t.bytes = s.bytes - (k + b)
      /\ t.pending = s.pending /\ t.blocked = full
  BY <1>1, <1>3, <1>4 DEF Stream
<1> HIDE DEF t
<1>6. Limited(t)
  <2>1. t.bytes = Len(t.queue) + t.beats
    BY <1>1, <1>2, <1>3, <1>5
  <2>2. t.bytes <= QueueLimit
    BY <1>1, <1>2, <1>5, LimitsAreNumbers
  <2>3. t.bytes > 0 => t.blocked
    BY <1>1, <1>2, <1>5
  <2> QED BY <1>1, <1>5, <2>1, <2>2, <2>3 DEF Limited
<1>7. t.sent \o t.queue = s.sent \o s.queue
  <2>1. (s.sent \o first) \o rest = s.sent \o (first \o rest)
    <3>1. s.sent \in Seq(Nat) /\ first \in Seq(Nat) /\ rest \in Seq(Nat)
      BY <1>1, <1>3
    <3> QED BY <3>1, ConcatNumbers
  <2> QED BY <1>3, <1>5, <2>1
<1>8. Complete(t, p)
  BY <1>1, <1>5, <1>7 DEF Complete
<1>9. Sound(t, h, p) /\ Follows(s, t)
  BY <1>1, <1>5, <1>6, <1>8 DEF Sound, Follows, Connected
<1> QED BY <1>9 DEF t, first, rest

(* replay(): what was announced since the request comes after the replay.  *)
LEMMA ReplayIsSound ==
  ASSUME NEW h \in Nat, NEW p \in Nat, p <= h, NEW s, Sound(s, h, p),
         s.phase = "opening", NEW from \in Nat, from <= h
  PROVE  LET t == [s EXCEPT !.phase = "answered", !.start = from,
                            !.rows = Cursors(from, h)]
         IN Sound(t, h, p) /\ Follows(s, t)
<1> DEFINE rows == Cursors(from, h)
           t    == [s EXCEPT !.phase = "answered", !.start = from, !.rows = rows]
<1>1. /\ s \in Stream /\ Limited(s) /\ Unwritten(s) /\ UpTo(s.pending, h)
      /\ s.pending \in Seq(Nat)
  BY DEF Sound, Stream
<1>2. /\ rows \in Seq(Nat) /\ Len(rows) = h - from /\ DOMAIN rows = 1..(h - from)
      /\ \A n \in 1..(h - from) : rows[n] = from + n
  BY CursorsAreASequence
<1>3. NoGap(from, rows) /\ UpTo(rows, h)
  BY RowsLeaveNoGap
<1> HIDE DEF rows
<1>4. h <= from \/ \E n \in DOMAIN rows : h <= rows[n]
  <2>1. CASE from = h
    BY <2>1
  <2>2. CASE from # h
    <3>1. h - from \in 1..(h - from) /\ from + (h - from) = h
      BY <2>2
    <3> QED BY <1>2, <3>1
  <2> QED BY <2>1, <2>2
<1>5. NoGap(h, s.pending)
  <2>1. \A n \in DOMAIN s.pending : s.pending[n] \in Nat /\ s.pending[n] <= h
    BY <1>1, LenProperties, ElementOfSeq DEF UpTo
  <2> QED BY <2>1 DEF NoGap
<1>6. NoGap(from, rows \o s.pending)
  BY <1>1, <1>2, <1>3, <1>4, <1>5, ConcatLeavesNoGap
<1>7. UpTo(rows \o s.pending, h)
  BY <1>1, <1>2, <1>3, ConcatIsUpTo
<1>8. Reaches(from, rows \o s.pending, p)
  <2>1. CASE from = h
    BY <2>1 DEF Reaches
  <2>2. CASE from # h
    <3>1. /\ h - from \in 1..Len(rows) /\ rows[h - from] = h
          /\ Len(rows) \in Nat /\ Len(s.pending) \in Nat
      <4>1. h - from \in 1..(h - from) /\ from + (h - from) = h
        BY <2>2
      <4> QED BY <1>1, <1>2, <4>1, LenProperties
    <3>2. /\ rows \o s.pending \in Seq(Nat)
          /\ Len(rows \o s.pending) = Len(rows) + Len(s.pending)
          /\ \A i \in 1..(Len(rows) + Len(s.pending)) :
               (rows \o s.pending)[i] =
                  IF i <= Len(rows) THEN rows[i] ELSE s.pending[i - Len(rows)]
      BY <1>1, <1>2, ConcatProperties
    <3>3. DOMAIN (rows \o s.pending) = 1..(Len(rows) + Len(s.pending))
      BY <3>2, LenProperties
    <3>4. h - from \in DOMAIN (rows \o s.pending) /\ (rows \o s.pending)[h - from] = h
      BY <3>1, <3>2, <3>3
    <3> QED BY <3>4 DEF Reaches
  <2> QED BY <2>1, <2>2
<1>9. /\ t \in Stream /\ t.phase = "answered" /\ t.user = s.user
      /\ t.start = from /\ t.rows = rows /\ t.sent = s.sent /\ t.queue = s.queue
      /\ t.beats = s.beats /\ t.bytes = s.bytes /\ t.pending = s.pending
      /\ t.blocked = s.blocked
  BY <1>1, <1>2 DEF Stream
<1> HIDE DEF t
<1>10. Limited(t) /\ Unwritten(t)
  BY <1>1, <1>9, Zenon DEF Limited, Unwritten
<1>11. Replayed(t, h, p)
  BY <1>6, <1>7, <1>8, <1>9 DEF Replayed
<1>12. Sound(t, h, p) /\ Follows(s, t)
  BY <1>9, <1>10, <1>11 DEF Sound, Follows, Connected
<1> QED BY <1>12 DEF t, rows

(* initialize(): all of it is delivered, and the stream is live.           *)
LEMMA InitializeIsSound ==
  ASSUME NEW h \in Nat, NEW p \in Nat, NEW k \in Nat, NEW s, Sound(s, h, p),
         s.phase = "answered"
  PROVE  LET l == [s EXCEPT !.phase = "live", !.cursor = s.start, !.rows = <<>>,
                            !.pending = <<>>]
             t == Deliver(l, s.rows \o s.pending, k)
         IN Sound(t, h, p) /\ Follows(s, t)
<1> DEFINE rows == s.rows \o s.pending
           l == [s EXCEPT !.phase = "live", !.cursor = s.start, !.rows = <<>>,
                          !.pending = <<>>]
<1>1. /\ s \in Stream /\ Limited(s) /\ Unwritten(s) /\ Replayed(s, h, p)
      /\ s.rows \in Seq(Nat) /\ s.pending \in Seq(Nat) /\ s.start \in Nat
  BY DEF Sound, Stream, Replayed
<1>2. rows \in Seq(Nat)
  BY <1>1, ConcatProperties
<1>3. <<>> \in Seq(Nat) /\ Len(<<>>) = 0 /\ <<>> \o <<>> = <<>>
  BY EmptySeq, ConcatEmptySeq
<1>4. /\ l \in Stream /\ l.phase = "live" /\ l.user = s.user
      /\ l.start = s.start /\ l.cursor = s.start /\ l.sent = s.sent
      /\ l.queue = s.queue /\ l.beats = s.beats /\ l.bytes = s.bytes
      /\ l.pending = <<>> /\ l.blocked = s.blocked
  BY <1>1, <1>3 DEF Stream
<1> HIDE DEF l, rows
<1>5. Limited(l)
  BY <1>1, <1>3, <1>4, LimitsAreNumbers DEF Limited, Unwritten
<1>6. Complete(l, 0)
  <2>1. l.sent \o l.queue = Cursors(l.start, l.cursor)
    BY <1>1, <1>3, <1>4, CursorsOfNothing DEF Unwritten
  <2> QED BY <1>1, <1>4, <2>1 DEF Complete
<1>7. /\ NoGap(l.cursor, rows) /\ UpTo(rows, h) /\ Reaches(l.cursor, rows, p)
  BY <1>1, <1>4 DEF Replayed, rows
<1>8. Sound(Deliver(l, rows, k), h, p) /\ Follows(l, Deliver(l, rows, k))
  BY <1>2, <1>4, <1>5, <1>6, <1>7, DeliverIsSound
<1>9. Follows(s, Deliver(l, rows, k))
  BY <1>4, <1>8 DEF Follows, Connected
<1> QED BY <1>8, <1>9 DEF l, rows

(***************************************************************************)
(* All streams of the process.                                             *)
(***************************************************************************)
PlacesAreKept ==
  /\ Cardinality(Connections) <= Total
  /\ \A u \in Users : Cardinality(Of(u)) <= PerUser

StreamInv ==
  /\ FeedTypeOK
  /\ stream \in [Streams -> Stream]
  /\ \A c \in Streams : Sound(stream[c], head, position)
  /\ NoStreamWithoutTransport
  /\ PlacesAreKept

LEMMA FeedIsTyped ==
  ASSUME FeedTypeOK
  PROVE  head \in Nat /\ floor \in Nat /\ position \in Nat /\ position <= head
  BY LimitsAreNumbers DEF FeedTypeOK

LEMMA ConnectionsAreFinite ==
  /\ IsFiniteSet(Connections) /\ Cardinality(Connections) \in Nat
  /\ \A u : IsFiniteSet(Of(u)) /\ Cardinality(Of(u)) \in Nat
<1>1. IsFiniteSet(Connections)
  BY OrderStreamAssumption, FS_Subset DEF Connections
<1>2. ASSUME NEW u PROVE IsFiniteSet(Of(u))
  BY <1>1, FS_Subset DEF Of
<1> QED BY <1>1, <1>2, FS_CardinalityType

LEMMA ConnectionsAreConnected ==
  \A c \in Streams : c \in Connections <=> Connected(stream[c])
  BY DEF Connections, Connected

LEMMA InitIsSound == Init => StreamInv
<1> SUFFICES ASSUME Init PROVE StreamInv
  OBVIOUS
<1>1. FeedTypeOK /\ head \in Nat /\ position \in Nat
  <2>1. /\ head = 0 /\ floor = 0 /\ position = 0 /\ heard = 0
        /\ ready = FALSE
    BY DEF Init, FeedInit
  <2>2. /\ head \in 0..MaxHead /\ heard \in 0..MaxHead
        /\ floor \in 0..head /\ position \in 0..head
    BY <2>1, LimitsAreNumbers
  <2>3. ready \in BOOLEAN
    BY <2>1
  <2> QED BY <2>1, <2>2, <2>3 DEF FeedTypeOK
<1>2. stream \in [Streams -> Stream] /\ \A c \in Streams : stream[c] = Idle
  BY IdleIsSound DEF Init
<1>3. Connections = {}
  BY <1>2 DEF Connections, Idle
<1>4. \A u : Of(u) = {}
  BY <1>3 DEF Of
<1>5. PlacesAreKept
  BY <1>3, <1>4, FS_EmptySet, LimitsAreNumbers DEF PlacesAreKept
<1> QED
  BY <1>1, <1>2, <1>3, <1>5, IdleIsSound DEF StreamInv, NoStreamWithoutTransport

(* A step that opens nothing keeps the limits of places.                   *)
LEMMA FollowingKeepsPlaces ==
  ASSUME StreamInv, FeedTypeOK', stream' \in [Streams -> Stream],
         \A c \in Streams : /\ Sound(stream'[c], head', position')
                            /\ Follows(stream[c], stream'[c]),
         ready' = ready \/ Connections' = {}
  PROVE  StreamInv'
<1>1. Connections' \subseteq Connections
  BY DEF Connections, Follows, Connected
<1>2. ASSUME NEW u PROVE Of(u)' \subseteq Of(u)
  BY <1>1 DEF Of, Follows, Connected, Connections
<1>3. Cardinality(Connections') <= Cardinality(Connections)
  BY <1>1, ConnectionsAreFinite, FS_Subset
<1>4. ASSUME NEW u PROVE Cardinality(Of(u)') <= Cardinality(Of(u))
  BY <1>2, ConnectionsAreFinite, FS_Subset
<1>5. /\ Cardinality(Connections') \in Nat
      /\ \A u : Cardinality(Of(u)') \in Nat
  BY <1>1, <1>2, ConnectionsAreFinite, FS_Subset, FS_CardinalityType
<1>6. Cardinality(Connections') <= Total
  BY <1>3, <1>5, ConnectionsAreFinite, LimitsAreNumbers DEF StreamInv, PlacesAreKept
<1>7. ASSUME NEW u \in Users PROVE Cardinality(Of(u)') <= PerUser
  BY <1>4, <1>5, ConnectionsAreFinite, LimitsAreNumbers DEF StreamInv, PlacesAreKept
<1>8. NoStreamWithoutTransport'
  BY <1>1 DEF StreamInv, NoStreamWithoutTransport
<1> QED BY <1>6, <1>7, <1>8 DEF StreamInv, PlacesAreKept

LEMMA OneStreamChanges ==
  ASSUME StreamInv, NEW c \in Streams, NEW t, Sound(t, head, position),
         Follows(stream[c], t), stream' = [stream EXCEPT ![c] = t], UNCHANGED feed
  PROVE  StreamInv'
<1>1. FeedTypeOK' /\ head' = head /\ position' = position /\ ready' = ready
  BY DEF StreamInv, FeedTypeOK, feed
<1>2. t \in Stream
  BY DEF Sound
<1>3. stream' \in [Streams -> Stream]
  BY <1>2 DEF StreamInv
<1>4. ASSUME NEW d \in Streams
      PROVE  Sound(stream'[d], head', position') /\ Follows(stream[d], stream'[d])
  <2>1. CASE d = c
    BY <1>1, <2>1 DEF StreamInv
  <2>2. CASE d # c
    BY <1>1, <2>2 DEF StreamInv, Follows
  <2> QED BY <2>1, <2>2
<1> QED BY <1>1, <1>3, <1>4, FollowingKeepsPlaces

(* Streams go on as they are, or are closed.                               *)
LEMMA SomeStreamsClose ==
  ASSUME StreamInv, FeedTypeOK', head' = head, stream' \in [Streams -> Stream],
         \A c \in Streams :
           \/ stream'[c] = Idle
           \/ stream'[c] = stream[c] /\ (Connected(stream[c]) => position' = position),
         ready' = ready \/ Connections' = {}
  PROVE  StreamInv'
<1>1. head \in Nat /\ head' \in Nat /\ position' \in Nat
  <2>1. FeedTypeOK
    BY DEF StreamInv
  <2>2. position' \in 0..head'
    BY DEF FeedTypeOK
  <2> QED BY <2>1, <2>2, FeedIsTyped
<1>2. ASSUME NEW c \in Streams
      PROVE  Sound(stream'[c], head', position') /\ Follows(stream[c], stream'[c])
  <2>1. CASE stream'[c] = Idle
    BY <1>1, <2>1, IdleIsSound
  <2>2. CASE /\ stream'[c] = stream[c]
             /\ Connected(stream[c]) => position' = position
    <3>1. Sound(stream[c], head, position)
      BY DEF StreamInv
    <3>2. Sound(stream[c], head, position')
      BY <2>2, <3>1 DEF Sound, Connected
    <3> QED BY <2>2, <3>2 DEF Follows
  <2> QED BY <2>1, <2>2
<1> QED BY <1>2, FollowingKeepsPlaces

(***************************************************************************)
(* The steps.                                                              *)
(***************************************************************************)
LEMMA QuietStepIsSound ==
  ASSUME StreamInv, Quietly(Extend) \/ Quietly(Connect)
  PROVE  StreamInv'
<1>1. /\ FeedTypeOK /\ stream \in [Streams -> Stream] /\ stream' = stream
      /\ \A c \in Streams : Sound(stream[c], head, position)
  BY DEF StreamInv, Quietly
<1>2. CASE Extend
  <2>1. /\ head' \in head..MaxHead /\ position' = position /\ ready' = ready
        /\ floor' \in floor..head' /\ heard' = heard
    BY <1>2 DEF Extend
  <2>2. FeedTypeOK'
    BY <1>1, <2>1, LimitsAreNumbers DEF FeedTypeOK
  <2>3. head \in Nat /\ head' \in Nat /\ head <= head'
    BY <1>1, <2>1, FeedIsTyped, LimitsAreNumbers
  <2>4. \A c \in Streams : Sound(stream'[c], head', position')
    BY <1>1, <2>1, <2>3, GrowthIsSound
  <2> QED BY <1>1, <2>1, <2>2, <2>4, FollowingKeepsPlaces DEF Follows
<1>3. CASE Connect
  <2>1. /\ ~ready /\ position' \in 0..head /\ ready' = TRUE
        /\ head' = head /\ floor' = floor /\ heard' = heard
    BY <1>3 DEF Connect
  <2>2. FeedTypeOK'
    BY <1>1, <2>1 DEF FeedTypeOK
  <2>3. Connections = {}
    BY <2>1 DEF StreamInv, NoStreamWithoutTransport
  <2>4. Connections' = {} /\ \A c \in Streams : ~Connected(stream[c])
    BY <1>1, <2>3 DEF Connections, Connected
  <2> QED BY <1>1, <2>1, <2>2, <2>4, SomeStreamsClose
<1> QED BY <1>2, <1>3 DEF Quietly

LEMMA RowsIsSound ==
  ASSUME StreamInv, NEW f \in 1..(MaxHead + 1), NEW t \in 0..MaxHead, Rows(f, t)
  PROVE  StreamInv'
<1>0. PICK k \in Capacities(t + 1 - f) :
        stream' = [c \in Streams |->
                     OnRows(stream[c], Cursors(f - 1, t), Takes(k, c))]
  BY DEF Rows
<1>1. /\ FeedTypeOK /\ head \in Nat /\ position \in Nat
      /\ \A c \in Streams : Sound(stream[c], head, position)
  BY FeedIsTyped DEF StreamInv
<1>2. /\ f <= position + 1 /\ t \in (f - 1)..head /\ position' = t
      /\ head' = head /\ floor' = floor /\ ready' = ready
      /\ heard' = IF f <= t THEN f ELSE heard
  BY DEF Rows, Announce
<1>3. f \in Nat \ {0} /\ t \in Nat /\ f - 1 <= t /\ t <= head /\ t + 1 - f \in Nat
  BY <1>1, <1>2, LimitsAreNumbers
<1>4. FeedTypeOK'
  BY <1>1, <1>2, <1>3, LimitsAreNumbers DEF FeedTypeOK
<1>5. ASSUME NEW c \in Streams PROVE Takes(k, c) \in Nat
  <2>1. ASSUME c \in DOMAIN k PROVE k[c] \in 1..(t + 1 - f + 1)
    BY <1>0, <2>1 DEF Capacities, Capacity
  <2>2. \A n \in 1..(t + 1 - f + 1) : n \in Nat
    BY <1>3
  <2> QED BY <2>1, <2>2 DEF Takes
<1>6. ASSUME NEW c \in Streams
      PROVE  Sound(stream'[c], head', position') /\ Follows(stream[c], stream'[c])
  <2>1. stream'[c] = OnRows(stream[c], Cursors(f - 1, t), Takes(k, c))
    BY <1>0
  <2> QED BY <1>1, <1>2, <1>3, <1>5, <2>1, OnRowsIsSound
<1>7. stream' \in [Streams -> Stream]
  BY <1>0, <1>6 DEF Sound
<1> QED BY <1>2, <1>4, <1>6, <1>7, FollowingKeepsPlaces

LEMMA ResetIsSound ==
  ASSUME StreamInv, ResetAll \/ Restart
  PROVE  StreamInv'
<1>1. /\ FeedTypeOK /\ stream \in [Streams -> Stream]
      /\ position' \in 0..head /\ ready' \in {ready, FALSE} /\ heard' = 0
      /\ head' = head /\ floor' = floor
  BY DEF StreamInv, ResetAll, Restart, Reset
<1>2. FeedTypeOK'
  <2>1. ready' \in BOOLEAN
    BY <1>1 DEF FeedTypeOK
  <2>2. /\ head' \in 0..MaxHead /\ floor' \in 0..head' /\ position' \in 0..head'
        /\ heard' \in 0..MaxHead
    BY <1>1, LimitsAreNumbers DEF FeedTypeOK
  <2> QED BY <2>1, <2>2 DEF FeedTypeOK
<1>3. /\ stream' \in [Streams -> Stream]
      /\ \A c \in Streams :
           stream'[c] = Idle \/ (stream'[c] = stream[c] /\ ~Connected(stream[c]))
  BY <1>1, IdleIsSound
     DEF ResetAll, Restart, CloseAll, Connections, Connected
<1>4. Connections' = {}
  BY <1>3 DEF Connections, Connected, Idle
<1> QED BY <1>1, <1>2, <1>3, <1>4, SomeStreamsClose

(* checkRoles() and its failure.                                           *)
LEMMA StopIsSound ==
  ASSUME StreamInv, StopRevoked \/ CheckFails
  PROVE  StreamInv'
<1>1. /\ FeedTypeOK /\ stream \in [Streams -> Stream] /\ UNCHANGED feed
  BY DEF StreamInv, StopRevoked, CheckFails
<1>2. FeedTypeOK' /\ head' = head /\ position' = position /\ ready' = ready
  BY <1>1 DEF FeedTypeOK, feed
<1>3. /\ stream' \in [Streams -> Stream]
      /\ \A c \in Streams : stream'[c] = Idle \/ stream'[c] = stream[c]
  BY <1>1, IdleIsSound DEF StopRevoked, CheckFails, CloseAll
<1> QED BY <1>2, <1>3, SomeStreamsClose

LEMMA HeartbeatIsSound ==
  ASSUME StreamInv, Heartbeat
  PROVE  StreamInv'
<1>0. PICK full \in SUBSET {c \in Connections : stream[c].phase = "live"} :
        stream' = [c \in Streams |-> IF stream[c].phase = "live"
                                     THEN Beat(stream[c], c \in full)
                                     ELSE stream[c]]
  BY DEF Heartbeat
<1>1. /\ FeedTypeOK /\ head \in Nat /\ position \in Nat /\ UNCHANGED feed
      /\ \A c \in Streams : Sound(stream[c], head, position)
  BY FeedIsTyped DEF StreamInv, Heartbeat
<1>2. FeedTypeOK' /\ head' = head /\ position' = position /\ ready' = ready
  <2>1. FeedTypeOK /\ UNCHANGED feed
    BY <1>1
  <2> QED BY <2>1 DEF FeedTypeOK, feed
<1>3. ASSUME NEW c \in Streams
      PROVE  Sound(stream'[c], head', position') /\ Follows(stream[c], stream'[c])
  <2>1. CASE stream[c].phase = "live"
    <3> DEFINE fills == c \in full
    <3>1. fills \in BOOLEAN /\ stream'[c] = Beat(stream[c], fills)
      BY <1>0, <2>1
    <3> HIDE DEF fills
    <3> QED BY <1>1, <1>2, <2>1, <3>1, BeatIsSound
  <2>2. CASE stream[c].phase # "live"
    BY <1>0, <1>1, <1>2, <2>2 DEF Follows
  <2> QED BY <2>1, <2>2
<1>4. stream' \in [Streams -> Stream]
  <2>1. \A c \in Streams : stream'[c] \in Stream
    BY <1>3 DEF Sound
  <2> QED BY <1>0, <2>1
<1> QED BY <1>2, <1>3, <1>4, FollowingKeepsPlaces

(* open(): the place is taken under the limits.                            *)
LEMMA OpenIsSound ==
  ASSUME StreamInv, NEW c \in Streams, NEW last \in {None} \cup 0..MaxHead,
         Open(c, last)
  PROVE  StreamInv'
<1> DEFINE u == stream[c].user
           t == [stream[c] EXCEPT !.phase = "opening", !.start = last]
<1>1. /\ FeedTypeOK /\ head \in Nat /\ position \in Nat /\ UNCHANGED feed
      /\ stream \in [Streams -> Stream] /\ stream[c].phase = "authorized"
      /\ \A d \in Streams : Sound(stream[d], head, position)
  BY FeedIsTyped DEF StreamInv, Open
<1>2. CASE ~Admissible(u)
  <2>1. stream' = [stream EXCEPT ![c] = Idle]
    BY <1>2 DEF Open, Close
  <2> QED BY <1>1, <2>1, IdleIsSound, OneStreamChanges
<1>3. CASE Admissible(u)
  <2>1. stream' = [stream EXCEPT ![c] = t]
    BY <1>1, <1>3 DEF Open, Stream
  <2>2. FeedTypeOK' /\ head' = head /\ position' = position /\ ready' = ready
    <3>1. FeedTypeOK /\ UNCHANGED feed
      BY <1>1
    <3> QED BY <3>1 DEF FeedTypeOK, feed
  <2>3. /\ stream[c] \in Stream /\ Limited(stream[c]) /\ Unwritten(stream[c])
        /\ stream[c].pending = <<>>
    BY <1>1 DEF Sound
  <2>4. /\ t \in Stream /\ t.phase = "opening" /\ t.user = u
        /\ t.sent = stream[c].sent /\ t.queue = stream[c].queue
        /\ t.beats = stream[c].beats /\ t.bytes = stream[c].bytes
        /\ t.pending = <<>> /\ t.blocked = stream[c].blocked
    <3>1. last \in Nat \cup {None}
      BY LimitsAreNumbers
    <3> QED BY <2>3, <3>1 DEF Stream
  <2> HIDE DEF t
  <2>5. Limited(t) /\ Unwritten(t)
    BY <2>3, <2>4, Zenon DEF Limited, Unwritten
  <2>6. UpTo(t.pending, head)
    BY <2>4 DEF UpTo
  <2>7. Sound(t, head, position)
    BY <2>4, <2>5, <2>6 DEF Sound
  <2>8. /\ stream' \in [Streams -> Stream]
        /\ \A d \in Streams : Sound(stream'[d], head', position')
    BY <1>1, <2>1, <2>2, <2>4, <2>7
  <2>9. Connections' = Connections \cup {c} /\ c \notin Connections
    BY <1>1, <2>1, <2>4 DEF Connections
  <2>10. ASSUME NEW v \in Users
         PROVE  Of(v)' = IF v = u THEN Of(v) \cup {c} ELSE Of(v)
    BY <1>1, <2>1, <2>4, <2>9 DEF Of, Connections
  <2>11. Cardinality(Connections') <= Total
    <3>1. Cardinality(Connections') = Cardinality(Connections) + 1
      BY <2>9, ConnectionsAreFinite, FS_AddElement
    <3> QED BY <1>3, <3>1, ConnectionsAreFinite, LimitsAreNumbers DEF Admissible
  <2>12. ASSUME NEW v \in Users PROVE Cardinality(Of(v)') <= PerUser
    <3>1. CASE v = u
      <4>1. c \notin Of(v)
        BY <2>9 DEF Of
      <4>2. Cardinality(Of(v)') = Cardinality(Of(v)) + 1
        BY <2>10, <3>1, <4>1, ConnectionsAreFinite, FS_AddElement
      <4> QED BY <1>3, <3>1, <4>2, ConnectionsAreFinite, LimitsAreNumbers DEF Admissible
    <3>2. CASE v # u
      BY <2>10, <3>2 DEF StreamInv, PlacesAreKept
    <3> QED BY <3>1, <3>2
  <2>13. ready'
    BY <1>3, <2>2 DEF Admissible
  <2> QED BY <2>2, <2>8, <2>11, <2>12, <2>13
          DEF StreamInv, PlacesAreKept, NoStreamWithoutTransport
<1> QED BY <1>2, <1>3

(* What happens to one stream that is there.                               *)
LEMMA StreamStepIsSound ==
  ASSUME StreamInv, NEW c \in Streams,
         \/ \E u \in Users : Authorize(c, u)
         \/ Replay(c) \/ End(c)
         \/ \E k \in Capacity(MaxHead) : Initialize(c, k)
         \/ \E k, b \in 0..QueueLimit, full \in BOOLEAN : Drain(c, k, b, full)
  PROVE  StreamInv'
<1> DEFINE s == stream[c]
<1>1. /\ head \in Nat /\ floor \in Nat /\ position \in Nat /\ position <= head
      /\ stream \in [Streams -> Stream] /\ Sound(s, head, position) /\ s \in Stream
  BY FeedIsTyped DEF StreamInv
<1>2. ASSUME NEW u \in Users, Authorize(c, u) PROVE StreamInv'
  <2> DEFINE t == [s EXCEPT !.phase = "authorized", !.user = u]
  <2>1. stream' = [stream EXCEPT ![c] = t] /\ s.phase = "closed" /\ UNCHANGED feed
    BY <1>1, <1>2 DEF Authorize, Stream
  <2>2. /\ t \in Stream /\ t.phase = "authorized"
        /\ t.sent = s.sent /\ t.queue = s.queue /\ t.beats = s.beats
        /\ t.bytes = s.bytes /\ t.pending = s.pending /\ t.blocked = s.blocked
    BY <1>1 DEF Stream
  <2>3. Limited(s) /\ Unwritten(s) /\ s.pending = <<>>
    BY <1>1, <2>1 DEF Sound
  <2> HIDE DEF s, t
  <2>4. Limited(t) /\ Unwritten(t)
    BY <2>2, <2>3, Zenon DEF Limited, Unwritten
  <2>5. Sound(t, head, position) /\ Follows(s, t)
    BY <2>2, <2>3, <2>4 DEF Sound, Follows, Connected
  <2> QED BY <2>1, <2>5, OneStreamChanges DEF s
<1>3. ASSUME Replay(c) PROVE StreamInv'
  <2> DEFINE from == IF s.start = None THEN head ELSE s.start
             t == [s EXCEPT !.phase = "answered", !.start = from,
                            !.rows = Cursors(from, head)]
  <2>1. /\ s.phase = "opening" /\ UNCHANGED feed
        /\ stream' = [stream EXCEPT ![c] =
             IF from \in floor..head /\ head - from <= ReplayLimit THEN t ELSE Idle]
    BY <1>1, <1>3 DEF Replay
  <2>2. CASE from \in floor..head /\ head - from <= ReplayLimit
    <3>1. from \in Nat /\ from <= head
      BY <1>1, <2>2
    <3> HIDE DEF s, from
    <3>2. Sound(t, head, position) /\ Follows(s, t)
      BY <1>1, <2>1, <3>1, ReplayIsSound
    <3>3. stream' = [stream EXCEPT ![c] = t]
      BY <2>1, <2>2
    <3> QED BY <2>1, <3>2, <3>3, OneStreamChanges DEF s
  <2>3. CASE ~(from \in floor..head /\ head - from <= ReplayLimit)
    <3>1. stream' = [stream EXCEPT ![c] = Idle]
      BY <2>1, <2>3
    <3> QED BY <1>1, <2>1, <3>1, IdleIsSound, OneStreamChanges
  <2> QED BY <2>2, <2>3
<1>4. ASSUME End(c) PROVE StreamInv'
  <2>1. stream' = [stream EXCEPT ![c] = Idle] /\ UNCHANGED feed
    BY <1>4 DEF End, Close
  <2> QED BY <1>1, <2>1, IdleIsSound, OneStreamChanges
<1>5. ASSUME NEW k \in Capacity(MaxHead), Initialize(c, k) PROVE StreamInv'
  <2> DEFINE l == [s EXCEPT !.phase = "live", !.cursor = s.start, !.rows = <<>>,
                            !.pending = <<>>]
             t == Deliver(l, s.rows \o s.pending, k)
  <2>1. /\ s.phase = "answered" /\ UNCHANGED feed
        /\ stream' = [stream EXCEPT ![c] = IF ready THEN t ELSE Idle]
    BY <1>5 DEF Initialize
  <2>2. k \in Nat
    BY LimitsAreNumbers DEF Capacity
  <2>3. Sound(t, head, position) /\ Follows(s, t)
    <3> HIDE DEF s
    <3> QED BY <1>1, <2>1, <2>2, InitializeIsSound
  <2>4. Sound(Idle, head, position) /\ Follows(s, Idle)
    BY <1>1, IdleIsSound
  <2> HIDE DEF t
  <2> QED BY <2>1, <2>3, <2>4, OneStreamChanges
<1>6. ASSUME NEW k \in 0..QueueLimit, NEW b \in 0..QueueLimit, NEW full \in BOOLEAN,
             Drain(c, k, b, full)
      PROVE  StreamInv'
  <2> DEFINE t == [s EXCEPT !.sent = @ \o SubSeq(s.queue, 1, k),
                            !.queue = SubSeq(s.queue, k + 1, Len(s.queue)),
                            !.beats = @ - b, !.bytes = @ - (k + b), !.blocked = full]
  <2>1. /\ s.blocked /\ k <= Len(s.queue) /\ b <= s.beats
        /\ k + b = Len(s.queue) + s.beats \/ (full /\ k + b > 0)
        /\ stream' = [stream EXCEPT ![c] = t] /\ UNCHANGED feed
    BY <1>6 DEF Drain
  <2>2. k \in Nat /\ b \in Nat
    BY LimitsAreNumbers
  <2>3. Sound(t, head, position) /\ Follows(s, t)
    <3> HIDE DEF s
    <3> QED BY <1>1, <2>1, <2>2, DrainIsSound
  <2> HIDE DEF t
  <2> QED BY <2>1, <2>3, OneStreamChanges
<1> QED BY <1>2, <1>3, <1>4, <1>5, <1>6

(* The other steps leave log and connections as they are.                  *)
LEMMA StreamInvIsAboutStreams ==
  ASSUME StreamInv, UNCHANGED <<feed, stream>>
  PROVE  StreamInv'
<1>1. /\ head' = head /\ floor' = floor /\ position' = position /\ ready' = ready
      /\ heard' = heard /\ stream' = stream
  BY DEF feed
<1>2. Connections' = Connections /\ \A u : Of(u)' = Of(u)
  BY <1>1 DEF Connections, Of
<1>3. FeedTypeOK'
  BY <1>1 DEF StreamInv, FeedTypeOK
<1>4. NoStreamWithoutTransport' /\ PlacesAreKept'
  BY <1>1, <1>2 DEF StreamInv, NoStreamWithoutTransport, PlacesAreKept
<1> QED BY <1>1, <1>3, <1>4 DEF StreamInv

LEMMA StreamInvIsInductive == StreamInv /\ [Next]_streamVars => StreamInv'
<1> SUFFICES ASSUME StreamInv, [Next]_streamVars PROVE StreamInv'
  OBVIOUS
<1>1. CASE Quietly(Extend) \/ Quietly(Connect)
  BY <1>1, QuietStepIsSound
<1>2. CASE \E f \in 1..(MaxHead + 1) : \E t \in 0..MaxHead : Rows(f, t)
  BY <1>2, RowsIsSound
<1>3. CASE ResetAll \/ Restart
  BY <1>3, ResetIsSound
<1>4. ASSUME NEW c \in Streams, NEW last \in {None} \cup 0..MaxHead, Open(c, last)
      PROVE  StreamInv'
  BY <1>4, OpenIsSound
<1>5. ASSUME NEW c \in Streams,
             \/ \E u \in Users : Authorize(c, u)
             \/ Replay(c) \/ End(c)
             \/ \E k \in Capacity(MaxHead) : Initialize(c, k)
             \/ \E k, b \in 0..QueueLimit, full \in BOOLEAN : Drain(c, k, b, full)
      PROVE  StreamInv'
  BY <1>5, StreamStepIsSound
<1>6. CASE Heartbeat
  BY <1>6, HeartbeatIsSound
<1>7. CASE \E u \in Users : MinutePasses(u) \/ ChangeRole(u)
  BY <1>7, StreamInvIsAboutStreams DEF MinutePasses, ChangeRole
<1>8. CASE StartCheck \/ ReadRoles
  BY <1>8, StreamInvIsAboutStreams DEF StartCheck, ReadRoles
<1>9. CASE StopRevoked \/ CheckFails
  BY <1>9, StopIsSound
<1>10. CASE UNCHANGED streamVars
  BY <1>10, StreamInvIsAboutStreams DEF streamVars
<1> QED BY <1>1, <1>2, <1>3, <1>4, <1>5, <1>6, <1>7, <1>8, <1>9, <1>10 DEF Next

LEMMA StreamInvHolds == Spec => []StreamInv
<1> QED BY InitIsSound, StreamInvIsInductive, PTL DEF Spec

(***************************************************************************)
(* The theorems.                                                           *)
(***************************************************************************)
(* order-events-stream.service.ts:194: the events a client was sent or is  *)
(* owed are exactly those after its cursor, once and in order, up to at    *)
(* least what its process has heard of: however often the process repeats, *)
(* goes back, resets or replays, and wherever sockets fill up.             *)
THEOREM ClientsMissNothing == Spec => []ClientMissesNothing
<1>1. StreamInv => ClientMissesNothing
  BY DEF StreamInv, Sound, Complete, ClientMissesNothing, Connections
<1> QED BY <1>1, StreamInvHolds, PTL

(* order-events-stream.service.ts:172: no limit of connections is passed,  *)
(* and no client is owed more than the limit of its queue.                 *)
THEOREM StreamsStayWithinLimits == Spec => []StreamsKeepTheirLimits
<1>1. ASSUME StreamInv PROVE StreamsKeepTheirLimits
  <2> DEFINE open == {c \in Streams : stream[c].phase \notin {"closed", "authorized"}}
  <2>1. \A c \in Streams : stream[c] \in Stream /\ Limited(stream[c])
    BY <1>1 DEF StreamInv, Sound
  <2>2. open = Connections
    BY <2>1 DEF Connections, Stream
  <2> HIDE DEF open
  <2>3. Cardinality(open) <= Total
    BY <1>1, <2>2 DEF StreamInv, PlacesAreKept
  <2>4. \A u \in Users : Cardinality({c \in open : stream[c].user = u}) <= PerUser
    BY <1>1, <2>2 DEF StreamInv, PlacesAreKept, Of
  <2>5. \A c \in open : Limited(stream[c])
    BY <2>1 DEF open
  <2> QED BY <2>3, <2>4, <2>5 DEF StreamsKeepTheirLimits, Limited, open
<1> QED BY <1>1, StreamInvHolds, PTL

(* order-events-stream.service.ts:54: no stream is kept, or admitted, by a *)
(* process that has lost its LISTEN connection.                            *)
THEOREM StreamsNeedTheirTransport == Spec => []NoStreamWithoutTransport
<1>1. StreamInv => NoStreamWithoutTransport
  BY DEF StreamInv
<1> QED BY <1>1, StreamInvHolds, PTL

===============================================================================
