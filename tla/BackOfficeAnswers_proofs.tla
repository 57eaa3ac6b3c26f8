----------------------- MODULE BackOfficeAnswers_proofs -----------------------
(***************************************************************************)
(* What the components without locks answer, for any clock, menu, history  *)
(* and table of sales: the opening hours, the handler of a request, the    *)
(* prices and the figures of the panel.  Most of it is arithmetic of the   *)
(* model's operators: days and ticks, rounding, sums and counts.           *)
(***************************************************************************)
EXTENDS BackOffice, FiniteSetTheorems, TLAPS

(* Some of any set of numbers is the least.                                *)
LEMMA LeastNumber ==
  ASSUME NEW S \in SUBSET Nat, S # {}
  PROVE  \E n \in S : \A k \in S : n <= k
<1>1. PICK n \in S : \A k \in Nat : <<k, n>> \in OpToRel(<, Nat) => k \notin S
  <2>1. IsWellFoundedOn(OpToRel(<, Nat), Nat)
    BY NatLessThanWellFounded
  <2> QED BY <2>1, WFMin
<1>2. \A k \in S : ~(k < n)
  BY <1>1 DEF OpToRel
<1> QED BY <1>2

(***************************************************************************)
(* BusinessHours.  An instant is so many ticks into a day of Lima: the     *)
(* hours that it can be in are those of this day and of the one before, and*)
(* whatever opens later opens on one of the days that are looked at.       *)
(***************************************************************************)
LEMMA DivMod ==
  ASSUME NEW n \in Nat \ {0}, NEW x \in Int
  PROVE  x \div n \in Int /\ x % n \in 0..(n - 1) /\ x = (x \div n) * n + (x % n)
  OBVIOUS

LEMMA DivModUnique ==
  ASSUME NEW n \in Nat \ {0}, NEW q \in Int, NEW k \in Int,
         NEW r \in 0..(n - 1), NEW s \in 0..(n - 1), q * n + r = k * n + s
  PROVE  q = k /\ r = s
<1>1. (q - k) * n = s - r
  OBVIOUS
<1>2. q - k \in Int /\ n > 0 /\ s - r < n /\ s - r > -n
  OBVIOUS
<1>3. ASSUME NEW d \in Int, d > 0 PROVE d * n >= n
  BY <1>3
<1>4. ASSUME NEW d \in Int, d < 0 PROVE d * n <= -n
  BY <1>4
<1>5. q - k = 0
  BY <1>1, <1>2, <1>3, <1>4
<1> QED BY <1>1, <1>5

LEMMA ModPeriod ==
  ASSUME NEW n \in Nat \ {0}, NEW x \in Int
  PROVE  (x + n) % n = x % n
<1>1. /\ x \div n \in Int /\ x % n \in 0..(n - 1) /\ x = (x \div n) * n + (x % n)
      /\ (x + n) \div n \in Int /\ (x + n) % n \in 0..(n - 1)
      /\ x + n = ((x + n) \div n) * n + ((x + n) % n)
  <2>1. x \div n \in Int /\ x % n \in 0..(n - 1) /\ x = (x \div n) * n + (x % n)
    BY DivMod
  <2>2. PICK y \in Int : y = x + n
    OBVIOUS
  <2>3. y \div n \in Int /\ y % n \in 0..(n - 1) /\ y = (y \div n) * n + (y % n)
    BY DivMod
  <2> QED BY <2>1, <2>2, <2>3
<1> DEFINE q == x \div n       r == x % n
           k == (x + n) \div n  s == (x + n) % n
<1>2. /\ q + 1 \in Int /\ k \in Int /\ r \in 0..(n - 1) /\ s \in 0..(n - 1)
      /\ (q + 1) * n = q * n + n
  BY <1>1
<1>3. (q + 1) * n + r = k * n + s
  BY <1>1, <1>2
<1>4. (x + n) % n = s /\ x % n = r
  OBVIOUS
<1> HIDE DEF q, r, k, s
<1>5. PICK p \in Int : p = q + 1
  BY <1>2
<1>6. p * n + r = k * n + s
  BY <1>3, <1>5
<1>7. r = s
  BY <1>2, <1>6, DivModUnique
<1> QED BY <1>4, <1>7

Begin(k) == k * Day + LimaOffset
Hours(k) == schedule[(k + Week) % Week]
Closes(k) == Begin(k) + Hours(k).close + (IF CrossesMidnight(Hours(k)) THEN Day ELSE 0)
OpenOn(k, t) == ~Hours(k).closed /\ Begin(k) + Hours(k).open <= t /\ t < Closes(k)
HoursTyped == schedule \in [0..(Week - 1) -> DaySchedule] /\ closedByHand \in BOOLEAN

LEMMA HoursOfADay ==
  ASSUME HoursTyped, NEW k \in Int
  PROVE  /\ Hours(k) \in DaySchedule /\ Hours(k).open \in Times /\ Hours(k).close \in Times
         /\ Hours(k).open \in Nat /\ Hours(k).open < Day
         /\ Hours(k).close \in Nat /\ Hours(k).close < Day
         /\ Hours(k).closed \in BOOLEAN
         /\ Begin(k) \in Int /\ Closes(k) \in Int
         /\ Closes(k) < Begin(k) + 2 * Day
         /\ ~CrossesMidnight(Hours(k)) => Closes(k) < Begin(k) + Day
<1>1. (k + Week) % Week \in 0..(Week - 1)
  BY DivMod, BusinessHoursAssumption
<1>2. Hours(k) \in DaySchedule
  BY <1>1 DEF HoursTyped, Hours
<1>3. /\ Hours(k).open \in Times /\ Hours(k).close \in Times
      /\ Hours(k).closed \in BOOLEAN
  BY <1>2 DEF DaySchedule
<1>4. Begin(k) \in Int
  BY BusinessHoursAssumption DEF Begin
<1> HIDE DEF Begin, Hours
<1>5. \A time \in Times : time \in Nat /\ time < Day
  BY BusinessHoursAssumption DEF Times
<1>6. /\ Hours(k).open \in Nat /\ Hours(k).open < Day
      /\ Hours(k).close \in Nat /\ Hours(k).close < Day
  BY <1>3, <1>5
<1>7. /\ Closes(k) \in Int /\ Closes(k) < Begin(k) + 2 * Day
      /\ ~CrossesMidnight(Hours(k)) => Closes(k) < Begin(k) + Day
  BY <1>4, <1>6, BusinessHoursAssumption DEF Closes
<1> QED BY <1>2, <1>3, <1>4, <1>6, <1>7

LEMMA TimesOfADay == /\ Day \in Nat /\ Day > 0
                     /\ \A m \in Times : m \in Nat /\ m < Day
BY BusinessHoursAssumption DEF Times

(* Days follow each other.                                                 *)
LEMMA DaysPass ==
  ASSUME NEW k \in Int, NEW n \in Int
  PROVE  /\ Begin(k + 1) = Begin(k) + Day
         /\ k < n => Begin(k) + Day <= Begin(n)
         /\ k + 1 < n => Begin(k) + 2 * Day <= Begin(n)
<1>1. ASSUME NEW d \in Int, d > 0 PROVE d * Day >= Day
  BY <1>1, BusinessHoursAssumption
<1>2. ASSUME NEW d \in Int, d > 1 PROVE d * Day >= 2 * Day
  BY <1>2, BusinessHoursAssumption
<1>3. n - k \in Int /\ n * Day = k * Day + (n - k) * Day
  BY BusinessHoursAssumption
<1>4. (k + 1) * Day = k * Day + Day
  BY BusinessHoursAssumption
<1>5. k * Day \in Int /\ n * Day \in Int /\ (n - k) * Day \in Int
  BY BusinessHoursAssumption
<1> QED BY <1>1, <1>2, <1>3, <1>4, <1>5, BusinessHoursAssumption DEF Begin

(* The day and the time of an instant.                                     *)
LEMMA TimeInLima ==
  ASSUME NEW t \in 0..(Week * Day - 1), NEW d, d = DayOf(t) - Week
  PROVE  /\ d \in -1..(Week - 1) /\ MinutesInLima(t) \in Times
         /\ t = Begin(d) + MinutesInLima(t)
<1>1. Week * Day \in Nat /\ WallClock(t) \in Int
  BY BusinessHoursAssumption DEF WallClock
<1>2. /\ DayOf(t) \in Int /\ MinutesInLima(t) \in 0..(Day - 1)
      /\ WallClock(t) = DayOf(t) * Day + MinutesInLima(t)
  BY <1>1, DivMod, BusinessHoursAssumption DEF DayOf, MinutesInLima
<1>3. d \in Int /\ d * Day = DayOf(t) * Day - Week * Day
  BY <1>2, BusinessHoursAssumption
<1>4. d * Day \in Int /\ DayOf(t) * Day \in Int
  BY <1>2, <1>3, BusinessHoursAssumption
<1>5. t = d * Day + LimaOffset + MinutesInLima(t)
  BY <1>1, <1>2, <1>3, <1>4, BusinessHoursAssumption DEF WallClock
<1>6. d >= -1
  <2>1. d <= -2 => d * Day <= -2 * Day
    BY <1>3, BusinessHoursAssumption
  <2> QED BY <1>2, <1>3, <1>4, <1>5, <2>1, BusinessHoursAssumption
<1>7. d <= Week - 1
  <2>1. d >= Week => d * Day >= Week * Day
    BY <1>3, BusinessHoursAssumption
  <2> QED BY <1>1, <1>2, <1>3, <1>4, <1>5, <2>1, BusinessHoursAssumption
<1> QED BY <1>2, <1>3, <1>5, <1>6, <1>7, BusinessHoursAssumption DEF Begin, Times

(* Of all the days only two have hours that an instant may be in.          *)
LEMMA OpenOnTwoDays ==
  ASSUME HoursTyped, NEW d \in Int, NEW m \in Times, NEW t, t = Begin(d) + m,
         NEW k \in Int, OpenOn(k, t)
  PROVE  k = d \/ k = d - 1
<1>1. /\ Begin(k) \in Int /\ Begin(d) \in Int /\ t \in Int
      /\ Begin(k) <= t /\ t < Begin(k) + 2 * Day
  <2>1. /\ Begin(k) \in Int /\ Begin(d) \in Int /\ Closes(k) \in Int
        /\ Hours(k).open \in Nat /\ Closes(k) < Begin(k) + 2 * Day
    BY HoursOfADay
  <2>2. Begin(k) + Hours(k).open <= t /\ t < Closes(k)
    BY DEF OpenOn
  <2> QED BY <2>1, <2>2, TimesOfADay
<1>2. ~(d < k)
  <2>1. d < k => Begin(d) + Day <= Begin(k)
    BY DaysPass
  <2> QED BY <1>1, <2>1, TimesOfADay
<1>3. ~(k + 1 < d)
  <2>1. k + 1 < d => Begin(k) + 2 * Day <= Begin(d)
    BY DaysPass
  <2> QED BY <1>1, <2>1, TimesOfADay
<1> QED BY <1>2, <1>3

(* The two conditions of the code are those of these two days.             *)
LEMMA OpenTodayOrCarriedOver ==
  ASSUME HoursTyped, NEW d \in Int, NEW m \in Times, NEW t, t = Begin(d) + m
  PROVE  /\ IsOpenToday(Hours(d), m) <=> OpenOn(d, t)
         /\ IsCarriedOver(Hours(d - 1), m) <=> OpenOn(d - 1, t)
<1>1. /\ Day \in Nat /\ Day > 0 /\ m \in Nat /\ m < Day
      /\ d - 1 \in Int /\ Begin(d) = Begin(d - 1) + Day
  <2>1. PICK n \in Int : n = d - 1
    OBVIOUS
  <2>2. Begin(n + 1) = Begin(n) + Day /\ n + 1 = d
    BY <2>1, DaysPass
  <2> QED BY <2>1, <2>2, TimesOfADay
<1>2. \A k \in Int : /\ Begin(k) \in Int
                     /\ Hours(k).open \in Nat /\ Hours(k).open < Day
                     /\ Hours(k).close \in Nat /\ Hours(k).close < Day
  BY HoursOfADay
<1>3. IsOpenToday(Hours(d), m) <=> OpenOn(d, t)
  <2> DEFINE h == Hours(d)  b == Begin(d)
  <2>1. /\ b \in Int /\ h.open \in Nat /\ h.close \in Nat /\ h.open < Day
    BY <1>2
  <2> HIDE DEF h, b
  <2>2. h.open <= m <=> b + h.open <= b + m
    BY <1>1, <2>1
  <2>3. CASE CrossesMidnight(h)
    <3>1. b + m < b + h.close + Day
      BY <1>1, <2>1
    <3> QED BY <2>2, <2>3, <3>1 DEF IsOpenToday, OpenOn, Closes, h, b
  <2>4. CASE ~CrossesMidnight(h)
    <3>1. m < h.close <=> b + m < b + h.close + 0
      BY <1>1, <2>1
    <3> QED BY <2>2, <2>4, <3>1 DEF IsOpenToday, OpenOn, Closes, h, b
  <2> QED BY <2>3, <2>4
<1>4. IsCarriedOver(Hours(d - 1), m) <=> OpenOn(d - 1, t)
  <2> DEFINE h == Hours(d - 1)  b == Begin(d - 1)
  <2>1. /\ b \in Int /\ h.open \in Nat /\ h.close \in Nat
        /\ h.open < Day /\ h.close < Day /\ t = b + Day + m
    BY <1>1, <1>2
  <2> HIDE DEF h, b
  <2>2. b + h.open <= t
    BY <1>1, <2>1
  <2>3. CASE CrossesMidnight(h)
    <3>1. m < h.close <=> t < b + h.close + Day
      BY <1>1, <2>1
    <3> QED BY <2>2, <2>3, <3>1 DEF IsCarriedOver, OpenOn, Closes, h, b
  <2>4. CASE ~CrossesMidnight(h)
    <3>1. ~(t < b + h.close + 0)
      BY <1>1, <2>1
    <3> QED BY <2>4, <3>1 DEF IsCarriedOver, OpenOn, Closes, h, b
  <2> QED BY <2>3, <2>4
<1> QED BY <1>3, <1>4

LEMMA OpenInADay ==
  ASSUME NEW t
  PROVE  OpenAt(t) <=> ~closedByHand /\ \E k \in -2..(2 * Week) : OpenOn(k, t)
  BY DEF OpenAt, OpenOn, Closes, Begin, Hours

(* What the code looks at, as days and times.                              *)
LEMMA EntriesAreDays ==
  ASSUME HoursTyped, NEW t \in 0..(Week * Day - 1), NEW d, d = DayOf(t) - Week
  PROVE  /\ \A n \in Nat : Entry(DayOf(t) + n) = Hours(d + n)
         /\ Entry(DayOf(t)) = Hours(d)
         /\ Entry(DayOf(t) + Week - 1) = Hours(d - 1)
         /\ \A n \in Nat, time \in Times :
              LimaInstant(DayOf(t) + n, time) = Begin(d + n) + time
         /\ \A time \in Times : LimaInstant(DayOf(t), time) = Begin(d) + time
<1>1. d \in Int /\ DayOf(t) = d + Week /\ Week \in Nat \ {0} /\ Day \in Nat
  <2>1. DayOf(t) \in Int
    BY DivMod, BusinessHoursAssumption DEF DayOf, WallClock
  <2> QED BY <2>1, BusinessHoursAssumption
<1>2. ASSUME NEW n \in Nat PROVE Entry(DayOf(t) + n) = Hours(d + n)
  <2>1. d + n + Week = DayOf(t) + n
    BY <1>1
  <2> QED BY <2>1 DEF Entry, Hours
<1>3. Entry(DayOf(t)) = Hours(d)
  BY <1>1 DEF Entry, Hours
<1>4. Entry(DayOf(t) + Week - 1) = Hours(d - 1)
  <2>1. d - 1 + Week \in Int /\ DayOf(t) + Week - 1 = (d - 1 + Week) + Week
    BY <1>1
  <2>2. (DayOf(t) + Week - 1) % Week = (d - 1 + Week) % Week
    BY <1>1, <2>1, ModPeriod
  <2> QED BY <2>2 DEF Entry, Hours
<1>5. ASSUME NEW n \in Nat, NEW time \in Times
      PROVE  LimaInstant(DayOf(t) + n, time) = Begin(d + n) + time
  <2>1. (DayOf(t) + n) * Day = (d + n) * Day + Week * Day
    BY <1>1
  <2>2. (d + n) * Day \in Int /\ Week * Day \in Int
    BY <1>1
  <2> QED BY <2>1, <2>2, BusinessHoursAssumption DEF LimaInstant, Begin, Times
<1>6. ASSUME NEW time \in Times PROVE LimaInstant(DayOf(t), time) = Begin(d) + time
  <2>1. DayOf(t) + 0 = DayOf(t) /\ d + 0 = d
    BY <1>1
  <2> QED BY <1>5, <2>1
<1> QED BY <1>2, <1>3, <1>4, <1>5, <1>6

(* isOpenNow() is right.                                                   *)
LEMMA IsOpenNowIsRight ==
  ASSUME HoursTyped, NEW t \in 0..(Week * Day - 1)
  PROVE  IsOpenNow(t) <=> OpenAt(t)
<1> DEFINE d == DayOf(t) - Week  m == MinutesInLima(t)
<1>1. d \in -1..(Week - 1) /\ m \in Times /\ t = Begin(d) + m
  BY TimeInLima
<1>2. Entry(DayOf(t)) = Hours(d) /\ Entry(DayOf(t) + Week - 1) = Hours(d - 1)
  BY EntriesAreDays
<1> HIDE DEF d
<1>3. EvaluateSchedule(t) <=> OpenOn(d, t) \/ OpenOn(d - 1, t)
  BY <1>1, <1>2, OpenTodayOrCarriedOver DEF EvaluateSchedule
<1>4. d \in -2..(2 * Week) /\ d - 1 \in -2..(2 * Week)
  BY <1>1, BusinessHoursAssumption
<1>5. \A k \in -2..(2 * Week) : OpenOn(k, t) => k = d \/ k = d - 1
  BY <1>1, OpenOnTwoDays, BusinessHoursAssumption
<1> QED BY <1>3, <1>4, <1>5, OpenInADay DEF IsOpenNow

(* A day on which the shop is open at t, and does not close before u.      *)
LEMMA StaysOpen ==
  ASSUME HoursTyped, ~closedByHand, NEW k \in -2..(2 * Week), NEW t \in Int, NEW u \in Int,
         OpenOn(k, t), t <= u, u < Closes(k)
  PROVE  OpenAt(u)
<1>1. Begin(k) + Hours(k).open \in Int
  BY HoursOfADay, BusinessHoursAssumption DEF Times
<1>2. OpenOn(k, u)
  BY <1>1 DEF OpenOn
<1> QED BY <1>2, OpenInADay

(* A shop that is closed at t and open at u, at most a week later, opens in*)
(* between, on a day that the code looks at.                               *)
Openings(d, m) == {n \in 0..Week : ~Hours(d + n).closed /\ (n = 0 => m < Hours(d).open)}

LEMMA OpensInBetween ==
  ASSUME HoursTyped, NEW d \in Int, NEW m \in Times, NEW t, t = Begin(d) + m,
         NEW u \in t..(t + Week * Day), NEW k \in -2..(2 * Week),
         OpenOn(k, u), ~OpenOn(k, t)
  PROVE  \E n \in Openings(d, m) : k = d + n /\ Begin(d + n) + Hours(d + n).open <= u
<1>1. /\ Day \in Nat /\ Day > 0 /\ m \in Nat /\ m < Day /\ Week \in Nat
      /\ Begin(k) \in Int /\ Begin(d) \in Int /\ Closes(k) \in Int
      /\ Hours(k).open \in Nat /\ Hours(k).open < Day
      /\ Week * Day \in Nat /\ t \in Int /\ u \in Int
  <2>1. Week \in Nat /\ Week * Day \in Nat
    BY BusinessHoursAssumption
  <2>2. /\ k \in Int /\ Begin(d) \in Int
    BY <2>1, HoursOfADay
  <2>3. /\ Begin(k) \in Int /\ Closes(k) \in Int
        /\ Hours(k).open \in Nat /\ Hours(k).open < Day
    BY <2>2, HoursOfADay
  <2>4. t \in Int /\ u \in Int
    BY <2>1, <2>2, TimesOfADay
  <2> QED BY <2>1, <2>2, <2>3, <2>4, TimesOfADay
<1>2. /\ ~Hours(k).closed /\ Begin(k) + Hours(k).open <= u
      /\ t < Begin(k) + Hours(k).open
  BY <1>1 DEF OpenOn
<1>3. ~(k < d)
  <2>1. k < d => Begin(k) + Day <= Begin(d)
    BY DaysPass
  <2> QED BY <1>1, <1>2, <2>1
<1>4. k <= d + Week
  <2>1. d + Week \in Int /\ Begin(d + Week) = Begin(d) + Week * Day
    <3>1. (d + Week) * Day = d * Day + Week * Day /\ d * Day \in Int
      BY <1>1
    <3> QED BY <1>1, <3>1, BusinessHoursAssumption DEF Begin
  <2>2. d + Week < k => Begin(d + Week) + Day <= Begin(k)
    BY <2>1, DaysPass
  <2> QED BY <1>1, <1>2, <2>1, <2>2
<1>5. PICK n : n = k - d
  OBVIOUS
<1>6. n \in 0..Week /\ k = d + n
  BY <1>1, <1>3, <1>4, <1>5
<1>7. n = 0 => m < Hours(d).open
  BY <1>1, <1>2, <1>6
<1> QED BY <1>2, <1>6, <1>7 DEF Openings

(* What the code answers when the shop is closed.                          *)
LEMMA NextOpeningIsLeast ==
  ASSUME HoursTyped, NEW t \in 0..(Week * Day - 1), NEW d, d = DayOf(t) - Week,
         NEW m \in Times
  PROVE  \/ Openings(d, m) = {} /\ NextOpening(DayOf(t), m) = NoChange
         \/ \E n \in Openings(d, m) :
              /\ \A k \in Openings(d, m) : n <= k
              /\ NextOpening(DayOf(t), m) = Begin(d + n) + Hours(d + n).open
<1> DEFINE open == {n \in 0..Week : ~Entry(DayOf(t) + n).closed
                                    /\ (n = 0 => m < Entry(DayOf(t)).open)}
<1>1. open = Openings(d, m)
  <2>1. \A n \in 0..Week : Entry(DayOf(t) + n) = Hours(d + n)
    BY EntriesAreDays, BusinessHoursAssumption
  <2>2. Entry(DayOf(t)) = Hours(d)
    BY EntriesAreDays
  <2> QED BY <2>1, <2>2 DEF Openings
<1>2. CASE Openings(d, m) = {}
  BY <1>1, <1>2 DEF NextOpening
<1>3. CASE Openings(d, m) # {}
  <2>1. PICK n \in Openings(d, m) : \A k \in Openings(d, m) : n <= k
    <3>1. Openings(d, m) \in SUBSET (0..Week)
      BY DEF Openings
    <3>2. open \in SUBSET Nat
      BY BusinessHoursAssumption
    <3> QED BY <1>3, <3>1, <3>2, LeastNumber
  <2> DEFINE c == CHOOSE x \in Openings(d, m) : \A k \in Openings(d, m) : x <= k
  <2>2. c \in Openings(d, m) /\ \A k \in Openings(d, m) : c <= k
    BY <2>1
  <2>3. NextOpening(DayOf(t), m) = LimaInstant(DayOf(t) + c, Entry(DayOf(t) + c).open)
    BY <1>1, <1>3 DEF NextOpening
  <2> HIDE DEF c
  <2>4. c \in Nat
    BY <2>2, BusinessHoursAssumption DEF Openings
  <2>5. d \in Int /\ d + c \in Int
    <3>1. DayOf(t) \in Int
      BY DivMod, BusinessHoursAssumption DEF DayOf, WallClock
    <3> QED BY <2>4, <3>1, BusinessHoursAssumption
  <2>6. Entry(DayOf(t) + c) = Hours(d + c) /\ Hours(d + c).open \in Times
    BY <2>4, <2>5, EntriesAreDays, HoursOfADay
  <2>7. LimaInstant(DayOf(t) + c, Hours(d + c).open) = Begin(d + c) + Hours(d + c).open
    BY <2>4, <2>6, EntriesAreDays
  <2> QED BY <2>2, <2>3, <2>6, <2>7
<1> QED BY <1>2, <1>3

(* getNextChangeAt() is right: whoever waits until then misses nothing.    *)
LEMMA NextChangeIsRight ==
  ASSUME HoursTyped, NEW t \in 0..(Week * Day - 1), NEW u \in t..(t + Week * Day),
         GetNextChangeAt(t) = NoChange \/ u < GetNextChangeAt(t)
  PROVE  OpenAt(u) <=> IsOpenNow(t)
<1> DEFINE d == DayOf(t) - Week  m == MinutesInLima(t)
<1>1. /\ d \in -1..(Week - 1) /\ d \in Int /\ m \in Times /\ t = Begin(d) + m
      /\ t \in Int /\ u \in Int /\ t <= u /\ Week \in Nat /\ Week > 0 /\ Day \in Nat
      /\ d \in -2..(2 * Week) /\ d - 1 \in -2..(2 * Week) /\ d - 1 \in Int /\ d + 1 \in Int
  BY TimeInLima, BusinessHoursAssumption
<1>2. Entry(DayOf(t)) = Hours(d) /\ Entry(DayOf(t) + Week - 1) = Hours(d - 1)
  BY EntriesAreDays
<1>3. /\ \A time \in Times : LimaInstant(DayOf(t), time) = Begin(d) + time
      /\ \A time \in Times : LimaInstant(DayOf(t) + 1, time) = Begin(d + 1) + time
  BY EntriesAreDays
<1>4. /\ NextOpening(DayOf(t), m) = NoChange => Openings(d, m) = {}
      /\ NextOpening(DayOf(t), m) # NoChange =>
           \E n \in Openings(d, m) :
             /\ \A k \in Openings(d, m) : n <= k
             /\ NextOpening(DayOf(t), m) = Begin(d + n) + Hours(d + n).open
  <2>1. \A n \in Openings(d, m) : Begin(d + n) + Hours(d + n).open \in Int
    <3>1. \A n \in Openings(d, m) : d + n \in Int
      BY <1>1 DEF Openings
    <3> QED BY <3>1, HoursOfADay, BusinessHoursAssumption DEF Times
  <2> QED BY <1>1, <2>1, NextOpeningIsLeast, BusinessHoursAssumption
<1>5. DayOf(t) \in Int
  BY DivMod, BusinessHoursAssumption DEF DayOf, WallClock
<1> DEFINE next == GetNextChangeAt(t)  today == Hours(d)  yesterday == Hours(d - 1)
<1>6. /\ IsOpenToday(today, m) <=> OpenOn(d, t)
      /\ IsCarriedOver(yesterday, m) <=> OpenOn(d - 1, t)
  BY <1>1, OpenTodayOrCarriedOver
<1>7. IsOpenNow(t) <=> ~closedByHand /\ (OpenOn(d, t) \/ OpenOn(d - 1, t))
  BY <1>2, <1>6 DEF IsOpenNow, EvaluateSchedule
<1>8. /\ ~closedByHand /\ IsOpenToday(today, m) =>
           next = LimaInstant(IF CrossesMidnight(today) THEN DayOf(t) + 1 ELSE DayOf(t),
                              today.close)
      /\ ~closedByHand /\ ~IsOpenToday(today, m) /\ IsCarriedOver(yesterday, m) =>
           next = LimaInstant(DayOf(t), yesterday.close)
      /\ ~closedByHand /\ ~IsOpenToday(today, m) /\ ~IsCarriedOver(yesterday, m) =>
           next = NextOpening(DayOf(t), m)
  BY <1>2 DEF GetNextChangeAt
<1>9. /\ today.close \in Times /\ yesterday.close \in Times
      /\ Begin(d) \in Int /\ Begin(d - 1) \in Int /\ Begin(d + 1) \in Int
      /\ Begin(d + 1) = Begin(d) + Day /\ Begin(d) = Begin(d - 1) + Day
  <2>1. Begin((d - 1) + 1) = Begin(d - 1) + Day /\ (d - 1) + 1 = d
    BY <1>1, DaysPass
  <2> QED BY <1>1, <2>1, HoursOfADay, DaysPass
<1>10. next = NoChange \/ u < next
  OBVIOUS
<1> HIDE DEF d, m, next
<1>11. CASE closedByHand
  BY <1>7, <1>11 DEF OpenAt
<1>12. CASE ~closedByHand /\ IsOpenToday(today, m)
  <2>1. next = Closes(d)
    <3>1. CASE CrossesMidnight(today)
      <4>1. next = Begin(d) + Day + today.close
        BY <1>3, <1>8, <1>9, <1>12, <3>1
      <4> QED BY <1>1, <1>9, <3>1, <4>1 DEF Closes, Times
    <3>2. CASE ~CrossesMidnight(today)
      <4>1. next = Begin(d) + today.close
        BY <1>3, <1>8, <1>9, <1>12, <3>2
      <4> QED BY <1>1, <1>9, <3>2, <4>1 DEF Closes, Times
    <3> QED BY <3>1, <3>2
  <2>2. u < Closes(d)
    BY <1>1, <1>10, <2>1, HoursOfADay, BusinessHoursAssumption
  <2>3. OpenAt(u)
    BY <1>1, <1>6, <1>12, <2>2, StaysOpen
  <2> QED BY <1>6, <1>7, <1>12, <2>3
<1>13. CASE ~closedByHand /\ ~IsOpenToday(today, m) /\ IsCarriedOver(yesterday, m)
  <2>1. next = Closes(d - 1)
    <3>1. next = Begin(d - 1) + Day + yesterday.close
      BY <1>3, <1>8, <1>9, <1>13
    <3>2. CrossesMidnight(yesterday)
      BY <1>13 DEF IsCarriedOver
    <3> QED BY <1>1, <1>9, <3>1, <3>2 DEF Closes, Times
  <2>2. u < Closes(d - 1)
    BY <1>1, <1>10, <2>1, HoursOfADay, BusinessHoursAssumption
  <2>3. OpenAt(u)
    BY <1>1, <1>6, <1>13, <2>2, StaysOpen
  <2> QED BY <1>6, <1>7, <1>13, <2>3
<1>14. CASE ~closedByHand /\ ~IsOpenToday(today, m) /\ ~IsCarriedOver(yesterday, m)
  <2>1. ~OpenOn(d, t) /\ ~OpenOn(d - 1, t) /\ next = NextOpening(DayOf(t), m)
    BY <1>6, <1>8, <1>14
  <2>2. ASSUME OpenAt(u) PROVE FALSE
    <3>1. PICK k \in -2..(2 * Week) : OpenOn(k, u)
      BY <2>2, OpenInADay
    <3>2. ~OpenOn(k, t)
      BY <1>1, <2>1, OpenOnTwoDays
    <3>3. PICK n \in Openings(d, m) : Begin(d + n) + Hours(d + n).open <= u
      BY <1>1, <3>1, <3>2, OpensInBetween
    <3>4. next # NoChange
      BY <1>4, <2>1, <3>3
    <3>5. PICK first \in Openings(d, m) :
            /\ first <= n
            /\ next = Begin(d + first) + Hours(d + first).open
      BY <1>4, <2>1, <3>3, <3>4
    <3>6. n \in Nat /\ first \in Nat /\ d + n \in Int /\ d + first \in Int
      BY <1>1, <3>3, <3>5 DEF Openings
    <3>7. /\ Begin(d + n) \in Int /\ Begin(d + first) \in Int
          /\ Hours(d + n).open \in Nat
          /\ Hours(d + first).open \in Nat /\ Hours(d + first).open < Day
      <4>1. /\ Begin(d + n) \in Int /\ Begin(d + first) \in Int
            /\ Hours(d + n).open \in Times /\ Hours(d + first).open \in Times
        BY <3>6, HoursOfADay
      <4>2. \A time \in Times : time \in Nat /\ time < Day
        BY BusinessHoursAssumption DEF Times
      <4> QED BY <4>1, <4>2
    <3>8. u < Begin(d + first) + Hours(d + first).open
      BY <1>10, <3>4, <3>5
    <3>9. first # n
      BY <1>1, <3>3, <3>7, <3>8
    <3>10. Begin(d + first) + Day <= Begin(d + n)
      <4>1. d + first < d + n
        BY <1>1, <3>5, <3>6, <3>9
      <4> QED BY <3>6, <4>1, DaysPass
    <3> QED BY <1>1, <3>3, <3>7, <3>8, <3>10
  <2> QED BY <1>7, <2>1, <2>2
<1> QED BY <1>11, <1>12, <1>13, <1>14

HoursInv ==
  /\ HoursTyped
  /\ answer.asked =>
       \E t \in 0..(Week * Day - 1) :
         /\ answer.at = t
         /\ answer.open = IsOpenNow(t)
         /\ answer.next = GetNextChangeAt(t)

LEMMA HoursInvTells == HoursInv => AppKnowsTheHours
<1> SUFFICES ASSUME HoursInv, answer.asked
             PROVE  /\ answer.open <=> OpenAt(answer.at)
                    /\ \A t \in answer.at..(answer.at + Week * Day) :
                         answer.next = NoChange \/ t < answer.next => (OpenAt(t) <=> answer.open)
  BY DEF AppKnowsTheHours, OpenInItsHours, NothingChangesBefore
<1>1. PICK t \in 0..(Week * Day - 1) : /\ answer.at = t
                                       /\ answer.open = IsOpenNow(t)
                                       /\ answer.next = GetNextChangeAt(t)
  BY DEF HoursInv
<1>2. HoursTyped
  BY DEF HoursInv
<1>3. IsOpenNow(t) <=> OpenAt(t)
  BY <1>2, IsOpenNowIsRight
<1>4. \A u \in t..(t + Week * Day) :
        GetNextChangeAt(t) = NoChange \/ u < GetNextChangeAt(t) => (OpenAt(u) <=> IsOpenNow(t))
  BY <1>2, NextChangeIsRight
<1> QED BY <1>1, <1>3, <1>4

LEMMA HoursStep == HoursInv /\ [HoursNext]_hoursVars => HoursInv'
<1> SUFFICES ASSUME HoursInv, [HoursNext]_hoursVars PROVE HoursInv'
  OBVIOUS
<1>1. CASE UNCHANGED hoursVars
  <2>1. schedule' = schedule /\ closedByHand' = closedByHand /\ answer' = answer
    BY <1>1 DEF hoursVars
  <2>2. HoursTyped'
    BY <2>1 DEF HoursInv, HoursTyped
  <2>3. \A t : IsOpenNow(t)' = IsOpenNow(t)
    BY <2>1 DEF IsOpenNow, EvaluateSchedule, Entry
  <2>4. \A t : GetNextChangeAt(t)' = GetNextChangeAt(t)
    BY <2>1 DEF GetNextChangeAt, NextOpening, Entry
  <2> QED BY <2>1, <2>2, <2>3, <2>4 DEF HoursInv
<1>2. CASE CloseByHand
  BY <1>2 DEF CloseByHand, HoursInv, HoursTyped, Unasked
<1>3. ASSUME NEW t \in 0..(Week * Day - 1), Ask(t) PROVE HoursInv'
  <2>1. IsOpenNow(t)' = IsOpenNow(t) /\ GetNextChangeAt(t)' = GetNextChangeAt(t)
    BY <1>3 DEF Ask, IsOpenNow, EvaluateSchedule, GetNextChangeAt, NextOpening, Entry
  <2>2. HoursTyped'
    BY <1>3 DEF Ask, HoursInv, HoursTyped
  <2>3. /\ answer'.at = t
        /\ answer'.open = IsOpenNow(t)
        /\ answer'.next = GetNextChangeAt(t)
    BY <1>3 DEF Ask
  <2> QED BY <2>1, <2>2, <2>3 DEF HoursInv
<1> QED BY <1>1, <1>2, <1>3 DEF HoursNext

(* settings.service.ts:694: for weeks and days of any length and whatever  *)
(* the hours and the closings by hand, an app that asks when it is told to *)
(* knows at every instant of a week whether the shop is open.              *)
THEOREM AppKnowsWhenToAsk == Spec => []AppKnowsTheHours
<1>1. Init => HoursInv
  <2>1. Week \in Nat /\ Day \in Nat /\ Day > 0
    BY BusinessHoursAssumption
  <2>2. HoursInit => HoursInv
    <3>1. ~Unasked.asked
      BY DEF Unasked
    <3>2. \A S, T : T \in SUBSET S => [0..(Week - 1) -> T] \subseteq [0..(Week - 1) -> S]
      OBVIOUS
    <3>3. {d \in DaySchedule : d.closed => d.open = 0 /\ d.close = 0} \in SUBSET DaySchedule
      OBVIOUS
    <3>4. HoursInit => schedule \in [0..(Week - 1) -> DaySchedule]
      BY <3>2, <3>3 DEF HoursInit
    <3> QED BY <3>1, <3>4 DEF HoursInit, HoursInv, HoursTyped
  <2>3. HoursIdle => HoursInv
    <3>1. [closed |-> TRUE, open |-> 0, close |-> 0] \in DaySchedule
      BY <2>1 DEF DaySchedule, Times
    <3>2. ~Unasked.asked
      BY DEF Unasked
    <3>3. HoursIdle => schedule \in [0..(Week - 1) -> DaySchedule]
      BY <3>1 DEF HoursIdle
    <3> QED BY <3>2, <3>3 DEF HoursIdle, HoursInv, HoursTyped
  <2> QED BY <2>2, <2>3 DEF Init
<1>2. HoursInv /\ [Next]_backOfficeVars => HoursInv'
  <2>1. [Next]_backOfficeVars => [HoursNext]_hoursVars
    BY DEF Next, OthersRest, backOfficeVars
  <2> QED BY <2>1, HoursStep
<1> QED BY <1>1, <1>2, HoursInvTells, PTL DEF Spec

(***************************************************************************)
(* Access.  A request finds the route that it is for: the lines of a table *)
(* that come before it, and the tables of the other controllers, differ    *)
(* from it in a word, in the number of segments or in the method.          *)
(***************************************************************************)
(* What a parameter of a path is filled with.                              *)
Segment(x) == IF x = ":" THEN "uuid" ELSE x

(* A request for the path b, filled in, is not taken for one for a: at j   *)
(* there is another word.                                                  *)
SetApart(a, b, j) == j <= Len(b) /\ a[j] # ":" /\ a[j] # Segment(b[j])

PathsDiffer(a, b) ==
  Len(a) # Len(b) \/ SetApart(a, b, 1) \/ SetApart(a, b, 2) \/ SetApart(a, b, 3)

(* Two lines of the tables of one prefix.                                  *)
Differ(r, s) == r[1] # s[1] \/ PathsDiffer(r[2], s[2])

LaterDiffer(routes) ==
  \A i \in DOMAIN routes : \A k \in 1..(i - 1) : Differ(routes[k], routes[i])

(* No part of a path has more than three segments.                         *)
IsPath(p) == p \in {<<>>, <<p[1]>>, <<p[1], p[2]>>, <<p[1], p[2], p[3]>>}

LEMMA ShortSequences ==
  ASSUME NEW S, NEW x \in S, NEW y \in S, NEW z \in S
  PROVE  /\ <<>> \in Seq(S) /\ <<x>> \in Seq(S)
         /\ <<x, y>> \in Seq(S) /\ <<x, y, z>> \in Seq(S)
OBVIOUS

LEMMA PathsAreSequences ==
  ASSUME NEW S, NEW p, IsPath(p), p[1] \in S, p[2] \in S, p[3] \in S
  PROVE  p \in Seq(S)
<1>1. /\ <<>> \in Seq(S) /\ <<p[1]>> \in Seq(S) /\ <<p[1], p[2]>> \in Seq(S)
      /\ <<p[1], p[2], p[3]>> \in Seq(S)
  <2> DEFINE x == p[1]  y == p[2]  z == p[3]
  <2>1. x \in S /\ y \in S /\ z \in S
    OBVIOUS
  <2> HIDE DEF x, y, z
  <2>2. /\ <<>> \in Seq(S) /\ <<x>> \in Seq(S)
        /\ <<x, y>> \in Seq(S) /\ <<x, y, z>> \in Seq(S)
    BY <2>1, ShortSequences
  <2> QED BY <2>2 DEF x, y, z
<1>2. p = <<>> \/ p = <<p[1]>> \/ p = <<p[1], p[2]>> \/ p = <<p[1], p[2], p[3]>>
  BY DEF IsPath
<1> QED BY <1>1, <1>2, Zenon

LEMMA Concatenated ==
  ASSUME NEW S, NEW s \in Seq(S), NEW t \in Seq(S)
  PROVE  /\ Len(s \o t) = Len(s) + Len(t) /\ Len(s) \in Nat /\ Len(t) \in Nat
         /\ DOMAIN (s \o t) = 1..Len(s \o t)
         /\ \A j \in 1..Len(s) : (s \o t)[j] = s[j]
         /\ \A j \in 1..Len(t) : (s \o t)[Len(s) + j] = t[j]
OBVIOUS

LEMMA Joined ==
  ASSUME NEW p, IsPath(p), NEW q, IsPath(q)
  PROVE  /\ Len(p \o q) = Len(p) + Len(q) /\ Len(p) \in Nat /\ Len(q) \in Nat
         /\ DOMAIN (p \o q) = 1..Len(p \o q)
         /\ \A j \in 1..Len(p) : (p \o q)[j] = p[j]
         /\ \A j \in 1..Len(q) : (p \o q)[Len(p) + j] = q[j]
<1>1. PICK S : p \in Seq(S) /\ q \in Seq(S)
  <2> DEFINE S == {p[1], p[2], p[3], q[1], q[2], q[3]}
  <2>1. /\ p[1] \in S /\ p[2] \in S /\ p[3] \in S
        /\ q[1] \in S /\ q[2] \in S /\ q[3] \in S
    OBVIOUS
  <2> HIDE DEF S
  <2>2. p \in Seq(S) /\ q \in Seq(S)
    BY <2>1, PathsAreSequences
  <2> QED BY <2>2
<1>2. p \in Seq(S)
  BY <1>1
<1>3. q \in Seq(S)
  BY <1>1
<1> QED BY <1>2, <1>3, Concatenated

Written(c) ==
  /\ IsPath(c.prefix) /\ Len(c.prefix) >= 1
  /\ \A j \in 1..Len(c.prefix) : c.prefix[j] # ":"
  /\ Len(c.routes) \in Nat /\ DOMAIN c.routes = 1..Len(c.routes)
  /\ \A i \in DOMAIN c.routes : IsPath(c.routes[i][2])

(* The path p of a line is the prefix a of its controller, and b.          *)
Joins(p, a, b) ==
  /\ Len(a) \in Nat /\ Len(b) \in Nat
  /\ Len(p) = Len(a) + Len(b) /\ DOMAIN p = 1..Len(p)
  /\ \A j \in 1..Len(a) : p[j] = a[j]
  /\ \A j \in 1..Len(b) : p[Len(a) + j] = b[j]

LEMMA JoinsLength ==
  ASSUME NEW p, NEW a, NEW b, Joins(p, a, b)
  PROVE  Len(p) \in Nat /\ DOMAIN p = 1..Len(p)
  BY DEF Joins

LEMMA PathOfRoute ==
  ASSUME NEW c, Written(c), NEW i \in DOMAIN c.routes
  PROVE  Joins(RouteOf(c, i).path, c.prefix, c.routes[i][2])
<1>1. PICK a, b : a = c.prefix /\ b = c.routes[i][2]
  OBVIOUS
<1>2. RouteOf(c, i).path = a \o b
  BY <1>1 DEF RouteOf
<1>3. IsPath(a) /\ IsPath(b)
  BY <1>1 DEF Written
<1>4. /\ Len(a \o b) = Len(a) + Len(b) /\ Len(a) \in Nat /\ Len(b) \in Nat
      /\ DOMAIN (a \o b) = 1..Len(a \o b)
      /\ \A j \in 1..Len(a) : (a \o b)[j] = a[j]
      /\ \A j \in 1..Len(b) : (a \o b)[Len(a) + j] = b[j]
  BY <1>3, Joined
<1>5. Joins(a \o b, a, b)
  BY <1>4 DEF Joins
<1> QED BY <1>1, <1>2, <1>5

(* A path matches its own route and none that has another word somewhere.  *)
LEMMA FilledPath ==
  ASSUME NEW p, NEW n \in Nat, DOMAIN p = 1..n
  PROVE  /\ Len(Filled(p)) = n /\ DOMAIN Filled(p) = 1..n
         /\ \A j \in 1..n : Filled(p)[j] = Segment(p[j])
  BY DEF Filled, Segment

LEMMA OwnRoute ==
  ASSUME NEW c, Written(c), NEW i \in DOMAIN c.routes
  PROVE  MatchesAt(c, i, RouteOf(c, i).method, Filled(RouteOf(c, i).path))
<1>1. PICK p : p = RouteOf(c, i).path
  OBVIOUS
<1>2. PICK n \in Nat : n = Len(p) /\ DOMAIN p = 1..n
  <2>1. Joins(RouteOf(c, i).path, c.prefix, c.routes[i][2])
    BY PathOfRoute
  <2>2. Len(p) \in Nat /\ DOMAIN p = 1..Len(p)
    BY <1>1, <2>1, JoinsLength
  <2> QED BY <2>2
<1>3. /\ Len(Filled(p)) = n /\ DOMAIN Filled(p) = 1..n
      /\ \A j \in 1..n : Filled(p)[j] = Segment(p[j])
  BY <1>2, FilledPath
<1>4. \A j \in 1..n : p[j] \in {":", Filled(p)[j]}
  BY <1>3 DEF Segment
<1> QED BY <1>1, <1>2, <1>3, <1>4 DEF MatchesAt, Matches

LEMMA OtherRoute ==
  ASSUME NEW p, NEW n \in Nat, Len(p) = n, DOMAIN p = 1..n,
         NEW d, NEW k, NEW q, q = RouteOf(d, k).path, NEW m,
         \/ Len(q) # n
         \/ \E j \in 1..n : q[j] # ":" /\ q[j] # Segment(p[j])
  PROVE  ~MatchesAt(d, k, m, Filled(p))
<1>1. /\ Len(Filled(p)) = n /\ DOMAIN Filled(p) = 1..n
      /\ \A j \in 1..n : Filled(p)[j] = Segment(p[j])
  BY FilledPath
<1> QED BY <1>1 DEF MatchesAt, Matches

(* Two routes of the same prefix.                                          *)
LEMMA DifferentTails ==
  ASSUME NEW c, Written(c), NEW i \in DOMAIN c.routes,
         NEW d, Written(d), NEW k \in DOMAIN d.routes, d.prefix = c.prefix,
         Differ(d.routes[k], c.routes[i])
  PROVE  ~MatchesAt(d, k, RouteOf(c, i).method, Filled(RouteOf(c, i).path))
<1>1. PICK p, q, a, b, z :
        /\ p = RouteOf(c, i).path /\ q = RouteOf(d, k).path
        /\ a = c.routes[i][2] /\ b = d.routes[k][2] /\ z = c.prefix
  OBVIOUS
<1>2. Joins(p, z, a) /\ Joins(q, z, b)
  <2>1. Joins(RouteOf(c, i).path, c.prefix, c.routes[i][2])
    BY PathOfRoute
  <2>2. Joins(RouteOf(d, k).path, d.prefix, d.routes[k][2])
    BY PathOfRoute
  <2> QED BY <1>1, <2>1, <2>2
<1>3. /\ RouteOf(c, i).method = c.routes[i][1]
      /\ RouteOf(d, k).method = d.routes[k][1]
  BY DEF RouteOf
<1>4. PICK n \in Nat : Len(p) = n /\ DOMAIN p = 1..n
  BY <1>2 DEF Joins
<1>5. CASE d.routes[k][1] # c.routes[i][1]
  BY <1>3, <1>5 DEF MatchesAt, Matches
<1>6. ASSUME \/ Len(q) # n
             \/ \E j \in 1..n : q[j] # ":" /\ q[j] # Segment(p[j])
      PROVE  ~MatchesAt(d, k, RouteOf(c, i).method, Filled(RouteOf(c, i).path))
  <2>1. ~MatchesAt(d, k, RouteOf(c, i).method, Filled(p))
    BY <1>1, <1>4, <1>6, OtherRoute
  <2> QED BY <1>1, <2>1
<1>7. CASE Len(a) # Len(b)
  <2>1. Len(q) # n
    BY <1>2, <1>4, <1>7 DEF Joins
  <2> QED BY <1>6, <2>1
<1>8. CASE Len(a) = Len(b) /\ \E j \in 1..3 : SetApart(b, a, j)
  <2>1. PICK j \in 1..3 : SetApart(b, a, j)
    BY <1>8
  <2>2. PICK x \in Nat : x = Len(z) + j
    BY <1>2 DEF Joins
  <2>3. /\ x \in 1..n /\ p[x] = a[j] /\ q[x] = b[j]
    BY <1>2, <1>4, <1>8, <2>1, <2>2 DEF Joins, SetApart
  <2>4. q[x] # ":" /\ q[x] # Segment(p[x])
    BY <2>1, <2>3 DEF SetApart
  <2> QED BY <1>6, <2>3, <2>4
<1> QED BY <1>1, <1>5, <1>7, <1>8 DEF Differ, PathsDiffer

(* No line of a table is hidden by one before it.                          *)
Table(c) == Written(c) /\ LaterDiffer(c.routes)

LEMMA CommonRoutes ==
  /\ Differ(List, One) /\ Differ(List, Insert)
  /\ Differ(List, Change) /\ Differ(List, Delete)
  /\ Differ(One, Insert) /\ Differ(One, Change) /\ Differ(One, Delete)
  /\ Differ(Insert, Change) /\ Differ(Insert, Delete) /\ Differ(Change, Delete)
  BY DEF Differ, PathsDiffer, SetApart, Segment, List, One, Insert, Change, Delete

LEMMA AuthTable == Table(AuthController)
<1>1. Written(AuthController)
  BY DEF AuthController, Controller, Written, IsPath
<1>2. LaterDiffer(AuthController.routes)
  BY DEF AuthController, Controller, LaterDiffer, Differ, PathsDiffer,
         SetApart, Segment
<1> QED BY <1>1, <1>2 DEF Table

LEMMA UsersTable == Table(UsersController)
<1>1. Written(UsersController)
  BY DEF UsersController, Controller, Written, IsPath
<1>2. LaterDiffer(UsersController.routes)
  <2>1. \A i \in 1..6 : \A k \in 1..(i - 1) :
          Differ(UsersController.routes[k], UsersController.routes[i])
    BY DEF UsersController, Controller, Differ, PathsDiffer, SetApart, Segment
  <2>2. \A k \in 1..6 : Differ(UsersController.routes[k], UsersController.routes[7])
    BY DEF UsersController, Controller, Differ, PathsDiffer, SetApart, Segment
  <2>3. \A k \in 1..7 : Differ(UsersController.routes[k], UsersController.routes[8])
    BY DEF UsersController, Controller, Differ, PathsDiffer, SetApart, Segment
  <2>4. \A k \in 1..8 : Differ(UsersController.routes[k], UsersController.routes[9])
    BY DEF UsersController, Controller, Differ, PathsDiffer, SetApart, Segment
  <2>5. \A k \in 1..9 : Differ(UsersController.routes[k], UsersController.routes[10])
    <3>1. Len(UsersController.routes[10][2]) = 0
      BY DEF UsersController, Controller
    <3>2. LET r == UsersController.routes IN
            /\ Len(r[1][2]) # 0 /\ Len(r[2][2]) # 0 /\ Len(r[3][2]) # 0
            /\ Len(r[4][2]) # 0 /\ Len(r[5][2]) # 0 /\ Len(r[6][2]) # 0
            /\ Len(r[7][2]) # 0 /\ Len(r[8][2]) # 0 /\ Len(r[9][2]) # 0
      BY DEF UsersController, Controller
    <3>3. \A k \in 1..9 : \/ k = 1 \/ k = 2 \/ k = 3 \/ k = 4 \/ k = 5
                          \/ k = 6 \/ k = 7 \/ k = 8 \/ k = 9
      OBVIOUS
    <3>4. \A k \in 1..9 : Len(UsersController.routes[k][2]) # 0
      BY <3>2, <3>3
    <3> QED BY <3>1, <3>4 DEF Differ, PathsDiffer
  <2>6. \A k \in 1..10 : Differ(UsersController.routes[k], UsersController.routes[11])
    BY DEF UsersController, Controller, Differ, PathsDiffer, SetApart, Segment
  <2>7. DOMAIN UsersController.routes = 1..11
    BY DEF UsersController, Controller
  <2> QED BY <2>1, <2>2, <2>3, <2>4, <2>5, <2>6, <2>7 DEF LaterDiffer
<1> QED BY <1>1, <1>2 DEF Table

LEMMA AnonymousOrdersLinkTable == Table(AnonymousOrdersLinkController)
<1>1. Written(AnonymousOrdersLinkController)
  BY DEF AnonymousOrdersLinkController, Controller, Written, IsPath
<1>2. LaterDiffer(AnonymousOrdersLinkController.routes)
  BY DEF AnonymousOrdersLinkController, Controller, LaterDiffer, Differ,
         PathsDiffer, SetApart, Segment
<1> QED BY <1>1, <1>2 DEF Table

LEMMA OrdersTable == Table(OrdersController)
<1>1. Written(OrdersController)
  BY DEF OrdersController, Controller, Written, IsPath
<1>2. LaterDiffer(OrdersController.routes)
  <2>1. \A i \in 1..7 : \A k \in 1..(i - 1) :
          Differ(OrdersController.routes[k], OrdersController.routes[i])
    BY DEF OrdersController, Controller, Differ, PathsDiffer, SetApart, Segment
  <2>2. \A k \in 1..7 : Differ(OrdersController.routes[k], OrdersController.routes[8])
    BY DEF OrdersController, Controller, Differ, PathsDiffer, SetApart, Segment
  <2>3. \A k \in 1..8 : Differ(OrdersController.routes[k], OrdersController.routes[9])
    BY DEF OrdersController, Controller, Differ, PathsDiffer, SetApart, Segment
  <2>4. \A k \in 1..9 : Differ(OrdersController.routes[k], OrdersController.routes[10])
    BY DEF OrdersController, Controller, Differ, PathsDiffer, SetApart, Segment
  <2>5. DOMAIN OrdersController.routes = 1..10
    BY DEF OrdersController, Controller
  <2> QED BY <2>1, <2>2, <2>3, <2>4, <2>5 DEF LaterDiffer
<1> QED BY <1>1, <1>2 DEF Table

LEMMA OrderEventsTable == Table(OrderEventsController)
<1>1. Written(OrderEventsController)
  BY DEF OrderEventsController, Controller, Written, IsPath
<1>2. LaterDiffer(OrderEventsController.routes)
  BY DEF OrderEventsController, Controller, LaterDiffer, Differ, PathsDiffer,
         SetApart, Segment
<1> QED BY <1>1, <1>2 DEF Table

LEMMA DeliveryTable == Table(DeliveryController)
<1>1. Written(DeliveryController)
  BY DEF DeliveryController, Controller, Written, IsPath
<1>2. LaterDiffer(DeliveryController.routes)
  BY DEF DeliveryController, Controller, LaterDiffer, Differ, PathsDiffer,
         SetApart, Segment
<1> QED BY <1>1, <1>2 DEF Table

LEMMA CouponsTable == Table(CouponsController)
<1>1. Written(CouponsController)
  BY DEF CouponsController, Controller, Written, IsPath
<1>2. LaterDiffer(CouponsController.routes)
  BY DEF CouponsController, Controller, LaterDiffer, Differ, PathsDiffer,
         SetApart, Segment
<1> QED BY <1>1, <1>2 DEF Table

LEMMA RewardsTable == Table(RewardsController)
<1>1. Written(RewardsController)
  BY DEF RewardsController, Controller, Written, IsPath
<1>2. LaterDiffer(RewardsController.routes)
  BY DEF RewardsController, Controller, LaterDiffer, Differ, PathsDiffer,
         SetApart, Segment
<1> QED BY <1>1, <1>2 DEF Table

LEMMA BannersTable == Table(BannersController)
<1>1. Written(BannersController)
  BY DEF BannersController, Controller, Written, IsPath
<1>2. LaterDiffer(BannersController.routes)
  BY DEF BannersController, Controller, LaterDiffer, Differ, PathsDiffer,
         SetApart, Segment
<1> QED BY <1>1, <1>2 DEF Table

LEMMA MenuTable == Table(MenuController)
<1>1. Written(MenuController)
  BY DEF MenuController, Controller, Written, IsPath
<1>2. LaterDiffer(MenuController.routes)
  <2>1. \A i \in 1..6 : \A k \in 1..(i - 1) :
          Differ(MenuController.routes[k], MenuController.routes[i])
    BY DEF MenuController, Controller, Differ, PathsDiffer, SetApart, Segment
  <2>2. \A k \in 1..6 : Differ(MenuController.routes[k], MenuController.routes[7])
    BY DEF MenuController, Controller, Differ, PathsDiffer, SetApart, Segment
  <2>3. \A k \in 1..7 : Differ(MenuController.routes[k], MenuController.routes[8])
    BY DEF MenuController, Controller, Differ, PathsDiffer, SetApart, Segment
  <2>4. \A k \in 1..8 : Differ(MenuController.routes[k], MenuController.routes[9])
    BY DEF MenuController, Controller, Differ, PathsDiffer, SetApart, Segment
  <2>5. \A k \in 1..9 : Differ(MenuController.routes[k], MenuController.routes[10])
    BY DEF MenuController, Controller, Differ, PathsDiffer, SetApart, Segment
  <2>6. \A k \in 1..10 : Differ(MenuController.routes[k], MenuController.routes[11])
    BY DEF MenuController, Controller, Differ, PathsDiffer, SetApart, Segment
  <2>7. DOMAIN MenuController.routes = 1..11
    BY DEF MenuController, Controller
  <2> QED BY <2>1, <2>2, <2>3, <2>4, <2>5, <2>6, <2>7 DEF LaterDiffer
<1> QED BY <1>1, <1>2 DEF Table

LEMMA SettingsTable == Table(SettingsController)
<1>1. Written(SettingsController)
  BY DEF SettingsController, Controller, Written, IsPath
<1>2. LaterDiffer(SettingsController.routes)
  BY DEF SettingsController, Controller, LaterDiffer, Differ, PathsDiffer,
         SetApart, Segment
<1> QED BY <1>1, <1>2 DEF Table

LEMMA AdminTable == Table(AdminController)
<1>1. Written(AdminController)
  BY DEF AdminController, Controller, Written, IsPath
<1>2. LaterDiffer(AdminController.routes)
  BY DEF AdminController, Controller, LaterDiffer, Differ, PathsDiffer,
         SetApart, Segment
<1> QED BY <1>1, <1>2 DEF Table

LEMMA ReportsTable == Table(ReportsController)
<1>1. Written(ReportsController)
  BY DEF ReportsController, Controller, Written, IsPath
<1>2. LaterDiffer(ReportsController.routes)
  BY DEF ReportsController, Controller, LaterDiffer, Differ, PathsDiffer,
         SetApart, Segment
<1> QED BY <1>1, <1>2 DEF Table

LEMMA NotificationsTable == Table(NotificationsController)
<1>1. Written(NotificationsController)
  BY DEF NotificationsController, Controller, Written, IsPath
<1>2. LaterDiffer(NotificationsController.routes)
  BY DEF NotificationsController, Controller, LaterDiffer, Differ, PathsDiffer,
         SetApart, Segment
<1> QED BY <1>1, <1>2 DEF Table

LEMMA SaucesTable == Table(SaucesController)
<1>1. Written(SaucesController)
  BY DEF SaucesController, Controller, Written, IsPath, List, One, Insert,
         Change, Delete
<1>2. LaterDiffer(SaucesController.routes)
  BY CommonRoutes DEF SaucesController, Controller, LaterDiffer
<1> QED BY <1>1, <1>2 DEF Table

LEMMA BeveragesTable == Table(BeveragesController)
<1>1. Written(BeveragesController)
  BY DEF BeveragesController, Controller, Written, IsPath, List, One, Insert,
         Change, Delete
<1>2. LaterDiffer(BeveragesController.routes)
  BY CommonRoutes DEF BeveragesController, Controller, LaterDiffer
<1> QED BY <1>1, <1>2 DEF Table

LEMMA ExtraPortionsTable == Table(ExtraPortionsController)
<1>1. Written(ExtraPortionsController)
  BY DEF ExtraPortionsController, Controller, Written, IsPath, List, One,
         Insert, Change, Delete
<1>2. LaterDiffer(ExtraPortionsController.routes)
  BY CommonRoutes DEF ExtraPortionsController, Controller, LaterDiffer
<1> QED BY <1>1, <1>2 DEF Table

LEMMA FriesTypesTable == Table(FriesTypesController)
<1>1. Written(FriesTypesController)
  BY DEF FriesTypesController, Controller, Written, IsPath, List, One, Insert,
         Change, Delete
<1>2. LaterDiffer(FriesTypesController.routes)
  BY CommonRoutes DEF FriesTypesController, Controller, LaterDiffer
<1> QED BY <1>1, <1>2 DEF Table

LEMMA DeliveryZonesTable == Table(DeliveryZonesController)
<1>1. Written(DeliveryZonesController)
  BY DEF DeliveryZonesController, Controller, Written, IsPath, List, One,
         Insert, Change, Delete
<1>2. LaterDiffer(DeliveryZonesController.routes)
  BY CommonRoutes DEF DeliveryZonesController, Controller, LaterDiffer
<1> QED BY <1>1, <1>2 DEF Table

LEMMA RewardMilestonesTable == Table(RewardMilestonesController)
<1>1. Written(RewardMilestonesController)
  BY DEF RewardMilestonesController, Controller, Written, IsPath, List, One,
         Insert, Change, Delete
<1>2. LaterDiffer(RewardMilestonesController.routes)
  BY CommonRoutes DEF RewardMilestonesController, Controller, LaterDiffer
<1> QED BY <1>1, <1>2 DEF Table

LEMMA StarPromotionsTable == Table(StarPromotionsController)
<1>1. Written(StarPromotionsController)
  BY DEF StarPromotionsController, Controller, Written, IsPath, List, One,
         Insert, Change, Delete
<1>2. LaterDiffer(StarPromotionsController.routes)
  BY CommonRoutes DEF StarPromotionsController, Controller, LaterDiffer
<1> QED BY <1>1, <1>2 DEF Table

(* A request for a route of c finds nothing in d.                          *)
NotIn(d, c) ==
  \A i \in DOMAIN c.routes : \A k \in DOMAIN d.routes :
    ~MatchesAt(d, k, RouteOf(c, i).method, Filled(RouteOf(c, i).path))

(* All the paths of a controller have this word at j.                      *)
AllHave(c, j, word) ==
  \A i \in DOMAIN c.routes :
    Len(RouteOf(c, i).path) >= j /\ RouteOf(c, i).path[j] = word

LEMMA OtherWord ==
  ASSUME NEW c, Written(c), NEW d, Written(d), NEW j \in 1..2, NEW v, NEW w,
         AllHave(c, j, v), AllHave(d, j, w), v # w, v # ":", w # ":"
  PROVE  NotIn(d, c)
<1> SUFFICES ASSUME NEW i \in DOMAIN c.routes, NEW k \in DOMAIN d.routes
             PROVE  ~MatchesAt(d, k, RouteOf(c, i).method, Filled(RouteOf(c, i).path))
  BY DEF NotIn
<1>1. PICK p, q : p = RouteOf(c, i).path /\ q = RouteOf(d, k).path
  OBVIOUS
<1>2. Joins(RouteOf(c, i).path, c.prefix, c.routes[i][2])
  BY PathOfRoute
<1>3. Len(p) \in Nat /\ DOMAIN p = 1..Len(p)
  BY <1>1, <1>2, JoinsLength
<1>4. PICK n \in Nat : Len(p) = n /\ DOMAIN p = 1..n
  BY <1>3
<1>5. j \in 1..n /\ p[j] = v /\ q[j] = w
  BY <1>1, <1>4 DEF AllHave
<1>6. q[j] # ":" /\ q[j] # Segment(p[j])
  BY <1>5 DEF Segment
<1>7. ~MatchesAt(d, k, RouteOf(c, i).method, Filled(p))
  BY <1>1, <1>4, <1>5, <1>6, OtherRoute
<1> QED BY <1>1, <1>7

LEMMA FirstWord ==
  ASSUME NEW c, Written(c)
  PROVE  AllHave(c, 1, c.prefix[1]) /\ c.prefix[1] # ":"
<1> SUFFICES ASSUME NEW i \in DOMAIN c.routes
             PROVE  /\ Len(RouteOf(c, i).path) >= 1
                    /\ RouteOf(c, i).path[1] = c.prefix[1] /\ c.prefix[1] # ":"
  <2>1. Len(c.prefix) \in Nat
    BY DEF Written, IsPath
  <2> QED BY <2>1 DEF AllHave, Written
<1>1. PICK p, a, b : p = RouteOf(c, i).path /\ a = c.prefix /\ b = c.routes[i][2]
  OBVIOUS
<1>2. Joins(p, a, b)
  <2>1. Joins(RouteOf(c, i).path, c.prefix, c.routes[i][2])
    BY PathOfRoute
  <2> QED BY <1>1, <2>1
<1>3. Len(a) >= 1 /\ \A j \in 1..Len(a) : a[j] # ":"
  BY <1>1 DEF Written
<1>4. /\ Len(a) \in Nat /\ Len(b) \in Nat /\ Len(p) = Len(a) + Len(b)
      /\ p[1] = a[1] /\ a[1] # ":"
  BY <1>2, <1>3 DEF Joins
<1>5. Len(p) >= 1
  BY <1>3, <1>4
<1> QED BY <1>1, <1>4, <1>5

(* The second word: of a prefix of two, or of a tail after a prefix of one. *)
LEMMA SecondOfPrefix ==
  ASSUME NEW c, Written(c), Len(c.prefix) = 2
  PROVE  AllHave(c, 2, c.prefix[2])
<1> SUFFICES ASSUME NEW i \in DOMAIN c.routes
             PROVE  Len(RouteOf(c, i).path) >= 2 /\ RouteOf(c, i).path[2] = c.prefix[2]
  BY DEF AllHave
<1>1. PICK p, a, b : p = RouteOf(c, i).path /\ a = c.prefix /\ b = c.routes[i][2]
  OBVIOUS
<1>2. Joins(p, a, b)
  <2>1. Joins(RouteOf(c, i).path, c.prefix, c.routes[i][2])
    BY PathOfRoute
  <2> QED BY <1>1, <2>1
<1>3. Len(a) = 2
  BY <1>1
<1>4. Len(b) \in Nat /\ Len(p) = 2 + Len(b) /\ p[2] = a[2]
  BY <1>2, <1>3 DEF Joins
<1> QED BY <1>1, <1>4

LEMMA SecondOfTail ==
  ASSUME NEW c, Written(c), Len(c.prefix) = 1, NEW word,
         \A i \in DOMAIN c.routes :
           LET tail == c.routes[i][2] IN Len(tail) >= 1 /\ tail[1] = word
  PROVE  AllHave(c, 2, word)
<1> SUFFICES ASSUME NEW i \in DOMAIN c.routes
             PROVE  Len(RouteOf(c, i).path) >= 2 /\ RouteOf(c, i).path[2] = word
  BY DEF AllHave
<1>1. PICK p, a, b : p = RouteOf(c, i).path /\ a = c.prefix /\ b = c.routes[i][2]
  OBVIOUS
<1>2. Joins(p, a, b)
  <2>1. Joins(RouteOf(c, i).path, c.prefix, c.routes[i][2])
    BY PathOfRoute
  <2> QED BY <1>1, <2>1
<1>3. Len(a) = 1 /\ Len(b) >= 1 /\ b[1] = word
  BY <1>1
<1>4. Len(b) \in Nat /\ Len(p) = 1 + Len(b) /\ p[1 + 1] = b[1]
  BY <1>2, <1>3 DEF Joins
<1> QED BY <1>1, <1>3, <1>4

LEMMA EveryTable == \A c \in Controllers : Table(c)
  BY AuthTable, UsersTable, AnonymousOrdersLinkTable, OrdersTable,
     OrderEventsTable, DeliveryTable, CouponsTable, RewardsTable, BannersTable,
     MenuTable, SettingsTable, AdminTable, ReportsTable, NotificationsTable,
     SaucesTable, BeveragesTable, ExtraPortionsTable, FriesTypesTable,
     DeliveryZonesTable, RewardMilestonesTable, StarPromotionsTable DEF
     Controllers

LEMMA FirstWords ==
  /\ AuthController.prefix[1] = "auth"
  /\ UsersController.prefix[1] = "users"
  /\ AnonymousOrdersLinkController.prefix[1] = "users"
  /\ OrdersController.prefix[1] = "orders"
  /\ OrderEventsController.prefix[1] = "admin"
  /\ DeliveryController.prefix[1] = "delivery"
  /\ CouponsController.prefix[1] = "coupons"
  /\ RewardsController.prefix[1] = "rewards"
  /\ BannersController.prefix[1] = "banners"
  /\ MenuController.prefix[1] = "menu"
  /\ SettingsController.prefix[1] = "settings"
  /\ AdminController.prefix[1] = "admin"
  /\ ReportsController.prefix[1] = "admin"
  /\ NotificationsController.prefix[1] = "notifications"
  /\ SaucesController.prefix[1] = "sauces"
  /\ BeveragesController.prefix[1] = "beverages"
  /\ ExtraPortionsController.prefix[1] = "extra-portions"
  /\ FriesTypesController.prefix[1] = "fries-types"
  /\ DeliveryZonesController.prefix[1] = "delivery"
  /\ RewardMilestonesController.prefix[1] = "reward-milestones"
  /\ StarPromotionsController.prefix[1] = "star-promotions"
  BY DEF Controller, AuthController, UsersController,
     AnonymousOrdersLinkController, OrdersController, OrderEventsController,
     DeliveryController, CouponsController, RewardsController,
     BannersController, MenuController, SettingsController, AdminController,
     ReportsController, NotificationsController, SaucesController,
     BeveragesController, ExtraPortionsController, FriesTypesController,
     DeliveryZonesController, RewardMilestonesController,
     StarPromotionsController

(* The controllers that share the first word of their paths.               *)
SamePrefix(c, d) ==
  \/ {c, d} = {UsersController, AnonymousOrdersLinkController}
  \/ {c, d} = {DeliveryController, DeliveryZonesController}
  \/ {c, d} = {AdminController, OrderEventsController}
  \/ {c, d} = {AdminController, ReportsController}
  \/ {c, d} = {OrderEventsController, ReportsController}

LEMMA SharedFirstWords ==
  ASSUME NEW c \in Controllers, NEW d \in Controllers, c.prefix[1] = d.prefix[1]
  PROVE  c = d \/ SamePrefix(c, d)
<1>1. CASE c \in {AuthController, UsersController, AnonymousOrdersLinkController,
                 OrdersController}
  BY <1>1, FirstWords DEF Controllers, SamePrefix
<1>2. CASE c \in {OrderEventsController, DeliveryController, CouponsController,
                 RewardsController}
  BY <1>2, FirstWords DEF Controllers, SamePrefix
<1>3. CASE c \in {BannersController, MenuController, SettingsController,
                 AdminController}
  BY <1>3, FirstWords DEF Controllers, SamePrefix
<1>4. CASE c \in {ReportsController, NotificationsController, SaucesController,
                 BeveragesController}
  BY <1>4, FirstWords DEF Controllers, SamePrefix
<1>5. CASE c \in {ExtraPortionsController, FriesTypesController,
                 DeliveryZonesController, RewardMilestonesController,
                 StarPromotionsController}
  BY <1>5, FirstWords DEF Controllers, SamePrefix
<1> QED BY <1>1, <1>2, <1>3, <1>4, <1>5 DEF Controllers

LEMMA UsersAndLink ==
  /\ NotIn(UsersController, AnonymousOrdersLinkController)
  /\ NotIn(AnonymousOrdersLinkController, UsersController)
<1> DEFINE c == UsersController  d == AnonymousOrdersLinkController
<1>1. Written(c) /\ Written(d)
  BY UsersTable, AnonymousOrdersLinkTable DEF Table
<1>2. c.prefix = d.prefix /\ DOMAIN d.routes = 1..2 /\ DOMAIN c.routes = 1..11
  BY DEF UsersController, AnonymousOrdersLinkController, Controller
<1>3. /\ \A k \in 1..11 : Differ(d.routes[1], c.routes[k])
      /\ \A k \in 1..11 : Differ(d.routes[2], c.routes[k])
  BY DEF UsersController, AnonymousOrdersLinkController, Controller,
         Differ, PathsDiffer, SetApart, Segment
<1>4. \A k \in 1..11 : Differ(c.routes[k], d.routes[1])
  BY DEF UsersController, AnonymousOrdersLinkController, Controller,
         Differ, PathsDiffer, SetApart, Segment
<1>5. \A k \in 1..11 : Differ(c.routes[k], d.routes[2])
  BY DEF UsersController, AnonymousOrdersLinkController, Controller,
         Differ, PathsDiffer, SetApart, Segment
<1> HIDE DEF c, d
<1>6. NotIn(d, c)
  BY <1>1, <1>2, <1>3, DifferentTails DEF NotIn
<1>7. NotIn(c, d)
  BY <1>1, <1>2, <1>4, <1>5, DifferentTails DEF NotIn
<1> QED BY <1>6, <1>7 DEF c, d

LEMMA SecondWords ==
  /\ AllHave(DeliveryController, 2, "estimate")
  /\ AllHave(DeliveryZonesController, 2, "zones")
  /\ AllHave(AdminController, 2, "dashboard")
  /\ AllHave(OrderEventsController, 2, "orders")
  /\ AllHave(ReportsController, 2, "reports")
<1>1. AllHave(DeliveryController, 2, "estimate")
  <2>1. /\ Len(DeliveryController.prefix) = 1
        /\ \A i \in DOMAIN DeliveryController.routes :
             LET tail == DeliveryController.routes[i][2] IN
             Len(tail) >= 1 /\ tail[1] = "estimate"
    BY DEF DeliveryController, Controller
  <2> QED BY <2>1, DeliveryTable, SecondOfTail DEF Table
<1>2. AllHave(DeliveryZonesController, 2, "zones")
  <2>1. /\ Len(DeliveryZonesController.prefix) = 2
        /\ DeliveryZonesController.prefix[2] = "zones"
    BY DEF DeliveryZonesController, Controller
  <2> QED BY <2>1, DeliveryZonesTable, SecondOfPrefix DEF Table
<1>3. AllHave(AdminController, 2, "dashboard")
  <2>1. /\ Len(AdminController.prefix) = 1
        /\ \A i \in DOMAIN AdminController.routes :
             LET tail == AdminController.routes[i][2] IN
             Len(tail) >= 1 /\ tail[1] = "dashboard"
    BY DEF AdminController, Controller
  <2> QED BY <2>1, AdminTable, SecondOfTail DEF Table
<1>4. AllHave(OrderEventsController, 2, "orders")
  <2>1. /\ Len(OrderEventsController.prefix) = 2
        /\ OrderEventsController.prefix[2] = "orders"
    BY DEF OrderEventsController, Controller
  <2> QED BY <2>1, OrderEventsTable, SecondOfPrefix DEF Table
<1>5. AllHave(ReportsController, 2, "reports")
  <2>1. /\ Len(ReportsController.prefix) = 2
        /\ ReportsController.prefix[2] = "reports"
    BY DEF ReportsController, Controller
  <2> QED BY <2>1, ReportsTable, SecondOfPrefix DEF Table
<1> QED BY <1>1, <1>2, <1>3, <1>4, <1>5

LEMMA ElsewhereNotIn ==
  \A c, d \in Controllers : c = d \/ NotIn(d, c)
<1> SUFFICES ASSUME NEW c \in Controllers, NEW d \in Controllers, c # d
             PROVE  NotIn(d, c)
  OBVIOUS
<1>1. Written(c) /\ Written(d)
  BY EveryTable DEF Table
<1>2. CASE c.prefix[1] # d.prefix[1]
  <2>1. AllHave(c, 1, c.prefix[1]) /\ c.prefix[1] # ":"
    BY <1>1, FirstWord
  <2>2. AllHave(d, 1, d.prefix[1]) /\ d.prefix[1] # ":"
    BY <1>1, FirstWord
  <2> QED BY <1>1, <1>2, <2>1, <2>2, OtherWord
<1>3. ASSUME NEW v, NEW w, AllHave(c, 2, v), AllHave(d, 2, w),
             v # w, v # ":", w # ":"
      PROVE  NotIn(d, c)
  BY <1>1, <1>3, OtherWord
<1>4. CASE SamePrefix(c, d)
  <2>1. CASE {c, d} = {UsersController, AnonymousOrdersLinkController}
    <3>1. \/ c = UsersController /\ d = AnonymousOrdersLinkController
          \/ d = UsersController /\ c = AnonymousOrdersLinkController
      BY <2>1
    <3> QED BY <3>1, UsersAndLink
  <2>2. CASE {c, d} = {DeliveryController, DeliveryZonesController}
    <3>1. \/ c = DeliveryController /\ d = DeliveryZonesController
          \/ d = DeliveryController /\ c = DeliveryZonesController
      BY <2>2
    <3> QED BY <1>3, <3>1, SecondWords
  <2>3. CASE {c, d} = {AdminController, OrderEventsController}
    <3>1. \/ c = AdminController /\ d = OrderEventsController
          \/ d = AdminController /\ c = OrderEventsController
      BY <2>3
    <3> QED BY <1>3, <3>1, SecondWords
  <2>4. CASE {c, d} = {AdminController, ReportsController}
    <3>1. \/ c = AdminController /\ d = ReportsController
          \/ d = AdminController /\ c = ReportsController
      BY <2>4
    <3> QED BY <1>3, <3>1, SecondWords
  <2>5. CASE {c, d} = {OrderEventsController, ReportsController}
    <3>1. \/ c = OrderEventsController /\ d = ReportsController
          \/ d = OrderEventsController /\ c = ReportsController
      BY <2>5
    <3> QED BY <1>3, <3>1, SecondWords
  <2> QED BY <1>4, <2>1, <2>2, <2>3, <2>4, <2>5 DEF SamePrefix
<1> QED BY <1>2, <1>4, SharedFirstWords

(* A request arrives at its own route: no line before it matches, and no   *)
(* other controller has one that does, whichever comes first.              *)
LEMMA OneRouteMatches ==
  ASSUME NEW c \in Controllers, NEW i \in DOMAIN c.routes,
         NEW route, route = RouteOf(c, i)
  PROVE  Arrived(route.method, Filled(route.path)) = {route}
<1> DEFINE m == route.method  p == Filled(route.path)
<1>1. Table(c)
  BY EveryTable
<1>2. PICK n \in Nat : DOMAIN c.routes = 1..n
  BY <1>1 DEF Table, Written
<1>3. MatchesAt(c, i, m, p)
  BY <1>1, OwnRoute DEF Table
<1>4. ASSUME NEW k \in 1..(i - 1) PROVE ~MatchesAt(c, k, m, p)
  <2>1. k \in DOMAIN c.routes
    BY <1>2
  <2>2. Differ(c.routes[k], c.routes[i])
    BY <1>1 DEF Table, LaterDiffer
  <2> QED BY <1>1, <2>1, <2>2, DifferentTails DEF Table
<1>5. ASSUME NEW d \in Controllers, NEW k \in DOMAIN d.routes, MatchesAt(d, k, m, p)
      PROVE  d = c
  BY <1>5, ElsewhereNotIn DEF NotIn
<1> HIDE DEF m, p
<1>6. FirstMatch(c, m, p) = i
  <2>1. \A j \in 1..n :
          (/\ MatchesAt(c, j, m, p)
           /\ \A k \in 1..(j - 1) : ~MatchesAt(c, k, m, p)) => j = i
    BY <1>2, <1>3, <1>4
  <2>2. /\ MatchesAt(c, i, m, p) /\ \A k \in 1..(i - 1) : ~MatchesAt(c, k, m, p)
    BY <1>3, <1>4
  <2> QED BY <1>2, <2>1, <2>2 DEF FirstMatch
<1>7. {d \in Controllers : \E k \in DOMAIN d.routes : MatchesAt(d, k, m, p)} = {c}
  BY <1>3, <1>5
<1>8. Arrived(m, p) = {RouteOf(c, FirstMatch(c, m, p))}
  BY <1>7 DEF Arrived
<1> QED BY <1>6, <1>8 DEF m, p

LEMMA RouteArrives ==
  ASSUME NEW route \in Routes
  PROVE  Arrived(route.method, Filled(route.path)) = {route}
<1>1. PICK c \in Controllers : \E i \in DOMAIN c.routes : route = RouteOf(c, i)
  BY DEF Routes
<1> QED BY <1>1, OneRouteMatches

(***************************************************************************)
(* The guards.  The role that a request is judged by is one that its user  *)
(* has had since it came in: it is read again, not taken from the token.   *)
(***************************************************************************)
IsRequest(r) ==
  \E step, route, handler, user, payload, own, wasAdmin :
    r = [step |-> step, asked |-> route, handler |-> handler, user |-> user,
         payload |-> payload, own |-> own, wasAdmin |-> wasAdmin]

AccessReliable ==
  /\ request.handler = request.asked
  /\ request.user \in Requesters \cup {Nobody}
  /\ request.step \in {"jwt", "roles", "served"}
  /\ request.step = "jwt" /\ request.user # Nobody /\ roles[request.user] = "admin" =>
       request.wasAdmin
  /\ request.step = "roles" /\ request.handler.who # "anyone" =>
       /\ request.user # Nobody
       /\ request.payload = "admin" => request.wasAdmin
  /\ request.step = "served" =>
       \/ request.handler.who = "anyone"
       \/ request.handler.who = "user" /\ request.user # Nobody
       \/ request.wasAdmin /\ request.user # Nobody
       \/ request.handler.who = "owner" /\ request.own

AccessInv ==
  /\ roles \in [Requesters -> {"admin", "cliente"}]
  /\ \A token \in issued : token[1] \in Requesters
  /\ request = Free \/ (IsRequest(request) /\ AccessReliable)

Authenticated(r, role) == [r EXCEPT !.step = "roles", !.payload = role]

(* A request that goes on is the same in all else.                         *)
LEMMA RequestAuthenticated ==
  ASSUME NEW r, IsRequest(r), NEW y, NEW n, n = Authenticated(r, y)
  PROVE  /\ IsRequest(n) /\ n.step = "roles"
         /\ n.asked = r.asked /\ n.handler = r.handler /\ n.user = r.user
         /\ n.own = r.own /\ n.wasAdmin = r.wasAdmin /\ n.payload = y
<1>1. PICK step, route, handler, user, payload, own, wasAdmin :
        r = [step |-> step, asked |-> route, handler |-> handler, user |-> user,
             payload |-> payload, own |-> own, wasAdmin |-> wasAdmin]
  BY DEF IsRequest
<1>2. n = [f \in {"step", "asked", "handler", "user", "payload", "own", "wasAdmin"} |-> n[f]]
  BY <1>1 DEF Authenticated
<1>3. /\ n.step = "roles" /\ n.asked = route /\ n.handler = handler /\ n.user = user
      /\ n.own = own /\ n.wasAdmin = wasAdmin /\ n.payload = y
  BY <1>1 DEF Authenticated
<1>4. n = [step |-> n.step, asked |-> n.asked, handler |-> n.handler, user |-> n.user,
           payload |-> n.payload, own |-> n.own, wasAdmin |-> n.wasAdmin]
  BY <1>2
<1> QED BY <1>1, <1>3, <1>4 DEF IsRequest

LEMMA RequestAuthorized ==
  ASSUME NEW r, IsRequest(r), NEW x, NEW n, n = [r EXCEPT !.step = x]
  PROVE  /\ IsRequest(n) /\ n.step = x
         /\ n.asked = r.asked /\ n.handler = r.handler /\ n.user = r.user
         /\ n.own = r.own /\ n.wasAdmin = r.wasAdmin /\ n.payload = r.payload
<1>1. PICK step, route, handler, user, payload, own, wasAdmin :
        r = [step |-> step, asked |-> route, handler |-> handler, user |-> user,
             payload |-> payload, own |-> own, wasAdmin |-> wasAdmin]
  BY DEF IsRequest
<1>2. n = [f \in {"step", "asked", "handler", "user", "payload", "own", "wasAdmin"} |-> n[f]]
  BY <1>1
<1>3. /\ n.step = x /\ n.asked = route /\ n.handler = handler /\ n.user = user
      /\ n.own = own /\ n.wasAdmin = wasAdmin /\ n.payload = payload
  BY <1>1
<1>4. n = [step |-> n.step, asked |-> n.asked, handler |-> n.handler, user |-> n.user,
           payload |-> n.payload, own |-> n.own, wasAdmin |-> n.wasAdmin]
  BY <1>2
<1> QED BY <1>1, <1>3, <1>4 DEF IsRequest

LEMMA RequestReappointed ==
  ASSUME NEW r, IsRequest(r), NEW x, NEW n, n = [r EXCEPT !.wasAdmin = x]
  PROVE  /\ IsRequest(n) /\ n.step = r.step
         /\ n.asked = r.asked /\ n.handler = r.handler /\ n.user = r.user
         /\ n.own = r.own /\ n.wasAdmin = x /\ n.payload = r.payload
<1>1. PICK step, route, handler, user, payload, own, wasAdmin :
        r = [step |-> step, asked |-> route, handler |-> handler, user |-> user,
             payload |-> payload, own |-> own, wasAdmin |-> wasAdmin]
  BY DEF IsRequest
<1>2. n = [f \in {"step", "asked", "handler", "user", "payload", "own", "wasAdmin"} |-> n[f]]
  BY <1>1
<1>3. /\ n.step = step /\ n.asked = route /\ n.handler = handler /\ n.user = user
      /\ n.own = own /\ n.wasAdmin = x /\ n.payload = payload
  BY <1>1
<1>4. n = [step |-> n.step, asked |-> n.asked, handler |-> n.handler, user |-> n.user,
           payload |-> n.payload, own |-> n.own, wasAdmin |-> n.wasAdmin]
  BY <1>2
<1> QED BY <1>1, <1>3, <1>4 DEF IsRequest

LEMMA AccessStep == AccessInv /\ [AccessNext]_accessVars => AccessInv'
<1> SUFFICES ASSUME AccessInv, [AccessNext]_accessVars PROVE AccessInv'
  OBVIOUS
<1>1. CASE UNCHANGED accessVars
  BY <1>1 DEF accessVars, AccessInv, AccessReliable
<1>2. ASSUME NEW u \in Requesters, Issue(u) PROVE AccessInv'
  BY <1>2 DEF Issue, AccessInv, AccessReliable
<1>3. ASSUME NEW u \in Requesters, Reappoint(u) PROVE AccessInv'
  <2>1. /\ roles' \in [Requesters -> {"admin", "cliente"}]
        /\ \A v \in Requesters : v # u => roles'[v] = roles[v]
        /\ issued' = issued
    BY <1>3 DEF Reappoint, AccessInv
  <2>2. CASE request # Free /\ request.user = u
    <3>1. IsRequest(request) /\ AccessReliable
      BY <2>2 DEF AccessInv
    <3>2. request' = [request EXCEPT !.wasAdmin = @ \/ roles'[u] = "admin"]
      BY <1>3, <2>2 DEF Reappoint
    <3>3. PICK w : w = (request.wasAdmin \/ roles'[u] = "admin")
      OBVIOUS
    <3>4. request' = [request EXCEPT !.wasAdmin = w]
      BY <3>2, <3>3
    <3>5. /\ IsRequest(request')
          /\ request'.step = request.step
          /\ request'.asked = request.asked /\ request'.handler = request.handler
          /\ request'.user = request.user /\ request'.own = request.own
          /\ request'.wasAdmin = w /\ request'.payload = request.payload
      BY <3>1, <3>4, RequestReappointed
    <3>6. AccessReliable'
      BY <2>1, <2>2, <3>1, <3>3, <3>5 DEF AccessReliable
    <3> QED BY <2>1, <3>5, <3>6 DEF AccessInv
  <2>3. CASE ~(request # Free /\ request.user = u)
    <3>1. request' = request
      BY <1>3, <2>3 DEF Reappoint
    <3> QED BY <2>1, <2>3, <3>1 DEF AccessInv, AccessReliable
  <2> QED BY <2>2, <2>3
<1>4. ASSUME NEW route \in Routes, NEW token \in issued \cup {<<Nobody, "none">>},
             NEW own \in BOOLEAN, SendRequest(route, token, own)
      PROVE  AccessInv'
  <2>1. request' = [step |-> "jwt", asked |-> route, handler |-> route,
                    user |-> token[1], payload |-> token[2], own |-> own,
                    wasAdmin |-> token[1] # Nobody /\ roles[token[1]] = "admin"]
    <3>1. Arrived(route.method, Filled(route.path)) = {route}
      BY RouteArrives
    <3> QED BY <1>4, <3>1 DEF SendRequest
  <2>2. IsRequest(request')
    BY <2>1 DEF IsRequest
  <2>3. token[1] \in Requesters \cup {Nobody}
    BY DEF AccessInv
  <2>4. AccessReliable'
    BY <1>4, <2>1, <2>3 DEF AccessReliable, SendRequest
  <2> QED BY <1>4, <2>2, <2>4 DEF AccessInv, SendRequest
<1>5. CASE Authenticate
  <2>1. IsRequest(request) /\ AccessReliable /\ request.step = "jwt"
    BY <1>5 DEF AccessInv, Authenticate
  <2>2. roles' = roles /\ issued' = issued
    BY <1>5 DEF Authenticate
  <2>3. CASE request' = Free
    BY <2>2, <2>3 DEF AccessInv
  <2>4. CASE request' # Free
    <3>1. PICK t : /\ request' = [request EXCEPT !.step = "roles", !.payload = t]
                   /\ request.handler.who # "anyone" =>
                        request.user # Nobody /\ t = roles[request.user]
      BY <1>5, <2>4 DEF Authenticate, Validate
    <3>2. request' = Authenticated(request, t)
      BY <3>1 DEF Authenticated
    <3>3. /\ IsRequest(request') /\ request'.step = "roles"
          /\ request'.asked = request.asked
          /\ request'.handler = request.handler /\ request'.user = request.user
          /\ request'.wasAdmin = request.wasAdmin /\ request'.payload = t
      BY <2>1, <3>2, RequestAuthenticated
    <3>4. AccessReliable'
      BY <2>1, <3>1, <3>3 DEF AccessReliable
    <3> QED BY <2>2, <3>3, <3>4 DEF AccessInv
  <2> QED BY <2>3, <2>4
<1>6. CASE Authorize
  <2>1. IsRequest(request) /\ AccessReliable /\ request.step = "roles"
    BY <1>6 DEF AccessInv, Authorize
  <2>2. roles' = roles /\ issued' = issued
    BY <1>6 DEF Authorize
  <2>3. CASE request' = Free
    BY <2>2, <2>3 DEF AccessInv
  <2>4. CASE request' # Free
    <3>1. /\ request' = [request EXCEPT !.step = "served"]
          /\ \/ request.handler.who \in {"anyone", "user"}
             \/ request.payload = "admin"
             \/ request.handler.who = "owner" /\ request.own
      BY <1>6, <2>4 DEF Authorize
    <3>2. /\ IsRequest(request') /\ request'.step = "served"
          /\ request'.asked = request.asked
          /\ request'.handler = request.handler /\ request'.user = request.user
          /\ request'.own = request.own /\ request'.wasAdmin = request.wasAdmin
      BY <2>1, <3>1, RequestAuthorized
    <3>3. AccessReliable'
      BY <2>1, <3>1, <3>2 DEF AccessReliable
    <3> QED BY <2>2, <3>2, <3>3 DEF AccessInv
  <2> QED BY <2>3, <2>4
<1>7. CASE Respond
  BY <1>7 DEF Respond, AccessInv
<1> QED BY <1>1, <1>2, <1>3, <1>4, <1>5, <1>6, <1>7 DEF AccessNext

(* roles.guard.ts:20, jwt.strategy.ts:41: a request is served by the       *)
(* handler of its route, whatever other routes its path matches, and only  *)
(* for somebody who has had the role that it is for since it came in,      *)
(* however long a token of better days is valid.                           *)
THEOREM RequestsAreGuarded == Spec => []RequestsDoWhatTheyMay
<1>1. Init => AccessInv
  <2>1. AccessIdle => AccessInv
    BY DEF AccessIdle, AccessInv
  <2> QED BY <2>1 DEF Init, AccessInit, AccessInv
<1>2. AccessInv /\ [Next]_backOfficeVars => AccessInv'
  <2>1. [Next]_backOfficeVars => [AccessNext]_accessVars
    BY DEF Next, OthersRest, backOfficeVars
  <2> QED BY <2>1, AccessStep
<1>3. AccessInv => RequestsDoWhatTheyMay
  <2>1. AccessInv => ServedAsAsked
    BY DEF AccessInv, AccessReliable, ServedAsAsked
  <2>2. AccessInv => RolesHoldAtOnce
    BY DEF AccessInv, AccessReliable, RolesHoldAtOnce
  <2> QED BY <2>1, <2>2 DEF RequestsDoWhatTheyMay
<1> QED BY <1>1, <1>2, <1>3, PTL DEF Spec

(***************************************************************************)
(* Pricing.  What the menu promises about an item is worked out of the same*)
(* prices as what is charged for it.                                       *)
(***************************************************************************)
(* FoldSeq() adds up by a function of the indices that are left.           *)
AddsUp(a, f) ==
  f = [s \in SUBSET DOMAIN a |->
         IF s = {} THEN 0
         ELSE f[s \ {CHOOSE x \in s : TRUE}] + a[CHOOSE x \in s : TRUE]]

LEMMA SumIsThatOfIndices ==
  ASSUME NEW a
  PROVE  SumOf(a) = (CHOOSE f : AddsUp(a, f))[DOMAIN a]
  BY DEF SumOf, FoldSeq, FoldFunction, FoldFunctionOnSet, MapThenFoldSet, AddsUp

(* An order has at most two options of a group: the sum exists.            *)
LEMMA SumOfTwo ==
  ASSUME NEW n \in 0..2, NEW a \in [1..n -> Nat]
  PROVE  SumOf(a) \in Nat /\ (n = 0 => SumOf(a) = 0)
<1>1. DOMAIN a = 1..n /\ \A i \in 1..n : a[i] \in Nat /\ i \in {1, 2}
  OBVIOUS
<1>2. \E f : AddsUp(a, f)
  <2> DEFINE p(s) == IF 1 \in s THEN a[1] ELSE 0
             q(s) == IF 2 \in s THEN a[2] ELSE 0
             f == [s \in SUBSET (1..n) |-> p(s) + q(s)]
  <2>1. \A s \in SUBSET (1..n) : p(s) \in Nat /\ q(s) \in Nat
    BY <1>1
  <2>2. ASSUME NEW s \in SUBSET (1..n), NEW x, x = CHOOSE y \in s : TRUE, s # {}
        PROVE  f[s] = f[s \ {x}] + a[x]
    <3>1. x \in s /\ s \ {x} \in SUBSET (1..n)
      BY <2>2
    <3>2. f[s] = p(s) + q(s) /\ f[s \ {x}] = p(s \ {x}) + q(s \ {x})
      BY <3>1
    <3>3. CASE x = 1
      <4>1. p(s) = a[1] /\ p(s \ {x}) = 0 /\ q(s \ {x}) = q(s)
        BY <3>1, <3>3
      <4> QED BY <1>1, <2>1, <3>1, <3>2, <3>3, <4>1
    <3>4. CASE x = 2
      <4>1. q(s) = a[2] /\ q(s \ {x}) = 0 /\ p(s \ {x}) = p(s)
        BY <3>1, <3>4
      <4> QED BY <1>1, <2>1, <3>1, <3>2, <3>4, <4>1
    <3> QED BY <1>1, <3>1, <3>3, <3>4
  <2>3. f[{}] = 0
    OBVIOUS
  <2> HIDE DEF p, q
  <2>4. f = [s \in SUBSET (1..n) |-> f[s]]
    OBVIOUS
  <2> HIDE DEF f
  <2>5. \A s \in SUBSET (1..n) :
          f[s] = IF s = {} THEN 0
                 ELSE f[s \ {CHOOSE x \in s : TRUE}] + a[CHOOSE x \in s : TRUE]
    <3> SUFFICES ASSUME NEW s \in SUBSET (1..n)
                 PROVE  f[s] = IF s = {} THEN 0
                               ELSE f[s \ {CHOOSE x \in s : TRUE}] + a[CHOOSE x \in s : TRUE]
      OBVIOUS
    <3>1. PICK x : x = CHOOSE y \in s : TRUE
      OBVIOUS
    <3>2. s # {} => f[s] = f[s \ {x}] + a[x]
      BY <2>2, <3>1
    <3> QED BY <2>3, <3>1, <3>2
  <2>6. [s \in SUBSET (1..n) |-> f[s]] =
          [s \in SUBSET (1..n) |->
             IF s = {} THEN 0
             ELSE f[s \ {CHOOSE x \in s : TRUE}] + a[CHOOSE x \in s : TRUE]]
    BY <2>5
  <2>7. AddsUp(a, f)
    BY <1>1, <2>4, <2>6 DEF AddsUp
  <2> QED BY <2>7
<1> DEFINE f == CHOOSE g : AddsUp(a, g)
<1>3. AddsUp(a, f)
  BY <1>2
<1>4. SumOf(a) = f[1..n]
  BY <1>1, SumIsThatOfIndices
<1> HIDE DEF f
<1>5. f[{}] = 0
  BY <1>1, <1>3 DEF AddsUp
<1>6. ASSUME NEW s \in SUBSET (1..n), s # {}
      PROVE  \E x \in s : f[s] = f[s \ {x}] + a[x]
  <2>1. PICK x : x = CHOOSE y \in s : TRUE
    OBVIOUS
  <2>2. x \in s
    BY <1>6, <2>1
  <2>3. f[s] = f[s \ {x}] + a[x]
    BY <1>1, <1>3, <1>6, <2>1 DEF AddsUp
  <2> QED BY <2>2, <2>3
<1>7. \A i \in 1..n : f[{i}] \in Nat
  <2> SUFFICES ASSUME NEW i \in 1..n PROVE f[{i}] \in Nat
    OBVIOUS
  <2>1. f[{i}] = f[{}] + a[i]
    <3>. {i} \in SUBSET (1..n) /\ {i} # {}
      OBVIOUS
    <3>1. PICK x \in {i} : f[{i}] = f[{i} \ {x}] + a[x]
      BY <1>6
    <3>2. {i} \ {x} = {}
      OBVIOUS
    <3> QED BY <3>1, <3>2
  <2> QED BY <1>1, <1>5, <2>1
<1>8. CASE n = 0
  <2>1. 1..n = {}
    BY <1>8
  <2> QED BY <1>4, <1>5, <2>1
<1>9. CASE n = 1
  <2>1. 1..n = {1}
    BY <1>9
  <2> QED BY <1>4, <1>7, <1>9, <2>1
<1>10. CASE n = 2
  <2>1. 1..n = {1, 2}
    BY <1>10
  <2>2. PICK x \in {1, 2} : f[{1, 2}] = f[{1, 2} \ {x}] + a[x]
    BY <1>6, <2>1
  <2>3. {1, 2} \ {x} = {1} \/ {1, 2} \ {x} = {2}
    OBVIOUS
  <2>4. f[{1, 2} \ {x}] \in Nat
    BY <1>7, <2>1, <2>3
  <2> QED BY <1>1, <1>4, <1>10, <2>1, <2>2, <2>4
<1> QED BY <1>8, <1>9, <1>10

(* A percentage is rounded to the nearest cent.                            *)
LEMMA NearestCent ==
  ASSUME NEW x \in Nat, NEW q \in Int, NEW r \in Int, 0 <= r, r <= 9999,
         x + 5000 = q * 10000 + r
  PROVE  q \in Nat /\ 10000 * q <= x + 5000 /\ 10000 * q + 5000 > x
  OBVIOUS

(* What is taken off, of products that cost so much.                       *)
LEMMA DiscountIsFair ==
  ASSUME NEW cents \in Nat, NEW coupon, coupon.value \in Nat,
         NEW discount, discount = cents - DiscountedSubtotal(cents, coupon)
  PROVE  /\ discount \in 0..cents
         /\ LET share == IF coupon.value < 10000 THEN coupon.value ELSE 10000 IN
            IF coupon.percentage
            THEN /\ 10000 * discount <= cents * share + 5000
                 /\ 10000 * discount + 5000 > cents * share
            ELSE discount = IF coupon.value < cents THEN coupon.value ELSE cents
<1> DEFINE share == IF coupon.value < 10000 THEN coupon.value ELSE 10000
           off == IF coupon.percentage THEN (cents * share + 5000) \div 10000
                  ELSE coupon.value
<1>1. share \in 0..10000
  <2>1. PICK value \in Nat : value = coupon.value
    OBVIOUS
  <2>2. (IF value < 10000 THEN value ELSE 10000) \in 0..10000
    OBVIOUS
  <2>3. share = IF value < 10000 THEN value ELSE 10000
    BY <2>1
  <2> HIDE DEF share
  <2> QED BY <2>2, <2>3
<1>2. discount = cents - (cents - IF off < cents THEN off ELSE cents)
  BY DEF DiscountedSubtotal
<1>3. ~coupon.percentage => off = coupon.value
  OBVIOUS
<1>4. coupon.percentage => off = (cents * share + 5000) \div 10000
  OBVIOUS
<1> HIDE DEF off, share
<1>5. ASSUME coupon.percentage
      PROVE  /\ off \in Nat /\ cents * share \in Nat /\ cents * share <= 10000 * cents
             /\ 10000 * off <= cents * share + 5000
             /\ 10000 * off + 5000 > cents * share
  <2>1. PICK x \in Nat : x = cents * share
    BY <1>1
  <2>2. cents * share <= 10000 * cents
    BY <1>1
  <2>3. off = (x + 5000) \div 10000
    BY <1>4, <1>5, <2>1
  <2>4. PICK r : r = (x + 5000) % 10000
    OBVIOUS
  <2>5. off \in Int /\ r \in Int /\ 0 <= r /\ r <= 9999 /\ x + 5000 = off * 10000 + r
    BY <2>3, <2>4, DivMod
  <2>6. off \in Nat /\ 10000 * off <= x + 5000 /\ 10000 * off + 5000 > x
    BY <2>5, NearestCent
  <2> QED BY <2>1, <2>2, <2>6
<1>6. off \in Nat
  BY <1>3, <1>5
<1>7. discount = (IF off < cents THEN off ELSE cents) /\ discount \in 0..cents
  BY <1>2, <1>6
<1>8. ASSUME coupon.percentage
      PROVE  /\ 10000 * discount <= cents * share + 5000
             /\ 10000 * discount + 5000 > cents * share
  <2>1. PICK x \in Nat : x = cents * share
    BY <1>5, <1>8
  <2>2. x <= 10000 * cents /\ 10000 * off <= x + 5000 /\ 10000 * off + 5000 > x
    BY <1>5, <1>8, <2>1
  <2>3. 10000 * discount <= x + 5000 /\ 10000 * discount + 5000 > x
    BY <1>6, <1>7, <2>2
  <2> QED BY <2>1, <2>3
<1>9. ~coupon.percentage => discount = IF coupon.value < cents THEN coupon.value ELSE cents
  BY <1>3, <1>7
<1> QED BY <1>7, <1>8, <1>9 DEF share

(***************************************************************************)
(* An item of an order.                                                    *)
(***************************************************************************)
Items == [selection : Selections, quantity : {1, 2}, reward : BOOLEAN]

LEMMA ExtrasAreNumbers ==
  ASSUME NEW m \in ProductRows, NEW item \in Items, Resolvable(m, item.selection)
  PROVE  Extras(m, item) \in Nat
<1>1. CASE item.selection = NoValue
  BY <1>1 DEF Extras
<1>2. CASE item.selection # NoValue
  <2>1. PICK n \in 0..2 : item.selection \in [1..n -> Options]
    BY <1>2 DEF Items, Selections
  <2>2. \A o \in m.offered : OfferedPrices(m)[o] \in Nat
    BY PricingAssumption DEF OfferedPrices, ProductRows
  <2>3. [i \in DOMAIN item.selection |-> OfferedPrices(m)[item.selection[i]]]
          \in [1..n -> Nat]
    BY <1>2, <2>1, <2>2 DEF Resolvable
  <2> QED BY <1>2, <2>3, SumOfTwo DEF Extras
<1> QED BY <1>1, <1>2

(* The prices that are shown are those that are charged.                   *)
LEMMA MenuPrices ==
  ASSUME NEW m \in ProductRows, NEW o \in DOMAIN PublicMenu(m).prices
  PROVE  o \in m.offered /\ PublicMenu(m).prices[o] = OfferedPrices(m)[o]
<1>1. m.group # "beverages" => m.free = {}
  BY DEF ProductRows
<1> QED BY <1>1 DEF PublicMenu, OfferedPrices, Priced

LEMMA PromiseIsKept ==
  ASSUME product \in ProductRows, menu = NoValue \/ menu = PublicMenu(product),
         NEW item \in Items, Promised(item) # NoValue
  PROVE  /\ Orderable(product, item)
         /\ ItemSubtotal(product, item) \in Nat
         /\ Promised(item) = ItemSubtotal(product, item)
<1> DEFINE s == item.selection
           chosen == IF s = NoValue THEN <<>> ELSE s
           promised == SumOf([i \in DOMAIN chosen |-> menu.prices[chosen[i]]])
<1>1. /\ menu = PublicMenu(product) /\ menu.available /\ ~item.reward
      /\ ToSet(chosen) \subseteq DOMAIN menu.prices
      /\ menu.required => s # NoValue /\ (s = <<>> => menu.allowWithout)
      /\ menu.max # NoValue => Len(chosen) <= menu.max
      /\ Promised(item) = (BasePrice + promised) * item.quantity
  BY DEF Promised
<1>2. /\ menu.available = product.available /\ menu.required = product.required
      /\ menu.allowWithout = product.allowWithout /\ menu.max = product.max
  BY <1>1 DEF PublicMenu
<1>3. \A i \in DOMAIN chosen : /\ chosen[i] \in product.offered
                               /\ menu.prices[chosen[i]] = OfferedPrices(product)[chosen[i]]
  <2>1. \A i \in DOMAIN chosen : chosen[i] \in DOMAIN menu.prices
    BY <1>1 DEF ToSet
  <2> QED BY <1>1, <2>1, MenuPrices
<1>4. Resolvable(product, s)
  BY <1>3 DEF Resolvable
<1>5. ValidSelection(product, s)
  BY <1>1, <1>2 DEF ValidSelection
<1>6. Orderable(product, item)
  BY <1>1, <1>2, <1>4, <1>5 DEF Orderable
<1>7. promised = Extras(product, item)
  <2>1. CASE s = NoValue
    <3>1. [i \in DOMAIN chosen |-> menu.prices[chosen[i]]] \in [1..0 -> Nat]
      BY <2>1
    <3>2. promised = 0
      BY <3>1, SumOfTwo
    <3> QED BY <2>1, <3>2 DEF Extras
  <2>2. CASE s # NoValue
    <3>1. [i \in DOMAIN chosen |-> menu.prices[chosen[i]]]
            = [i \in DOMAIN s |-> OfferedPrices(product)[s[i]]]
      BY <1>3, <2>2
    <3> QED BY <2>2, <3>1 DEF Extras
  <2> QED BY <2>1, <2>2
<1>8. Extras(product, item) \in Nat
  BY <1>4, ExtrasAreNumbers
<1>9. item.quantity \in Nat /\ BasePrice \in Nat
  BY PricingAssumption DEF Items
<1> HIDE DEF promised
<1> QED BY <1>1, <1>6, <1>7, <1>8, <1>9 DEF ItemSubtotal

(* The amounts of an order, and the message that was made of them.         *)
OrderIsFair(o) ==
  /\ o.promised # NoValue => o.placed /\ o.subtotal = o.promised
  /\ o.placed =>
       /\ o.total >= o.fee
       /\ o.coupon # NoValue =>
            LET c == o.coupon
                share == IF c.value < 10000 THEN c.value ELSE 10000
            IN IF c.percentage
               THEN /\ 10000 * o.discount <= o.subtotal * share + 5000
                    /\ 10000 * o.discount + 5000 > o.subtotal * share
               ELSE o.discount = IF c.value < o.subtotal THEN c.value ELSE o.subtotal
       /\ o.message = WhatsappMessage(o.subtotal, o.subtotal + o.fee - o.total, o.fee,
                                      o.total, o.coupon)

LEMMA ChargeIsFair ==
  ASSUME product \in ProductRows, menu = NoValue \/ menu = PublicMenu(product),
         NEW item \in Items, NEW coupon \in Discounts \cup {NoValue},
         NEW fee \in DeliveryFees,
         NEW o, o = Charge(item, coupon, fee)
  PROVE  OrderIsFair(o)
<1> DEFINE subtotal == ItemSubtotal(product, item)
           discounted == IF coupon = NoValue THEN subtotal
                         ELSE DiscountedSubtotal(subtotal, coupon)
           discount == subtotal - discounted
           total == subtotal - discount + fee
           accepted == /\ Orderable(product, item)
                       /\ Fits(subtotal) /\ Fits(total)
                       /\ coupon # NoValue => MinPurchaseMet(coupon, subtotal)
           charged == [placed |-> TRUE, subtotal |-> subtotal, discount |-> discount,
                       fee |-> fee, total |-> total, coupon |-> coupon,
                       promised |-> Promised(item),
                       message |-> WhatsappMessage(subtotal, discount, fee, total, coupon)]
           refused == [placed |-> FALSE,
                       promised |-> IF /\ coupon = NoValue
                                       /\ Resolvable(product, item.selection) => Fits(total)
                                    THEN Promised(item) ELSE NoValue]
<1>1. o = IF accepted THEN charged ELSE refused
  BY DEF Charge
<1>2. fee \in Nat /\ MaxMoney \in Nat /\ BasePrice \in Nat /\ item.quantity \in Nat
  BY PricingAssumption DEF Items
<1>3. Promised(item) # NoValue =>
        /\ Orderable(product, item) /\ subtotal \in Nat /\ Promised(item) = subtotal
  BY PromiseIsKept
<1>4. CASE accepted
  <2>1. subtotal \in Nat
    <3>1. Extras(product, item) \in Nat
      BY <1>4, ExtrasAreNumbers DEF Orderable
    <3>2. (IF item.reward THEN 0 ELSE BasePrice) + Extras(product, item) \in Nat
      BY <1>2, <3>1
    <3> HIDE DEF subtotal
    <3>3. subtotal = ((IF item.reward THEN 0 ELSE BasePrice) + Extras(product, item))
                       * item.quantity
      BY DEF subtotal, ItemSubtotal
    <3> QED BY <1>2, <3>2, <3>3
  <2>2. /\ o.placed = TRUE /\ o.subtotal = subtotal /\ o.discount = discount
        /\ o.fee = fee /\ o.total = total /\ o.coupon = coupon
        /\ o.promised = Promised(item)
        /\ o.message = WhatsappMessage(subtotal, discount, fee, total, coupon)
    <3> HIDE DEF subtotal, discount, total, accepted
    <3> QED BY <1>1, <1>4
  <2>3. discount = subtotal - discounted /\ total = subtotal - discount + fee
    OBVIOUS
  <2>4. coupon # NoValue => discounted = DiscountedSubtotal(subtotal, coupon)
    OBVIOUS
  <2>5. coupon = NoValue => discounted = subtotal
    OBVIOUS
  <2>6. coupon # NoValue => coupon.value \in Nat
    BY PricingAssumption
  <2> HIDE DEF subtotal, discount, discounted, total, accepted
  <2>7. coupon # NoValue =>
          /\ discount \in 0..subtotal
          /\ LET share == IF coupon.value < 10000 THEN coupon.value ELSE 10000 IN
             IF coupon.percentage
             THEN /\ 10000 * discount <= subtotal * share + 5000
                  /\ 10000 * discount + 5000 > subtotal * share
             ELSE discount = IF coupon.value < subtotal THEN coupon.value ELSE subtotal
    <3> SUFFICES ASSUME coupon # NoValue
                 PROVE  /\ discount \in 0..subtotal
                        /\ LET share == IF coupon.value < 10000 THEN coupon.value ELSE 10000 IN
                           IF coupon.percentage
                           THEN /\ 10000 * discount <= subtotal * share + 5000
                                /\ 10000 * discount + 5000 > subtotal * share
                           ELSE discount = IF coupon.value < subtotal THEN coupon.value
                                           ELSE subtotal
      OBVIOUS
    <3>1. discount = subtotal - DiscountedSubtotal(subtotal, coupon) /\ coupon.value \in Nat
      BY <2>3, <2>4, <2>6
    <3> QED BY <2>1, <3>1, DiscountIsFair
  <2>8. discount \in 0..subtotal
    BY <2>1, <2>3, <2>5, <2>7
  <2>9. total >= fee /\ discount = subtotal + fee - total
    BY <1>2, <2>1, <2>3, <2>8
  <2>10. o.promised # NoValue => o.placed /\ o.subtotal = o.promised
    BY <1>3, <2>2
  <2>11. o.message = WhatsappMessage(o.subtotal, o.subtotal + o.fee - o.total, o.fee,
                                     o.total, o.coupon)
    BY <2>2, <2>9
  <2>12. o.total >= o.fee
    BY <2>2, <2>9
  <2>13. o.coupon # NoValue =>
           LET c == o.coupon
               share == IF c.value < 10000 THEN c.value ELSE 10000
           IN IF c.percentage
              THEN /\ 10000 * o.discount <= o.subtotal * share + 5000
                   /\ 10000 * o.discount + 5000 > o.subtotal * share
              ELSE o.discount = IF c.value < o.subtotal THEN c.value ELSE o.subtotal
    BY <2>2, <2>7
  <2> QED BY <2>10, <2>11, <2>12, <2>13 DEF OrderIsFair
<1>5. CASE ~accepted
  <2>1. o.placed = FALSE
    <3> HIDE DEF accepted
    <3> QED BY <1>1, <1>5
  <2>2. o.promised = NoValue
    <3> SUFFICES ASSUME o.promised # NoValue PROVE FALSE
      OBVIOUS
    <3>1. /\ coupon = NoValue /\ Promised(item) # NoValue
          /\ Resolvable(product, item.selection) => Fits(total)
      <4> HIDE DEF accepted, total
      <4> QED BY <1>1, <1>5
    <3>2. Orderable(product, item) /\ subtotal \in Nat
      BY <1>3, <3>1
    <3>3. Fits(total)
      BY <3>1, <3>2 DEF Orderable
    <3>4. total = subtotal - (subtotal - subtotal) + fee
      BY <3>1
    <3> HIDE DEF total, subtotal
    <3>5. Fits(subtotal)
      BY <1>2, <3>2, <3>3, <3>4 DEF Fits
    <3> QED BY <1>5, <3>1, <3>2, <3>3, <3>5
  <2> QED BY <2>1, <2>2 DEF OrderIsFair
<1> QED BY <1>4, <1>5

(* What the order and the messages come from, once there are any.          *)
PricingInv ==
  /\ focus = "pricing" =>
       /\ product \in ProductRows
       /\ menu = NoValue \/ menu = PublicMenu(product)
  /\ focus # "pricing" => order = NoValue /\ whatsapp = NoValue
  /\ order # NoValue => OrderIsFair(order)
  /\ whatsapp # NoValue => order # NoValue /\ order.placed /\ whatsapp = order.message

LEMMA PricingStep ==
  ASSUME PricingInv, focus = "pricing", [PricingNext]_pricingVars, UNCHANGED focus
  PROVE  PricingInv'
<1>1. CASE UNCHANGED pricingVars
  BY <1>1 DEF PricingInv, pricingVars, OrderIsFair, PublicMenu
<1>2. CASE ChangeProduct
  <2>1. product' \in ProductRows
    <3>1. product \in ProductRows
      BY DEF PricingInv
    <3>2. CASE \E o \in product.offered :
                 /\ product.group # "friesTypes"
                 /\ product' = [product EXCEPT !.active =
                                  IF o \in @ THEN @ \ {o} ELSE @ \cup {o}]
      BY <3>1, <3>2 DEF ProductRows
    <3>3. CASE product' = [product EXCEPT !.available = ~@]
      BY <3>1, <3>3 DEF ProductRows
    <3> QED BY <1>2, <3>2, <3>3 DEF ChangeProduct
  <2> QED BY <1>2, <2>1 DEF ChangeProduct, PricingInv
<1>3. CASE FindPublicMenu
  BY <1>3 DEF FindPublicMenu, PricingInv, PublicMenu
<1>4. CASE GetWhatsappLinks
  <2>1. whatsapp' = order.message
    BY <1>4 DEF GetWhatsappLinks, PricingInv, OrderIsFair
  <2> QED BY <1>4, <2>1 DEF GetWhatsappLinks, PricingInv, PublicMenu, OrderIsFair
<1>5. ASSUME NEW selection \in Selections, NEW quantity \in {1, 2}, NEW reward \in BOOLEAN,
             NEW coupon \in Discounts \cup {NoValue}, NEW fee \in DeliveryFees,
             PlaceOrder([selection |-> selection, quantity |-> quantity, reward |-> reward],
                        coupon, fee)
      PROVE  PricingInv'
  <2>1. PICK item \in Items :
          item = [selection |-> selection, quantity |-> quantity, reward |-> reward]
    BY DEF Items
  <2>2. order = NoValue /\ UNCHANGED <<product, menu, whatsapp>>
    BY <1>5 DEF PlaceOrder
  <2>3. PICK o : o = Charge(item, coupon, fee)
    OBVIOUS
  <2>4. order' = o
    BY <1>5, <2>1, <2>3 DEF PlaceOrder
  <2>5. OrderIsFair(o)
    BY <2>3, ChargeIsFair DEF PricingInv
  <2>6. OrderIsFair(order')
    BY <2>4, <2>5
  <2> QED BY <2>2, <2>6 DEF PricingInv, PublicMenu
<1> QED BY <1>1, <1>2, <1>3, <1>4, <1>5 DEF PricingNext

(* orders.service.ts:1370: whatever the prices, the products, the coupons  *)
(* and the fees, an item that the menu allows is accepted for what the menu*)
(* says, a coupon takes off its share and no more, and the message that is *)
(* made again of what was stored tells the amounts of the first one.       *)
THEOREM CustomersAreToldOnePrice == Spec => []EveryoneIsToldOnePrice
<1>1. Init => PricingInv
  BY DEF Init, PricingInit, PricingIdle, PricingInv
<1>2. PricingInv /\ [Next]_backOfficeVars => PricingInv'
  <2> SUFFICES ASSUME PricingInv, [Next]_backOfficeVars PROVE PricingInv'
    OBVIOUS
  <2>1. UNCHANGED focus
    BY DEF Next, OthersRest, backOfficeVars
  <2>2. CASE focus = "pricing"
    <3>1. [PricingNext]_pricingVars
      BY <2>2 DEF Next, backOfficeVars
    <3> QED BY <2>1, <2>2, <3>1, PricingStep
  <2>3. CASE focus # "pricing"
    <3>1. UNCHANGED pricingVars
      BY <2>3 DEF Next, OthersRest, backOfficeVars
    <3> QED BY <2>1, <2>3, <3>1 DEF PricingInv, pricingVars
  <2> QED BY <2>2, <2>3
<1>3. PricingInv => EveryoneIsToldOnePrice
  BY DEF PricingInv, OrderIsFair, EveryoneIsToldOnePrice, ShownIsCharged,
         DiscountIsItsShare, MessagesAgree
<1> QED BY <1>1, <1>2, <1>3, PTL DEF Spec

(***************************************************************************)
(* Sums over the rows of a table, of any length.                           *)
(***************************************************************************)
(* SumFunction() adds up by a function of the indices that are left.       *)
AddsAll(a, f) ==
  f = [s \in SUBSET DOMAIN a |->
         IF s = {} THEN 0
         ELSE a[CHOOSE x \in s : TRUE] + f[s \ {CHOOSE x \in s : TRUE}]]

LEMMA SumOfFunction ==
  ASSUME NEW a
  PROVE  SumFunction(a) = (CHOOSE f : AddsAll(a, f))[DOMAIN a]
  BY DEF SumFunction, SumFunctionOnSet, FoldFunctionOnSet, MapThenFoldSet, AddsAll

(* Whatever grows by the amount of each index that is added is the sum.    *)
LEMMA SumIsWhatGrows ==
  ASSUME NEW a, IsFiniteSet(DOMAIN a), NEW g,
         g = [s \in SUBSET DOMAIN a |-> g[s]], g[{}] = 0,
         \A s \in SUBSET DOMAIN a : \A x \in s : g[s] = a[x] + g[s \ {x}]
  PROVE  SumFunction(a) = g[DOMAIN a]
<1>1. AddsAll(a, g)
  <2>1. \A s \in SUBSET DOMAIN a :
          g[s] = IF s = {} THEN 0
                 ELSE a[CHOOSE x \in s : TRUE] + g[s \ {CHOOSE x \in s : TRUE}]
    <3> SUFFICES ASSUME NEW s \in SUBSET DOMAIN a, s # {}
                 PROVE  g[s] = a[CHOOSE x \in s : TRUE] + g[s \ {CHOOSE x \in s : TRUE}]
      OBVIOUS
    <3>1. (CHOOSE x \in s : TRUE) \in s
      OBVIOUS
    <3> QED BY <3>1
  <2>2. [s \in SUBSET DOMAIN a |-> g[s]] =
          [s \in SUBSET DOMAIN a |->
             IF s = {} THEN 0
             ELSE a[CHOOSE x \in s : TRUE] + g[s \ {CHOOSE x \in s : TRUE}]]
    BY <2>1
  <2> QED BY <2>2 DEF AddsAll
<1> DEFINE f == CHOOSE h : AddsAll(a, h)
<1>2. AddsAll(a, f)
  BY <1>1
<1>3. SumFunction(a) = f[DOMAIN a]
  BY SumOfFunction
<1> HIDE DEF f
<1> DEFINE Wrong == {n \in Nat : \E s \in SUBSET DOMAIN a : Cardinality(s) = n /\ f[s] # g[s]}
<1>4. CASE Wrong = {}
  <2>1. DOMAIN a \in SUBSET DOMAIN a /\ Cardinality(DOMAIN a) \in Nat
    BY FS_CardinalityType
  <2> QED BY <1>3, <1>4, <2>1
<1>5. CASE Wrong # {}
  <2>1. Wrong \in SUBSET Nat
    OBVIOUS
  <2>2. PICK n \in Wrong : \A k \in Wrong : n <= k
    BY <1>5, <2>1, LeastNumber
  <2>3. PICK s \in SUBSET DOMAIN a : Cardinality(s) = n /\ f[s] # g[s]
    OBVIOUS
  <2>4. f[{}] = 0
    BY <1>2 DEF AddsAll
  <2>5. s # {}
    BY <2>3, <2>4
  <2>6. PICK x : x = CHOOSE y \in s : TRUE
    OBVIOUS
  <2>7. x \in s
    BY <2>5, <2>6
  <2>8. f[s] = a[x] + f[s \ {x}]
    BY <1>2, <2>5, <2>6 DEF AddsAll
  <2>9. g[s] = a[x] + g[s \ {x}]
    BY <2>7
  <2>10. IsFiniteSet(s)
    BY FS_Subset
  <2>11. Cardinality(s \ {x}) = n - 1 /\ Cardinality(s \ {x}) \in Nat
    <3>1. Cardinality(s \ {x}) = Cardinality(s) - 1 /\ IsFiniteSet(s \ {x})
      BY <2>7, <2>10, FS_RemoveElement
    <3>2. Cardinality(s \ {x}) \in Nat
      BY <3>1, FS_CardinalityType
    <3> QED BY <2>3, <3>1, <3>2
  <2>12. n \in Nat
    OBVIOUS
  <2>13. n - 1 \notin Wrong
    <3> HIDE DEF Wrong
    <3> QED BY <2>2, <2>12
  <2>14. f[s \ {x}] = g[s \ {x}]
    <3>1. s \ {x} \in SUBSET DOMAIN a
      OBVIOUS
    <3> QED BY <2>11, <2>13, <3>1
  <2> QED BY <2>3, <2>8, <2>9, <2>14
<1> QED BY <1>4, <1>5

(* The units that the numbers of a table count.                            *)
Units(a, ids) == {u \in ids \X Nat : u[2] < a[u[1]]}

LEMMA UnitsOfOne ==
  ASSUME NEW a, NEW x, a[x] \in Nat
  PROVE  IsFiniteSet(Units(a, {x})) /\ Cardinality(Units(a, {x})) = a[x]
<1>1. Units(a, {x}) = {x} \X (0..(a[x] - 1))
  BY DEF Units
<1>2. IsFiniteSet({x}) /\ Cardinality({x}) = 1
  BY FS_Singleton
<1>3. IsFiniteSet(0..(a[x] - 1)) /\ Cardinality(0..(a[x] - 1)) = a[x]
  <2>1. PICK n \in Nat : n = a[x]
    OBVIOUS
  <2>2. PICK last \in Int : last = n - 1
    OBVIOUS
  <2>3. /\ IsFiniteSet(0..last)
        /\ Cardinality(0..last) = IF 0 > last THEN 0 ELSE last - 0 + 1
    BY FS_Interval
  <2>4. (IF 0 > last THEN 0 ELSE last - 0 + 1) = n
    BY <2>2
  <2> QED BY <2>1, <2>2, <2>3, <2>4
<1>4. PICK S : S = 0..(a[x] - 1)
  OBVIOUS
<1>5. /\ IsFiniteSet({x} \X S)
      /\ Cardinality({x} \X S) = Cardinality({x}) * Cardinality(S)
  BY <1>2, <1>3, <1>4, FS_Product
<1>6. PICK n \in Nat : n = a[x]
  OBVIOUS
<1>7. Cardinality({x}) * Cardinality(S) = 1 * n
  BY <1>2, <1>3, <1>4, <1>6
<1>8. 1 * n = n
  OBVIOUS
<1> QED BY <1>1, <1>4, <1>5, <1>6, <1>7, <1>8

LEMMA UnitsAreFinite ==
  ASSUME NEW ids, IsFiniteSet(ids), NEW a, \A x \in ids : a[x] \in Nat
  PROVE  IsFiniteSet(Units(a, ids))
<1> DEFINE f == [x \in ids |-> Units(a, {x})]
           each == {Units(a, {x}) : x \in ids}
<1>1. f \in Surjection(ids, each)
  BY DEF Surjection
<1>2. IsFiniteSet(each)
  BY <1>1, FS_Surjection
<1>3. \A T \in each : IsFiniteSet(T)
  BY UnitsOfOne
<1>4. IsFiniteSet(UNION each)
  BY <1>2, <1>3, FS_UNION
<1>5. Units(a, ids) = UNION each
  BY DEF Units
<1> QED BY <1>4, <1>5

(* Two sets with nothing in common.                                        *)
LEMMA CountedApart ==
  ASSUME NEW S, IsFiniteSet(S), NEW T, IsFiniteSet(T), S \cap T = {}
  PROVE  Cardinality(S \cup T) = Cardinality(S) + Cardinality(T)
<1>1. /\ Cardinality(S \cup T) = Cardinality(S) + Cardinality(T) - Cardinality(S \cap T)
      /\ Cardinality(S) \in Nat /\ Cardinality(T) \in Nat
  BY FS_Union, FS_CardinalityType
<1>2. Cardinality(S \cap T) = 0
  BY FS_EmptySet
<1> QED BY <1>1, <1>2

LEMMA SumCountsUnits ==
  ASSUME NEW a, IsFiniteSet(DOMAIN a), \A x \in DOMAIN a : a[x] \in Nat
  PROVE  SumFunction(a) = Cardinality(Units(a, DOMAIN a))
<1> DEFINE g == [s \in SUBSET DOMAIN a |-> Cardinality(Units(a, s))]
<1>1. g[{}] = 0
  <2>1. Units(a, {}) = {}
    BY DEF Units
  <2> QED BY <2>1, FS_EmptySet
<1>2. ASSUME NEW s \in SUBSET DOMAIN a, NEW x \in s
      PROVE  g[s] = a[x] + g[s \ {x}]
  <2>1. IsFiniteSet(s \ {x})
    BY FS_Subset
  <2>2. IsFiniteSet(Units(a, s \ {x}))
    BY <2>1, UnitsAreFinite
  <2>3. IsFiniteSet(Units(a, {x})) /\ Cardinality(Units(a, {x})) = a[x]
    BY UnitsOfOne
  <2>4. Units(a, {x}) \cap Units(a, s \ {x}) = {}
    BY DEF Units
  <2>5. Units(a, {x}) \cup Units(a, s \ {x}) = Units(a, s)
    BY DEF Units
  <2>6. Cardinality(Units(a, s)) = a[x] + Cardinality(Units(a, s \ {x}))
    BY <2>2, <2>3, <2>4, <2>5, CountedApart
  <2>7. s \ {x} \in SUBSET DOMAIN a
    OBVIOUS
  <2> QED BY <2>6, <2>7
<1>3. g = [s \in SUBSET DOMAIN a |-> g[s]]
  OBVIOUS
<1>4. g[DOMAIN a] = Cardinality(Units(a, DOMAIN a))
  OBVIOUS
<1> HIDE DEF g
<1>5. SumFunction(a) = g[DOMAIN a]
  BY <1>1, <1>2, <1>3, SumIsWhatGrows
<1> QED BY <1>4, <1>5

(* What falls into the parts, part by part, is what falls into any.        *)
LEMMA PartsAddUp ==
  ASSUME NEW ids, IsFiniteSet(ids), NEW part, NEW parts, IsFiniteSet(parts),
         \A x \in ids : part[x] \in parts
  PROVE  SumFunction([p \in parts |-> Cardinality({x \in ids : part[x] = p})])
           = Cardinality(ids)
<1> DEFINE a == [p \in parts |-> Cardinality({x \in ids : part[x] = p})]
           g == [s \in SUBSET parts |-> Cardinality({x \in ids : part[x] \in s})]
<1>1. g[{}] = 0
  BY FS_EmptySet
<1>2. ASSUME NEW s \in SUBSET parts, NEW p \in s
      PROVE  g[s] = a[p] + g[s \ {p}]
  <2> DEFINE one == {x \in ids : part[x] = p}
             rest == {x \in ids : part[x] \in s \ {p}}
  <2>1. IsFiniteSet(one) /\ IsFiniteSet(rest)
    BY FS_Subset
  <2>2. one \cap rest = {} /\ {x \in ids : part[x] \in s} = one \cup rest
    OBVIOUS
  <2>3. Cardinality({x \in ids : part[x] \in s}) = Cardinality(one) + Cardinality(rest)
    BY <2>1, <2>2, CountedApart
  <2>4. s \ {p} \in SUBSET parts /\ p \in parts
    OBVIOUS
  <2> QED BY <2>3, <2>4
<1>3. g = [s \in SUBSET parts |-> g[s]]
  OBVIOUS
<1>4. g[parts] = Cardinality(ids)
  <2>1. {x \in ids : part[x] \in parts} = ids
    OBVIOUS
  <2> QED BY <2>1
<1>5. DOMAIN a = parts
  OBVIOUS
<1> HIDE DEF a, g
<1>6. SumFunction(a) = g[parts]
  BY <1>1, <1>2, <1>3, <1>5, SumIsWhatGrows
<1> QED BY <1>4, <1>6 DEF a

(***************************************************************************)
(* Reports.  The reports of a table of sales and of a list of customers:   *)
(* what one table says is compared with what another one does.             *)
(***************************************************************************)
DeliveredIn(t, from, to) ==
  {s \in DOMAIN t : t[s].delivered # None /\ DayOfTick(t[s].delivered) \in from..to}

ChannelIn(t, ids, channel) ==
  {s \in ids : (IF t[s].source = "admin" THEN "phone" ELSE "app") = channel}

CustomerIn(t, c, s) ==
  LET same == {i \in DOMAIN c : c[i].phone = t[s].phone} IN
  IF t[s].user # None THEN t[s].user
  ELSE IF same # {} THEN c[Min(same)].id
  ELSE t[s].phone

AggregateIn(t, c, ids) ==
  [revenue |-> SumFunction([s \in ids |-> t[s].total]), orders |-> Cardinality(ids),
   customers |-> {CustomerIn(t, c, s) : s \in ids}]

ByChannelIn(t, c, ids) ==
  [all |-> AggregateIn(t, c, ids), app |-> AggregateIn(t, c, ChannelIn(t, ids, "app")),
   phone |-> AggregateIn(t, c, ChannelIn(t, ids, "phone"))]

PartIn(t, ids, p) == {s \in ids : PeriodOf("day", DayOfTick(t[s].delivered)) = p}

SummaryIn(t, c, from, to) ==
  [totals |-> ByChannelIn(t, c, DeliveredIn(t, from, to)),
   data |-> [p \in {PeriodOf("day", d) : d \in CalendarDatesBetween(from, to)} |->
               ByChannelIn(t, c, PartIn(t, DeliveredIn(t, from, to), p))]]

FirstIn(t, c, ids, who) == Min({t[s].delivered : s \in {o \in ids : CustomerIn(t, c, o) = who}})

LaterIn(t, c, ids, who) ==
  {s \in DOMAIN t : /\ t[s].source = "app" /\ t[s].user = who /\ t[s].delivered # None
                    /\ t[s].delivered > FirstIn(t, c, ids, who)}

ConvertedIn(t, c, ids) ==
  [customers |-> {CustomerIn(t, c, s) : s \in ids},
   timeline |-> [who \in {d \in {CustomerIn(t, c, s) : s \in ids} : LaterIn(t, c, ids, d) # {}} |->
                   <<FirstIn(t, c, ids, who),
                     Min({t[s].delivered : s \in LaterIn(t, c, ids, who)})>>]]

LEMMA SummaryIsThatOfSales ==
  \A from, to : Summary(from, to, "day") = SummaryIn(sales, shoppers, from, to)
BY DEF Summary, SummaryIn, ByChannel, ByChannelIn, Aggregate, AggregateIn, Revenue,
       CustomerOf, CustomerIn, InChannel, ChannelIn, ChannelOf, DeliveredSales,
       DeliveredIn, PartIn

LEMMA ConversionIsThatOfSales ==
  \A from, to :
    Conversion(from, to) =
      ConvertedIn(sales, shoppers, ChannelIn(sales, DeliveredIn(sales, from, to), "phone"))
BY DEF Conversion, ConvertedIn, FirstIn, LaterIn, CustomerOf, CustomerIn, InChannel,
       ChannelIn, ChannelOf, DeliveredSales, DeliveredIn

(* Two tables that differ in no more than which accounts some sales have,  *)
(* and not in who the customer of a sale is.                               *)
SaidAlike(t, u, c) ==
  /\ DOMAIN u = DOMAIN t
  /\ \A s \in DOMAIN t :
       /\ u[s].source = t[s].source /\ u[s].total = t[s].total
       /\ u[s].delivered = t[s].delivered
       /\ CustomerIn(u, c, s) = CustomerIn(t, c, s)
       /\ t[s].source = "app" => u[s].user = t[s].user

LEMMA AggregatesAlike ==
  ASSUME NEW t, NEW u, NEW c, SaidAlike(t, u, c), NEW ids \in SUBSET DOMAIN t
  PROVE  AggregateIn(u, c, ids) = AggregateIn(t, c, ids)
<1>1. [s \in ids |-> u[s].total] = [s \in ids |-> t[s].total]
  BY DEF SaidAlike
<1>2. {CustomerIn(u, c, s) : s \in ids} = {CustomerIn(t, c, s) : s \in ids}
  BY DEF SaidAlike
<1> QED BY <1>1, <1>2 DEF AggregateIn

LEMMA ChannelsAlike ==
  ASSUME NEW t, NEW u, NEW c, SaidAlike(t, u, c), NEW ids \in SUBSET DOMAIN t
  PROVE  /\ \A channel : ChannelIn(u, ids, channel) = ChannelIn(t, ids, channel)
         /\ ByChannelIn(u, c, ids) = ByChannelIn(t, c, ids)
<1>1. \A channel : /\ ChannelIn(u, ids, channel) = ChannelIn(t, ids, channel)
                   /\ ChannelIn(t, ids, channel) \in SUBSET DOMAIN t
  BY DEF SaidAlike, ChannelIn
<1>2. AggregateIn(u, c, ids) = AggregateIn(t, c, ids)
  BY AggregatesAlike
<1>3. /\ AggregateIn(u, c, ChannelIn(t, ids, "app")) = AggregateIn(t, c, ChannelIn(t, ids, "app"))
      /\ AggregateIn(u, c, ChannelIn(t, ids, "phone"))
           = AggregateIn(t, c, ChannelIn(t, ids, "phone"))
  BY <1>1, AggregatesAlike
<1> QED BY <1>1, <1>2, <1>3 DEF ByChannelIn

LEMMA DeliveredAlike ==
  ASSUME NEW t, NEW u, NEW c, SaidAlike(t, u, c), NEW from, NEW to
  PROVE  /\ DeliveredIn(u, from, to) = DeliveredIn(t, from, to)
         /\ DeliveredIn(t, from, to) \in SUBSET DOMAIN t
BY DEF SaidAlike, DeliveredIn

LEMMA SummariesAlike ==
  ASSUME NEW t, NEW u, NEW c, SaidAlike(t, u, c), NEW from, NEW to
  PROVE  SummaryIn(u, c, from, to) = SummaryIn(t, c, from, to)
<1> DEFINE ids == DeliveredIn(t, from, to)
           periods == {PeriodOf("day", d) : d \in CalendarDatesBetween(from, to)}
<1>1. DeliveredIn(u, from, to) = ids /\ ids \in SUBSET DOMAIN t
  BY DeliveredAlike
<1> HIDE DEF ids
<1>2. ByChannelIn(u, c, ids) = ByChannelIn(t, c, ids)
  BY <1>1, ChannelsAlike
<1>3. \A p : /\ PartIn(u, ids, p) = PartIn(t, ids, p)
             /\ PartIn(t, ids, p) \in SUBSET DOMAIN t
  BY <1>1 DEF PartIn, SaidAlike
<1>4. \A p : ByChannelIn(u, c, PartIn(u, ids, p)) = ByChannelIn(t, c, PartIn(t, ids, p))
  BY <1>3, ChannelsAlike
<1> HIDE DEF periods
<1>5. [p \in periods |-> ByChannelIn(u, c, PartIn(u, ids, p))]
        = [p \in periods |-> ByChannelIn(t, c, PartIn(t, ids, p))]
  BY <1>4
<1> QED BY <1>1, <1>2, <1>5 DEF SummaryIn, ids, periods

LEMMA ConversionsAlike ==
  ASSUME NEW t, NEW u, NEW c, SaidAlike(t, u, c), NEW ids \in SUBSET DOMAIN t
  PROVE  ConvertedIn(u, c, ids) = ConvertedIn(t, c, ids)
<1>1. {CustomerIn(u, c, s) : s \in ids} = {CustomerIn(t, c, s) : s \in ids}
  BY DEF SaidAlike
<1>2. \A who : FirstIn(u, c, ids, who) = FirstIn(t, c, ids, who)
  <2> SUFFICES ASSUME NEW who PROVE FirstIn(u, c, ids, who) = FirstIn(t, c, ids, who)
    OBVIOUS
  <2>1. {o \in ids : CustomerIn(u, c, o) = who} = {o \in ids : CustomerIn(t, c, o) = who}
    BY DEF SaidAlike
  <2>2. {u[s].delivered : s \in {o \in ids : CustomerIn(u, c, o) = who}}
          = {t[s].delivered : s \in {o \in ids : CustomerIn(t, c, o) = who}}
    BY <2>1 DEF SaidAlike
  <2> QED BY <2>2 DEF FirstIn
<1>3. \A who : LaterIn(u, c, ids, who) = LaterIn(t, c, ids, who)
  BY <1>2 DEF LaterIn, SaidAlike
<1>4. \A who : {u[s].delivered : s \in LaterIn(u, c, ids, who)}
                 = {t[s].delivered : s \in LaterIn(t, c, ids, who)}
  <2> SUFFICES ASSUME NEW who
               PROVE  {u[s].delivered : s \in LaterIn(u, c, ids, who)}
                        = {t[s].delivered : s \in LaterIn(t, c, ids, who)}
    OBVIOUS
  <2>1. LaterIn(t, c, ids, who) \subseteq DOMAIN t
    BY DEF LaterIn
  <2> QED BY <1>3, <2>1 DEF SaidAlike
<1> QED BY <1>1, <1>2, <1>3, <1>4 DEF ConvertedIn

(***************************************************************************)
(* The table of sales.                                                     *)
(***************************************************************************)
SaleRow(x) ==
  \E source, user, phone, total, bought, status, created, at :
    x = [source |-> source, user |-> user, phone |-> phone, total |-> total,
         item |-> bought, status |-> status, created |-> created, delivered |-> at]

(* Whoever ordered by the app has an account, and what is pending has not  *)
(* been delivered.                                                         *)
GoodSale(x) ==
  /\ SaleRow(x)
  /\ x.source \in {"app", "admin"} /\ (x.source = "app" => x.user # None)
  /\ x.status \in {"entregado", "cancelado", "pendiente"}
  /\ x.status = "pendiente" => x.delivered = None
  /\ x.total \in Nat

SalesInv ==
  /\ \E rows : shoppers \in Seq(rows)
  /\ sales = [s \in DOMAIN sales |-> sales[s]] /\ IsFiniteSet(DOMAIN sales)
  /\ \A s \in DOMAIN sales : GoodSale(sales[s])

Linked(x, user) == [x EXCEPT !.user = user]
Settled(x, status, at) == [x EXCEPT !.status = status, !.delivered = at]

LEMMA RowLinked ==
  ASSUME NEW x, SaleRow(x), NEW user, NEW y, y = Linked(x, user)
  PROVE  /\ SaleRow(y) /\ y.user = user
         /\ y.source = x.source /\ y.phone = x.phone /\ y.total = x.total
         /\ y.delivered = x.delivered /\ y.status = x.status /\ y.created = x.created
<1>1. PICK source, old, phone, total, bought, status, created, at :
        x = [source |-> source, user |-> old, phone |-> phone, total |-> total,
             item |-> bought, status |-> status, created |-> created, delivered |-> at]
  BY DEF SaleRow
<1>2. y = [source |-> source, user |-> user, phone |-> phone, total |-> total,
           item |-> bought, status |-> status, created |-> created, delivered |-> at]
  BY <1>1 DEF Linked
<1>3. SaleRow(y)
  BY <1>2 DEF SaleRow
<1>4. /\ y.user = user /\ y.source = x.source /\ y.phone = x.phone /\ y.total = x.total
      /\ y.delivered = x.delivered /\ y.status = x.status /\ y.created = x.created
  BY <1>1, <1>2
<1> QED BY <1>3, <1>4

LEMMA RowSettled ==
  ASSUME NEW x, SaleRow(x), NEW to, NEW when, NEW y, y = Settled(x, to, when)
  PROVE  /\ SaleRow(y) /\ y.user = x.user /\ y.source = x.source /\ y.total = x.total
         /\ y.created = x.created /\ y.status = to /\ y.delivered = when
<1>1. PICK source, user, phone, total, bought, status, created, at :
        x = [source |-> source, user |-> user, phone |-> phone, total |-> total,
             item |-> bought, status |-> status, created |-> created, delivered |-> at]
  BY DEF SaleRow
<1>2. y = [source |-> source, user |-> user, phone |-> phone, total |-> total,
           item |-> bought, status |-> to, created |-> created, delivered |-> when]
  BY <1>1 DEF Settled
<1>3. SaleRow(y)
  BY <1>2 DEF SaleRow
<1>4. /\ y.user = x.user /\ y.source = x.source /\ y.total = x.total
      /\ y.created = x.created /\ y.status = to /\ y.delivered = when
  BY <1>1, <1>2
<1> QED BY <1>3, <1>4

(* What a step does to the table: nothing, a new row, or one that changes. *)
LEMMA SaleSteps ==
  ASSUME SalesInv, ReportsNext
  PROVE  \/ UNCHANGED sales
         \/ \E id, x : /\ id \notin DOMAIN sales /\ sales' = Put(sales, id, x)
                       /\ GoodSale(x)
         \/ \E id \in DOMAIN sales, to \in {"entregado", "cancelado"} : \E when :
              /\ sales[id].status = "pendiente"
              /\ sales' = [sales EXCEPT ![id] = Settled(sales[id], to, when)]
         \/ \E id \in DOMAIN sales, i \in DOMAIN shoppers : LinkSale(id, shoppers[i])
<1>1. CASE Tick
  BY <1>1 DEF Tick
<1>2. CASE StartMetrics \/ CountPeriod \/ SumRevenue \/ CountNewCustomers
  BY <1>2 DEF StartMetrics, CountPeriod, SumRevenue, CountNewCustomers
<1>3. CASE \E phone \in Phones : SignUp(phone)
  BY <1>3 DEF SignUp
<1>4. ASSUME NEW id \in SaleIds, NEW source \in {"app", "admin"}, NEW user \in Shoppers \cup {None},
             NEW phone \in Phones \cup {None}, NEW total \in Totals, NEW bought \in Products,
             Sell(id, source, user, phone, total, bought)
      PROVE  \E n, x : /\ n \notin DOMAIN sales /\ sales' = Put(sales, n, x)
                       /\ GoodSale(x)
  <2>1. PICK x : x = [source |-> source, user |-> user, phone |-> phone, total |-> total,
                      item |-> bought, status |-> "pendiente", created |-> clock,
                      delivered |-> None]
    OBVIOUS
  <2>2. id \notin DOMAIN sales /\ sales' = Put(sales, id, x)
    BY <1>4, <2>1 DEF Sell
  <2>3. SaleRow(x)
    BY <2>1 DEF SaleRow
  <2>4. x.source = "app" => x.user # None
    BY <1>4, <2>1 DEF Sell
  <2>5. /\ x.source \in {"app", "admin"} /\ x.status = "pendiente" /\ x.delivered = None
        /\ x.total \in Nat
    BY <2>1, ReportsAssumption
  <2> QED BY <2>2, <2>3, <2>4, <2>5 DEF GoodSale
<1>5. ASSUME NEW id \in DOMAIN sales, NEW status \in {"entregado", "cancelado"},
             Settle(id, status)
      PROVE  \E when : /\ sales[id].status = "pendiente"
                       /\ sales' = [sales EXCEPT ![id] = Settled(sales[id], status, when)]
  <2>1. PICK when : when = IF status = "entregado" THEN clock ELSE None
    OBVIOUS
  <2>2. /\ sales[id].status = "pendiente"
        /\ sales' = [sales EXCEPT ![id] = Settled(sales[id], status, when)]
    BY <1>5, <2>1 DEF Settle, Settled
  <2> QED BY <2>2
<1> QED BY <1>1, <1>2, <1>3, <1>4, <1>5 DEF ReportsNext

LEMMA ShoppersStep ==
  ASSUME SalesInv, [ReportsNext]_reportVars
  PROVE  \E rows : shoppers' \in Seq(rows)
<1>1. CASE UNCHANGED shoppers
  BY <1>1 DEF SalesInv
<1>2. ASSUME NEW x, shoppers' = Append(shoppers, x)
      PROVE  \E rows : shoppers' \in Seq(rows)
  <2>1. PICK rows : shoppers \in Seq(rows)
    BY DEF SalesInv
  <2>2. shoppers \in Seq(rows \cup {x})
    BY <2>1
  <2>3. shoppers' \in Seq(rows \cup {x})
    BY <1>2, <2>2
  <2> QED BY <2>3
<1>3. UNCHANGED shoppers \/ \E x : shoppers' = Append(shoppers, x)
  BY DEF ReportsNext, reportVars, Tick, StartMetrics, CountPeriod, SumRevenue,
         CountNewCustomers, SignUp, Sell, Settle, LinkSale
<1> QED BY <1>1, <1>2, <1>3

LEMMA SalesStep ==
  ASSUME SalesInv, [ReportsNext]_reportVars
  PROVE  SalesInv'
<1>0. \E rows : shoppers' \in Seq(rows)
  BY ShoppersStep
<1>1. CASE UNCHANGED sales
  BY <1>0, <1>1 DEF SalesInv
<1>2. ASSUME NEW id, NEW x, id \notin DOMAIN sales, sales' = Put(sales, id, x),
             GoodSale(x)
      PROVE  SalesInv'
  <2>1. DOMAIN sales' = DOMAIN sales \cup {id} /\ sales' = [s \in DOMAIN sales' |-> sales'[s]]
    BY <1>2 DEF Put
  <2>2. \A s \in DOMAIN sales' : sales'[s] = IF s = id THEN x ELSE sales[s]
    BY <1>2 DEF Put
  <2>3. IsFiniteSet(DOMAIN sales')
    BY <2>1, FS_AddElement DEF SalesInv
  <2> QED BY <1>0, <1>2, <2>1, <2>2, <2>3 DEF SalesInv
<1>3. ASSUME NEW id \in DOMAIN sales, NEW to \in {"entregado", "cancelado"}, NEW when,
             sales' = [sales EXCEPT ![id] = Settled(sales[id], to, when)]
      PROVE  SalesInv'
  <2>1. /\ DOMAIN sales' = DOMAIN sales /\ sales' = [s \in DOMAIN sales' |-> sales'[s]]
        /\ \A s \in DOMAIN sales : s # id => sales'[s] = sales[s]
        /\ sales'[id] = Settled(sales[id], to, when)
    BY <1>3 DEF SalesInv
  <2>2. GoodSale(sales'[id])
    <3>1. PICK x : x = sales[id] /\ GoodSale(x)
      BY DEF SalesInv
    <3>2. PICK y : y = Settled(x, to, when)
      OBVIOUS
    <3>3. /\ SaleRow(y) /\ y.user = x.user /\ y.source = x.source /\ y.total = x.total
          /\ y.status = to
      BY <3>1, <3>2, RowSettled DEF GoodSale
    <3>4. GoodSale(y)
      BY <3>1, <3>3 DEF GoodSale
    <3> QED BY <2>1, <3>1, <3>2, <3>4
  <2> QED BY <1>0, <2>1, <2>2 DEF SalesInv
<1>4. ASSUME NEW id \in DOMAIN sales, NEW i \in DOMAIN shoppers, LinkSale(id, shoppers[i])
      PROVE  SalesInv'
  <2>1. /\ sales[id].user = None
        /\ sales' = [sales EXCEPT ![id] = Linked(sales[id], shoppers[i].id)]
    BY <1>4 DEF LinkSale, Linked
  <2>2. /\ DOMAIN sales' = DOMAIN sales /\ sales' = [s \in DOMAIN sales' |-> sales'[s]]
        /\ \A s \in DOMAIN sales : s # id => sales'[s] = sales[s]
        /\ sales'[id] = Linked(sales[id], shoppers[i].id)
    BY <2>1 DEF SalesInv
  <2>3. GoodSale(sales'[id])
    <3>1. PICK x : x = sales[id] /\ GoodSale(x)
      BY DEF SalesInv
    <3>2. PICK y : y = Linked(x, shoppers[i].id)
      OBVIOUS
    <3>3. /\ SaleRow(y) /\ y.source = x.source /\ y.total = x.total
          /\ y.status = x.status /\ y.delivered = x.delivered
      BY <3>1, <3>2, RowLinked DEF GoodSale
    <3>4. x.source # "app"
      BY <2>1, <3>1 DEF GoodSale
    <3>5. GoodSale(y)
      BY <3>1, <3>3, <3>4 DEF GoodSale
    <3> QED BY <2>2, <3>1, <3>2, <3>5
  <2> QED BY <1>0, <2>1, <2>2, <2>3 DEF SalesInv
<1> QED BY <1>1, <1>2, <1>3, <1>4, SaleSteps DEF reportVars

(* A sale that gets its user is linked to the only account of its phone.   *)
LEMMA LinkedAlike ==
  ASSUME SalesInv, [ReportsNext]_reportVars,
         \E s \in DOMAIN sales : sales[s].user = None /\ sales'[s].user # None,
         \A i, j \in DOMAIN shoppers : i # j => shoppers[i].phone # shoppers[j].phone
  PROVE  UNCHANGED shoppers /\ SaidAlike(sales, sales', shoppers)
<1>1. ~ UNCHANGED sales
  OBVIOUS
<1>2. ASSUME NEW id, NEW x, id \notin DOMAIN sales, sales' = Put(sales, id, x)
      PROVE  FALSE
  <2>1. \A s \in DOMAIN sales : sales'[s] = sales[s]
    BY <1>2 DEF Put
  <2> QED BY <2>1
<1>3. ASSUME NEW id \in DOMAIN sales, NEW to, NEW when,
             sales' = [sales EXCEPT ![id] = Settled(sales[id], to, when)]
      PROVE  FALSE
  <2>1. /\ \A s \in DOMAIN sales : s # id => sales'[s] = sales[s]
        /\ sales'[id] = Settled(sales[id], to, when)
    BY <1>3 DEF SalesInv
  <2>2. sales'[id].user = sales[id].user
    BY <2>1, RowSettled DEF SalesInv, GoodSale
  <2> QED BY <2>1, <2>2
<1>4. PICK id \in DOMAIN sales, i \in DOMAIN shoppers : LinkSale(id, shoppers[i])
  BY <1>1, <1>2, <1>3, SaleSteps DEF reportVars
<1>5. /\ sales[id].user = None /\ sales[id].phone = shoppers[i].phone
      /\ sales' = [sales EXCEPT ![id] = Linked(sales[id], shoppers[i].id)]
      /\ shoppers' = shoppers
  BY <1>4 DEF LinkSale, Linked
<1>6. /\ DOMAIN sales' = DOMAIN sales
      /\ \A s \in DOMAIN sales : s # id => sales'[s] = sales[s]
      /\ sales'[id] = Linked(sales[id], shoppers[i].id)
  BY <1>5 DEF SalesInv
<1>7. /\ sales'[id].user = shoppers[i].id
      /\ sales'[id].source = sales[id].source /\ sales'[id].total = sales[id].total
      /\ sales'[id].delivered = sales[id].delivered
  BY <1>6, RowLinked DEF SalesInv, GoodSale
<1>8. shoppers[i].id # None
  BY <1>5, <1>6, <1>7
<1>9. CustomerIn(sales, shoppers, id) = shoppers[i].id
  <2>1. {j \in DOMAIN shoppers : shoppers[j].phone = sales[id].phone} = {i}
    BY <1>5
  <2>2. i \in Int
    BY DEF SalesInv
  <2>3. Min({i}) = i
    BY <2>2 DEF Min
  <2> QED BY <1>5, <2>1, <2>3 DEF CustomerIn
<1>10. \A s \in DOMAIN sales : CustomerIn(sales', shoppers, s) = CustomerIn(sales, shoppers, s)
  <2>1. CustomerIn(sales', shoppers, id) = shoppers[i].id
    BY <1>7, <1>8 DEF CustomerIn
  <2>2. \A s \in DOMAIN sales : s # id =>
          CustomerIn(sales', shoppers, s) = CustomerIn(sales, shoppers, s)
    BY <1>6 DEF CustomerIn
  <2> QED BY <1>9, <2>1, <2>2
<1>11. sales[id].source # "app"
  BY <1>5 DEF SalesInv, GoodSale
<1> QED BY <1>5, <1>6, <1>7, <1>10, <1>11 DEF SaidAlike

(* reports.service.ts:580: however many sales, customers and phones there  *)
(* are, to link a sale to the only account of its phone changes nothing in *)
(* what the reports say of any range.                                      *)
THEOREM LinkedSalesKeepCustomers == Spec => LinkingKeepsCustomers
<1> DEFINE gets == (\E s \in DOMAIN sales : sales[s].user = None /\ sales'[s].user # None)
                      /\ (\A i, j \in DOMAIN shoppers :
                            i # j => shoppers[i].phone # shoppers[j].phone)
           keeps == \A r \in Ranges :
                      /\ Summary(r[1], r[2], "day") = Summary(r[1], r[2], "day")'
                      /\ Conversion(r[1], r[2]) = Conversion(r[1], r[2])'
<1>1. Init => SalesInv
  BY FS_EmptySet DEF Init, ReportsInit, SalesInv
<1>2. [Next]_backOfficeVars => [ReportsNext]_reportVars
  BY DEF Next, OthersRest, backOfficeVars
<1>3. SalesInv /\ [Next]_backOfficeVars => SalesInv'
  BY <1>2, SalesStep
<1>4. SalesInv /\ [Next]_backOfficeVars => [gets => keeps]_reportVars
  <2> SUFFICES ASSUME SalesInv, [ReportsNext]_reportVars, gets
               PROVE  keeps
    BY <1>2
  <2>1. UNCHANGED shoppers /\ SaidAlike(sales, sales', shoppers)
    BY LinkedAlike
  <2> SUFFICES ASSUME NEW r \in Ranges
               PROVE  /\ Summary(r[1], r[2], "day") = Summary(r[1], r[2], "day")'
                      /\ Conversion(r[1], r[2]) = Conversion(r[1], r[2])'
    OBVIOUS
  <2>2. PICK from, to : from = r[1] /\ to = r[2]
    OBVIOUS
  <2>3. Summary(from, to, "day")' = SummaryIn(sales', shoppers', from, to)
    BY DEF Summary, SummaryIn, ByChannel, ByChannelIn, Aggregate, AggregateIn, Revenue,
           CustomerOf, CustomerIn, InChannel, ChannelIn, ChannelOf, DeliveredSales,
           DeliveredIn, PartIn
  <2>4. Conversion(from, to)' =
          ConvertedIn(sales', shoppers', ChannelIn(sales', DeliveredIn(sales', from, to), "phone"))
    BY DEF Conversion, ConvertedIn, FirstIn, LaterIn, CustomerOf, CustomerIn, InChannel,
           ChannelIn, ChannelOf, DeliveredSales, DeliveredIn
  <2>5. SummaryIn(sales', shoppers', from, to) = SummaryIn(sales, shoppers, from, to)
    BY <2>1, SummariesAlike
  <2>6. /\ DeliveredIn(sales', from, to) = DeliveredIn(sales, from, to)
        /\ DeliveredIn(sales, from, to) \in SUBSET DOMAIN sales
    BY <2>1, DeliveredAlike
  <2>7. ChannelIn(sales', DeliveredIn(sales, from, to), "phone")
          = ChannelIn(sales, DeliveredIn(sales, from, to), "phone")
    BY <2>1, <2>6, ChannelsAlike
  <2>8. ChannelIn(sales, DeliveredIn(sales, from, to), "phone") \in SUBSET DOMAIN sales
    BY <2>6 DEF ChannelIn
  <2>9. \A ids \in SUBSET DOMAIN sales :
          ConvertedIn(sales', shoppers, ids) = ConvertedIn(sales, shoppers, ids)
    BY <2>1, ConversionsAlike
  <2>10. Summary(from, to, "day") = Summary(from, to, "day")'
    BY <2>1, <2>3, <2>5, SummaryIsThatOfSales
  <2>11. Conversion(from, to) = Conversion(from, to)'
    BY <2>1, <2>4, <2>6, <2>7, <2>8, <2>9, ConversionIsThatOfSales
  <2> QED BY <2>2, <2>10, <2>11
<1> QED BY <1>1, <1>3, <1>4, PTL DEF Spec, LinkingKeepsCustomers

(***************************************************************************)
(* The figures of the panel: sums and counts of sets of sales.             *)
(***************************************************************************)
RevenueIn(t, ids) == SumFunction([s \in ids |-> t[s].total])
Cents(t, ids) == {u \in ids \X Nat : u[2] < t[u[1]].total}

LEMMA RevenueCountsCents ==
  ASSUME NEW t, NEW ids, IsFiniteSet(ids), \A s \in ids : t[s].total \in Nat
  PROVE  /\ IsFiniteSet(Cents(t, ids))
         /\ RevenueIn(t, ids) = Cardinality(Cents(t, ids)) /\ RevenueIn(t, ids) \in Nat
<1>1. PICK a : a = [s \in ids |-> t[s].total]
  OBVIOUS
<1>2. DOMAIN a = ids /\ \A s \in ids : a[s] = t[s].total /\ a[s] \in Nat
  BY <1>1
<1>3. Units(a, ids) = Cents(t, ids)
  BY <1>2 DEF Units, Cents
<1>4. SumFunction(a) = Cardinality(Units(a, ids)) /\ IsFiniteSet(Units(a, ids))
  BY <1>2, SumCountsUnits, UnitsAreFinite
<1> QED BY <1>1, <1>3, <1>4, FS_CardinalityType DEF RevenueIn

LEMMA RevenueOfBoth ==
  ASSUME NEW t, NEW A, IsFiniteSet(A), NEW B, IsFiniteSet(B), A \cap B = {},
         \A s \in A \cup B : t[s].total \in Nat
  PROVE  RevenueIn(t, A \cup B) = RevenueIn(t, A) + RevenueIn(t, B)
<1>1. /\ IsFiniteSet(Cents(t, A)) /\ RevenueIn(t, A) = Cardinality(Cents(t, A))
      /\ IsFiniteSet(Cents(t, B)) /\ RevenueIn(t, B) = Cardinality(Cents(t, B))
  BY RevenueCountsCents
<1>2. Cents(t, A \cup B) = Cents(t, A) \cup Cents(t, B) /\ Cents(t, A) \cap Cents(t, B) = {}
  BY DEF Cents
<1>3. IsFiniteSet(A \cup B)
  BY FS_Union
<1>4. RevenueIn(t, A \cup B) = Cardinality(Cents(t, A \cup B))
  BY <1>3, RevenueCountsCents
<1>5. Cardinality(Cents(t, A) \cup Cents(t, B))
        = Cardinality(Cents(t, A)) + Cardinality(Cents(t, B))
  BY <1>1, <1>2, CountedApart
<1> QED BY <1>1, <1>2, <1>4, <1>5

LEMMA SalesOfARange ==
  ASSUME SalesInv, NEW ids \in SUBSET DOMAIN sales
  PROVE  /\ IsFiniteSet(ids) /\ \A s \in ids : sales[s].total \in Nat
         /\ Revenue(ids) = RevenueIn(sales, ids)
         /\ InChannel(ids, "app") \cup InChannel(ids, "phone") = ids
         /\ InChannel(ids, "app") \cap InChannel(ids, "phone") = {}
<1>1. IsFiniteSet(ids)
  BY FS_Subset DEF SalesInv
<1> QED BY <1>1 DEF SalesInv, GoodSale, InChannel, ChannelOf, Revenue, RevenueIn

LEMMA ChannelsAddUp ==
  ASSUME SalesInv, NEW ids \in SUBSET DOMAIN sales
  PROVE  /\ Revenue(ids) = Revenue(InChannel(ids, "app")) + Revenue(InChannel(ids, "phone"))
         /\ Cardinality(ids) = Cardinality(InChannel(ids, "app"))
                                 + Cardinality(InChannel(ids, "phone"))
<1>1. PICK A, B : A = InChannel(ids, "app") /\ B = InChannel(ids, "phone")
  OBVIOUS
<1>2. A \cup B = ids /\ A \cap B = {} /\ A \in SUBSET DOMAIN sales /\ B \in SUBSET DOMAIN sales
  BY <1>1, SalesOfARange
<1>3. /\ IsFiniteSet(A) /\ IsFiniteSet(B)
      /\ Revenue(A) = RevenueIn(sales, A) /\ Revenue(B) = RevenueIn(sales, B)
      /\ Revenue(ids) = RevenueIn(sales, ids) /\ \A s \in ids : sales[s].total \in Nat
  BY <1>2, SalesOfARange
<1>4. RevenueIn(sales, ids) = RevenueIn(sales, A) + RevenueIn(sales, B)
  BY <1>2, <1>3, RevenueOfBoth
<1>5. Cardinality(ids) = Cardinality(A) + Cardinality(B)
  BY <1>2, <1>3, CountedApart
<1> QED BY <1>1, <1>3, <1>4, <1>5

LEMMA PeriodsAreFinite ==
  ASSUME NEW r \in Ranges, NEW by
  PROVE  IsFiniteSet({PeriodOf(by, d) : d \in CalendarDatesBetween(r[1], r[2])})
<1> DEFINE days == CalendarDatesBetween(r[1], r[2])
           f == [d \in days |-> PeriodOf(by, d)]
<1>1. IsFiniteSet(days)
  <2>1. r[1] \in Int /\ r[2] \in Int
    <3>1. r[1] \in Calendar /\ r[2] \in Calendar
      BY DEF Ranges
    <3>2. Calendar \subseteq Nat
      BY ReportsAssumption
    <3>3. \A d \in Calendar : d \in Int
      BY <3>2
    <3> QED BY <3>1, <3>3
  <2> QED BY <2>1, FS_Interval DEF CalendarDatesBetween
<1>2. f \in Surjection(days, {PeriodOf(by, d) : d \in days})
  BY DEF Surjection
<1> QED BY <1>1, <1>2, FS_Surjection

LEMMA SummariesAddUp ==
  ASSUME SalesInv
  PROVE  SummaryAddsUp
<1> DEFINE Good(report) ==
             LET total == report.totals
             IN /\ total.all.orders =
                     SumFunction([p \in DOMAIN report.data |-> report.data[p].all.orders])
                /\ total.all.revenue = total.app.revenue + total.phone.revenue
                /\ total.all.customers = total.app.customers \cup total.phone.customers
                /\ total.all.customers =
                     UNION {report.data[p].all.customers : p \in DOMAIN report.data}
<1> SUFFICES ASSUME NEW r \in Ranges, NEW by \in {"day", "week", "month"}
             PROVE  Good(Summary(r[1], r[2], by))
  BY DEF SummaryAddsUp
<1> PICK report, total : report = Summary(r[1], r[2], by) /\ total = report.totals
  OBVIOUS
<1> DEFINE ids == DeliveredSales(r[1], r[2])
           periods == {PeriodOf(by, d) : d \in CalendarDatesBetween(r[1], r[2])}
           periodOf == [s \in ids |-> PeriodOf(by, DayOfTick(sales[s].delivered))]
           of(p) == {s \in ids : periodOf[s] = p}
<1>1. /\ total = ByChannel(ids) /\ DOMAIN report.data = periods
      /\ \A p \in periods : report.data[p] = ByChannel(of(p))
  BY DEF Summary
<1>2. ids \in SUBSET DOMAIN sales /\ \A s \in ids : periodOf[s] \in periods
  BY DEF DeliveredSales, CalendarDatesBetween
<1>3. IsFiniteSet(periods)
  BY PeriodsAreFinite
<1> HIDE DEF ids, periods, periodOf, of
<1>4. \A p \in periods : /\ report.data[p].all.orders = Cardinality(of(p))
                         /\ report.data[p].all.customers = {CustomerOf(s) : s \in of(p)}
  <2>1. \A S : /\ ByChannel(S).all.orders = Cardinality(S)
               /\ ByChannel(S).all.customers = {CustomerOf(s) : s \in S}
    BY DEF ByChannel, Aggregate
  <2> QED BY <1>1, <2>1
<1>5. /\ total.all.orders = Cardinality(ids) /\ total.all.revenue = Revenue(ids)
      /\ total.all.customers = {CustomerOf(s) : s \in ids}
      /\ \A c \in {"app", "phone"} :
           /\ total[c].revenue = Revenue(InChannel(ids, c))
           /\ total[c].customers = {CustomerOf(s) : s \in InChannel(ids, c)}
  BY <1>1 DEF ByChannel, Aggregate
<1>6. IsFiniteSet(ids) /\ InChannel(ids, "app") \cup InChannel(ids, "phone") = ids
  BY <1>2, SalesOfARange
<1>7. SumFunction([p \in periods |-> Cardinality(of(p))]) = Cardinality(ids)
  BY <1>2, <1>3, <1>6, PartsAddUp DEF of
<1>8. [p \in DOMAIN report.data |-> report.data[p].all.orders]
        = [p \in periods |-> Cardinality(of(p))]
  BY <1>1, <1>4
<1>9. total.all.revenue = total.app.revenue + total.phone.revenue
  BY <1>2, <1>5, ChannelsAddUp
<1>10. total.all.customers = total.app.customers \cup total.phone.customers
  BY <1>5, <1>6
<1>11. total.all.customers = UNION {report.data[p].all.customers : p \in DOMAIN report.data}
  <2>1. {report.data[p].all.customers : p \in periods}
          = {{CustomerOf(s) : s \in of(p)} : p \in periods}
    BY <1>4
  <2>2. UNION {{CustomerOf(s) : s \in of(p)} : p \in periods} = {CustomerOf(s) : s \in ids}
    BY <1>2 DEF of
  <2> QED BY <1>1, <1>5, <2>1, <2>2
<1>12. total.all.orders =
          SumFunction([p \in DOMAIN report.data |-> report.data[p].all.orders])
  BY <1>5, <1>7, <1>8
<1>13. Good(report)
  BY <1>9, <1>10, <1>11, <1>12
<1> HIDE DEF Good
<1> QED BY <1>13

LEMMA PanelsSayTheSame ==
  ASSUME SalesInv
  PROVE  PanelsAgree
<1> SUFFICES ASSUME NEW r \in Ranges,
                    NEW report, report = Summary(r[1], r[2], "day"),
                    NEW trend, trend = RevenueTrend(r[1]..r[2]),
                    NEW top, top = TopProducts(r[1], r[2]),
                    NEW both, both = ReportTopProducts(r[1], r[2])
             PROVE  /\ report.totals.all.revenue = DeliveredRevenue(r[1], r[2])
                    /\ \A d \in DOMAIN trend : report.data[d].all.revenue = trend[d].revenue
                    /\ \A d \in DOMAIN trend :
                         trend[d].app + trend[d].phone = SumFunction(StatusOf(d))
                    /\ \A p \in DOMAIN top : top[p] = both[p]["app"] + both[p]["phone"]
                    /\ Comparison(<<r[1], r[1]>>, r).previous.revenue
                         = report.totals.all.revenue
  BY DEF PanelsAgree
<1> DEFINE ids == DeliveredSales(r[1], r[2])
<1>1. report.totals.all.revenue = Revenue(ids)
  BY DEF Summary, ByChannel, Aggregate
<1>2. report.totals.all.revenue = DeliveredRevenue(r[1], r[2])
  BY <1>1 DEF DeliveredRevenue
<1>3. ASSUME NEW d \in DOMAIN trend
      PROVE  report.data[d].all.revenue = trend[d].revenue
  <2>1. d \in r[1]..r[2] /\ trend[d].revenue = Revenue(DeliveredSales(d, d))
    BY <1>3 DEF RevenueTrend, DeliveredRevenue
  <2>2. {s \in ids : PeriodOf("day", DayOfTick(sales[s].delivered)) = d} = DeliveredSales(d, d)
    BY <2>1 DEF DeliveredSales, PeriodOf, Ranges
  <2>3. report.data[d].all.revenue
          = Revenue({s \in ids : PeriodOf("day", DayOfTick(sales[s].delivered)) = d})
    BY <2>1 DEF Summary, ByChannel, Aggregate, CalendarDatesBetween, PeriodOf
  <2> QED BY <2>1, <2>2, <2>3
<1>4. ASSUME NEW d \in DOMAIN trend
      PROVE  trend[d].app + trend[d].phone = SumFunction(StatusOf(d))
  <2> DEFINE placed_on == Sold(d, d)
             statuses == {"entregado", "cancelado", "pendiente"}
             status == [s \in placed_on |-> sales[s].status]
  <2>1. /\ trend[d].app = Cardinality(InChannel(placed_on, "app"))
        /\ trend[d].phone = Cardinality(InChannel(placed_on, "phone"))
    BY <1>4 DEF RevenueTrend
  <2>2. placed_on \in SUBSET DOMAIN sales
    BY DEF Sold
  <2>3. StatusOf(d) = [p \in statuses |-> Cardinality({s \in placed_on : status[s] = p})]
    <3>1. \A p : {s \in placed_on : status[s] = p} = {s \in placed_on : sales[s].status = p}
      OBVIOUS
    <3> QED BY <3>1 DEF StatusOf
  <2>4. \A s \in placed_on : status[s] \in statuses
    BY <2>2 DEF SalesInv, GoodSale
  <2> HIDE DEF placed_on, status
  <2>5. IsFiniteSet(placed_on)
    BY <2>2, SalesOfARange
  <2>6. IsFiniteSet(statuses)
    <3>1. IsFiniteSet({"entregado"} \cup {"cancelado"})
      BY FS_Singleton, FS_AddElement
    <3>2. IsFiniteSet(({"entregado"} \cup {"cancelado"}) \cup {"pendiente"})
      BY <3>1, FS_AddElement
    <3>3. ({"entregado"} \cup {"cancelado"}) \cup {"pendiente"} = statuses
      OBVIOUS
    <3> QED BY <3>2, <3>3
  <2> HIDE DEF statuses
  <2>7. SumFunction(StatusOf(d)) = Cardinality(placed_on)
    BY <2>3, <2>4, <2>5, <2>6, PartsAddUp
  <2> QED BY <2>1, <2>2, <2>7, ChannelsAddUp
<1>5. ASSUME NEW p \in DOMAIN top
      PROVE  top[p] = both[p]["app"] + both[p]["phone"]
  <2> DEFINE of == {s \in ids : sales[s].item = p}
  <2>1. /\ top[p] = Cardinality(of)
        /\ both[p]["app"] = Cardinality({s \in InChannel(ids, "app") : sales[s].item = p})
        /\ both[p]["phone"] = Cardinality({s \in InChannel(ids, "phone") : sales[s].item = p})
    BY <1>5 DEF TopProducts, ReportTopProducts
  <2>2. \A c : {s \in InChannel(ids, c) : sales[s].item = p} = InChannel(of, c)
    BY DEF InChannel
  <2>3. of \in SUBSET DOMAIN sales
    BY DEF DeliveredSales
  <2> HIDE DEF of
  <2>4. Cardinality(of) = Cardinality(InChannel(of, "app")) + Cardinality(InChannel(of, "phone"))
    BY <2>3, ChannelsAddUp
  <2> QED BY <2>1, <2>2, <2>4
<1>6. Comparison(<<r[1], r[1]>>, r).previous.revenue = Revenue(ids)
  BY DEF Comparison, Aggregate
<1> QED BY <1>1, <1>2, <1>3, <1>4, <1>5, <1>6

(***************************************************************************)
(* The dashboard.  Its figures are read one after the other, of a table    *)
(* that grows meanwhile: what is true of a shorter period when it is read  *)
(* is still true when the longer one is.                                   *)
(***************************************************************************)
SoldIn(t, from, to) == {s \in DOMAIN t : DayOfTick(t[s].created) \in from..to}

FigureIn(t, f, from, to) ==
  IF f = "revenue" THEN RevenueIn(t, DeliveredIn(t, from, to))
  ELSE Cardinality(ChannelIn(t, SoldIn(t, from, to), f))

Figures == {"app", "phone", "revenue"}

CountedSales(t) == IsFiniteSet(DOMAIN t) /\ \A s \in DOMAIN t : t[s].total \in Nat

GrowsTo(t, u) ==
  /\ DOMAIN t \subseteq DOMAIN u
  /\ \A s \in DOMAIN t :
       /\ u[s].source = t[s].source /\ u[s].total = t[s].total /\ u[s].created = t[s].created
       /\ t[s].delivered # None => u[s].delivered = t[s].delivered

LEMMA FiguresGrow ==
  ASSUME NEW t, CountedSales(t), NEW u, CountedSales(u), GrowsTo(t, u), NEW f \in Figures,
         NEW from, NEW to, NEW first, NEW last, from..to \subseteq first..last
  PROVE  /\ FigureIn(t, f, from, to) \in Nat /\ FigureIn(u, f, first, last) \in Nat
         /\ FigureIn(t, f, from, to) <= FigureIn(u, f, first, last)
<1>1. CASE f = "revenue"
  <2>1. PICK A, B : A = DeliveredIn(t, from, to) /\ B = DeliveredIn(u, first, last)
    OBVIOUS
  <2>2. A \subseteq B /\ A \subseteq DOMAIN t /\ B \subseteq DOMAIN u
    BY <2>1 DEF DeliveredIn, GrowsTo
  <2>3. IsFiniteSet(A) /\ IsFiniteSet(B)
    BY <2>2, FS_Subset DEF CountedSales
  <2>4. /\ \A s \in A : t[s].total \in Nat /\ t[s].total = u[s].total
        /\ \A s \in B : u[s].total \in Nat
    BY <2>2 DEF CountedSales, GrowsTo
  <2>5. /\ IsFiniteSet(Cents(t, A)) /\ RevenueIn(t, A) = Cardinality(Cents(t, A))
        /\ IsFiniteSet(Cents(u, B)) /\ RevenueIn(u, B) = Cardinality(Cents(u, B))
        /\ RevenueIn(t, A) \in Nat /\ RevenueIn(u, B) \in Nat
    BY <2>3, <2>4, RevenueCountsCents
  <2>6. Cents(t, A) \in SUBSET Cents(u, B)
    BY <2>2, <2>4 DEF Cents
  <2>7. Cardinality(Cents(t, A)) <= Cardinality(Cents(u, B))
    BY <2>5, <2>6, FS_Subset
  <2> QED BY <1>1, <2>1, <2>5, <2>7 DEF FigureIn
<1>2. CASE f # "revenue"
  <2>1. PICK A, B : /\ A = ChannelIn(t, SoldIn(t, from, to), f)
                    /\ B = ChannelIn(u, SoldIn(u, first, last), f)
    OBVIOUS
  <2>2. A \subseteq B /\ B \subseteq DOMAIN u
    BY <2>1 DEF ChannelIn, SoldIn, GrowsTo
  <2>3. IsFiniteSet(B)
    BY <2>2, FS_Subset DEF CountedSales
  <2>4. IsFiniteSet(A) /\ Cardinality(A) <= Cardinality(B)
    BY <2>2, <2>3, FS_Subset
  <2>5. Cardinality(A) \in Nat /\ Cardinality(B) \in Nat
    BY <2>3, <2>4, FS_CardinalityType
  <2> QED BY <1>2, <2>1, <2>4, <2>5 DEF FigureIn
<1> QED BY <1>1, <1>2

LEMMA SalesGrow ==
  ASSUME SalesInv, [ReportsNext]_reportVars
  PROVE  CountedSales(sales) /\ CountedSales(sales') /\ GrowsTo(sales, sales')
<1>1. CountedSales(sales)
  BY DEF CountedSales, SalesInv, GoodSale
<1>2. CountedSales(sales')
  BY SalesStep DEF CountedSales, SalesInv, GoodSale
<1>3. ASSUME UNCHANGED sales PROVE GrowsTo(sales, sales')
  BY <1>3 DEF GrowsTo
<1>4. ASSUME NEW id, NEW x, id \notin DOMAIN sales, sales' = Put(sales, id, x)
      PROVE  GrowsTo(sales, sales')
  <2>1. DOMAIN sales \subseteq DOMAIN sales' /\ \A s \in DOMAIN sales : sales'[s] = sales[s]
    BY <1>4 DEF Put
  <2> QED BY <2>1 DEF GrowsTo
<1>5. ASSUME NEW id \in DOMAIN sales, NEW to, NEW when, sales[id].status = "pendiente",
             sales' = [sales EXCEPT ![id] = Settled(sales[id], to, when)]
      PROVE  GrowsTo(sales, sales')
  <2>1. /\ DOMAIN sales' = DOMAIN sales
        /\ \A s \in DOMAIN sales : s # id => sales'[s] = sales[s]
        /\ sales'[id] = Settled(sales[id], to, when)
    BY <1>5 DEF SalesInv
  <2>2. SaleRow(sales[id]) /\ sales[id].delivered = None
    BY <1>5 DEF SalesInv, GoodSale
  <2>3. /\ sales'[id].source = sales[id].source /\ sales'[id].total = sales[id].total
        /\ sales'[id].created = sales[id].created
    BY <2>1, <2>2, RowSettled
  <2> QED BY <2>1, <2>2, <2>3 DEF GrowsTo
<1>6. ASSUME NEW id \in DOMAIN sales, NEW i \in DOMAIN shoppers, LinkSale(id, shoppers[i])
      PROVE  GrowsTo(sales, sales')
  <2>1. sales' = [sales EXCEPT ![id] = Linked(sales[id], shoppers[i].id)]
    BY <1>6 DEF LinkSale, Linked
  <2>2. /\ DOMAIN sales' = DOMAIN sales
        /\ \A s \in DOMAIN sales : s # id => sales'[s] = sales[s]
        /\ sales'[id] = Linked(sales[id], shoppers[i].id)
    BY <2>1 DEF SalesInv
  <2>3. SaleRow(sales[id])
    BY DEF SalesInv, GoodSale
  <2>4. /\ sales'[id].source = sales[id].source /\ sales'[id].total = sales[id].total
        /\ sales'[id].created = sales[id].created
        /\ sales'[id].delivered = sales[id].delivered
    BY <2>2, <2>3, RowLinked
  <2> QED BY <2>2, <2>4 DEF GrowsTo
<1>7. GrowsTo(sales, sales')
  BY <1>3, <1>4, <1>5, <1>6, SaleSteps DEF reportVars
<1> QED BY <1>1, <1>2, <1>7

(* A period ends today and has not begun after.                            *)
LEMMA TodayIsInEveryPeriod ==
  ASSUME NEW today \in Calendar, NEW period \in {"today", "week", "month"}
  PROVE  today..today \subseteq From(period, today)..today
<1>1. today \in Nat
  BY ReportsAssumption
<1> SUFFICES From(period, today) \in Int /\ From(period, today) <= today
  BY <1>1
<1>2. CASE period = "today"
  BY <1>1, <1>2 DEF From
<1>3. CASE period = "week"
  <2>1. (today + 6) % 7 \in 0..6
    BY <1>1, DivMod
  <2>2. MondayOf(today) \in Int /\ MondayOf(today) <= today
    BY <1>1, <2>1 DEF MondayOf
  <2> QED BY <1>3, <2>2 DEF From
<1>4. CASE period = "month"
  <2> DEFINE past == {d \in MonthStarts : d <= today}
             ago == {n \in Nat : \E d \in past : n = today - d}
  <2>1. past \subseteq Nat
    BY ReportsAssumption
  <2>2. ago # {}
    <3>1. PICK d \in past : TRUE
      BY ReportsAssumption
    <3>2. today - d \in ago
      BY <1>1, <2>1, <3>1
    <3> QED BY <3>2
  <2>3. PICK n \in ago : \A k \in ago : n <= k
    <3>1. ago \in SUBSET Nat
      OBVIOUS
    <3> QED BY <2>2, <3>1, LeastNumber
  <2>4. PICK d \in past : n = today - d
    BY <2>3
  <2>5. \A e \in past : d >= e
    <3> SUFFICES ASSUME NEW e \in past PROVE d >= e
      OBVIOUS
    <3>1. d \in Nat /\ e \in Nat /\ e <= today
      BY <2>1
    <3>2. today - e \in ago
      BY <1>1, <3>1
    <3>3. today - d <= today - e
      BY <2>3, <2>4, <3>2
    <3> QED BY <1>1, <3>1, <3>3
  <2>6. Max(past) \in past
    BY <2>4, <2>5 DEF Max
  <2>7. FirstOfMonth(today) \in past
    BY <2>6 DEF FirstOfMonth
  <2> QED BY <1>4, <2>1, <2>7 DEF From
<1> QED BY <1>2, <1>3, <1>4

(***************************************************************************)
(* The request in progress.                                                *)
(***************************************************************************)
Periods == {"today", "week", "month"}

Answer(step, today, period, read) ==
  [step |-> step, today |-> today, period |-> period, read |-> read]

Read(app, phone, revenue) == [app |-> app, phone |-> phone, revenue |-> revenue]

Earlier(period) ==
  CASE period = "today" -> {}
    [] period = "week" -> {"today"}
    [] period = "month" -> {"today", "week"}
    [] period = "none" -> Periods

(* The periods whose orders have been counted; of the last of them, the    *)
(* revenue has not been added up before the next step.                     *)
Counted(step, period) == Earlier(period) \cup {k \in {period} : step = "revenue"}

GoodStep(step, period) ==
  \/ step \in {"counts", "revenue"} /\ period \in Periods
  \/ step \in {"customers", "done"} /\ period = "none"

(* What has been read of today is no more than what the table says of it   *)
(* now, nor than what has been read of a longer period.                    *)
GoodReads(t, step, today, period, read) ==
  /\ \A k \in Counted(step, period) :
       k \in DOMAIN read /\ \E a, p, r \in Nat : read[k] = Read(a, p, r)
  /\ \A f \in Figures :
       /\ "today" \in Counted(step, period) => read["today"][f] <= FigureIn(t, f, today, today)
       /\ \A k \in Counted(step, period) \ {"today"} :
            f # "revenue" \/ k \in Earlier(period) => read["today"][f] <= read[k][f]

GoodMetrics(m, t) ==
  m = Waiting \/
  \E step, period, read : \E today \in Calendar :
    /\ m = Answer(step, today, period, read)
    /\ GoodStep(step, period) /\ GoodReads(t, step, today, period, read)

LEMMA AnswersAre ==
  ASSUME NEW step, NEW today, NEW period, NEW read, NEW m, m = Answer(step, today, period, read)
  PROVE  m.step = step /\ m.today = today /\ m.period = period /\ m.read = read
BY DEF Answer

Says(m, next, said) == [m EXCEPT !.step = next, !.read = said]
GoesOn(m, next, after, said) == [m EXCEPT !.step = next, !.period = after, !.read = said]

LEMMA AnswerSays ==
  ASSUME NEW step, NEW today, NEW period, NEW read, NEW next, NEW said,
         NEW m, m = [step |-> step, today |-> today, period |-> period, read |-> read],
         NEW x, x = Says(m, next, said)
  PROVE  x = [step |-> next, today |-> today, period |-> period, read |-> said]
BY DEF Says

LEMMA AnswerGoesOn ==
  ASSUME NEW step, NEW today, NEW period, NEW read, NEW next, NEW after, NEW said,
         NEW m, m = [step |-> step, today |-> today, period |-> period, read |-> read],
         NEW x, x = GoesOn(m, next, after, said)
  PROVE  x = [step |-> next, today |-> today, period |-> after, read |-> said]
BY DEF GoesOn

LEMMA AnswersChange ==
  ASSUME NEW step, NEW today, NEW period, NEW read, NEW next, NEW after, NEW said,
         NEW m, m = Answer(step, today, period, read)
  PROVE  /\ Says(m, next, said) = Answer(next, today, period, said)
         /\ GoesOn(m, next, after, said) = Answer(next, today, after, said)
<1>1. m = [step |-> step, today |-> today, period |-> period, read |-> read]
  BY DEF Answer
<1>2. Says(m, next, said) = [step |-> next, today |-> today, period |-> period, read |-> said]
  BY <1>1, AnswerSays
<1>3. GoesOn(m, next, after, said)
        = [step |-> next, today |-> today, period |-> after, read |-> said]
  BY <1>1, AnswerGoesOn
<1> QED BY <1>2, <1>3 DEF Answer

(* What has been read is a number.                                         *)
LEMMA ReadsAreNumbers ==
  ASSUME NEW t, NEW step, NEW today, NEW period, NEW read,
         GoodReads(t, step, today, period, read), NEW k \in Counted(step, period),
         NEW f \in Figures
  PROVE  read[k][f] \in Nat
<1>1. PICK a \in Nat : \E p, r \in Nat : read[k] = Read(a, p, r)
  BY DEF GoodReads
<1>2. PICK p \in Nat, r \in Nat : read[k] = Read(a, p, r)
  BY <1>1
<1>3. read[k] = [app |-> a, phone |-> p, revenue |-> r]
  BY <1>2 DEF Read
<1> QED BY <1>3 DEF Figures

LEMMA FiguresAreNumbers ==
  ASSUME NEW t, CountedSales(t), NEW f \in Figures, NEW from, NEW to
  PROVE  FigureIn(t, f, from, to) \in Nat
<1>1. GrowsTo(t, t)
  BY DEF GrowsTo
<1> QED BY <1>1, FiguresGrow

LEMMA FiguresOfPanel ==
  \A from, to :
    /\ Cardinality(InChannel(Sold(from, to), "app")) = FigureIn(sales, "app", from, to)
    /\ Cardinality(InChannel(Sold(from, to), "phone")) = FigureIn(sales, "phone", from, to)
    /\ DeliveredRevenue(from, to) = FigureIn(sales, "revenue", from, to)
BY DEF FigureIn, InChannel, ChannelIn, ChannelOf, Sold, SoldIn, DeliveredRevenue, Revenue,
       RevenueIn, DeliveredSales, DeliveredIn

(* Whatever happens to the sales between two reads.                        *)
LEMMA ReadsStayGood ==
  ASSUME NEW t, CountedSales(t), NEW u, CountedSales(u), GrowsTo(t, u),
         NEW m, GoodMetrics(m, t)
  PROVE  GoodMetrics(m, u)
<1> SUFFICES ASSUME NEW step, NEW period, NEW read, NEW today \in Calendar,
                    m = Answer(step, today, period, read), GoodStep(step, period),
                    GoodReads(t, step, today, period, read)
             PROVE  GoodReads(u, step, today, period, read)
  BY DEF GoodMetrics
<1> SUFFICES ASSUME NEW f \in Figures, "today" \in Counted(step, period)
             PROVE  read["today"][f] <= FigureIn(u, f, today, today)
  BY DEF GoodReads
<1>1. /\ FigureIn(t, f, today, today) \in Nat /\ FigureIn(u, f, today, today) \in Nat
      /\ FigureIn(t, f, today, today) <= FigureIn(u, f, today, today)
  BY FiguresGrow
<1>2. read["today"][f] \in Nat
  BY ReadsAreNumbers
<1>3. read["today"][f] <= FigureIn(t, f, today, today)
  BY DEF GoodReads
<1> QED BY <1>1, <1>2, <1>3

LEMMA FirstRead ==
  ASSUME Today \in Calendar, StartMetrics
  PROVE  GoodMetrics(metrics', sales)
<1>1. metrics' = Answer("counts", Today, "today", <<>>)
  BY DEF StartMetrics, Answer
<1>2. GoodStep("counts", "today") /\ Counted("counts", "today") = {}
  BY DEF GoodStep, Counted, Earlier, Periods
<1>3. GoodReads(sales, "counts", Today, "today", <<>>)
  BY <1>2 DEF GoodReads
<1> QED BY <1>1, <1>2, <1>3 DEF GoodMetrics

LEMMA CountsRead ==
  ASSUME CountedSales(sales), GoodMetrics(metrics, sales), CountPeriod
  PROVE  GoodMetrics(metrics', sales)
<1>1. metrics # Waiting
  BY DEF CountPeriod, Waiting
<1>2. PICK step, period, read : \E today \in Calendar :
        /\ metrics = Answer(step, today, period, read)
        /\ GoodStep(step, period) /\ GoodReads(sales, step, today, period, read)
  BY <1>1 DEF GoodMetrics
<1>3. PICK today \in Calendar :
        /\ metrics = Answer(step, today, period, read)
        /\ GoodStep(step, period) /\ GoodReads(sales, step, today, period, read)
  BY <1>2
<1>4. /\ metrics.step = step /\ metrics.today = today
      /\ metrics.period = period /\ metrics.read = read
  BY <1>3, AnswersAre
<1>5. step = "counts" /\ period \in Periods
  BY <1>3, <1>4 DEF CountPeriod, GoodStep
<1>6. PICK from : from = From(period, today)
  OBVIOUS
<1>7. PICK a, p : /\ a = FigureIn(sales, "app", from, today)
                  /\ p = FigureIn(sales, "phone", from, today)
  OBVIOUS
<1>8. PICK now : now = Put(read, period, Read(a, p, 0))
  OBVIOUS
<1>9. metrics' = Answer("revenue", today, period, now)
  <2>1. metrics' = Says(metrics, "revenue", now)
    <3>1. /\ Cardinality(InChannel(Sold(from, today), "app")) = a
          /\ Cardinality(InChannel(Sold(from, today), "phone")) = p
      BY <1>7, FiguresOfPanel
    <3>2. metrics' = [metrics EXCEPT !.step = "revenue",
                        !.read = Put(@, metrics.period,
                          [app |-> Cardinality(InChannel(Sold(from, today), "app")),
                           phone |-> Cardinality(InChannel(Sold(from, today), "phone")),
                           revenue |-> 0])]
      BY <1>4, <1>6 DEF CountPeriod
    <3> QED BY <1>4, <1>8, <3>1, <3>2 DEF Read, Says
  <2> QED BY <1>3, <2>1, AnswersChange
<1>10. /\ DOMAIN now = DOMAIN read \cup {period} /\ now[period] = Read(a, p, 0)
       /\ \A k \in DOMAIN read : k # period => now[k] = read[k]
  BY <1>8 DEF Put
<1>11. /\ Counted("revenue", period) = Counted("counts", period) \cup {period}
       /\ Counted("counts", period) = Earlier(period)
       /\ period \notin Earlier(period)
       /\ period = "today" \/ "today" \in Earlier(period)
  BY <1>5 DEF Counted, Earlier, Periods
<1>12. a \in Nat /\ p \in Nat
  BY <1>7, FiguresAreNumbers DEF Figures
<1>13. GoodReads(sales, "revenue", today, period, now)
  <2>1. \A k \in Counted("revenue", period) :
          k \in DOMAIN now /\ \E x, y, z \in Nat : now[k] = Read(x, y, z)
    BY <1>3, <1>5, <1>10, <1>11, <1>12 DEF GoodReads
  <2>2. ASSUME NEW f \in Figures
        PROVE  now["today"][f] <= FigureIn(sales, f, today, today)
    <3>1. CASE period = "today"
      <4>1. from = today
        BY <1>6, <3>1 DEF From
      <4>2. FigureIn(sales, f, today, today) \in Nat
        BY FiguresAreNumbers
      <4>3. now["today"][f] = IF f = "revenue" THEN 0 ELSE FigureIn(sales, f, today, today)
        BY <1>7, <1>10, <3>1, <4>1 DEF Read, Figures
      <4> QED BY <4>2, <4>3
    <3>2. CASE period # "today"
      BY <1>3, <1>5, <1>10, <1>11, <3>2 DEF GoodReads
    <3> QED BY <3>1, <3>2
  <2>3. ASSUME NEW f \in Figures, NEW k \in Counted("revenue", period) \ {"today"},
               f # "revenue" \/ k \in Earlier(period)
        PROVE  now["today"][f] <= now[k][f]
    <3>1. period # "today" /\ "today" \in Earlier(period)
      BY <1>5, <1>11, <2>3 DEF Earlier
    <3>2. now["today"] = read["today"]
      BY <1>3, <1>5, <1>10, <1>11, <3>1 DEF GoodReads
    <3>3. CASE k # period
      <4>1. k \in Earlier(period) /\ now[k] = read[k]
        BY <1>3, <1>5, <1>10, <1>11, <3>3 DEF GoodReads
      <4> QED BY <1>3, <1>5, <1>11, <2>3, <3>2, <4>1 DEF GoodReads
    <3>4. CASE k = period
      <4>1. f # "revenue"
        BY <1>11, <2>3, <3>4
      <4>2. now[k][f] = FigureIn(sales, f, from, today)
        BY <1>7, <1>10, <3>4, <4>1 DEF Read, Figures
      <4>3. today..today \subseteq from..today
        BY <1>5, <1>6, TodayIsInEveryPeriod DEF Periods
      <4>4. /\ FigureIn(sales, f, today, today) \in Nat /\ FigureIn(sales, f, from, today) \in Nat
            /\ FigureIn(sales, f, today, today) <= FigureIn(sales, f, from, today)
        <5>1. GrowsTo(sales, sales)
          BY DEF GrowsTo
        <5> QED BY <4>3, <5>1, FiguresGrow
      <4>5. now["today"][f] <= FigureIn(sales, f, today, today)
        BY <2>2
      <4>6. now["today"][f] \in Nat
        <5>1. "today" \in Counted("counts", period)
          BY <1>11, <3>1
        <5> QED BY <1>3, <1>5, <3>2, <5>1, ReadsAreNumbers
      <4> QED BY <4>2, <4>4, <4>5, <4>6
    <3> QED BY <3>3, <3>4
  <2> QED BY <2>1, <2>2, <2>3 DEF GoodReads
<1>14. GoodStep("revenue", period)
  BY <1>5 DEF GoodStep
<1> QED BY <1>9, <1>13, <1>14 DEF GoodMetrics

Summed(read, period, revenue) == [read EXCEPT ![period].revenue = revenue]

LEMMA ReadIsSummed ==
  ASSUME NEW read, NEW period \in DOMAIN read, NEW a, NEW p, NEW r, read[period] = Read(a, p, r),
         NEW revenue, NEW now, now = Summed(read, period, revenue)
  PROVE  /\ DOMAIN now = DOMAIN read /\ now[period] = Read(a, p, revenue)
         /\ \A k \in DOMAIN read : k # period => now[k] = read[k]
<1>1. read[period] = [app |-> a, phone |-> p, revenue |-> r]
  BY DEF Read
<1>2. /\ DOMAIN now = DOMAIN read
      /\ \A k \in DOMAIN read : k # period => now[k] = read[k]
  BY DEF Summed
<1>3. now[period] = [read[period] EXCEPT !.revenue = revenue]
  BY DEF Summed
<1>4. now[period] = [app |-> a, phone |-> p, revenue |-> revenue]
  BY <1>1, <1>3
<1> QED BY <1>2, <1>4 DEF Read

LEMMA RevenueRead ==
  ASSUME CountedSales(sales), GoodMetrics(metrics, sales), SumRevenue
  PROVE  GoodMetrics(metrics', sales)
<1>1. metrics # Waiting
  BY DEF SumRevenue, Waiting
<1>2. PICK step, period, read : \E today \in Calendar :
        /\ metrics = Answer(step, today, period, read)
        /\ GoodStep(step, period) /\ GoodReads(sales, step, today, period, read)
  BY <1>1 DEF GoodMetrics
<1>3. PICK today \in Calendar :
        /\ metrics = Answer(step, today, period, read)
        /\ GoodStep(step, period) /\ GoodReads(sales, step, today, period, read)
  BY <1>2
<1>4. /\ metrics.step = step /\ metrics.today = today
      /\ metrics.period = period /\ metrics.read = read
  BY <1>3, AnswersAre
<1>5. step = "revenue" /\ period \in Periods
  BY <1>3, <1>4 DEF SumRevenue, GoodStep
<1>6. PICK from, after, next :
        /\ from = From(period, today) /\ after = PeriodAfter(period)
        /\ next = IF after = "none" THEN "customers" ELSE "counts"
  OBVIOUS
<1>7. PICK v : v = FigureIn(sales, "revenue", from, today)
  OBVIOUS
<1>8. PICK now : now = Summed(read, period, v)
  OBVIOUS
<1>9. metrics' = Answer(next, today, after, now)
  <2>1. metrics' = GoesOn(metrics, next, after, now)
    <3>1. DeliveredRevenue(from, today) = v
      BY <1>7, FiguresOfPanel
    <3>2. metrics' = [metrics EXCEPT !.step = next, !.period = after,
                        !.read[period].revenue = DeliveredRevenue(from, today)]
      BY <1>4, <1>6 DEF SumRevenue
    <3> QED BY <1>4, <1>8, <3>1, <3>2 DEF Summed, GoesOn
  <2> QED BY <1>3, <2>1, AnswersChange
<1>10. Counted("revenue", period) = Earlier(period) \cup {period}
  BY <1>5 DEF Counted
<1>11. PICK a \in Nat, p \in Nat, r \in Nat : period \in DOMAIN read /\ read[period] = Read(a, p, r)
  <2>1. period \in DOMAIN read /\ \E x, y, z \in Nat : read[period] = Read(x, y, z)
    BY <1>3, <1>5, <1>10 DEF GoodReads
  <2> QED BY <2>1
<1>12. /\ DOMAIN now = DOMAIN read /\ now[period] = Read(a, p, v)
       /\ \A k \in DOMAIN read : k # period => now[k] = read[k]
  BY <1>8, <1>11, ReadIsSummed
<1>13. /\ Counted(next, after) = Counted("revenue", period)
       /\ Earlier(after) = Counted("revenue", period)
       /\ period \notin Earlier(period)
       /\ period = "today" => Counted(next, after) = {"today"}
       /\ period = "today" \/ "today" \in Earlier(period)
  BY <1>5, <1>6, <1>10 DEF Counted, Earlier, Periods, PeriodAfter
<1>14. v \in Nat
  BY <1>7, FiguresAreNumbers DEF Figures
<1>15. GoodReads(sales, next, today, after, now)
  <2>1. \A k \in Counted(next, after) :
          k \in DOMAIN now /\ \E x, y, z \in Nat : now[k] = Read(x, y, z)
    BY <1>3, <1>5, <1>11, <1>12, <1>13, <1>14 DEF GoodReads
  <2>2. ASSUME NEW f \in Figures
        PROVE  now["today"][f] <= FigureIn(sales, f, today, today)
    <3>1. read["today"][f] <= FigureIn(sales, f, today, today)
      BY <1>3, <1>5, <1>10, <1>13 DEF GoodReads
    <3>2. CASE period = "today"
      <4>1. from = today
        BY <1>6, <3>2 DEF From
      <4>2. FigureIn(sales, f, today, today) \in Nat
        BY FiguresAreNumbers
      <4>3. now["today"][f] = IF f = "revenue" THEN FigureIn(sales, f, today, today)
                                               ELSE read["today"][f]
        BY <1>7, <1>11, <1>12, <3>2, <4>1 DEF Read, Figures
      <4> QED BY <3>1, <4>2, <4>3
    <3>3. CASE period # "today"
      <4>1. now["today"] = read["today"]
        BY <1>3, <1>5, <1>10, <1>12, <1>13, <3>3 DEF GoodReads
      <4> QED BY <3>1, <4>1
    <3> QED BY <3>2, <3>3
  <2>3. ASSUME NEW f \in Figures, NEW k \in Counted(next, after) \ {"today"}
        PROVE  now["today"][f] <= now[k][f]
    <3>1. period # "today" /\ "today" \in Earlier(period)
      BY <1>13
    <3>2. now["today"] = read["today"] /\ "today" \in Counted("revenue", period)
      BY <1>3, <1>5, <1>10, <1>12, <3>1 DEF GoodReads
    <3>3. ASSUME k # period \/ f # "revenue" PROVE now[k][f] = read[k][f]
      <4>1. k \in DOMAIN read
        BY <1>3, <1>5, <1>13 DEF GoodReads
      <4> QED BY <1>11, <1>12, <3>3, <4>1 DEF Read, Figures
    <3>4. CASE k # period \/ f # "revenue"
      <4>1. k \in Counted("revenue", period) \ {"today"} /\ (f # "revenue" \/ k \in Earlier(period))
        BY <1>10, <1>13, <3>4
      <4>2. read["today"][f] <= read[k][f]
        BY <1>3, <1>5, <4>1 DEF GoodReads
      <4> QED BY <3>2, <3>3, <3>4, <4>2
    <3>5. CASE k = period /\ f = "revenue"
      <4>1. now[k][f] = FigureIn(sales, f, from, today)
        BY <1>7, <1>12, <3>5 DEF Read
      <4>2. today..today \subseteq from..today
        BY <1>5, <1>6, TodayIsInEveryPeriod DEF Periods
      <4>3. /\ FigureIn(sales, f, today, today) \in Nat /\ FigureIn(sales, f, from, today) \in Nat
            /\ FigureIn(sales, f, today, today) <= FigureIn(sales, f, from, today)
        <5>1. GrowsTo(sales, sales)
          BY DEF GrowsTo
        <5> QED BY <4>2, <5>1, FiguresGrow
      <4>4. now["today"][f] <= FigureIn(sales, f, today, today)
        BY <2>2
      <4>5. now["today"][f] \in Nat
        BY <1>3, <1>5, <3>2, ReadsAreNumbers
      <4> QED BY <4>1, <4>3, <4>4, <4>5
    <3> QED BY <3>4, <3>5
  <2> QED BY <2>1, <2>2, <2>3 DEF GoodReads
<1>16. GoodStep(next, after)
  BY <1>5, <1>6 DEF GoodStep, PeriodAfter, Periods
<1> QED BY <1>9, <1>15, <1>16 DEF GoodMetrics

LEMMA CustomersRead ==
  ASSUME GoodMetrics(metrics, sales), CountNewCustomers
  PROVE  GoodMetrics(metrics', sales)
<1>1. metrics # Waiting
  BY DEF CountNewCustomers, Waiting
<1>2. PICK step, period, read : \E today \in Calendar :
        /\ metrics = Answer(step, today, period, read)
        /\ GoodStep(step, period) /\ GoodReads(sales, step, today, period, read)
  BY <1>1 DEF GoodMetrics
<1>3. PICK today \in Calendar :
        /\ metrics = Answer(step, today, period, read)
        /\ GoodStep(step, period) /\ GoodReads(sales, step, today, period, read)
  BY <1>2
<1>4. metrics.step = step /\ metrics.read = read
  BY <1>3, AnswersAre
<1>5. step = "customers" /\ period = "none"
  BY <1>3, <1>4 DEF CountNewCustomers, GoodStep
<1>6. PICK now, n : now = Put(read, "customers", n) /\ metrics' = Says(metrics, "done", now)
  BY <1>4 DEF CountNewCustomers, Says
<1>7. metrics' = Answer("done", today, period, now)
  BY <1>3, <1>6, AnswersChange
<1>8. /\ Counted("done", period) = Counted("customers", period)
      /\ "customers" \notin Counted("done", period)
  BY <1>5 DEF Counted, Earlier, Periods
<1>9. \A k \in DOMAIN read : k # "customers" => k \in DOMAIN now /\ now[k] = read[k]
  BY <1>6 DEF Put
<1>10. GoodReads(sales, "done", today, period, now)
  <2>1. \A k \in Counted("done", period) : k \in DOMAIN read /\ now[k] = read[k] /\ k \in DOMAIN now
    BY <1>3, <1>5, <1>8, <1>9 DEF GoodReads
  <2>2. \A k \in Counted("done", period) : \E a, p, r \in Nat : now[k] = Read(a, p, r)
    BY <1>3, <1>5, <1>8, <2>1 DEF GoodReads
  <2>3. ASSUME NEW f \in Figures, "today" \in Counted("done", period)
        PROVE  now["today"][f] <= FigureIn(sales, f, today, today)
    BY <1>3, <1>5, <1>8, <2>1, <2>3 DEF GoodReads
  <2>4. ASSUME NEW f \in Figures, NEW k \in Counted("done", period) \ {"today"},
               f # "revenue" \/ k \in Earlier(period)
        PROVE  now["today"][f] <= now[k][f]
    <3>1. now["today"] = read["today"] /\ now[k] = read[k]
      BY <1>5, <2>1 DEF Counted, Earlier, Periods
    <3> QED BY <1>3, <1>5, <1>8, <2>4, <3>1 DEF GoodReads
  <2> QED BY <2>1, <2>2, <2>3, <2>4 DEF GoodReads
<1>11. GoodStep("done", period)
  BY <1>5 DEF GoodStep
<1> QED BY <1>7, <1>10, <1>11 DEF GoodMetrics

LEMMA MetricsStep ==
  ASSUME SalesInv, Today \in Calendar, GoodMetrics(metrics, sales), [ReportsNext]_reportVars
  PROVE  GoodMetrics(metrics', sales')
<1>1. CountedSales(sales) /\ CountedSales(sales') /\ GrowsTo(sales, sales')
  BY SalesGrow
<1>2. CASE UNCHANGED metrics
  BY <1>1, <1>2, ReadsStayGood
<1>3. CASE StartMetrics
  BY <1>3, FirstRead DEF StartMetrics
<1>4. CASE CountPeriod
  BY <1>1, <1>4, CountsRead DEF CountPeriod
<1>5. CASE SumRevenue
  BY <1>1, <1>5, RevenueRead DEF SumRevenue
<1>6. CASE CountNewCustomers
  BY <1>6, CustomersRead DEF CountNewCustomers
<1>7. UNCHANGED metrics \/ StartMetrics \/ CountPeriod \/ SumRevenue \/ CountNewCustomers
  BY DEF ReportsNext, Tick, SignUp, Sell, Settle, LinkSale, reportVars
<1> QED BY <1>2, <1>3, <1>4, <1>5, <1>6, <1>7

(* It is always some day of the calendar.                                  *)
LEMMA TodayAtFirst ==
  ASSUME ReportsInit
  PROVE  Today \in Calendar
<1>1. PICK day \in Calendar : \A d \in Calendar : day <= d
  <2>1. Calendar \in SUBSET Nat /\ Calendar # {}
    BY ReportsAssumption
  <2> QED BY <2>1, LeastNumber
<1>2. PICK first : first = Min(Calendar)
  OBVIOUS
<1>3. first \in Calendar
  BY <1>1, <1>2 DEF Min
<1>4. first \in Nat /\ Ticks \in Nat \ {0}
  BY <1>3, ReportsAssumption
<1>5. PICK n \in Nat \ {0} : n = Ticks
  BY <1>4
<1>6. clock = n * first /\ clock \in Int
  BY <1>2, <1>4, <1>5 DEF ReportsInit
<1>7. clock \div n \in Int /\ clock % n \in 0..(n - 1) /\ clock = (clock \div n) * n + (clock % n)
  BY <1>6, DivMod
<1>8. clock \div n = first
  <2>1. 0 \in 0..(n - 1) /\ first * n + 0 = n * first
    BY <1>4, <1>5
  <2>2. PICK q, r : q = clock \div n /\ r = clock % n
    OBVIOUS
  <2>3. q \in Int /\ r \in 0..(n - 1) /\ q * n + r = first * n + 0
    BY <1>6, <1>7, <2>1, <2>2
  <2>4. first \in Int
    BY <1>4
  <2>5. q = first
    BY <2>1, <2>3, <2>4, DivModUnique
  <2> QED BY <2>2, <2>5
<1> QED BY <1>3, <1>5, <1>8 DEF Today, DayOfTick

ReportsInv == SalesInv /\ Today \in Calendar /\ GoodMetrics(metrics, sales)

(* admin-dashboard.service.ts:130 and reports.service.ts:211, 219 and 248: *)
(* however many sales there are and whatever they cost, the figures of     *)
(* today are never more than those of the week or of the month of the same *)
(* answer, the periods and the channels of a report add up to its totals,  *)
(* and the dashboard and the reports say the same of every range.          *)
THEOREM FiguresOfOneShop == Spec => []ReportsAgree
<1>1. Init => ReportsInv
  <2> SUFFICES ASSUME Init PROVE ReportsInv
    OBVIOUS
  <2>1. SalesInv
    BY FS_EmptySet DEF Init, ReportsInit, SalesInv
  <2>2. GoodMetrics(metrics, sales)
    BY DEF Init, ReportsInit, GoodMetrics
  <2>3. Today \in Calendar
    BY TodayAtFirst DEF Init
  <2> QED BY <2>1, <2>2, <2>3 DEF ReportsInv
<1>2. [Next]_backOfficeVars => [ReportsNext]_reportVars
  BY DEF Next, OthersRest, backOfficeVars
<1>3. ReportsInv /\ [Next]_backOfficeVars => ReportsInv'
  <2> SUFFICES ASSUME ReportsInv, [ReportsNext]_reportVars PROVE ReportsInv'
    BY <1>2
  <2>1. SalesInv /\ Today \in Calendar /\ GoodMetrics(metrics, sales)
    BY DEF ReportsInv
  <2>2. SalesInv'
    BY <2>1, SalesStep
  <2>3. GoodMetrics(metrics', sales')
    BY <2>1, MetricsStep
  <2>4. Today' \in Calendar
    <3>1. clock' = clock \/ Tick
      BY DEF ReportsNext, StartMetrics, CountPeriod, SumRevenue, CountNewCustomers, SignUp,
             Sell, Settle, LinkSale, reportVars
    <3> QED BY <2>1, <3>1 DEF Tick, Today, DayOfTick
  <2>5. (GoodMetrics(metrics, sales))'
    BY <2>3 DEF GoodMetrics, GoodReads, GoodStep, FigureIn, RevenueIn, DeliveredIn, ChannelIn,
                SoldIn, DayOfTick
  <2> QED BY <2>2, <2>4, <2>5 DEF ReportsInv
<1>4. ReportsInv => ReportsAgree
  <2> SUFFICES ASSUME ReportsInv PROVE ReportsAgree
    OBVIOUS
  <2>1. SalesInv /\ GoodMetrics(metrics, sales)
    BY DEF ReportsInv
  <2>2. SummaryAddsUp /\ PanelsAgree
    BY <2>1, SummariesAddUp, PanelsSayTheSame
  <2>3. MetricsNest
    <3> SUFFICES ASSUME metrics.step = "done", NEW k \in {"week", "month"}, NEW f \in Figures
                 PROVE  metrics.read["today"][f] <= metrics.read[k][f]
      BY DEF MetricsNest, Figures
    <3>1. metrics # Waiting
      BY DEF Waiting
    <3>2. PICK step, period, said : \E today \in Calendar :
            /\ metrics = Answer(step, today, period, said)
            /\ GoodStep(step, period) /\ GoodReads(sales, step, today, period, said)
      BY <2>1, <3>1 DEF GoodMetrics
    <3>3. PICK today \in Calendar :
            /\ metrics = Answer(step, today, period, said)
            /\ GoodStep(step, period) /\ GoodReads(sales, step, today, period, said)
      BY <3>2
    <3>4. metrics.step = step /\ metrics.read = said
      BY <3>3, AnswersAre
    <3>5. step = "done" /\ period = "none"
      BY <3>3, <3>4 DEF GoodStep
    <3>6. k \in Counted(step, period) \ {"today"} /\ k \in Earlier(period)
      BY <3>5 DEF Counted, Earlier, Periods
    <3>7. said["today"][f] <= said[k][f]
      BY <3>3, <3>6 DEF GoodReads
    <3> QED BY <3>4, <3>7
  <2> QED BY <2>2, <2>3 DEF ReportsAgree
<1> QED BY <1>1, <1>3, <1>4, PTL DEF Spec

=============================================================================
