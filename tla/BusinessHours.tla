---------------------------- MODULE BusinessHours ----------------------------
(***************************************************************************)
(* isOpenNow() and getNextChangeAt() of settings.service.ts, with the dates*)
(* of lima-time.util.ts.  Instants are counted from the beginning of a week*)
(* in UTC; the wall clock of Lima is behind by LimaOffset.                 *)
(***************************************************************************)
EXTENDS Integers

CONSTANTS
  Week,         \* days of a week: 7
  Day,          \* ticks of a day: 1440
  LimaOffset,   \* ticks: 300
  NoChange      \* null

ASSUME BusinessHoursAssumption ==
  /\ Week \in Nat \ {0} /\ Day \in Nat \ {0} /\ LimaOffset \in 0..Day
  /\ NoChange \notin Int

VARIABLES
  schedule,     \* the setting business_hours_schedule
  closedByHand, \* the setting business_manual_closed
  answer        \* what the app has last been told, and when

hoursVars == <<schedule, closedByHand, answer>>

Times == 0..(Day - 1)
DaySchedule == [closed : BOOLEAN, open : Times, close : Times]
Unasked == [at |-> 0, open |-> FALSE, next |-> NoChange, asked |-> FALSE]

(* Any schedule that validateCriticalSetting() accepts; a day that is      *)
(* closed has hours as well, which are not looked at.                      *)
HoursInit ==
  /\ schedule \in [0..(Week - 1) ->
                     {d \in DaySchedule : d.closed => d.open = 0 /\ d.close = 0}]
  /\ closedByHand = FALSE
  /\ answer = Unasked

(***************************************************************************)
(* The wall clock of Lima.                                                 *)
(***************************************************************************)
WallClock(t) == t + Week * Day - LimaOffset
DayOf(t) == WallClock(t) \div Day
MinutesInLima(t) == WallClock(t) % Day
LimaInstant(day, time) == day * Day + time - Week * Day + LimaOffset

Entry(day) == schedule[day % Week]

CrossesMidnight(entry) == entry.open >= entry.close

IsOpenToday(entry, time) ==
  /\ ~entry.closed
  /\ entry.open <= time
  /\ CrossesMidnight(entry) \/ time < entry.close

(* Mutant: the hours after midnight are forgotten.                         *)
NothingCarriedOver(entry, time) == FALSE

IsCarriedOver(entry, time) ==
  ~entry.closed /\ CrossesMidnight(entry) /\ time < entry.close

EvaluateSchedule(t) ==
  \/ IsOpenToday(Entry(DayOf(t)), MinutesInLima(t))
  \/ IsCarriedOver(Entry(DayOf(t) + Week - 1), MinutesInLima(t))

IsOpenNow(t) == ~closedByHand /\ EvaluateSchedule(t)

(* Closed: today's opening if it is to come, or that of another day.       *)
NextOpening(day, time) ==
  LET open == {n \in 0..Week : ~Entry(day + n).closed /\ (n = 0 => time < Entry(day).open)}
  IN IF open = {} THEN NoChange
     ELSE LET n == CHOOSE n \in open : \A k \in open : n <= k
          IN LimaInstant(day + n, Entry(day + n).open)

GetNextChangeAt(t) ==
  LET day == DayOf(t)
      time == MinutesInLima(t)
      today == Entry(day)
      yesterday == Entry(day + Week - 1) IN
  CASE closedByHand -> NoChange
    [] ~closedByHand /\ IsOpenToday(today, time) ->
         LimaInstant(IF CrossesMidnight(today) THEN day + 1 ELSE day, today.close)
    [] ~closedByHand /\ ~IsOpenToday(today, time) /\ IsCarriedOver(yesterday, time) ->
         LimaInstant(day, yesterday.close)
    [] OTHER -> NextOpening(day, time)

(***************************************************************************)
(* The app asks at any time; the admin closes and opens by hand.           *)
(***************************************************************************)
(* Its reads are one: a closing that comes between them is told by a push. *)
Ask(t) ==
  /\ answer' = [at |-> t, open |-> IsOpenNow(t), next |-> GetNextChangeAt(t),
                asked |-> TRUE]
  /\ UNCHANGED <<schedule, closedByHand>>

CloseByHand ==
  /\ closedByHand' = ~closedByHand
  /\ answer' = Unasked
  /\ UNCHANGED schedule

HoursNext == CloseByHand \/ \E t \in 0..(Week * Day - 1) : Ask(t)

(***************************************************************************)
(* Properties, against the ranges of instants that the schedule means.     *)
(***************************************************************************)
(* The hours of one day, which end the next one if they cross midnight: of *)
(* the days from before the first in Lima to a week after the last.        *)
OpenAt(t) ==
  /\ ~closedByHand
  /\ \E day \in -2..(2 * Week) :
       LET entry == schedule[(day + Week) % Week]
           begin == day * Day + LimaOffset IN
       /\ ~entry.closed
       /\ begin + entry.open <= t
       /\ t < begin + entry.close + (IF CrossesMidnight(entry) THEN Day ELSE 0)

(* settings.service.ts:666: the shop is open in the hours of the day and,  *)
(* past midnight, in those that are left of the day before, unless it has  *)
(* been closed by hand.                                                    *)
OpenInItsHours == answer.asked => (answer.open <=> OpenAt(answer.at))

(* settings.service.ts:687: an app that sleeps until the next change misses*)
(* none, and one that is told of none misses none in a week.               *)
NothingChangesBefore ==
  answer.asked =>
    \A t \in answer.at..(answer.at + Week * Day) :
      answer.next = NoChange \/ t < answer.next => (OpenAt(t) <=> answer.open)

(* settings.service.ts:694: the app that is told whether the shop is open, *)
(* and when to ask again, knows at every instant whether it is.            *)
AppKnowsTheHours == OpenInItsHours /\ NothingChangesBefore

=============================================================================
