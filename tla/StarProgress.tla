---------------------------- MODULE StarProgress -----------------------------
(***************************************************************************)
(* reward-milestones.service.ts and getProgress() of rewards.service.ts:   *)
(* what a customer can win with the stars of a month, and what is shown.   *)
(* One customer and one month: Orders has the others.                      *)
(***************************************************************************)
EXTENDS Handlers

CONSTANTS
  MilestoneIds, \* bound: milestones ever created
  Thresholds,   \* values of starsRequired
  Multiplier,   \* of every promotion
  MaxOrders     \* bound: orders delivered, of one star each

VARIABLES
  promoted,     \* dates with an active promotion
  milestones,   \* the table reward_milestones: id -> starsRequired
  delivered,    \* orders delivered this month: sequence of their dates
  granted,      \* thresholds of the customer's rewards of the month
  disturbed,    \* history: handlers during which something else changed
  shown,        \* what the last getProgress() has answered
  progressHandlers

progressTables == <<promoted, milestones, delivered, granted>>
progressVars == <<progressTables, disturbed, shown, progressHandlers>>

ProgressInit ==
  /\ promoted = {} /\ milestones = <<>>
  /\ delivered = <<>> /\ granted = {} /\ disturbed = {}
  /\ shown = [reached |-> {}, rewards |-> {}, sound |-> TRUE]
  /\ progressHandlers = [p \in Handlers |-> Waiting]

ProgressGo(p, to) == progressHandlers' = Goes(progressHandlers, p, to)
ProgressAt(p, step) == At(progressHandlers, p, step)
ProgressEnd(p) == progressHandlers' = Ends(progressHandlers, p)
Disturb == disturbed' = Handlers

(***************************************************************************)
(* Milestones: no lock; starsRequired is UNIQUE.                           *)
(***************************************************************************)
StartMilestone(p, id, kind, stars) ==
  /\ ProgressAt(p, "waiting")
  /\ IF kind = "create" THEN id = None ELSE id \in DOMAIN milestones
  /\ kind = "remove" <=> stars = None
  /\ ProgressGo(p, [step |-> kind, id |-> id, stars |-> stars])
  /\ UNCHANGED <<progressTables, disturbed, shown>>

(* save(): an INSERT if the row has been removed meanwhile.                *)
SaveMilestone(p) ==
  LET h == progressHandlers[p] IN
  /\ progressHandlers[p].step \in {"create", "update"}
  /\ \E id \in Saves(h.id, MilestoneIds, milestones) :
       milestones' = IF \E i \in DOMAIN milestones \ {id} : milestones[i] = h.stars
                     THEN milestones ELSE Put(milestones, id, h.stars)
  /\ ProgressEnd(p)
  /\ Disturb
  /\ UNCHANGED <<promoted, delivered, granted, shown>>

RemoveMilestone(p) ==
  /\ ProgressAt(p, "remove")
  /\ milestones' = Without(milestones, progressHandlers[p].id)
  /\ ProgressEnd(p)
  /\ Disturb
  /\ UNCHANGED <<promoted, delivered, granted, shown>>

(***************************************************************************)
(* Stars and progress.                                                     *)
(***************************************************************************)
MultiplierForDate(day) == IF day \in promoted THEN Multiplier ELSE 1

(* monthlyStats(), in stars: one order is worth one, or its multiple.      *)
MonthlyStars ==
  LET stars[n \in 0..Len(delivered)] ==
        IF n = 0 THEN 0 ELSE stars[n - 1] + MultiplierForDate(delivered[n])
  IN stars[Len(delivered)]

Reached(stars) == {milestones[i] : i \in {j \in DOMAIN milestones : milestones[j] <= stars}}

Deliver(day) ==
  /\ Len(delivered) < MaxOrders
  /\ delivered' = Append(delivered, day)
  /\ Disturb
  /\ UNCHANGED <<promoted, milestones, granted, shown, progressHandlers>>

(* The admin gives a date a promotion, or takes it away (Promotions).      *)
Promote(day) ==
  /\ promoted' = IF day \in promoted THEN promoted \ {day} ELSE promoted \cup {day}
  /\ Disturb
  /\ UNCHANGED <<milestones, delivered, granted, shown, progressHandlers>>

(* Mutant: the reward of the milestone just reached is not granted yet.    *)
RecalculateLate(p) ==
  /\ ProgressAt(p, "waiting")
  /\ granted' = granted \cup {t \in Reached(MonthlyStars) : t < MonthlyStars}
  /\ disturbed' = disturbed \ {p}
  /\ ProgressGo(p, [step |-> "milestones"])
  /\ UNCHANGED <<promoted, milestones, delivered, shown>>

(* getProgress() begins with recalculateForUser(), under the user's lock.  *)
Recalculate(p) ==
  /\ ProgressAt(p, "waiting")
  /\ granted' = granted \cup Reached(MonthlyStars)
  /\ disturbed' = disturbed \ {p}
  /\ ProgressGo(p, [step |-> "milestones"])
  /\ UNCHANGED <<promoted, milestones, delivered, shown>>

ReadMilestones(p) ==
  /\ ProgressAt(p, "milestones")
  /\ ProgressGo(p, [step |-> "stats", milestones |-> milestones])
  /\ UNCHANGED <<progressTables, disturbed, shown>>

ReadStats(p) ==
  LET hitos == progressHandlers[p].milestones IN
  /\ ProgressAt(p, "stats")
  /\ ProgressGo(p, [step |-> "rewards",
                 reached |-> {hitos[i] : i \in {j \in DOMAIN hitos : hitos[j] <= MonthlyStars}}])
  /\ UNCHANGED <<progressTables, disturbed, shown>>

ShowProgress(p) ==
  /\ ProgressAt(p, "rewards")
  /\ shown' = [reached |-> progressHandlers[p].reached, rewards |-> granted,
               sound |-> p \notin disturbed]
  /\ ProgressEnd(p)
  /\ UNCHANGED <<progressTables, disturbed>>

ProgressNext ==
  \/ \E p \in Handlers :
       \/ \E id \in MilestoneIds \cup {None}, kind \in {"create", "update", "remove"},
             stars \in Thresholds \cup {None} : StartMilestone(p, id, kind, stars)
       \/ SaveMilestone(p) \/ RemoveMilestone(p)
       \/ Recalculate(p) \/ ReadMilestones(p) \/ ReadStats(p) \/ ShowProgress(p)
  \/ \E day \in Days : Deliver(day) \/ Promote(day)

(***************************************************************************)
(* Property.                                                               *)
(***************************************************************************)
(* rewards.service.ts:94: a milestone that the app shows as reached has its*)
(* reward, unless something changed while the progress was being read.     *)
ProgressIsAligned == shown.sound => shown.reached \subseteq shown.rewards

=============================================================================
