------------------------------- MODULE Rewards -------------------------------
(***************************************************************************)
(* reward_redemptions and what rewards.service.ts does to it.              *)
(*                                                                         *)
(* Time is the calendar month in Lima.  earnedAt falls in month earned,    *)
(* expiresAt is the last instant of that month, so a reward has expired    *)
(* when the clock shows a later month.  usedAt and usedInOrderId are set   *)
(* and cleared together: order.  backing is a history value: the month     *)
(* whose stars justified the reward.                                       *)
(***************************************************************************)
EXTENDS RowLocks, Naturals

CONSTANTS
  Milestones,       \* starsRequired of the configured milestones
  MaxMonth,         \* bound: last month the clock reaches
  InitialRewards    \* rewards granted before the modelled period

ASSUME RewardsAssumption ==
  /\ Milestones \subseteq Nat
  /\ MaxMonth \in Nat \ {0}
  /\ RewardIds \subseteq Nat

VARIABLES rewards, month

Months == 1..MaxMonth

Reward == [owner     : Users \cup {None},
           milestone : Milestones \cup {0},
           earned    : 0..MaxMonth,
           backing   : 0..MaxMonth,
           order     : OrderIds \cup {None}]

NoReward == [owner |-> None, milestone |-> 0, earned |-> 0, backing |-> 0,
             order |-> None]

FreeRewards == {r \in RewardIds : rewards[r].owner = None}

(* validateForOrder: owner, unused, not expired.  That the chosen product  *)
(* is in the right catalogue is left to Fail in Orders.                    *)
ValidReward(r, u) ==
  /\ rewards[r].owner = u
  /\ rewards[r].order = None
  /\ month <= rewards[r].earned

(* markUsed, for every claim of the order.                                 *)
MarkRewardsUsed(R, o) ==
  [r \in RewardIds |-> IF r \in R THEN [rewards[r] EXCEPT !.order = o]
                                  ELSE rewards[r]]

RewardsUsedIn(o) == {r \in RewardIds : rewards[r].order = o}

(* reactivateForCancelledOrder.                                            *)
ReactivateRewardsOf(o) ==
  [r \in RewardIds |->
     IF rewards[r].order = o THEN [rewards[r] EXCEPT !.order = None]
                             ELSE rewards[r]]

(* Milestones user u has been granted in month m.                          *)
GrantedIn(u, m) ==
  {rewards[r].milestone : r \in {x \in RewardIds : rewards[x].owner = u
                                                   /\ rewards[x].earned = m}}

(* recalculateForUser's INSERT: one row per milestone, at free ids, earned *)
(* in the month the clock shows at that moment.                            *)
GrantRewards(u, slot, backing) ==
  [r \in RewardIds |->
     IF \E s \in DOMAIN slot : slot[s] = r
     THEN [owner |-> u, milestone |-> CHOOSE s \in DOMAIN slot : slot[s] = r,
           earned |-> month, backing |-> backing, order |-> None]
     ELSE rewards[r]]

=============================================================================
