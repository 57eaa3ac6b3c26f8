-------------------------- MODULE OrdersRefinement --------------------------
(***************************************************************************)
(* Orders implements OrderBook: the book is the committed content of the   *)
(* tables; locks, local values, the clock and the outbox are forgotten.    *)
(***************************************************************************)
EXTENDS Orders

BookOf == [o \in OrderIds |->
             [status |-> orders[o].status, userId |-> orders[o].userId,
              confirmed |-> orders[o].whatsappSentAt,
              coupon |-> orders[o].coupon, rewards |-> orders[o].rewards]]

CouponsOf == [c \in CouponIds |->
                [owner |-> coupons[c].owner, order |-> coupons[c].order,
                 status |-> coupons[c].status]]

RewardsOf == [r \in RewardIds |->
                [owner |-> rewards[r].owner, order |-> rewards[r].order]]

Book == INSTANCE OrderBook WITH
  book <- BookOf, coupon <- CouponsOf, reward <- RewardsOf

(* Every step of the handlers takes effect as one step of the book or as   *)
(* none: each transaction of orders.service.ts behaves as if it ran alone  *)
(* at the instant of its COMMIT.  This is Book!Spec, written so that TLC   *)
(* looks for stuttering, which most steps are, before it tries Book!Next.  *)
ImplementsBook ==
  Book!Init /\ [][UNCHANGED Book!vars \/ Book!Next]_(Book!vars)

=============================================================================
