------------------------------ MODULE MCOrders ------------------------------
(***************************************************************************)
(* Values of Orders' constants for TLC.                                    *)
(***************************************************************************)
EXTENDS OrdersRefinement, TLC

OnePhone == CHOOSE ph \in Phones : TRUE
SamePhone == [u \in Users |-> OnePhone]

(* An order a customer places in the app, with nothing to redeem, and one  *)
(* an administrator takes by telephone from somebody not registered.       *)
PlainCart(u) == [NoCart EXCEPT !.userId = u]
PhoneCart == [NoCart EXCEPT !.customerPhone = OnePhone]
PhoneCarts == {PhoneCart}
PlainCarts == {PlainCart(u) : u \in Users}

NoCoupons == [c \in CouponIds |-> NoCoupon]
NoRewards == [r \in RewardIds |-> NoReward]

(* Customers with an unused coupon each, and with all rewards.             *)
ManualCoupons ==
  [c \in CouponIds |->
     [NoCoupon EXCEPT !.status = "active", !.owner = CHOOSE u \in Users : TRUE]]

EarnedRewards ==
  [r \in RewardIds |->
     [NoReward EXCEPT !.owner = CHOOSE u \in Users : TRUE,
                      !.milestone = r, !.earned = 1, !.backing = 1]]

(* One of each, the other rows still free.  The reward is for the highest  *)
(* milestone: the lower ones were added after it was earned.               *)
OneCoupon == [c \in CouponIds |-> IF c = CHOOSE d \in CouponIds : TRUE
                                  THEN ManualCoupons[c] ELSE NoCoupon]
OneReward == [r \in RewardIds |-> IF \A s \in RewardIds : s <= r
                                  THEN EarnedRewards[r] ELSE NoReward]

(* Telephone orders, and checkouts that redeem everything there is at the  *)
(* start.                                                                  *)
RedeemingCart(u) ==
  [NoCart EXCEPT !.userId = u,
                 !.coupon = CHOOSE c \in CouponIds :
                              InitialCoupons[c].status = "active",
                 !.rewards = {r \in RewardIds : InitialRewards[r].owner # None}]
RedeemingCarts == {PhoneCart} \cup {RedeemingCart(u) : u \in Users}

(* Only what customers redeem: everything, or the rewards alone.           *)
OwnCarts == {RedeemingCart(u) : u \in Users}
BenefitCarts == OwnCarts \cup
  {[RedeemingCart(u) EXCEPT !.coupon = None] : u \in Users}

(* An unused automatic coupon, and the other rows free.                    *)
AutoCoupon == [c \in CouponIds |-> [OneCoupon[c] EXCEPT !.origin =
                 IF OneCoupon[c].status = "active" THEN "auto" ELSE @]]
CouponCarts == {[NoCart EXCEPT !.userId = u, !.coupon = c] :
                  u \in Users, c \in {None, CHOOSE d \in CouponIds : TRUE}}

Symmetry == Permutations(Procs) \cup Permutations(OrderIds)
LinkSymmetry == Symmetry \cup Permutations(Users)
CouponSymmetry == Symmetry \cup Permutations(CouponIds)

=============================================================================
