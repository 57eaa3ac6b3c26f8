------------------------------- MODULE Coupons -------------------------------
(***************************************************************************)
(* The coupons table and what coupons.service.ts does to it.               *)
(*                                                                         *)
(* expiresAt is the flag past: "the clock is beyond expiresAt".            *)
(* createdAt is cut: the orders created no later than the coupon, which is *)
(* all that the comparison order.createdAt > since tells apart.  paid is a *)
(* history value: the orders whose totals earned an automatic coupon.      *)
(* Code, discount and minimum purchase are left out: a rejected minimum is *)
(* a request that fails (Fail in Orders).                                  *)
(***************************************************************************)
EXTENDS RowLocks

CONSTANT InitialCoupons   \* coupons granted before the modelled period

VARIABLE coupons

CouponStatus == {"none", "active", "used", "expired"}
CouponOrigin == {"auto", "manual"}

Coupon == [status : CouponStatus,
           owner  : Users \cup {None},
           origin : CouponOrigin,
           past   : BOOLEAN,
           order  : OrderIds \cup {None},
           cut    : SUBSET OrderIds,
           paid   : SUBSET OrderIds]

NoCoupon == [status |-> "none", owner |-> None, origin |-> "manual",
             past |-> FALSE, order |-> None, cut |-> {}, paid |-> {}]

NewCoupon(u, origin, cut, paid) ==
  [NoCoupon EXCEPT !.status = "active", !.owner = u, !.origin = origin,
                   !.cut = cut, !.paid = paid]

FreeCoupons == {c \in CouponIds : coupons[c].status = "none"}

(* assertUsable: the coupon is the caller's, unused and not expired.       *)
AssertUsable(c, u) ==
  /\ coupons[c].owner = u
  /\ coupons[c].status \notin {"none", "used", "expired"}
  /\ ~coupons[c].past

(* markUsed, on table t.                                                   *)
MarkCouponUsed(t, c, o) ==
  [t EXCEPT ![c].status = "used", ![c].order = o]

CouponsUsedIn(o) == {c \in CouponIds : coupons[c].order = o}

(* reactivateForCancelledOrder: status active again, usedInOrderId null,   *)
(* expiresAt untouched.                                                    *)
ReactivateCouponsOf(o) ==
  [c \in CouponIds |->
     IF coupons[c].order = o
     THEN [coupons[c] EXCEPT !.status = "active", !.order = None]
     ELSE coupons[c]]

(* checkAndGenerateForUser, first query: an automatic coupon that is       *)
(* active and still valid.                                                 *)
HasActiveAutoCoupon(u) ==
  \E c \in CouponIds :
    /\ coupons[c].owner = u
    /\ coupons[c].status = "active"
    /\ coupons[c].origin = "auto"
    /\ ~coupons[c].past

(* since = createdAt of the user's last coupon of any origin: the orders   *)
(* created no later are those in the cut of some coupon of hers.           *)
CreatedSince(u, o) ==
  \A c \in CouponIds : coupons[c].owner = u => o \notin coupons[c].cut

(* The daily UPDATE's rows: active and beyond expiresAt.                   *)
LapsedCoupons == {c \in CouponIds : coupons[c].status = "active" /\ coupons[c].past}

ExpireCoupons(C) ==
  [c \in CouponIds |-> IF c \in C THEN [coupons[c] EXCEPT !.status = "expired"]
                                  ELSE coupons[c]]

=============================================================================
