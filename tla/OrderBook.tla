------------------------------ MODULE OrderBook ------------------------------
(***************************************************************************)
(* What the orders API promises, without handlers, locks or statements:    *)
(* every request takes effect at one instant, judged against the book as   *)
(* it is at that instant.  Orders implements this (OrdersRefinement).      *)
(***************************************************************************)
EXTENDS Naturals

CONSTANTS Users, OrderIds, CouponIds, RewardIds, Procs, None

VARIABLES
  book,      \* order -> status, customer, confirmation, what it redeemed
  spent,     \* customer -> order -> how often its total was added to her
  coupon,    \* coupon -> owner, status, order it is used in
  reward     \* reward -> owner, order it is used in

vars == <<book, spent, coupon, reward>>

OrderStatus == {"pendiente", "confirmado", "en_camino", "entregado", "cancelado"}

Entry == [status    : OrderStatus \cup {"none"},
          userId    : Users \cup {None},
          confirmed : Procs \cup {None},
          coupon    : CouponIds \cup {None},
          rewards   : SUBSET RewardIds]

Absent == [status |-> "none", userId |-> None, confirmed |-> None,
           coupon |-> None, rewards |-> {}]

CouponEntry == [owner : Users \cup {None}, order : OrderIds \cup {None},
                status : {"none", "active", "used", "expired"}]

RewardEntry == [owner : Users \cup {None}, order : OrderIds \cup {None}]

Standing(o) == book[o].status \in OrderStatus \ {"cancelado"}

Init ==
  /\ book = [o \in OrderIds |-> Absent]
  /\ spent = [u \in Users |-> [o \in OrderIds |-> 0]]
  /\ coupon \in [CouponIds -> {e \in CouponEntry :
                                 e.status \in {"none", "active"} /\ e.order = None}]
  /\ reward \in [RewardIds -> {e \in RewardEntry : e.order = None}]

(* A checkout: everything it redeems is the customer's and unused.         *)
Place(o, u, c, R) ==
  /\ book[o].status = "none"
  /\ c # None => /\ u # None
                 /\ coupon[c].owner = u
                 /\ coupon[c].status = "active"
  /\ \A r \in R : /\ u # None
                  /\ reward[r].owner = u
                  /\ reward[r].order = None
  /\ book' = [book EXCEPT ![o] =
       [status |-> "pendiente", userId |-> u, confirmed |-> None,
        coupon |-> c, rewards |-> R]]
  /\ coupon' = [d \in CouponIds |->
       IF d = c THEN [coupon[d] EXCEPT !.status = "used", !.order = o]
                ELSE coupon[d]]
  /\ reward' = [r \in RewardIds |->
       IF r \in R THEN [reward[r] EXCEPT !.order = o] ELSE reward[r]]
  /\ UNCHANGED spent

Advance(o) ==
  /\ \/ /\ book[o].status = "pendiente"
        /\ book' = [book EXCEPT ![o].status = "confirmado"]
     \/ /\ book[o].status = "confirmado"
        /\ book' = [book EXCEPT ![o].status = "en_camino"]
  /\ UNCHANGED <<spent, coupon, reward>>

Deliver(o) ==
  /\ book[o].status = "en_camino"
  /\ book' = [book EXCEPT ![o].status = "entregado"]
  /\ spent' = [u \in Users |-> [x \in OrderIds |->
       IF x = o /\ book[o].userId = u THEN spent[u][x] + 1 ELSE spent[u][x]]]
  /\ UNCHANGED <<coupon, reward>>

(* A cancellation gives back what the order redeemed.                      *)
Cancel(o) ==
  /\ book[o].status \in {"pendiente", "confirmado", "en_camino"}
  /\ book' = [book EXCEPT ![o].status = "cancelado"]
  /\ coupon' = [c \in CouponIds |->
       IF coupon[c].order = o
       THEN [coupon[c] EXCEPT !.status = "active", !.order = None] ELSE coupon[c]]
  /\ reward' = [r \in RewardIds |->
       IF reward[r].order = o THEN [reward[r] EXCEPT !.order = None]
                              ELSE reward[r]]
  /\ UNCHANGED spent

ConfirmWhatsapp(o, p) ==
  /\ Standing(o)
  /\ book[o].confirmed = None
  /\ book' = [book EXCEPT ![o].confirmed = p]
  /\ UNCHANGED <<spent, coupon, reward>>

(* All or nothing: every order is anonymous, and the delivered ones are    *)
(* added to the customer's spending once.                                  *)
Link(u, ids) ==
  /\ \A o \in ids : book[o].status # "none" /\ book[o].userId = None
  /\ book' = [o \in OrderIds |->
       IF o \in ids THEN [book[o] EXCEPT !.userId = u] ELSE book[o]]
  /\ spent' = [spent EXCEPT ![u] = [o \in OrderIds |->
       IF o \in ids /\ book[o].status = "entregado" THEN spent[u][o] + 1
                                                    ELSE spent[u][o]]]
  /\ UNCHANGED <<coupon, reward>>

(* A coupon or rewards are granted; unused coupons expire.                 *)
GrantCoupon(c, u) ==
  /\ coupon[c].status = "none"
  /\ coupon' = [coupon EXCEPT ![c] = [owner |-> u, status |-> "active",
                                      order |-> None]]
  /\ UNCHANGED <<book, spent, reward>>

GrantRewards(R, u) ==
  /\ \A r \in R : reward[r].owner = None /\ reward[r].order = None
  /\ reward' = [r \in RewardIds |->
       IF r \in R THEN [owner |-> u, order |-> None] ELSE reward[r]]
  /\ UNCHANGED <<book, spent, coupon>>

ExpireCoupons(C) ==
  /\ \A c \in C : coupon[c].status = "active"
  /\ coupon' = [c \in CouponIds |->
       IF c \in C THEN [coupon[c] EXCEPT !.status = "expired"] ELSE coupon[c]]
  /\ UNCHANGED <<book, spent, reward>>

Next ==
  \/ \E o \in OrderIds :
       \/ \E u \in Users \cup {None}, c \in CouponIds \cup {None},
            R \in SUBSET RewardIds : Place(o, u, c, R)
       \/ Advance(o) \/ Deliver(o) \/ Cancel(o)
       \/ \E p \in Procs : ConfirmWhatsapp(o, p)
  \/ \E u \in Users :
       \/ \E ids \in SUBSET OrderIds : Link(u, ids)
       \/ \E c \in CouponIds : GrantCoupon(c, u)
       \/ \E R \in SUBSET RewardIds : GrantRewards(R, u)
  \/ \E C \in SUBSET CouponIds : ExpireCoupons(C)

Spec == Init /\ [][Next]_vars

(***************************************************************************)
(* Properties of the promise itself.                                       *)
(***************************************************************************)
BookTypeOK ==
  /\ book \in [OrderIds -> Entry]
  /\ spent \in [Users -> [OrderIds -> Nat]]
  /\ coupon \in [CouponIds -> CouponEntry]
  /\ reward \in [RewardIds -> RewardEntry]

(* Each delivered order is in its customer's totalSpent once; nothing else *)
(* is (updateStatus, linkAnonymousOrders).                                 *)
BookSpentIsDelivered ==
  \A u \in Users, o \in OrderIds :
    spent[u][o] = IF book[o].status = "entregado" /\ book[o].userId = u
                  THEN 1 ELSE 0

(* A benefit is used in an order exactly when that order stands and        *)
(* redeemed it (markUsed, reactivateForCancelledOrder).                    *)
BookBenefitPaysOnce ==
  \A o \in OrderIds :
    /\ \A c \in CouponIds :
         coupon[c].order = o <=> Standing(o) /\ book[o].coupon = c
    /\ \A r \in RewardIds :
         reward[r].order = o <=> Standing(o) /\ r \in book[o].rewards

(* Only used coupons are used in an order.                                 *)
BookUsedStatus ==
  \A c \in CouponIds : coupon[c].status = "used" <=> coupon[c].order # None

BookInv == /\ BookTypeOK
           /\ BookSpentIsDelivered
           /\ BookBenefitPaysOnce
           /\ BookUsedStatus

=============================================================================
