-------------------------- MODULE OrderBook_proofs --------------------------
(***************************************************************************)
(* The promise keeps its own books: BookInv is an inductive invariant of   *)
(* OrderBook.                                                              *)
(***************************************************************************)
EXTENDS OrderBook, TLAPS

(* null is nobody's id.                                                    *)
NoneIsNull == None \notin Users \cup OrderIds \cup CouponIds \cup RewardIds

(* The empty book is in order.                                             *)
LEMMA BookInit == ASSUME NoneIsNull PROVE Init => BookInv
  BY DEF NoneIsNull, Init, BookInv, BookTypeOK, BookSpentIsDelivered,
         BookBenefitPaysOnce, BookUsedStatus, Standing, Absent, Entry,
         OrderStatus, CouponEntry, RewardEntry

(* Using or giving back a benefit leaves it a benefit.                     *)
LEMMA CouponStaysTyped ==
  ASSUME NEW e \in CouponEntry, NEW o \in OrderIds \cup {None},
         NEW s \in {"none", "active", "used", "expired"}
  PROVE  /\ [e EXCEPT !.status = s, !.order = o] \in CouponEntry
         /\ [e EXCEPT !.status = s] \in CouponEntry
  BY DEF CouponEntry

LEMMA RewardStaysTyped ==
  ASSUME NEW e \in RewardEntry, NEW o \in OrderIds \cup {None}
  PROVE  [e EXCEPT !.order = o] \in RewardEntry
  BY DEF RewardEntry

(* A new status leaves an entry an entry.                                  *)
LEMMA StatusStaysTyped ==
  ASSUME BookTypeOK, NEW o \in OrderIds, NEW s \in OrderStatus,
         book' = [book EXCEPT ![o].status = s]
  PROVE  book' \in [OrderIds -> Entry]
<1> DEFINE e == [book[o] EXCEPT !.status = s]
<1>1. book[o] \in Entry
  BY DEF BookTypeOK
<1>2. e \in Entry
  BY <1>1 DEF Entry
<1>3. book' = [book EXCEPT ![o] = e]
  OBVIOUS
<1> HIDE DEF e
<1> QED BY <1>2, <1>3 DEF BookTypeOK

(* A checkout keeps the book in order.                                     *)
LEMMA PlaceKeeps ==
  ASSUME NoneIsNull, BookInv,
         NEW o \in OrderIds, NEW u \in Users \cup {None},
         NEW c \in CouponIds \cup {None}, NEW R \in SUBSET RewardIds,
         Place(o, u, c, R)
  PROVE  BookInv'
<1> DEFINE e == [status |-> "pendiente", userId |-> u, confirmed |-> None,
                 coupon |-> c, rewards |-> R]
<1>1. BookTypeOK
  BY DEF BookInv
<1>2. BookTypeOK'
  <2>1. book' \in [OrderIds -> Entry]
    <3>1. e \in Entry
      BY DEF Entry, OrderStatus
    <3>2. book' = [book EXCEPT ![o] = e]
      BY DEF Place
    <3> HIDE DEF e
    <3> QED BY <1>1, <3>1, <3>2 DEF BookTypeOK
  <2>2. coupon' \in [CouponIds -> CouponEntry]
    <3>1. \A d \in CouponIds :
            [coupon[d] EXCEPT !.status = "used", !.order = o] \in CouponEntry
      BY <1>1, CouponStaysTyped DEF BookTypeOK
    <3>2. coupon' = [d \in CouponIds |->
            IF d = c THEN [coupon[d] EXCEPT !.status = "used", !.order = o]
                     ELSE coupon[d]]
      BY DEF Place
    <3> QED BY <1>1, <3>1, <3>2 DEF BookTypeOK
  <2>3. reward' \in [RewardIds -> RewardEntry]
    <3>1. \A r \in RewardIds : [reward[r] EXCEPT !.order = o] \in RewardEntry
      BY <1>1, RewardStaysTyped DEF BookTypeOK
    <3>2. reward' = [r \in RewardIds |->
            IF r \in R THEN [reward[r] EXCEPT !.order = o] ELSE reward[r]]
      BY DEF Place
    <3> QED BY <1>1, <3>1, <3>2 DEF BookTypeOK
  <2> QED BY <1>1, <2>1, <2>2, <2>3 DEF BookTypeOK, Place
<1>3. BookSpentIsDelivered'
  BY <1>1 DEF BookInv, BookTypeOK, BookSpentIsDelivered, Place
<1>4. BookBenefitPaysOnce'
  <2> SUFFICES ASSUME NEW x \in OrderIds
               PROVE  /\ \A d \in CouponIds :
                           coupon'[d].order = x <=> Standing(x)' /\ book'[x].coupon = d
                      /\ \A r \in RewardIds :
                           reward'[r].order = x <=> Standing(x)' /\ r \in book'[x].rewards
    BY DEF BookBenefitPaysOnce
  <2>1. /\ \A d \in CouponIds :
             coupon[d].order = x <=> Standing(x) /\ book[x].coupon = d
        /\ \A r \in RewardIds :
             reward[r].order = x <=> Standing(x) /\ r \in book[x].rewards
    BY DEF BookInv, BookBenefitPaysOnce
  <2>2. /\ \A d \in CouponIds : coupon'[d].order = IF d = c THEN o ELSE coupon[d].order
        /\ \A r \in RewardIds : reward'[r].order = IF r \in R THEN o ELSE reward[r].order
    BY <1>1 DEF BookTypeOK, CouponEntry, RewardEntry, Place
  <2>3. /\ \A d \in CouponIds : d = c => coupon[d].order = None
        /\ \A r \in R : reward[r].order = None
    BY <1>1 DEF BookTypeOK, BookInv, BookUsedStatus, CouponEntry, NoneIsNull, Place
  <2>4. CASE x = o
    <3>1. Standing(x)' /\ book'[x].coupon = c /\ book'[x].rewards = R
      BY <1>1, <2>4 DEF BookTypeOK, Standing, OrderStatus, Place
    <3>2. ~Standing(x)
      BY <2>4 DEF Standing, OrderStatus, Place
    <3> QED BY <2>1, <2>2, <2>4, <3>1, <3>2
  <2>5. CASE x # o
    <3>1. book'[x] = book[x]
      BY <1>1, <2>5 DEF BookTypeOK, Place
    <3> QED BY <2>1, <2>2, <2>3, <2>5, <3>1 DEF NoneIsNull, Standing
  <2> QED BY <2>4, <2>5
<1>5. BookUsedStatus'
  <2> SUFFICES ASSUME NEW d \in CouponIds
               PROVE  coupon'[d].status = "used" <=> coupon'[d].order # None
    BY DEF BookUsedStatus
  <2>1. coupon[d] \in CouponEntry
    BY <1>1 DEF BookTypeOK
  <2>2. CASE d = c
    <3>1. coupon'[d] = [coupon[d] EXCEPT !.status = "used", !.order = o]
      BY <2>2 DEF Place
    <3> QED BY <2>1, <3>1 DEF CouponEntry, NoneIsNull
  <2>3. CASE d # c
    <3>1. coupon'[d] = coupon[d]
      BY <2>3 DEF Place
    <3> QED BY <3>1 DEF BookInv, BookUsedStatus
  <2> QED BY <2>2, <2>3
<1> QED BY <1>2, <1>3, <1>4, <1>5 DEF BookInv

(* A step that leaves benefits, and which orders stand, as they are.       *)
LEMMA BenefitsUntouched ==
  ASSUME BookInv, UNCHANGED <<coupon, reward>>,
         \A x \in OrderIds : /\ Standing(x)' <=> Standing(x)
                             /\ book'[x].coupon = book[x].coupon
                             /\ book'[x].rewards = book[x].rewards
  PROVE  BookBenefitPaysOnce' /\ BookUsedStatus'
  BY DEF BookInv, BookBenefitPaysOnce, BookUsedStatus

(* A status change keeps the book in order.                                *)
LEMMA StatusKeeps ==
  ASSUME NoneIsNull, BookInv, NEW o \in OrderIds,
         Advance(o) \/ Deliver(o) \/ Cancel(o)
  PROVE  BookInv'
<1>1. BookTypeOK
  BY DEF BookInv
<1>2. CASE Advance(o)
  <2>1. BookTypeOK'
    <3>1. PICK s \in {"confirmado", "en_camino"} :
            book' = [book EXCEPT ![o].status = s]
      BY <1>2 DEF Advance
    <3>2. book' \in [OrderIds -> Entry]
      BY <1>1, <3>1, StatusStaysTyped DEF OrderStatus
    <3> QED BY <1>1, <1>2, <3>2 DEF BookTypeOK, Advance
  <2>2. BookSpentIsDelivered'
    BY <1>1, <1>2 DEF BookInv, BookTypeOK, BookSpentIsDelivered, Advance, Entry
  <2>3. \A x \in OrderIds : /\ Standing(x)' <=> Standing(x)
                            /\ book'[x].coupon = book[x].coupon
                            /\ book'[x].rewards = book[x].rewards
    BY <1>1, <1>2 DEF BookTypeOK, Standing, Advance, Entry, OrderStatus
  <2>4. BookBenefitPaysOnce' /\ BookUsedStatus'
    BY <1>2, <2>3, BenefitsUntouched DEF Advance
  <2> QED BY <2>1, <2>2, <2>4 DEF BookInv
<1>3. CASE Deliver(o)
  <2>1. BookTypeOK'
    <3>1. book' \in [OrderIds -> Entry]
      BY <1>1, <1>3, StatusStaysTyped DEF Deliver, OrderStatus
    <3>2. spent' \in [Users -> [OrderIds -> Nat]]
      BY <1>1, <1>3 DEF BookTypeOK, Deliver
    <3> QED BY <1>1, <1>3, <3>1, <3>2 DEF BookTypeOK, Deliver
  <2>2. BookSpentIsDelivered'
    BY <1>1, <1>3 DEF BookInv, BookTypeOK, BookSpentIsDelivered, Deliver, Entry
  <2>3. \A x \in OrderIds : /\ Standing(x)' <=> Standing(x)
                            /\ book'[x].coupon = book[x].coupon
                            /\ book'[x].rewards = book[x].rewards
    BY <1>1, <1>3 DEF BookTypeOK, Standing, Deliver, Entry, OrderStatus
  <2>4. BookBenefitPaysOnce' /\ BookUsedStatus'
    BY <1>3, <2>3, BenefitsUntouched DEF Deliver
  <2> QED BY <2>1, <2>2, <2>4 DEF BookInv
<1>4. CASE Cancel(o)
  <2>1. BookTypeOK'
    <3>1. book' \in [OrderIds -> Entry]
      BY <1>1, <1>4, StatusStaysTyped DEF Cancel, OrderStatus
    <3>2. coupon' \in [CouponIds -> CouponEntry]
      <4>1. \A c \in CouponIds :
              [coupon[c] EXCEPT !.status = "active", !.order = None] \in CouponEntry
        BY <1>1, CouponStaysTyped DEF BookTypeOK
      <4> QED BY <1>1, <1>4, <4>1 DEF BookTypeOK, Cancel
    <3>3. reward' \in [RewardIds -> RewardEntry]
      <4>1. \A r \in RewardIds : [reward[r] EXCEPT !.order = None] \in RewardEntry
        BY <1>1, RewardStaysTyped DEF BookTypeOK
      <4> QED BY <1>1, <1>4, <4>1 DEF BookTypeOK, Cancel
    <3> QED BY <1>1, <1>4, <3>1, <3>2, <3>3 DEF BookTypeOK, Cancel
  <2>2. BookSpentIsDelivered'
    BY <1>1, <1>4 DEF BookInv, BookTypeOK, BookSpentIsDelivered, Cancel, Entry
  <2>3. BookBenefitPaysOnce'
    <3> SUFFICES ASSUME NEW x \in OrderIds
                 PROVE  /\ \A c \in CouponIds :
                             coupon'[c].order = x <=> Standing(x)' /\ book'[x].coupon = c
                        /\ \A r \in RewardIds :
                             reward'[r].order = x
                               <=> Standing(x)' /\ r \in book'[x].rewards
      BY DEF BookBenefitPaysOnce
    <3>1. /\ \A c \in CouponIds :
               coupon[c].order = x <=> Standing(x) /\ book[x].coupon = c
          /\ \A r \in RewardIds :
               reward[r].order = x <=> Standing(x) /\ r \in book[x].rewards
      BY DEF BookInv, BookBenefitPaysOnce
    <3>2. /\ \A c \in CouponIds : coupon'[c].order =
               IF coupon[c].order = o THEN None ELSE coupon[c].order
          /\ \A r \in RewardIds : reward'[r].order =
               IF reward[r].order = o THEN None ELSE reward[r].order
      BY <1>1, <1>4 DEF BookTypeOK, CouponEntry, RewardEntry, Cancel
    <3>3. CASE x = o
      <4>1. ~Standing(x)'
        BY <1>1, <1>4, <3>3 DEF BookTypeOK, Standing, OrderStatus, Cancel, Entry
      <4> QED BY <3>2, <3>3, <4>1 DEF NoneIsNull
    <3>4. CASE x # o
      <4>1. book'[x] = book[x]
        BY <1>1, <1>4, <3>4 DEF BookTypeOK, Cancel
      <4> QED BY <3>1, <3>2, <3>4, <4>1 DEF NoneIsNull, Standing
    <3> QED BY <3>3, <3>4
  <2>4. BookUsedStatus'
    BY <1>1, <1>4 DEF BookInv, BookTypeOK, BookUsedStatus, Cancel, CouponEntry,
                      NoneIsNull
  <2> QED BY <2>1, <2>2, <2>3, <2>4 DEF BookInv
<1> QED BY <1>2, <1>3, <1>4

(* So do a confirmation and a link.                                        *)
LEMMA ConfirmKeeps ==
  ASSUME BookInv, NEW o \in OrderIds, NEW p \in Procs, ConfirmWhatsapp(o, p)
  PROVE  BookInv'
<1>1. BookTypeOK
  BY DEF BookInv
<1>2. BookTypeOK'
  <2>1. [book[o] EXCEPT !.confirmed = p] \in Entry
    BY <1>1 DEF BookTypeOK, Entry
  <2>2. book' = [book EXCEPT ![o] = [book[o] EXCEPT !.confirmed = p]]
    BY <1>1 DEF BookTypeOK, ConfirmWhatsapp
  <2> QED BY <1>1, <2>1, <2>2 DEF BookTypeOK, ConfirmWhatsapp
<1>3. BookSpentIsDelivered'
  BY <1>1 DEF BookInv, BookTypeOK, BookSpentIsDelivered, ConfirmWhatsapp, Entry
<1>4. \A x \in OrderIds : /\ Standing(x)' <=> Standing(x)
                          /\ book'[x].coupon = book[x].coupon
                          /\ book'[x].rewards = book[x].rewards
  BY <1>1 DEF BookTypeOK, Standing, ConfirmWhatsapp, Entry
<1>5. BookBenefitPaysOnce' /\ BookUsedStatus'
  BY <1>4, BenefitsUntouched DEF ConfirmWhatsapp
<1> QED BY <1>2, <1>3, <1>5 DEF BookInv

LEMMA LinkKeeps ==
  ASSUME NoneIsNull, BookInv, NEW u \in Users, NEW ids \in SUBSET OrderIds,
         Link(u, ids)
  PROVE  BookInv'
<1>1. BookTypeOK
  BY DEF BookInv
<1>2. BookTypeOK'
  <2>1. \A o \in OrderIds : [book[o] EXCEPT !.userId = u] \in Entry
    BY <1>1 DEF BookTypeOK, Entry
  <2>2. book' \in [OrderIds -> Entry]
    BY <1>1, <2>1 DEF BookTypeOK, Link
  <2>3. spent' \in [Users -> [OrderIds -> Nat]]
    BY <1>1 DEF BookTypeOK, Link
  <2> QED BY <1>1, <2>2, <2>3 DEF BookTypeOK, Link
<1>3. BookSpentIsDelivered'
  BY <1>1 DEF NoneIsNull, BookInv, BookTypeOK, BookSpentIsDelivered, Link, Entry
<1>4. BookBenefitPaysOnce' /\ BookUsedStatus'
  BY <1>1 DEF BookInv, BookTypeOK, BookBenefitPaysOnce, BookUsedStatus, Standing,
              Link, Entry
<1> QED BY <1>2, <1>3, <1>4 DEF BookInv

(* So do granting and expiring benefits.                                   *)
LEMMA BenefitsKeep ==
  ASSUME NoneIsNull, BookInv,
         \/ \E u \in Users, c \in CouponIds : GrantCoupon(c, u)
         \/ \E u \in Users, R \in SUBSET RewardIds : GrantRewards(R, u)
         \/ \E C \in SUBSET CouponIds : ExpireCoupons(C)
  PROVE  BookInv'
<1>1. BookTypeOK
  BY DEF BookInv
<1>2. ASSUME NEW u \in Users, NEW c \in CouponIds, GrantCoupon(c, u)
      PROVE  BookInv'
  <2>1. BookTypeOK' /\ BookSpentIsDelivered'
    BY <1>1, <1>2 DEF BookInv, BookTypeOK, BookSpentIsDelivered, GrantCoupon,
                      CouponEntry
  <2>2. BookBenefitPaysOnce' /\ BookUsedStatus'
    BY <1>1, <1>2 DEF BookInv, BookTypeOK, BookBenefitPaysOnce, BookUsedStatus,
                      Standing, GrantCoupon, CouponEntry, NoneIsNull
  <2> QED BY <2>1, <2>2 DEF BookInv
<1>3. ASSUME NEW u \in Users, NEW R \in SUBSET RewardIds, GrantRewards(R, u)
      PROVE  BookInv'
  <2>1. BookTypeOK' /\ BookSpentIsDelivered'
    BY <1>1, <1>3 DEF BookInv, BookTypeOK, BookSpentIsDelivered, GrantRewards,
                      RewardEntry
  <2>2. BookBenefitPaysOnce' /\ BookUsedStatus'
    BY <1>1, <1>3 DEF BookInv, BookTypeOK, BookBenefitPaysOnce, BookUsedStatus,
                      Standing, GrantRewards, RewardEntry, NoneIsNull
  <2> QED BY <2>1, <2>2 DEF BookInv
<1>4. ASSUME NEW C \in SUBSET CouponIds, ExpireCoupons(C)
      PROVE  BookInv'
  <2>1. \A c \in CouponIds : [coupon[c] EXCEPT !.status = "expired"] \in CouponEntry
    BY <1>1, CouponStaysTyped DEF BookTypeOK
  <2>2. BookTypeOK' /\ BookSpentIsDelivered'
    BY <1>1, <1>4, <2>1 DEF BookInv, BookTypeOK, BookSpentIsDelivered,
                            ExpireCoupons
  <2>3. BookBenefitPaysOnce' /\ BookUsedStatus'
    BY <1>1, <1>4 DEF BookInv, BookTypeOK, BookBenefitPaysOnce, BookUsedStatus,
                      Standing, ExpireCoupons, CouponEntry, NoneIsNull
  <2> QED BY <2>2, <2>3 DEF BookInv
<1> QED BY <1>2, <1>3, <1>4

(* Every atomic request of orders.service.ts keeps each customer's         *)
(* totalSpent equal to her delivered orders, and each coupon and reward    *)
(* used in exactly the standing order that redeemed it.                    *)
THEOREM BookKeepsItsPromise == ASSUME NoneIsNull PROVE Spec => []BookInv
<1>1. Init => BookInv
  BY BookInit
<1>2. BookInv /\ [Next]_vars => BookInv'
  <2> SUFFICES ASSUME BookInv, [Next]_vars PROVE BookInv'
    OBVIOUS
  <2>1. CASE Next
    BY <2>1, PlaceKeeps, StatusKeeps, ConfirmKeeps, LinkKeeps, BenefitsKeep DEF Next
  <2>2. CASE UNCHANGED vars
    BY <2>2 DEF vars, BookInv, BookTypeOK, BookSpentIsDelivered,
                BookBenefitPaysOnce, BookUsedStatus, Standing
  <2> QED BY <2>1, <2>2
<1> QED BY <1>1, <1>2, PTL DEF Spec

=============================================================================
