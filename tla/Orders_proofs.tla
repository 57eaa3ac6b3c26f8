--------------------------- MODULE Orders_proofs ----------------------------
(***************************************************************************)
(* What holds of orders.service.ts for any number of handlers, customers,  *)
(* orders, coupons and rewards.                                            *)
(*                                                                         *)
(* The argument is that of two-phase locking.  A handler that has read a   *)
(* row under its lock relies on that row (HandlerInv).  A step of another  *)
(* handler takes no lock away from it and writes only rows it has locked   *)
(* itself, or the row of an order whose id nobody else has                 *)
(* (Disciplined), so what was read stays true until the COMMIT that writes *)
(* what follows from it.  First, that every step keeps the types, if it is *)
(* known what each request is about.                                       *)
(***************************************************************************)
EXTENDS Orders, WellFoundedInduction, TLAPS

AboutAnOrder == PlacePcs \cup StatusPcs \cup {"whatsapp_order", "whatsapp_save"}

(* Who and what a request is about is known.                               *)
SubjectKnown(p) ==
  /\ pc[p] \in AboutAnOrder => mem[p].order \in OrderIds
  /\ pc[p] \in LinkPcs \cup TaskPcs => mem[p].user \in Users

(***************************************************************************)
(* Types.                                                                  *)
(***************************************************************************)
TablesTyped ==
  /\ orders \in [OrderIds -> Order]
  /\ spent \in [Users -> [OrderIds -> Nat]]
  /\ phone \in [Users -> Phones \cup {None}]
  /\ issued \subseteq OrderIds
  /\ outbox \subseteq ({"created", "whatsapp", "linked"} \cup OrderStatus) \X OrderIds
  /\ coupons \in [CouponIds -> Coupon]
  /\ rewards \in [RewardIds -> Reward]
  /\ month \in Months

LocalsTyped ==
  /\ holder \in [Rows -> Procs \cup {None}]
  /\ pc \in [Procs -> Pcs]
  /\ mem \in [Procs -> Mem]

(* Types of the tables and types of what handlers have.                    *)
LEMMA TypeOKSplit == /\ TypeOK <=> TablesTyped /\ LocalsTyped
                     /\ TypeOK' <=> TablesTyped' /\ LocalsTyped'
<1>1. TypeOK <=> TablesTyped /\ LocalsTyped
  BY DEF TypeOK, TablesTyped, LocalsTyped
<1>2. TypeOK' <=> TablesTyped' /\ LocalsTyped'
  BY DEF TypeOK, TablesTyped, LocalsTyped
<1> QED BY <1>1, <1>2

(* A handler's local values before its request gives them any.             *)
LEMMA BlankTyped == Blank \in Mem
<1>1. NoCart \in Cart
  BY DEF NoCart, Cart
<1>2. NoOrder \in Order
  BY RewardsAssumption DEF NoOrder, Order
<1>3. Unread \in [OrderIds -> Order] /\ NoBalance \in [OrderIds -> Nat]
  BY <1>2 DEF Unread, NoBalance
<1>4. 0 \in 0..MaxMonth
  BY RewardsAssumption
<1> QED BY <1>1, <1>3, <1>4 DEF Blank, Mem, OrderStatus

(* The transaction of p is over: p has nothing but the tasks left.         *)
LEMMA FinishTyped ==
  ASSUME LocalsTyped, NEW p \in Procs, NEW tasks \in SUBSET Task,
         Finish(p, tasks)
  PROVE  LocalsTyped'
<1> DEFINE m == [Blank EXCEPT !.due = tasks]
<1>1. m \in Mem
  BY BlankTyped DEF Mem
<1>2. /\ mem' = [mem EXCEPT ![p] = m]
      /\ pc' = [pc EXCEPT ![p] = IF tasks = {} THEN "idle" ELSE "after"]
      /\ holder' = [row \in Rows |-> IF holder[row] = p THEN None ELSE holder[row]]
  BY DEF Finish, Goto, Unlock
<1> HIDE DEF m
<1> QED BY <1>1, <1>2 DEF LocalsTyped, Pcs

(* Moving, locking, remembering and signalling keep their variable's type. *)
LEMMA GotoTyped ==
  ASSUME LocalsTyped, NEW p \in Procs, NEW label \in Pcs, Goto(p, label)
  PROVE  pc' \in [Procs -> Pcs]
  BY DEF LocalsTyped, Goto

LEMMA LockTyped ==
  ASSUME LocalsTyped, NEW p \in Procs, NEW row, Lock(p, row)
  PROVE  holder' \in [Rows -> Procs \cup {None}]
  BY DEF LocalsTyped, Lock

LEMMA MemTyped ==
  ASSUME LocalsTyped, NEW p \in Procs, NEW m \in Mem,
         mem' = [mem EXCEPT ![p] = m]
  PROVE  mem' \in [Procs -> Mem]
  BY DEF LocalsTyped

LEMMA RecordTyped ==
  ASSUME TablesTyped, NEW ids \in SUBSET OrderIds,
         NEW operation \in {"created", "whatsapp", "linked"} \cup OrderStatus,
         Record(operation, ids)
  PROVE  outbox' \subseteq ({"created", "whatsapp", "linked"} \cup OrderStatus) \X OrderIds
  BY DEF TablesTyped, Record

LEMMA TablesKept ==
  ASSUME TablesTyped, UNCHANGED tables
  PROVE  TablesTyped'
  BY DEF TablesTyped, tables, loyalty

(* A transaction that ends without writing.                                *)
LEMMA FinishOnlyTyped ==
  ASSUME TypeOK, NEW p \in Procs, NEW tasks \in SUBSET Task,
         Finish(p, tasks), UNCHANGED tables
  PROVE  TypeOK'
<1>1. LocalsTyped /\ TablesTyped
  BY TypeOKSplit
<1>2. LocalsTyped'
  BY <1>1, FinishTyped
<1>3. TablesTyped'
  BY <1>1, TablesKept
<1> QED BY <1>2, <1>3, TypeOKSplit

(* A step that locks, moves and remembers, but does not write.             *)
LEMMA LocalMoveTyped ==
  ASSUME TypeOK, NEW p \in Procs, NEW row, NEW label \in Pcs, NEW m \in Mem,
         UNCHANGED tables,
         Lock(p, row) \/ UNCHANGED holder,
         Goto(p, label) \/ UNCHANGED pc,
         mem' = [mem EXCEPT ![p] = m] \/ UNCHANGED mem
  PROVE  TypeOK'
<1>1. LocalsTyped /\ TablesTyped'
  BY TypeOKSplit, TablesKept
<1>2. holder' \in [Rows -> Procs \cup {None}]
  BY <1>1, LockTyped DEF LocalsTyped
<1>3. pc' \in [Procs -> Pcs]
  BY <1>1, GotoTyped DEF LocalsTyped
<1>4. mem' \in [Procs -> Mem]
  BY <1>1, MemTyped DEF LocalsTyped
<1>5. LocalsTyped'
  BY <1>2, <1>3, <1>4 DEF LocalsTyped
<1> QED BY <1>1, <1>5, TypeOKSplit

(* What the steps remember is what mem is made of.                         *)
LEMMA RequestTyped ==
  /\ \A cart \in Cart, o \in OrderIds :
       [Blank EXCEPT !.cart = cart, !.order = o] \in Mem
  /\ \A o \in OrderIds, to \in OrderStatus, reason \in BOOLEAN :
       [Blank EXCEPT !.order = o, !.to = to, !.reason = reason] \in Mem
  /\ \A o \in OrderIds : [Blank EXCEPT !.order = o] \in Mem
  /\ \A u \in Users, ids \in SUBSET OrderIds, ph \in Phones \cup {None} :
       [Blank EXCEPT !.user = u, !.ids = ids, !.phone = ph] \in Mem
  /\ \A tasks \in SUBSET Task : [Blank EXCEPT !.due = tasks] \in Mem
  /\ \A C \in SUBSET CouponIds, tasks \in SUBSET Task :
       [Blank EXCEPT !.lapsed = C, !.due = tasks] \in Mem
<1>1. Blank \in Mem
  BY BlankTyped
<1>2. \A cart \in Cart, o \in OrderIds :
        [Blank EXCEPT !.cart = cart, !.order = o] \in Mem
  BY <1>1 DEF Mem
<1>3. \A o \in OrderIds, to \in OrderStatus, reason \in BOOLEAN :
        [Blank EXCEPT !.order = o, !.to = to, !.reason = reason] \in Mem
  BY <1>1 DEF Mem
<1>4. \A o \in OrderIds : [Blank EXCEPT !.order = o] \in Mem
  BY <1>1 DEF Mem
<1>5. \A u \in Users, ids \in SUBSET OrderIds, ph \in Phones \cup {None} :
        [Blank EXCEPT !.user = u, !.ids = ids, !.phone = ph] \in Mem
  BY <1>1 DEF Mem
<1>6. \A tasks \in SUBSET Task : [Blank EXCEPT !.due = tasks] \in Mem
  BY <1>1 DEF Mem
<1>7. \A C \in SUBSET CouponIds, tasks \in SUBSET Task :
        [Blank EXCEPT !.lapsed = C, !.due = tasks] \in Mem
  BY <1>1 DEF Mem
<1> QED BY <1>2, <1>3, <1>4, <1>5, <1>6, <1>7

LEMMA ReadTyped ==
  ASSUME NEW m \in Mem
  PROVE  /\ \A o \in OrderIds, e \in Order : [m EXCEPT !.seen[o] = e] \in Mem
         /\ \A S \in SUBSET OrderIds : [m EXCEPT !.todo = S] \in Mem
         /\ \A o \in OrderIds, e \in Order, S \in SUBSET OrderIds :
              [m EXCEPT !.todo = S, !.seen[o] = e] \in Mem
         /\ \A b \in [OrderIds -> Nat] : [m EXCEPT !.balance = b] \in Mem
<1>1. \A o \in OrderIds, e \in Order : [m EXCEPT !.seen[o] = e] \in Mem
  BY DEF Mem
<1>2. \A S \in SUBSET OrderIds : [m EXCEPT !.todo = S] \in Mem
  BY DEF Mem
<1>3. \A o \in OrderIds, e \in Order, S \in SUBSET OrderIds :
        [m EXCEPT !.todo = S, !.seen[o] = e] \in Mem
  BY DEF Mem
<1>4. \A b \in [OrderIds -> Nat] : [m EXCEPT !.balance = b] \in Mem
  BY DEF Mem
<1> QED BY <1>1, <1>2, <1>3, <1>4

LEMMA TaskMemTyped ==
  ASSUME NEW m \in Mem
  PROVE  /\ \A u \in Users, tasks \in SUBSET Task, cut \in SUBSET OrderIds :
              [m EXCEPT !.user = u, !.due = tasks, !.cut = cut] \in Mem
         /\ \A S \in SUBSET OrderIds : [m EXCEPT !.basis = S] \in Mem
         /\ \A S \in SUBSET Milestones, b \in 0..MaxMonth :
              [m EXCEPT !.grants = S, !.backing = b] \in Mem
         /\ \A C \in SUBSET CouponIds : [m EXCEPT !.lapsed = C] \in Mem
<1>1. \A u \in Users, tasks \in SUBSET Task, cut \in SUBSET OrderIds :
        [m EXCEPT !.user = u, !.due = tasks, !.cut = cut] \in Mem
  BY DEF Mem
<1>2. \A S \in SUBSET OrderIds : [m EXCEPT !.basis = S] \in Mem
  BY DEF Mem
<1>3. \A S \in SUBSET Milestones, b \in 0..MaxMonth :
        [m EXCEPT !.grants = S, !.backing = b] \in Mem
  BY DEF Mem
<1>4. \A C \in SUBSET CouponIds : [m EXCEPT !.lapsed = C] \in Mem
  BY DEF Mem
<1> QED BY <1>1, <1>2, <1>3, <1>4

(* A saved order is an order.                                              *)
LEMMA OrderTyped ==
  ASSUME NEW e \in Order
  PROVE  /\ \A p \in Procs : [e EXCEPT !.whatsappSentAt = p] \in Order
         /\ \A u \in Users : [e EXCEPT !.userId = u] \in Order
<1>1. \A p \in Procs : [e EXCEPT !.whatsappSentAt = p] \in Order
  BY DEF Order
<1>2. \A u \in Users : [e EXCEPT !.userId = u] \in Order
  BY DEF Order
<1> QED BY <1>1, <1>2

(***************************************************************************)
(* Every step keeps the types.                                             *)
(***************************************************************************)
LEMMA PcsKnown ==
  /\ PlacePcs \cup StatusPcs \cup LinkPcs \cup TaskPcs \subseteq Pcs
  /\ {"idle", "whatsapp_order", "whatsapp_save", "expire", "after"} \subseteq Pcs
  /\ \A cart : PlaceLabel(cart) \in PlacePcs
  /\ \A to, u : StatusLabel(to, u) \in StatusPcs
  BY DEF Pcs, PlaceLabel, PlacePcs, StatusLabel, StatusPcs

(* A new request.                                                          *)
LEMMA StartTyped ==
  ASSUME TypeOK, NEW p \in Procs, Start(p)
  PROVE  TypeOK'
<1>0. TablesTyped /\ LocalsTyped
  BY TypeOKSplit
<1>1. CASE StartPlace(p)
  <2>1. PICK cart \in Carts, o \in OrderIds \ issued :
          /\ issued' = issued \cup {o}
          /\ Goto(p, PlaceLabel(cart))
          /\ mem' = [mem EXCEPT ![p] = [Blank EXCEPT !.cart = cart, !.order = o]]
    BY <1>1 DEF StartPlace
  <2>2. cart \in Cart
    BY OrdersAssumption
  <2>3. mem' \in [Procs -> Mem]
    BY <1>0, <2>1, <2>2, RequestTyped, MemTyped
  <2>4. pc' \in [Procs -> Pcs]
    BY <1>0, <2>1, PcsKnown, GotoTyped
  <2>5. UNCHANGED <<orders, spent, phone, outbox, coupons, rewards, month, holder>>
    BY <1>1 DEF StartPlace, loyalty
  <2>6. TablesTyped'
    BY <1>0, <2>1, <2>5 DEF TablesTyped
  <2>7. LocalsTyped'
    BY <1>0, <2>3, <2>4, <2>5 DEF LocalsTyped
  <2> QED BY <2>6, <2>7, TypeOKSplit
<1>2. CASE StartStatus(p)
  <2>1. PICK o \in OrderIds, to \in OrderStatus, reason \in BOOLEAN :
          mem' = [mem EXCEPT ![p] = [Blank EXCEPT !.order = o, !.to = to,
                                                  !.reason = reason]]
    BY <1>2 DEF StartStatus
  <2>2. [Blank EXCEPT !.order = o, !.to = to, !.reason = reason] \in Mem
    BY RequestTyped
  <2>3. UNCHANGED tables /\ UNCHANGED holder /\ Goto(p, "status_order")
    BY <1>2 DEF StartStatus
  <2>4. "status_order" \in Pcs
    BY DEF Pcs, StatusPcs
  <2> QED BY <2>1, <2>2, <2>3, <2>4, LocalMoveTyped
<1>3. CASE StartWhatsapp(p)
  <2>1. PICK o \in OrderIds : mem' = [mem EXCEPT ![p] = [Blank EXCEPT !.order = o]]
    BY <1>3 DEF StartWhatsapp
  <2>2. [Blank EXCEPT !.order = o] \in Mem
    BY RequestTyped
  <2>3. UNCHANGED tables /\ UNCHANGED holder /\ Goto(p, "whatsapp_order")
    BY <1>3 DEF StartWhatsapp
  <2>4. "whatsapp_order" \in Pcs
    BY DEF Pcs
  <2> QED BY <2>1, <2>2, <2>3, <2>4, LocalMoveTyped
<1>4. CASE StartLink(p)
  <2>1. PICK u \in Users, ids \in SUBSET OrderIds \ {{}} :
          mem' = [mem EXCEPT ![p] = [Blank EXCEPT !.user = u, !.ids = ids,
                                                  !.phone = phone[u]]]
    BY <1>4 DEF StartLink
  <2>2. phone[u] \in Phones \cup {None}
    BY <1>0 DEF TablesTyped
  <2>3. [Blank EXCEPT !.user = u, !.ids = ids, !.phone = phone[u]] \in Mem
    BY <2>2, RequestTyped
  <2>4. UNCHANGED tables /\ UNCHANGED holder /\ Goto(p, "link_select")
    BY <1>4 DEF StartLink
  <2>5. "link_select" \in Pcs
    BY DEF Pcs, LinkPcs
  <2> QED BY <2>1, <2>3, <2>4, <2>5, LocalMoveTyped
<1>5. CASE StartProgress(p)
  <2>1. PICK u \in Users : mem' = [mem EXCEPT ![p] =
                                     [Blank EXCEPT !.due = {<<"stars", u>>}]]
    BY <1>5 DEF StartProgress
  <2>2. {<<"stars", u>>} \in SUBSET Task
    BY DEF Task
  <2>3. [Blank EXCEPT !.due = {<<"stars", u>>}] \in Mem
    BY <2>2, RequestTyped
  <2>4. UNCHANGED tables /\ UNCHANGED holder /\ Goto(p, "after")
    BY <1>5 DEF StartProgress
  <2>5. "after" \in Pcs
    BY DEF Pcs
  <2> QED BY <2>1, <2>3, <2>4, <2>5, LocalMoveTyped
<1>6. CASE StartMaintenance(p)
  <2> DEFINE m == [Blank EXCEPT !.lapsed = LapsedCoupons, !.due = {"coupon"} \X Users]
  <2>1. LapsedCoupons \in SUBSET CouponIds /\ {"coupon"} \X Users \in SUBSET Task
    BY DEF LapsedCoupons, Task
  <2>2. m \in Mem
    BY <2>1, RequestTyped
  <2>3. mem' = [mem EXCEPT ![p] = m]
    BY <1>6 DEF StartMaintenance
  <2>4. UNCHANGED tables /\ UNCHANGED holder /\ Goto(p, "expire")
    BY <1>6 DEF StartMaintenance
  <2>5. "expire" \in Pcs
    BY DEF Pcs
  <2> HIDE DEF m
  <2> QED BY <2>2, <2>3, <2>4, <2>5, LocalMoveTyped
<1> QED BY <1>1, <1>2, <1>3, <1>4, <1>5, <1>6 DEF Start

(* An exception.                                                           *)
LEMMA RejectTyped ==
  ASSUME TypeOK, NEW p \in Procs, Reject(p)
  PROVE  TypeOK'
<1>1. {} \in SUBSET Task /\ Finish(p, {}) /\ UNCHANGED tables
  BY DEF Reject
<1> QED BY <1>1, FinishOnlyTyped

(* A step that locks and moves only.                                       *)
LEMMA LockMoveTyped ==
  ASSUME TypeOK, NEW p \in Procs, NEW row, NEW label \in Pcs,
         UNCHANGED <<tables, mem>>,
         Lock(p, row) \/ UNCHANGED holder,
         Goto(p, label) \/ UNCHANGED pc
  PROVE  TypeOK'
<1>1. UNCHANGED tables /\ UNCHANGED mem
  OBVIOUS
<1> QED BY <1>1, BlankTyped, LocalMoveTyped

(* Writing to a coupon or a reward keeps it one.                           *)
LEMMA CouponTyped ==
  ASSUME NEW e \in Coupon
  PROVE  /\ \A o \in OrderIds \cup {None}, s \in CouponStatus :
              [e EXCEPT !.status = s, !.order = o] \in Coupon
         /\ \A s \in CouponStatus : [e EXCEPT !.status = s] \in Coupon
         /\ [e EXCEPT !.past = TRUE] \in Coupon
  BY DEF Coupon

LEMMA RewardTyped ==
  ASSUME NEW e \in Reward, NEW o \in OrderIds \cup {None}
  PROVE  [e EXCEPT !.order = o] \in Reward
  BY DEF Reward

LEMMA NewCouponTyped ==
  ASSUME NEW u \in Users \cup {None}, NEW origin \in CouponOrigin,
         NEW cut \in SUBSET OrderIds, NEW paid \in SUBSET OrderIds
  PROVE  NewCoupon(u, origin, cut, paid) \in Coupon
  BY DEF NewCoupon, NoCoupon, Coupon, CouponStatus, CouponOrigin

LEMMA MarkCouponTyped ==
  ASSUME TablesTyped, NEW c \in CouponIds, NEW o \in OrderIds
  PROVE  MarkCouponUsed(coupons, c, o) \in [CouponIds -> Coupon]
<1> DEFINE e == [coupons[c] EXCEPT !.status = "used", !.order = o]
<1>1. e \in Coupon
  BY CouponTyped DEF TablesTyped, CouponStatus
<1>2. MarkCouponUsed(coupons, c, o) = [coupons EXCEPT ![c] = e]
  BY DEF MarkCouponUsed, TablesTyped
<1> HIDE DEF e
<1> QED BY <1>1, <1>2 DEF TablesTyped

LEMMA MarkRewardsTyped ==
  ASSUME TablesTyped, NEW R \in SUBSET RewardIds, NEW o \in OrderIds
  PROVE  MarkRewardsUsed(R, o) \in [RewardIds -> Reward]
<1>1. \A r \in RewardIds : [rewards[r] EXCEPT !.order = o] \in Reward
  BY RewardTyped DEF TablesTyped
<1> QED BY <1>1 DEF MarkRewardsUsed, TablesTyped

(* The row a checkout saves.                                               *)
LEMMA NewOrderTyped ==
  ASSUME NEW u \in Users \cup {None}, NEW ph \in Phones \cup {None},
         NEW c \in CouponIds \cup {None}, NEW R \in SUBSET RewardIds
  PROVE  [NoOrder EXCEPT !.status = "pendiente", !.userId = u,
                         !.customerPhone = ph, !.coupon = c, !.rewards = R] \in Order
<1>1. 0 \in 0..MaxMonth
  BY RewardsAssumption
<1> QED BY <1>1 DEF NoOrder, Order, OrderStatus

LEMMA GiveBackTyped ==
  ASSUME TablesTyped, NEW o
  PROVE  /\ ReactivateCouponsOf(o) \in [CouponIds -> Coupon]
         /\ ReactivateRewardsOf(o) \in [RewardIds -> Reward]
<1>1. \A d \in CouponIds : [coupons[d] EXCEPT !.status = "active", !.order = None] \in Coupon
  BY CouponTyped DEF TablesTyped, CouponStatus
<1>2. \A r \in RewardIds : [rewards[r] EXCEPT !.order = None] \in Reward
  BY RewardTyped DEF TablesTyped
<1> QED BY <1>1, <1>2 DEF ReactivateCouponsOf, ReactivateRewardsOf, TablesTyped

(* The steps of placeOrder.                                                *)
LEMMA PlaceTyped ==
  ASSUME TypeOK, NEW p \in Procs, SubjectKnown(p), PlaceStep(p)
  PROVE  TypeOK'
<1>0. TablesTyped /\ LocalsTyped
  BY TypeOKSplit
<1>1. {"place_rewards", "place_save"} \subseteq Pcs
  BY DEF Pcs, PlacePcs
<1>2. CASE ApplyToOrder(p)
  BY <1>1, <1>2, LockMoveTyped DEF ApplyToOrder
<1>3. CASE CouponRefused(p)
  BY <1>3, RejectTyped DEF CouponRefused
<1>4. CASE ValidateForOrder(p)
  BY <1>1, <1>4, LockMoveTyped DEF ValidateForOrder
<1>5. CASE RewardRefused(p)
  BY <1>5, RejectTyped DEF RewardRefused
<1>6. CASE SaveOrder(p)
  <2> DEFINE cart == mem[p].cart
             o == mem[p].order
             row == [NoOrder EXCEPT !.status = "pendiente", !.userId = cart.userId,
                       !.customerPhone = cart.customerPhone,
                       !.coupon = cart.coupon, !.rewards = cart.rewards]
  <2>1. cart \in Cart /\ o \in OrderIds
    BY <1>0, <1>6 DEF LocalsTyped, Mem, SaveOrder, SubjectKnown, AboutAnOrder, PlacePcs
  <2>2. row \in Order
    BY <2>1, NewOrderTyped DEF Cart
  <2>3. orders' = [orders EXCEPT ![o] = row]
    BY <1>6 DEF SaveOrder
  <2>4. orders' \in [OrderIds -> Order]
    <3> HIDE DEF row
    <3> QED BY <1>0, <2>1, <2>2, <2>3 DEF TablesTyped
  <2>5. cart.coupon \in CouponIds \cup {None} /\ cart.rewards \in SUBSET RewardIds
    BY <2>1 DEF Cart
  <2>6. coupons' \in [CouponIds -> Coupon] /\ rewards' \in [RewardIds -> Reward]
    <3>1. /\ coupons' = IF cart.coupon = None THEN coupons
                        ELSE MarkCouponUsed(coupons, cart.coupon, o)
          /\ rewards' = MarkRewardsUsed(cart.rewards, o)
      BY <1>6 DEF SaveOrder
    <3> HIDE DEF cart, o
    <3> QED BY <1>0, <2>1, <2>5, <3>1, MarkCouponTyped, MarkRewardsTyped
             DEF TablesTyped
  <2>7. outbox' \subseteq ({"created", "whatsapp", "linked"} \cup OrderStatus) \X OrderIds
    <3>1. Record("created", {o}) /\ {o} \in SUBSET OrderIds
      BY <1>6, <2>1 DEF SaveOrder
    <3> HIDE DEF o
    <3> QED BY <1>0, <3>1, RecordTyped
  <2>8. TablesTyped'
    <3>1. UNCHANGED <<spent, phone, issued, month>>
      BY <1>6 DEF SaveOrder
    <3> QED BY <1>0, <2>4, <2>6, <2>7, <3>1 DEF TablesTyped
  <2>9. LocalsTyped'
    <3>1. Finish(p, {}) /\ {} \in SUBSET Task
      BY <1>6 DEF SaveOrder
    <3> QED BY <1>0, <3>1, FinishTyped
  <2> QED BY <2>8, <2>9, TypeOKSplit
<1> QED BY <1>2, <1>3, <1>4, <1>5, <1>6 DEF PlaceStep

(* The steps of updateStatus.                                              *)
LEMMA StatusTyped ==
  ASSUME TypeOK, NEW p \in Procs, SubjectKnown(p), StatusStep(p)
  PROVE  TypeOK'
<1>0. TablesTyped /\ LocalsTyped /\ mem[p] \in Mem
  BY TypeOKSplit DEF LocalsTyped
<1>1. {"cancel_rewards", "status_save"} \subseteq Pcs
  BY DEF Pcs, StatusPcs
<1>2. CASE LockOrderForStatus(p)
  <2> DEFINE o == mem[p].order
             label == StatusLabel(mem[p].to, orders[o].userId)
             m == [mem[p] EXCEPT !.seen[o] = orders[o]]
  <2>1. o \in OrderIds
    BY <1>2 DEF LockOrderForStatus, SubjectKnown, AboutAnOrder, StatusPcs
  <2>2. label \in Pcs
    BY PcsKnown
  <2>3. m \in Mem
    <3>1. orders[o] \in Order
      BY <1>0, <2>1 DEF TablesTyped
    <3> QED BY <1>0, <2>1, <3>1, ReadTyped
  <2>4. /\ Lock(p, OrderRow(o))
        /\ Goto(p, label)
        /\ mem' = [mem EXCEPT ![p] = m]
        /\ UNCHANGED tables
    BY <1>2 DEF LockOrderForStatus
  <2> HIDE DEF o, label, m
  <2> QED BY <2>2, <2>3, <2>4, LocalMoveTyped
<1>3. CASE StatusRefused(p)
  BY <1>3, RejectTyped DEF StatusRefused
<1>4. CASE LockCouponOfCancelled(p)
  BY <1>1, <1>4, LockMoveTyped DEF LockCouponOfCancelled
<1>5. CASE LockRewardOfCancelled(p)
  BY <1>1, <1>5, LockMoveTyped DEF LockRewardOfCancelled
<1>6. CASE RewardsLocked(p)
  BY <1>1, <1>6, LockMoveTyped DEF RewardsLocked
<1>7. CASE LockUserOfDelivered(p)
  BY <1>1, <1>7, LockMoveTyped DEF LockUserOfDelivered
<1>8. CASE SaveStatus(p)
  <2> DEFINE o == mem[p].order
             to == mem[p].to
             u == mem[p].seen[o].userId
             credited == to = "entregado" /\ u # None
  <2>1. o \in OrderIds /\ to \in OrderStatus
    BY <1>0, <1>8 DEF SaveStatus, SubjectKnown, AboutAnOrder, StatusPcs, Mem
  <2>2. u \in Users \cup {None}
    BY <1>0, <2>1 DEF Mem, Order
  <2>3. orders' \in [OrderIds -> Order]
    <3> DEFINE row == [orders[o] EXCEPT !.status = to,
                         !.deliveredIn = IF to = "entregado" THEN month ELSE @]
    <3>1. orders[o] \in Order /\ month \in 0..MaxMonth
      BY <1>0, <2>1, RewardsAssumption DEF TablesTyped, Months
    <3>2. row \in Order
      BY <2>1, <3>1 DEF Order
    <3>3. orders' = [orders EXCEPT ![o] = row]
      BY <1>0, <1>8, <2>1 DEF SaveStatus, TablesTyped
    <3> HIDE DEF row
    <3> QED BY <1>0, <3>2, <3>3 DEF TablesTyped
  <2>4. coupons' \in [CouponIds -> Coupon] /\ rewards' \in [RewardIds -> Reward]
    <3>1. /\ coupons' = coupons \/ coupons' = ReactivateCouponsOf(o)
          /\ rewards' = rewards \/ rewards' = ReactivateRewardsOf(o)
      BY <1>8 DEF SaveStatus
    <3> QED BY <1>0, <3>1, GiveBackTyped DEF TablesTyped
  <2>5. spent' \in [Users -> [OrderIds -> Nat]]
    <3>1. spent' = spent \/ (u \in Users /\ spent' = AddToSpent(u, o))
      BY <1>8, <2>2 DEF SaveStatus
    <3> HIDE DEF o, u
    <3>2. CASE u \in Users /\ spent' = AddToSpent(u, o)
      <4> DEFINE balance == [spent[u] EXCEPT ![o] = @ + 1]
      <4>1. balance \in [OrderIds -> Nat]
        BY <1>0, <2>1, <3>2 DEF TablesTyped
      <4>2. spent' = [spent EXCEPT ![u] = balance]
        BY <3>2 DEF AddToSpent
      <4> HIDE DEF balance
      <4> QED BY <1>0, <4>1, <4>2 DEF TablesTyped
    <3> QED BY <1>0, <3>1, <3>2 DEF TablesTyped
  <2>6. outbox' \subseteq ({"created", "whatsapp", "linked"} \cup OrderStatus) \X OrderIds
    <3>1. Record(to, {o}) /\ {o} \in SUBSET OrderIds
      BY <1>8, <2>1 DEF SaveStatus
    <3> HIDE DEF o, to
    <3> QED BY <1>0, <2>1, <3>1, RecordTyped
  <2>7. TablesTyped'
    <3>1. UNCHANGED <<phone, issued, month>>
      BY <1>8 DEF SaveStatus
    <3> QED BY <1>0, <2>3, <2>4, <2>5, <2>6, <3>1 DEF TablesTyped
  <2>8. LocalsTyped'
    <3> DEFINE tasks == IF credited THEN LoyaltyOf(u) ELSE {}
    <3>1. Finish(p, tasks)
      BY <1>8 DEF SaveStatus
    <3>2. tasks \in SUBSET Task
      BY <2>2 DEF LoyaltyOf, Task
    <3> HIDE DEF tasks
    <3> QED BY <1>0, <3>1, <3>2, FinishTyped
  <2> QED BY <2>7, <2>8, TypeOKSplit
<1> QED BY <1>2, <1>3, <1>4, <1>5, <1>6, <1>7, <1>8 DEF StatusStep

(* The steps of markWhatsappSent.                                          *)
LEMMA WhatsappTyped ==
  ASSUME TypeOK, NEW p \in Procs, SubjectKnown(p), WhatsappStep(p)
  PROVE  TypeOK'
<1>0. TablesTyped /\ LocalsTyped
  BY TypeOKSplit
<1>1. "whatsapp_save" \in Pcs
  BY DEF Pcs
<1>2. CASE LockOrderForWhatsapp(p)
  BY <1>1, <1>2, LockMoveTyped DEF LockOrderForWhatsapp
<1>3. CASE WhatsappUnchanged(p)
  BY <1>3, RejectTyped DEF WhatsappUnchanged
<1>4. CASE SaveWhatsapp(p)
  <2> DEFINE o == mem[p].order
             row == [orders[o] EXCEPT !.whatsappSentAt = p]
  <2>1. o \in OrderIds
    BY <1>4 DEF SaveWhatsapp, SubjectKnown, AboutAnOrder
  <2>2. row \in Order
    BY <1>0, <2>1, OrderTyped DEF TablesTyped
  <2>3. orders' = [orders EXCEPT ![o] = row] /\ UNCHANGED <<spent, phone, issued, coupons, rewards, month>>
    BY <1>4 DEF SaveWhatsapp, loyalty
  <2>4. Record("whatsapp", {o}) /\ {o} \in SUBSET OrderIds
    BY <1>4, <2>1 DEF SaveWhatsapp
  <2>5. outbox' \subseteq ({"created", "whatsapp", "linked"} \cup OrderStatus) \X OrderIds
    <3> HIDE DEF o
    <3> QED BY <1>0, <2>4, RecordTyped
  <2>6. TablesTyped'
    <3> HIDE DEF row, o
    <3> QED BY <1>0, <2>2, <2>3, <2>5 DEF TablesTyped
  <2>7. LocalsTyped'
    <3>1. Finish(p, {}) /\ {} \in SUBSET Task
      BY <1>4 DEF SaveWhatsapp
    <3> QED BY <1>0, <3>1, FinishTyped
  <2> QED BY <2>6, <2>7, TypeOKSplit
<1> QED BY <1>2, <1>3, <1>4 DEF WhatsappStep

(* The steps of linkAnonymousOrders.                                       *)
LEMMA LinkTyped ==
  ASSUME TypeOK, NEW p \in Procs, SubjectKnown(p), LinkStep(p)
  PROVE  TypeOK'
<1>0. TablesTyped /\ LocalsTyped /\ mem[p] \in Mem
  BY TypeOKSplit DEF LocalsTyped
<1>1. {"link_orders", "link_save"} \subseteq Pcs
  BY DEF Pcs, LinkPcs
<1>2. CASE SelectLinkable(p)
  <2> DEFINE m == [mem[p] EXCEPT !.todo = {o \in mem[p].ids : Exists(o)}]
  <2>1. m \in Mem
    <3>1. {o \in mem[p].ids : Exists(o)} \in SUBSET OrderIds
      BY <1>0 DEF Mem
    <3> QED BY <1>0, <3>1, ReadTyped
  <2>2. mem' = [mem EXCEPT ![p] = m] /\ Goto(p, "link_orders")
          /\ UNCHANGED tables /\ UNCHANGED holder
    BY <1>2 DEF SelectLinkable
  <2> HIDE DEF m
  <2> QED BY <1>1, <2>1, <2>2, LocalMoveTyped
<1>3. CASE LockLinkable(p)
  <2>1. PICK o \in mem[p].todo :
          /\ Lock(p, OrderRow(o))
          /\ mem' = [mem EXCEPT ![p].todo = @ \ {o}, ![p].seen[o] = orders[o]]
    BY <1>3 DEF LockLinkable
  <2> DEFINE m == [mem[p] EXCEPT !.todo = mem[p].todo \ {o}, !.seen[o] = orders[o]]
  <2>2. o \in OrderIds /\ mem[p].todo \ {o} \in SUBSET OrderIds
    BY <1>0, <2>1 DEF Mem
  <2>3. orders[o] \in Order
    BY <1>0, <2>2 DEF TablesTyped
  <2>4. m \in Mem
    BY <1>0, <2>2, <2>3, ReadTyped
  <2>5. mem' = [mem EXCEPT ![p] = m]
    BY <1>0, <2>1 DEF LocalsTyped
  <2>6. UNCHANGED tables /\ UNCHANGED pc
    BY <1>3 DEF LockLinkable
  <2> HIDE DEF m
  <2> QED BY <1>1, <2>1, <2>4, <2>5, <2>6, LocalMoveTyped
<1>4. CASE LinkRefused(p)
  BY <1>4, RejectTyped DEF LinkRefused
<1>5. CASE LockUserOfLink(p)
  <2> DEFINE m == [mem[p] EXCEPT !.balance = spent[mem[p].user]]
  <2>1. m \in Mem
    <3>1. mem[p].user \in Users
      BY <1>5 DEF LockUserOfLink, SubjectKnown, LinkPcs
    <3>2. spent[mem[p].user] \in [OrderIds -> Nat]
      BY <1>0, <3>1 DEF TablesTyped
    <3> QED BY <1>0, <3>2, ReadTyped
  <2>2. /\ Lock(p, UserRow(mem[p].user))
        /\ mem' = [mem EXCEPT ![p] = m] /\ Goto(p, "link_save")
        /\ UNCHANGED tables
    BY <1>5 DEF LockUserOfLink
  <2> HIDE DEF m
  <2> QED BY <1>1, <2>1, <2>2, LocalMoveTyped
<1>6. CASE SaveLink(p)
  <2> DEFINE m == mem[p]
             delivered == {o \in m.ids : m.seen[o].status = "entregado"}
             sum == [o \in OrderIds |-> m.balance[o] + (IF o \in delivered THEN 1 ELSE 0)]
  <2>1. m.user \in Users /\ m.ids \in SUBSET OrderIds /\ m.balance \in [OrderIds -> Nat]
    BY <1>0, <1>6 DEF SaveLink, SubjectKnown, LinkPcs, Mem
  <2>2. orders' \in [OrderIds -> Order]
    <3>1. \A o \in OrderIds : [orders[o] EXCEPT !.userId = m.user] \in Order
      BY <1>0, <2>1, OrderTyped DEF TablesTyped
    <3>2. orders' = [o \in OrderIds |->
            IF o \in m.ids THEN [orders[o] EXCEPT !.userId = m.user] ELSE orders[o]]
      BY <1>6 DEF SaveLink
    <3> QED BY <1>0, <3>1, <3>2 DEF TablesTyped
  <2>3. spent' \in [Users -> [OrderIds -> Nat]]
    <3>1. sum \in [OrderIds -> Nat]
      BY <2>1
    <3>2. spent' = spent \/ spent' = [spent EXCEPT ![m.user] = sum]
      BY <1>6 DEF SaveLink
    <3> HIDE DEF sum
    <3> QED BY <1>0, <3>1, <3>2 DEF TablesTyped
  <2>4. outbox' \subseteq ({"created", "whatsapp", "linked"} \cup OrderStatus) \X OrderIds
    <3>1. Record("linked", m.ids)
      BY <1>6 DEF SaveLink
    <3> QED BY <1>0, <2>1, <3>1, RecordTyped
  <2>5. TablesTyped'
    <3>1. UNCHANGED <<phone, issued, coupons, rewards, month>>
      BY <1>6 DEF SaveLink, loyalty
    <3> QED BY <1>0, <2>2, <2>3, <2>4, <3>1 DEF TablesTyped
  <2>6. LocalsTyped'
    <3> DEFINE tasks == IF delivered = {} THEN {} ELSE LoyaltyOf(m.user)
    <3>1. Finish(p, tasks)
      BY <1>6 DEF SaveLink
    <3>2. tasks \in SUBSET Task
      BY <2>1 DEF LoyaltyOf, Task
    <3> HIDE DEF tasks
    <3> QED BY <1>0, <3>1, <3>2, FinishTyped
  <2> QED BY <2>5, <2>6, TypeOKSplit
<1> QED BY <1>2, <1>3, <1>4, <1>5, <1>6 DEF LinkStep

(* New rewards are rewards.                                                *)
LEMMA GrantTyped ==
  ASSUME TablesTyped, NEW u \in Users, NEW S \in SUBSET Milestones,
         NEW slot \in [S -> FreeRewards], NEW backing \in 0..MaxMonth
  PROVE  GrantRewards(u, slot, backing) \in [RewardIds -> Reward]
<1> DEFINE row(s) == [owner |-> u, milestone |-> s, earned |-> month,
                      backing |-> backing, order |-> None]
<1>1. month \in 0..MaxMonth
  BY RewardsAssumption DEF TablesTyped, Months
<1>2. \A s \in S : row(s) \in Reward
  BY <1>1 DEF Reward
<1>3. \A r \in RewardIds :
        (\E s \in DOMAIN slot : slot[s] = r) => (CHOOSE s \in DOMAIN slot : slot[s] = r) \in S
  OBVIOUS
<1>4. GrantRewards(u, slot, backing) =
        [r \in RewardIds |-> IF \E s \in DOMAIN slot : slot[s] = r
                             THEN row(CHOOSE s \in DOMAIN slot : slot[s] = r)
                             ELSE rewards[r]]
  BY DEF GrantRewards
<1> HIDE DEF row
<1> QED BY <1>2, <1>3, <1>4 DEF TablesTyped

(* The steps of the loyalty tasks.                                         *)
LEMMA TaskTyped ==
  ASSUME TypeOK, NEW p \in Procs, SubjectKnown(p), TaskStep(p)
  PROVE  TypeOK'
<1>0. TablesTyped /\ LocalsTyped /\ mem[p] \in Mem /\ mem[p].due \in SUBSET Task
  BY TypeOKSplit DEF LocalsTyped, Mem
<1>1. TaskPcs \subseteq Pcs
  BY DEF Pcs
<1>2. CASE BeginTask(p)
  <2>1. PICK t \in mem[p].due :
          /\ mem' = [mem EXCEPT ![p].user = t[2], ![p].due = @ \ {t},
                       ![p].cut = IF t[1] = "coupon" THEN issued ELSE {}]
          /\ Goto(p, IF t[1] = "coupon" THEN "gen_user" ELSE "stars_user")
    BY <1>2 DEF BeginTask
  <2> DEFINE cut == IF t[1] = "coupon" THEN issued ELSE {}
             label == IF t[1] = "coupon" THEN "gen_user" ELSE "stars_user"
             m == [mem[p] EXCEPT !.user = t[2], !.due = mem[p].due \ {t}, !.cut = cut]
  <2>2. t[2] \in Users /\ mem[p].due \ {t} \in SUBSET Task /\ cut \in SUBSET OrderIds
    BY <1>0, <2>1 DEF Task, TablesTyped
  <2>3. m \in Mem
    <3> HIDE DEF cut
    <3> QED BY <1>0, <2>2, TaskMemTyped
  <2>4. mem' = [mem EXCEPT ![p] = m]
    BY <1>0, <2>1 DEF LocalsTyped
  <2>5. label \in Pcs /\ Goto(p, label) /\ UNCHANGED tables /\ UNCHANGED holder
    BY <1>1, <1>2, <2>1 DEF BeginTask, TaskPcs
  <2> HIDE DEF m, label
  <2> QED BY <2>3, <2>4, <2>5, LocalMoveTyped
<1>3. {"gen_check", "gen_sum", "gen_insert", "stars_read", "stars_insert"} \subseteq Pcs
  BY <1>1 DEF TaskPcs
<1>4. CASE LockUserOfGeneration(p)
  BY <1>3, <1>4, LockMoveTyped DEF LockUserOfGeneration
<1>5. CASE CheckActiveCoupon(p)
  BY <1>3, <1>5, LockMoveTyped DEF CheckActiveCoupon
<1>6. CASE TaskDone(p)
  BY <1>0, <1>6, FinishOnlyTyped DEF TaskDone
<1>7. CASE SumSinceLastCoupon(p)
  <2> DEFINE m == [mem[p] EXCEPT !.basis = SpentSinceLastCoupon(mem[p].user)]
  <2>1. SpentSinceLastCoupon(mem[p].user) \in SUBSET OrderIds
    BY DEF SpentSinceLastCoupon
  <2>2. m \in Mem
    BY <1>0, <2>1, TaskMemTyped
  <2>3. mem' = [mem EXCEPT ![p] = m] /\ Goto(p, "gen_insert")
          /\ UNCHANGED tables /\ UNCHANGED holder
    BY <1>7 DEF SumSinceLastCoupon
  <2> HIDE DEF m
  <2> QED BY <1>3, <2>2, <2>3, LocalMoveTyped
<1>8. CASE InsertCoupon(p)
  <2>1. PICK c \in FreeCoupons : coupons' = [coupons EXCEPT ![c] =
                     NewCoupon(mem[p].user, "auto", mem[p].cut, mem[p].basis)]
    BY <1>8 DEF InsertCoupon
  <2>2. NewCoupon(mem[p].user, "auto", mem[p].cut, mem[p].basis) \in Coupon
    BY <1>0, NewCouponTyped DEF Mem, CouponOrigin
  <2>3. coupons' \in [CouponIds -> Coupon]
    BY <1>0, <2>1, <2>2 DEF TablesTyped
  <2>4. TablesTyped'
    BY <1>0, <1>8, <2>3 DEF TablesTyped, InsertCoupon
  <2>5. LocalsTyped'
    BY <1>0, <1>8, FinishTyped DEF InsertCoupon
  <2> QED BY <2>4, <2>5, TypeOKSplit
<1>9. CASE LockUserOfStars(p)
  BY <1>3, <1>9, LockMoveTyped DEF LockUserOfStars
<1>10. CASE ReadStars(p)
  <2> DEFINE S == ToGrant(mem[p].user, month)
             m == [mem[p] EXCEPT !.grants = S, !.backing = month]
  <2>1. S \in SUBSET Milestones /\ month \in 0..MaxMonth
    BY <1>0, RewardsAssumption DEF ToGrant, TablesTyped, Months
  <2>2. m \in Mem
    <3> HIDE DEF S
    <3> QED BY <1>0, <2>1, TaskMemTyped
  <2>3. mem' = [mem EXCEPT ![p] = m] /\ Goto(p, "stars_insert")
          /\ UNCHANGED tables /\ UNCHANGED holder
    BY <1>0, <1>10 DEF ReadStars, LocalsTyped
  <2> HIDE DEF m
  <2> QED BY <1>3, <2>2, <2>3, LocalMoveTyped
<1>11. CASE InsertRewards(p)
  <2>1. PICK slot \in [mem[p].grants -> FreeRewards] :
          rewards' = GrantRewards(mem[p].user, slot, mem[p].backing)
    BY <1>11 DEF InsertRewards
  <2>2. /\ mem[p].user \in Users
        /\ mem[p].grants \in SUBSET Milestones
        /\ mem[p].backing \in 0..MaxMonth
    BY <1>0, <1>11 DEF InsertRewards, SubjectKnown, TaskPcs, Mem
  <2>3. rewards' \in [RewardIds -> Reward]
    BY <1>0, <2>1, <2>2, GrantTyped
  <2>4. TablesTyped'
    BY <1>0, <1>11, <2>3 DEF TablesTyped, InsertRewards
  <2>5. LocalsTyped'
    BY <1>0, <1>11, FinishTyped DEF InsertRewards
  <2> QED BY <2>4, <2>5, TypeOKSplit
<1> QED BY <1>2, <1>4, <1>5, <1>6, <1>7, <1>8, <1>9, <1>10, <1>11
        DEF TaskStep, ActiveCouponFound, BelowThreshold, NothingToGrant

(* The steps of the daily expiry.                                          *)
LEMMA MaintenanceTyped ==
  ASSUME TypeOK, NEW p \in Procs, MaintenanceStep(p)
  PROVE  TypeOK'
<1>0. TablesTyped /\ LocalsTyped /\ mem[p] \in Mem
  BY TypeOKSplit DEF LocalsTyped
<1>1. CASE LockLapsed(p)
  <2>0. "idle" \in Pcs /\ UNCHANGED tables /\ UNCHANGED pc
    BY <1>1 DEF Pcs, LockLapsed
  <2>1. PICK c \in mem[p].lapsed :
          \/ Lock(p, CouponRow(c)) /\ UNCHANGED mem
          \/ mem' = [mem EXCEPT ![p].lapsed = @ \ {c}] /\ UNCHANGED holder
    BY <1>1 DEF LockLapsed
  <2>2. CASE Lock(p, CouponRow(c)) /\ UNCHANGED mem
    <3>1. UNCHANGED <<tables, mem>>
      BY <2>0, <2>2
    <3> QED BY <2>0, <2>2, <3>1, LockMoveTyped
  <2>3. CASE mem' = [mem EXCEPT ![p].lapsed = @ \ {c}] /\ UNCHANGED holder
    <3> DEFINE m == [mem[p] EXCEPT !.lapsed = mem[p].lapsed \ {c}]
    <3>1. mem[p].lapsed \ {c} \in SUBSET CouponIds
      BY <1>0 DEF Mem
    <3>2. m \in Mem
      BY <1>0, <3>1, TaskMemTyped
    <3>3. mem' = [mem EXCEPT ![p] = m]
      BY <2>3
    <3> HIDE DEF m
    <3> QED BY <2>0, <2>3, <3>2, <3>3, LocalMoveTyped
  <2> QED BY <2>1, <2>2, <2>3
<1>2. CASE SaveExpired(p)
  <2>1. \A c \in CouponIds : [coupons[c] EXCEPT !.status = "expired"] \in Coupon
    BY <1>0, CouponTyped DEF TablesTyped, CouponStatus
  <2>2. coupons' \in [CouponIds -> Coupon]
    <3>1. coupons' = ExpireCoupons(mem[p].lapsed)
      BY <1>2 DEF SaveExpired
    <3> QED BY <1>0, <2>1, <3>1 DEF TablesTyped, ExpireCoupons
  <2>3. TablesTyped'
    BY <1>0, <1>2, <2>2 DEF TablesTyped, SaveExpired
  <2>4. LocalsTyped'
    <3>1. Finish(p, mem[p].due) /\ mem[p].due \in SUBSET Task
      BY <1>0, <1>2 DEF SaveExpired, Mem
    <3> QED BY <1>0, <3>1, FinishTyped
  <2> QED BY <2>3, <2>4, TypeOKSplit
<1> QED BY <1>1, <1>2 DEF MaintenanceStep

(* Single-statement writes and the clock.                                  *)
LEMMA OutsideTyped ==
  ASSUME TypeOK, Environment
  PROVE  TypeOK'
<1>0. TablesTyped /\ LocalsTyped
  BY TypeOKSplit
<1>1. LocalsTyped'
  BY <1>0 DEF LocalsTyped, Environment, GenerateManual, ChangePhone,
              CouponLapses, MonthEnds, locals
<1>2. CASE GenerateManual
  <2>1. PICK u \in Users, c \in FreeCoupons :
          coupons' = [coupons EXCEPT ![c] = NewCoupon(u, "manual", issued, {})]
    BY <1>2 DEF GenerateManual
  <2>2. NewCoupon(u, "manual", issued, {}) \in Coupon
    BY <1>0, NewCouponTyped DEF TablesTyped, CouponOrigin
  <2>3. coupons' \in [CouponIds -> Coupon]
    BY <1>0, <2>1, <2>2 DEF TablesTyped
  <2> QED BY <1>0, <1>1, <1>2, <2>3, TypeOKSplit DEF TablesTyped, GenerateManual
<1>3. CASE ChangePhone
  <2>1. PICK u \in Users, ph \in Phones \cup {None} : phone' = [phone EXCEPT ![u] = ph]
    BY <1>3 DEF ChangePhone
  <2>2. phone' \in [Users -> Phones \cup {None}]
    BY <1>0, <2>1 DEF TablesTyped
  <2>3. TablesTyped'
    BY <1>0, <1>3, <2>2 DEF TablesTyped, ChangePhone, loyalty
  <2> QED BY <1>1, <2>3, TypeOKSplit
<1>4. CASE CouponLapses
  <2>1. PICK c \in CouponIds : coupons' = [coupons EXCEPT ![c].past = TRUE]
    BY <1>4 DEF CouponLapses
  <2> DEFINE e == [coupons[c] EXCEPT !.past = TRUE]
  <2>2. e \in Coupon
    BY <1>0, CouponTyped DEF TablesTyped
  <2>3. coupons' = [coupons EXCEPT ![c] = e]
    BY <2>1
  <2>4. coupons' \in [CouponIds -> Coupon]
    <3> HIDE DEF e
    <3> QED BY <1>0, <2>2, <2>3 DEF TablesTyped
  <2>5. TablesTyped'
    BY <1>0, <1>4, <2>4 DEF TablesTyped, CouponLapses
  <2> QED BY <1>1, <2>5, TypeOKSplit
<1>5. CASE MonthEnds
  <2>1. month' \in Months
    BY <1>0, <1>5, RewardsAssumption DEF TablesTyped, Months, MonthEnds
  <2>2. TablesTyped'
    BY <1>0, <1>5, <2>1 DEF TablesTyped, MonthEnds, loyalty
  <2> QED BY <1>1, <2>2, TypeOKSplit
<1> QED BY <1>2, <1>3, <1>4, <1>5 DEF Environment

(* Failures and crashes.                                                   *)
LEMMA FailureTyped ==
  ASSUME TypeOK, NEW p \in Procs, Fail(p) \/ Crash(p)
  PROVE  TypeOK'
<1>1. CASE Fail(p)
  <2> DEFINE tasks == IF pc[p] \in TaskPcs THEN mem[p].due ELSE {}
  <2>1. tasks \in SUBSET Task
    BY DEF TypeOK, Mem
  <2>2. Finish(p, tasks) /\ UNCHANGED tables
    BY <1>1 DEF Fail
  <2> HIDE DEF tasks
  <2> QED BY <2>1, <2>2, FinishOnlyTyped
<1>2. CASE Crash(p)
  BY <1>2, RejectTyped DEF Crash
<1> QED BY <1>1, <1>2

(* Every step.                                                             *)
LEMMA NextTyped ==
  ASSUME TypeOK, \A p \in Procs : SubjectKnown(p), [Next]_vars
  PROVE  TypeOK'
<1>1. CASE UNCHANGED vars
  BY <1>1 DEF TypeOK, vars, tables, locals, loyalty
<1>2. CASE Environment
  BY <1>2, OutsideTyped
<1>3. ASSUME NEW p \in Procs, Start(p) \/ Step(p) \/ Fail(p) \/ Crash(p)
      PROVE  TypeOK'
  BY <1>3, StartTyped, PlaceTyped, StatusTyped, WhatsappTyped, LinkTyped,
     TaskTyped, MaintenanceTyped, FailureTyped DEF Step
<1> QED BY <1>1, <1>2, <1>3 DEF Next

(* The initial state.                                                      *)
LEMMA InitTyped == Init => TypeOK
<1> SUFFICES ASSUME Init PROVE TypeOK
  OBVIOUS
<1>1. Unread \in [OrderIds -> Order] /\ NoBalance \in [OrderIds -> Nat]
  BY BlankTyped, RewardsAssumption DEF Unread, NoBalance, NoOrder, Order
<1>2. 1 \in Months
  BY RewardsAssumption DEF Months
<1>3. TablesTyped
  BY <1>1, <1>2, OrdersAssumption, InitialAssumption DEF Init, TablesTyped
<1>4. LocalsTyped
  BY BlankTyped DEF Init, LocalsTyped, LocksInit, Pcs
<1> QED BY <1>3, <1>4, TypeOKSplit

(***************************************************************************)
(* What the handlers rely on.                                              *)
(***************************************************************************)
(* A checkout has an id of its own, for a row that is not there yet.       *)
PlaceInv(p) ==
  pc[p] \in PlacePcs =>
    /\ mem[p].order \in issued
    /\ orders[mem[p].order].status = "none"

(* A status change past its first step holds the order it read, and the    *)
(* customer whom a delivery credits.                                       *)
StatusInv(p) ==
  LET o == mem[p].order IN
  /\ pc[p] \in StatusPcs \ {"status_order"} =>
       /\ Holds(p, OrderRow(o))
       /\ orders[o].status \in OrderStatus
       /\ mem[p].seen[o] = orders[o]
       /\ mem[p].to \in VALID_TRANSITIONS[orders[o].status]
  /\ pc[p] = "deliver_user" =>
       mem[p].to = "entregado" /\ mem[p].seen[o].userId # None
  /\ pc[p] \in {"cancel_coupon", "cancel_rewards"} => mem[p].to = "cancelado"
  /\ pc[p] = "status_save" /\ mem[p].to = "entregado"
       /\ mem[p].seen[o].userId # None =>
       Holds(p, UserRow(mem[p].seen[o].userId))

WhatsappInv(p) ==
  pc[p] = "whatsapp_save" =>
    /\ Holds(p, OrderRow(mem[p].order))
    /\ Confirmable(mem[p].order)

(* A link holds the orders it has found, and the customer whose balance it *)
(* is about to write.                                                      *)
LinkInv(p) ==
  /\ pc[p] = "link_select" => mem[p].seen = Unread
  /\ pc[p] \in {"link_orders", "link_save"} =>
       \A o \in OrderIds : mem[p].seen[o].status # "none" =>
         Holds(p, OrderRow(o)) /\ mem[p].seen[o] = orders[o]
  /\ pc[p] = "link_save" =>
       /\ AllLinkable(p)
       /\ Holds(p, UserRow(mem[p].user))
       /\ mem[p].balance = spent[mem[p].user]

HandlerInv(p) ==
  /\ SubjectKnown(p)
  /\ PlaceInv(p)
  /\ StatusInv(p)
  /\ WhatsappInv(p)
  /\ LinkInv(p)

(* No two checkouts have one id.                                           *)
DraftsDistinct ==
  \A p, q \in Procs :
    p # q /\ pc[p] \in PlacePcs /\ pc[q] \in PlacePcs => mem[p].order # mem[q].order

(* A row that is not there has nothing in it, and a row that is has an id  *)
(* that was drawn.                                                         *)
RowsIssued ==
  \A o \in OrderIds : IF orders[o].status = "none" THEN orders[o] = NoOrder
                                                   ELSE o \in issued

Inv ==
  /\ TypeOK
  /\ \A p \in Procs : HandlerInv(p)
  /\ DraftsDistinct
  /\ RowsIssued
  /\ SpentIsDelivered

(***************************************************************************)
(* Discipline.                                                             *)
(***************************************************************************)
(* A step of p leaves the others where they are, with the locks they have. *)
OthersKept(p) ==
  \A q \in Procs \ {p} :
    /\ pc'[q] = pc[q]
    /\ mem'[q] = mem[q]
    /\ \A row \in Rows : Holds(q, row) => holder'[row] = q

(* It writes existing orders and balances it has locked, or its own draft. *)
Disciplined(p) ==
  /\ OthersKept(p)
  /\ issued \subseteq issued'
  /\ \A o \in OrderIds :
       \/ orders'[o] = orders[o]
       \/ Holds(p, OrderRow(o)) /\ orders[o].status # "none"
       \/ pc[p] \in PlacePcs /\ o = mem[p].order
  /\ \A u \in Users : spent'[u] = spent[u] \/ Holds(p, UserRow(u))

(* A step that locks, unlocks, moves and remembers on p's behalf only.     *)
LEMMA OwnMove ==
  ASSUME TypeOK, NEW p \in Procs,
         (\E row : Lock(p, row)) \/ Unlock(p) \/ UNCHANGED holder,
         (\E label : Goto(p, label)) \/ UNCHANGED pc,
         (\E m : mem' = [mem EXCEPT ![p] = m]) \/ UNCHANGED mem
  PROVE  OthersKept(p)
<1> SUFFICES ASSUME NEW q \in Procs \ {p}
             PROVE  /\ pc'[q] = pc[q]
                    /\ mem'[q] = mem[q]
                    /\ \A row \in Rows : Holds(q, row) => holder'[row] = q
  BY DEF OthersKept
<1>1. pc'[q] = pc[q]
  BY DEF TypeOK, Goto
<1>2. mem'[q] = mem[q]
  BY DEF TypeOK
<1>3. ASSUME NEW row \in Rows, Holds(q, row) PROVE holder'[row] = q
  <2>1. CASE \E r : Lock(p, r)
    BY <1>3, <2>1, OrdersAssumption DEF TypeOK, Lock, Grantable, Holds
  <2>2. CASE Unlock(p)
    BY <1>3, <2>2 DEF TypeOK, Unlock, Holds
  <2> QED BY <1>3, <2>1, <2>2 DEF Holds
<1> QED BY <1>1, <1>2, <1>3

LEMMA FinishIsOwn ==
  ASSUME TypeOK, NEW p \in Procs, NEW tasks, Finish(p, tasks)
  PROVE  OthersKept(p)
<1>1. Unlock(p) /\ (\E label : Goto(p, label)) /\ (\E m : mem' = [mem EXCEPT ![p] = m])
  BY DEF Finish
<1> QED BY <1>1, OwnMove

(* Four kinds of steps write orders; the others leave what is relied on.   *)
Writes(p) == SaveOrder(p) \/ SaveStatus(p) \/ SaveWhatsapp(p) \/ SaveLink(p)

ReadsOnly == UNCHANGED <<orders, spent, outbox>> /\ issued \subseteq issued'

(* A new request writes no order.                                          *)
LEMMA StartReadsOnly ==
  ASSUME NEW p \in Procs, Start(p)
  PROVE  ReadsOnly
  BY DEF Start, StartPlace, StartStatus, StartWhatsapp, StartLink,
         StartProgress, StartMaintenance, tables, ReadsOnly

(* Any other step is one of the four writers or writes no order.           *)
LEMMA StepWritesOrReads ==
  ASSUME NEW p \in Procs, Step(p) \/ Fail(p) \/ Crash(p)
  PROVE  Writes(p) \/ ReadsOnly
<1>1. UNCHANGED tables => ReadsOnly
  BY DEF tables, ReadsOnly
<1>2. PlaceStep(p) => Writes(p) \/ ReadsOnly
  BY <1>1 DEF PlaceStep, ApplyToOrder, CouponRefused, ValidateForOrder,
              RewardRefused, Reject, Writes
<1>3. StatusStep(p) => Writes(p) \/ ReadsOnly
  BY <1>1 DEF StatusStep, LockOrderForStatus, StatusRefused,
              LockCouponOfCancelled, LockRewardOfCancelled, RewardsLocked,
              LockUserOfDelivered, Reject, Writes
<1>4. WhatsappStep(p) => Writes(p) \/ ReadsOnly
  BY <1>1 DEF WhatsappStep, LockOrderForWhatsapp, WhatsappUnchanged, Reject, Writes
<1>5. LinkStep(p) => Writes(p) \/ ReadsOnly
  BY <1>1 DEF LinkStep, SelectLinkable, LockLinkable, LinkRefused,
              LockUserOfLink, Reject, Writes
<1>6. TaskStep(p) => ReadsOnly
  BY <1>1 DEF TaskStep, BeginTask, LockUserOfGeneration, CheckActiveCoupon,
              ActiveCouponFound, SumSinceLastCoupon, BelowThreshold,
              InsertCoupon, LockUserOfStars, ReadStars, NothingToGrant,
              InsertRewards, TaskDone, ReadsOnly
<1>7. MaintenanceStep(p) => ReadsOnly
  BY <1>1 DEF MaintenanceStep, LockLapsed, SaveExpired, ReadsOnly
<1>8. Fail(p) \/ Crash(p) => ReadsOnly
  BY <1>1 DEF Fail, Crash, Reject
<1> QED BY <1>2, <1>3, <1>4, <1>5, <1>6, <1>7, <1>8 DEF Step

(* No step of p touches another handler.                                   *)
LEMMA StepIsOwn ==
  ASSUME TypeOK, NEW p \in Procs, Start(p) \/ Step(p) \/ Fail(p) \/ Crash(p)
  PROVE  OthersKept(p)
<1>1. CASE Start(p)
  <2>1. /\ UNCHANGED holder
        /\ \E label : Goto(p, label)
        /\ \E m : mem' = [mem EXCEPT ![p] = m]
    BY <1>1 DEF Start, StartPlace, StartStatus, StartWhatsapp, StartLink,
                StartProgress, StartMaintenance
  <2> QED BY <2>1, OwnMove
<1>2. CASE \E tasks : Finish(p, tasks)
  BY <1>2, FinishIsOwn
<1>3. CASE PlaceStep(p)
  <2>1. CASE ApplyToOrder(p) \/ ValidateForOrder(p)
    BY <2>1, OwnMove DEF ApplyToOrder, ValidateForOrder
  <2>2. CASE CouponRefused(p) \/ RewardRefused(p) \/ SaveOrder(p)
    BY <1>2, <2>2 DEF CouponRefused, RewardRefused, Reject, SaveOrder
  <2> QED BY <1>3, <2>1, <2>2 DEF PlaceStep
<1>4. CASE StatusStep(p)
  <2>1. CASE LockOrderForStatus(p)
    <3>1. /\ \E row : Lock(p, row)
          /\ \E label : Goto(p, label)
          /\ \E m : mem' = [mem EXCEPT ![p] = m]
      BY <2>1 DEF LockOrderForStatus
    <3> QED BY <3>1, OwnMove
  <2>2. CASE LockCouponOfCancelled(p) \/ LockRewardOfCancelled(p)
               \/ RewardsLocked(p) \/ LockUserOfDelivered(p)
    BY <2>2, OwnMove DEF LockCouponOfCancelled, LockRewardOfCancelled,
                         RewardsLocked, LockUserOfDelivered
  <2>3. CASE StatusRefused(p) \/ SaveStatus(p)
    BY <1>2, <2>3 DEF StatusRefused, Reject, SaveStatus
  <2> QED BY <1>4, <2>1, <2>2, <2>3 DEF StatusStep
<1>5. CASE WhatsappStep(p)
  <2>1. CASE LockOrderForWhatsapp(p)
    BY <2>1, OwnMove DEF LockOrderForWhatsapp
  <2>2. CASE WhatsappUnchanged(p) \/ SaveWhatsapp(p)
    BY <1>2, <2>2 DEF WhatsappUnchanged, Reject, SaveWhatsapp
  <2> QED BY <1>5, <2>1, <2>2 DEF WhatsappStep
<1>6. CASE LinkStep(p)
  <2>1. CASE SelectLinkable(p) \/ LockLinkable(p) \/ LockUserOfLink(p)
    <3>1. /\ (\E row : Lock(p, row)) \/ UNCHANGED holder
          /\ (\E label : Goto(p, label)) \/ UNCHANGED pc
          /\ \E m : mem' = [mem EXCEPT ![p] = m]
      BY <2>1 DEF SelectLinkable, LockLinkable, LockUserOfLink
    <3> QED BY <3>1, OwnMove
  <2>2. CASE LinkRefused(p) \/ SaveLink(p)
    BY <1>2, <2>2 DEF LinkRefused, Reject, SaveLink
  <2> QED BY <1>6, <2>1, <2>2 DEF LinkStep
<1>7. CASE TaskStep(p)
  <2>1. CASE BeginTask(p) \/ SumSinceLastCoupon(p) \/ ReadStars(p)
    <3>1. /\ UNCHANGED holder
          /\ \E label : Goto(p, label)
          /\ \E m : mem' = [mem EXCEPT ![p] = m]
      BY <2>1 DEF BeginTask, SumSinceLastCoupon, ReadStars
    <3> QED BY <3>1, OwnMove
  <2>2. CASE LockUserOfGeneration(p) \/ CheckActiveCoupon(p) \/ LockUserOfStars(p)
    BY <2>2, OwnMove DEF LockUserOfGeneration, CheckActiveCoupon, LockUserOfStars
  <2>3. CASE ActiveCouponFound(p) \/ BelowThreshold(p) \/ NothingToGrant(p)
               \/ InsertCoupon(p) \/ InsertRewards(p)
    BY <1>2, <2>3 DEF ActiveCouponFound, BelowThreshold, NothingToGrant,
                      TaskDone, InsertCoupon, InsertRewards
  <2> QED BY <1>7, <2>1, <2>2, <2>3 DEF TaskStep
<1>8. CASE MaintenanceStep(p)
  <2>1. CASE LockLapsed(p)
    <3>1. /\ (\E row : Lock(p, row)) \/ UNCHANGED holder
          /\ UNCHANGED pc
          /\ (\E m : mem' = [mem EXCEPT ![p] = m]) \/ UNCHANGED mem
      BY <2>1 DEF LockLapsed
    <3> QED BY <3>1, OwnMove
  <2>2. CASE SaveExpired(p)
    BY <1>2, <2>2 DEF SaveExpired
  <2> QED BY <1>8, <2>1, <2>2 DEF MaintenanceStep
<1>9. CASE Fail(p) \/ Crash(p)
  BY <1>2, <1>9 DEF Fail, Crash, Reject
<1> QED BY <1>1, <1>3, <1>4, <1>5, <1>6, <1>7, <1>8, <1>9 DEF Step

(* A row locked is a row held, and no other row changes hands.             *)
LEMMA LockHolds ==
  ASSUME TypeOK, NEW p \in Procs, NEW row \in Rows, Lock(p, row)
  PROVE  /\ Holds(p, row)'
         /\ \A s \in Rows : s # row => (Holds(p, s)' <=> Holds(p, s))
  BY DEF TypeOK, Lock, Holds

(* A step locks one row for p, unlocks all of p's, or leaves the locks.    *)
LEMMA StepLocks ==
  ASSUME NEW p \in Procs, Start(p) \/ Step(p) \/ Fail(p) \/ Crash(p)
  PROVE  (\E row : Lock(p, row)) \/ Unlock(p) \/ UNCHANGED holder
<1>1. CASE Start(p)
  BY <1>1 DEF Start, StartPlace, StartStatus, StartWhatsapp, StartLink,
              StartProgress, StartMaintenance
<1>2. CASE PlaceStep(p) \/ WhatsappStep(p) \/ Fail(p) \/ Crash(p)
  BY <1>2 DEF PlaceStep, ApplyToOrder, CouponRefused, ValidateForOrder,
              RewardRefused, SaveOrder, WhatsappStep, LockOrderForWhatsapp,
              WhatsappUnchanged, SaveWhatsapp, Fail, Crash, Reject, Finish
<1>3. CASE StatusStep(p) \/ LinkStep(p)
  BY <1>3 DEF StatusStep, LockOrderForStatus, StatusRefused,
              LockCouponOfCancelled, LockRewardOfCancelled, RewardsLocked,
              LockUserOfDelivered, SaveStatus, LinkStep, SelectLinkable,
              LockLinkable, LinkRefused, LockUserOfLink, SaveLink, Reject, Finish
<1>4. CASE TaskStep(p)
  BY <1>4 DEF TaskStep, BeginTask, LockUserOfGeneration, CheckActiveCoupon,
              ActiveCouponFound, SumSinceLastCoupon, BelowThreshold,
              InsertCoupon, LockUserOfStars, ReadStars, NothingToGrant,
              InsertRewards, TaskDone, Finish
<1>5. CASE MaintenanceStep(p)
  BY <1>5 DEF MaintenanceStep, LockLapsed, SaveExpired, Finish
<1> QED BY <1>1, <1>2, <1>3, <1>4, <1>5 DEF Step

(* So nobody else gets a lock by p's step.                                 *)
LEMMA OthersGetNothing ==
  ASSUME TypeOK, NEW p \in Procs, Start(p) \/ Step(p) \/ Fail(p) \/ Crash(p),
         NEW q \in Procs \ {p}, NEW row \in Rows, holder'[row] = q
  PROVE  Holds(q, row)
<1>1. CASE \E r : Lock(p, r)
  BY <1>1 DEF TypeOK, Lock, Holds
<1>2. CASE Unlock(p)
  BY <1>2, OrdersAssumption DEF TypeOK, Unlock, Holds
<1>3. CASE UNCHANGED holder
  BY <1>3 DEF Holds
<1> QED BY <1>1, <1>2, <1>3, StepLocks

(* What SaveLink has found is linkable, locked and still there.            *)
LEMMA LinkedAreHeld ==
  ASSUME TypeOK, NEW p \in Procs, LinkInv(p), pc[p] = "link_save",
         NEW o \in mem[p].ids
  PROVE  /\ o \in OrderIds
         /\ Holds(p, OrderRow(o))
         /\ mem[p].seen[o] = orders[o]
         /\ orders[o].status # "none"
         /\ orders[o].userId = None
<1>1. o \in OrderIds
  BY DEF TypeOK, Mem
<1>2. mem[p].seen[o].status # "none" /\ mem[p].seen[o].userId = None
  BY DEF LinkInv, AllLinkable
<1> QED BY <1>1, <1>2 DEF LinkInv

(* A writer writes what it holds.                                          *)
LEMMA WritesDisciplined ==
  ASSUME TypeOK, NEW p \in Procs, HandlerInv(p), OthersKept(p), Writes(p)
  PROVE  Disciplined(p)
<1>0. /\ orders \in [OrderIds -> Order]
      /\ spent \in [Users -> [OrderIds -> Nat]]
      /\ issued \subseteq issued'
  BY DEF TypeOK, Writes, SaveOrder, SaveStatus, SaveWhatsapp, SaveLink
<1>1. CASE SaveOrder(p)
  BY <1>0, <1>1 DEF SaveOrder, PlacePcs, Disciplined
<1>2. CASE SaveStatus(p)
  <2> DEFINE o == mem[p].order
             u == mem[p].seen[o].userId
  <2>1. /\ Holds(p, OrderRow(o))
        /\ orders[o].status # "none"
        /\ mem[p].to = "entregado" /\ u # None => Holds(p, UserRow(u))
    BY <1>2 DEF SaveStatus, HandlerInv, StatusInv, StatusPcs, OrderStatus
  <2>2. \A x \in OrderIds : x # o => orders'[x] = orders[x]
    BY <1>0, <1>2 DEF SaveStatus
  <2>3. \A v \in Users : spent'[v] = spent[v]
                           \/ (v = u /\ mem[p].to = "entregado" /\ u # None)
    BY <1>0, <1>2 DEF SaveStatus, AddToSpent
  <2> HIDE DEF o, u
  <2> QED BY <1>0, <2>1, <2>2, <2>3 DEF Disciplined
<1>3. CASE SaveWhatsapp(p)
  <2>1. Holds(p, OrderRow(mem[p].order)) /\ orders[mem[p].order].status # "none"
    BY <1>3 DEF SaveWhatsapp, HandlerInv, WhatsappInv, Confirmable, Exists, OrderStatus
  <2>2. \A x \in OrderIds : x # mem[p].order => orders'[x] = orders[x]
    BY <1>0, <1>3 DEF SaveWhatsapp
  <2>3. UNCHANGED spent
    BY <1>3 DEF SaveWhatsapp
  <2> QED BY <1>0, <2>1, <2>2, <2>3 DEF Disciplined
<1>4. CASE SaveLink(p)
  <2>1. \A o \in mem[p].ids : Holds(p, OrderRow(o)) /\ orders[o].status # "none"
    BY <1>4, LinkedAreHeld DEF SaveLink, HandlerInv
  <2>2. Holds(p, UserRow(mem[p].user))
    BY <1>4 DEF SaveLink, HandlerInv, LinkInv
  <2>3. \A o \in OrderIds : o \notin mem[p].ids => orders'[o] = orders[o]
    BY <1>4 DEF SaveLink
  <2>4. \A v \in Users : spent'[v] = spent[v] \/ v = mem[p].user
    BY <1>0, <1>4 DEF SaveLink
  <2> QED BY <1>0, <2>1, <2>2, <2>3, <2>4 DEF Disciplined
<1> QED BY <1>1, <1>2, <1>3, <1>4 DEF Writes

(* The first half of the argument: every step is disciplined.              *)
LEMMA StepDisciplined ==
  ASSUME TypeOK, NEW p \in Procs, HandlerInv(p),
         Start(p) \/ Step(p) \/ Fail(p) \/ Crash(p)
  PROVE  Disciplined(p)
<1>1. OthersKept(p)
  BY StepIsOwn
<1>2. CASE ReadsOnly
  BY <1>1, <1>2 DEF ReadsOnly, Disciplined
<1>3. CASE Writes(p)
  BY <1>1, <1>3, WritesDisciplined
<1> QED BY <1>2, <1>3, StartReadsOnly, StepWritesOrReads

(* The second half: what is relied on stays true.                          *)
LEMMA OthersRely ==
  ASSUME TypeOK, NEW p \in Procs, NEW q \in Procs \ {p},
         HandlerInv(p), HandlerInv(q), DraftsDistinct, Disciplined(p)
  PROVE  HandlerInv(q)'
<1>1. /\ pc'[q] = pc[q]
      /\ mem'[q] = mem[q]
      /\ \A row \in Rows : Holds(q, row) => Holds(q, row)'
  BY DEF Disciplined, OthersKept, Holds
<1>2. /\ \A o \in OrderIds : OrderRow(o) \in Rows
      /\ \A u \in Users : UserRow(u) \in Rows
  BY DEF Rows, OrderRow, UserRow
<1>3. ASSUME NEW o \in OrderIds, Holds(q, OrderRow(o)), orders[o].status # "none"
      PROVE  orders'[o] = orders[o]
  <2>1. ~Holds(p, OrderRow(o))
    BY <1>3 DEF Holds
  <2>2. ~(pc[p] \in PlacePcs /\ o = mem[p].order)
    BY <1>3 DEF HandlerInv, PlaceInv
  <2> QED BY <2>1, <2>2 DEF Disciplined
<1>4. ASSUME NEW u \in Users, Holds(q, UserRow(u))
      PROVE  spent'[u] = spent[u]
  BY <1>4 DEF Disciplined, Holds
<1>5. SubjectKnown(q)'
  BY <1>1 DEF HandlerInv, SubjectKnown
<1>6. PlaceInv(q)'
  <2> SUFFICES ASSUME pc[q] \in PlacePcs
               PROVE  /\ mem[q].order \in issued'
                      /\ orders'[mem[q].order].status = "none"
    BY <1>1 DEF PlaceInv
  <2>1. /\ mem[q].order \in OrderIds
        /\ mem[q].order \in issued
        /\ orders[mem[q].order].status = "none"
    BY DEF HandlerInv, SubjectKnown, PlaceInv, AboutAnOrder
  <2>2. orders'[mem[q].order] = orders[mem[q].order]
    BY <2>1 DEF Disciplined, DraftsDistinct
  <2> QED BY <2>1, <2>2 DEF Disciplined
<1>7. StatusInv(q)'
  <2> DEFINE o == mem[q].order
  <2>1. CASE pc[q] \in StatusPcs \ {"status_order"}
    <3>1. /\ o \in OrderIds
          /\ Holds(q, OrderRow(o))
          /\ orders[o].status \in OrderStatus
      BY <2>1 DEF HandlerInv, SubjectKnown, StatusInv, AboutAnOrder
    <3>2. orders'[o] = orders[o]
      BY <1>3, <3>1 DEF OrderStatus
    <3>3. mem[q].seen[o].userId # None => mem[q].seen[o].userId \in Users
      BY <3>1 DEF TypeOK, Mem, Order
    <3> QED BY <1>1, <1>2, <2>1, <3>1, <3>2, <3>3 DEF HandlerInv, StatusInv
  <2>2. CASE pc[q] \notin StatusPcs \ {"status_order"}
    BY <1>1, <2>2 DEF StatusInv, StatusPcs
  <2> QED BY <2>1, <2>2
<1>8. WhatsappInv(q)'
  <2> SUFFICES ASSUME pc[q] = "whatsapp_save"
               PROVE  Holds(q, OrderRow(mem[q].order))' /\ Confirmable(mem[q].order)'
    BY <1>1 DEF WhatsappInv
  <2>1. /\ mem[q].order \in OrderIds
        /\ Holds(q, OrderRow(mem[q].order))
        /\ Confirmable(mem[q].order)
    BY DEF HandlerInv, SubjectKnown, WhatsappInv, AboutAnOrder
  <2>2. orders'[mem[q].order] = orders[mem[q].order]
    BY <1>3, <2>1 DEF Confirmable, Exists, OrderStatus
  <2> QED BY <1>1, <1>2, <2>1, <2>2 DEF Confirmable, Exists
<1>9. LinkInv(q)'
  <2>1. ASSUME NEW o \in OrderIds, pc[q] \in {"link_orders", "link_save"},
               mem[q].seen[o].status # "none"
        PROVE  Holds(q, OrderRow(o))' /\ mem[q].seen[o] = orders'[o]
    <3>1. Holds(q, OrderRow(o)) /\ mem[q].seen[o] = orders[o]
      BY <2>1 DEF HandlerInv, LinkInv
    <3> QED BY <1>1, <1>2, <1>3, <2>1, <3>1
  <2>2. ASSUME pc[q] = "link_save"
        PROVE  /\ AllLinkable(q)'
               /\ Holds(q, UserRow(mem[q].user))'
               /\ mem[q].balance = spent'[mem[q].user]
    <3>1. /\ mem[q].user \in Users
          /\ AllLinkable(q)
          /\ Holds(q, UserRow(mem[q].user))
          /\ mem[q].balance = spent[mem[q].user]
      BY <2>2 DEF HandlerInv, SubjectKnown, LinkInv, LinkPcs
    <3> QED BY <1>1, <1>2, <1>4, <3>1 DEF AllLinkable
  <2> QED BY <1>1, <2>1, <2>2 DEF HandlerInv, LinkInv
<1> QED BY <1>5, <1>6, <1>7, <1>8, <1>9 DEF HandlerInv

(***************************************************************************)
(* What p itself relies on after its step.                                 *)
(***************************************************************************)
LEMMA NothingHeld ==
  ASSUME NEW p \in Procs,
         pc'[p] \in {"idle", "after", "expire"} \cup TaskPcs,
         pc'[p] \in TaskPcs => mem'[p].user \in Users
  PROVE  HandlerInv(p)'
  BY DEF HandlerInv, SubjectKnown, PlaceInv, StatusInv, WhatsappInv, LinkInv,
         AboutAnOrder, PlacePcs, StatusPcs, LinkPcs, TaskPcs

LEMMA AfterFinish ==
  ASSUME TypeOK, NEW p \in Procs, NEW tasks, Finish(p, tasks)
  PROVE  HandlerInv(p)'
<1>1. pc'[p] \in {"idle", "after"}
  BY DEF TypeOK, Finish, Goto
<1> QED BY <1>1, NothingHeld DEF TaskPcs

(* The first step of a request.                                            *)
LEMMA OwnStart ==
  ASSUME TypeOK, NEW p \in Procs, RowsIssued, Start(p)
  PROVE  HandlerInv(p)'
<1>1. CASE StartPlace(p)
  <2>1. PICK cart \in Carts, o \in OrderIds \ issued :
          /\ issued' = issued \cup {o}
          /\ Goto(p, PlaceLabel(cart))
          /\ mem' = [mem EXCEPT ![p] = [Blank EXCEPT !.cart = cart, !.order = o]]
    BY <1>1 DEF StartPlace
  <2>2. pc'[p] \in PlacePcs
    BY <2>1, PcsKnown DEF TypeOK, Goto
  <2>3. mem'[p].order = o
    BY <2>1 DEF TypeOK, Blank
  <2>4. orders'[o].status = "none"
    BY <1>1, <2>1 DEF StartPlace, RowsIssued
  <2> QED BY <2>1, <2>2, <2>3, <2>4
          DEF HandlerInv, SubjectKnown, PlaceInv, StatusInv, WhatsappInv,
              LinkInv, AboutAnOrder, PlacePcs, StatusPcs, LinkPcs, TaskPcs
<1>2. CASE StartStatus(p) \/ StartWhatsapp(p)
  <2>1. pc'[p] \in {"status_order", "whatsapp_order"}
    BY <1>2 DEF TypeOK, StartStatus, StartWhatsapp, Goto
  <2>2. mem'[p].order \in OrderIds
    <3>1. CASE StartStatus(p)
      BY <3>1 DEF TypeOK, StartStatus, Blank
    <3>2. CASE StartWhatsapp(p)
      BY <3>2 DEF TypeOK, StartWhatsapp, Blank
    <3> QED BY <1>2, <3>1, <3>2
  <2> QED BY <2>1, <2>2
          DEF HandlerInv, SubjectKnown, PlaceInv, StatusInv, WhatsappInv,
              LinkInv, AboutAnOrder, PlacePcs, StatusPcs, LinkPcs, TaskPcs
<1>3. CASE StartLink(p)
  <2>1. pc'[p] = "link_select"
    BY <1>3 DEF TypeOK, StartLink, Goto
  <2>2. mem'[p].user \in Users /\ mem'[p].seen = Unread
    BY <1>3 DEF TypeOK, StartLink, Blank
  <2>3. Unread' = Unread
    BY DEF Unread, NoOrder
  <2> QED BY <2>1, <2>2, <2>3
          DEF HandlerInv, SubjectKnown, PlaceInv, StatusInv, WhatsappInv,
              LinkInv, AboutAnOrder, PlacePcs, StatusPcs, LinkPcs, TaskPcs
<1>4. CASE StartProgress(p) \/ StartMaintenance(p)
  <2>1. pc'[p] \in {"after", "expire"}
    BY <1>4 DEF TypeOK, StartProgress, StartMaintenance, Goto
  <2> QED BY <2>1, NothingHeld DEF TaskPcs
<1> QED BY <1>1, <1>2, <1>3, <1>4 DEF Start

(* Checkout.                                                               *)
LEMMA OwnPlace ==
  ASSUME TypeOK, NEW p \in Procs, HandlerInv(p), PlaceStep(p)
  PROVE  HandlerInv(p)'
<1>1. CASE ApplyToOrder(p) \/ ValidateForOrder(p)
  <2>1. pc[p] \in PlacePcs /\ pc'[p] \in PlacePcs /\ UNCHANGED <<tables, mem>>
    BY <1>1 DEF TypeOK, ApplyToOrder, ValidateForOrder, Goto, PlacePcs
  <2>2. UNCHANGED <<orders, issued, mem>>
    BY <2>1 DEF tables
  <2> QED BY <2>1, <2>2
          DEF HandlerInv, SubjectKnown, PlaceInv, StatusInv, WhatsappInv,
              LinkInv, AboutAnOrder, PlacePcs, StatusPcs, LinkPcs, TaskPcs
<1>2. CASE CouponRefused(p) \/ RewardRefused(p) \/ SaveOrder(p)
  BY <1>2, AfterFinish DEF CouponRefused, RewardRefused, SaveOrder, Reject
<1> QED BY <1>1, <1>2 DEF PlaceStep

(* Status change.                                                          *)
LEMMA OwnStatus ==
  ASSUME TypeOK, NEW p \in Procs, HandlerInv(p), StatusStep(p)
  PROVE  HandlerInv(p)'
<1> DEFINE o == mem[p].order
<1>1. CASE LockOrderForStatus(p)
  <2> DEFINE to == mem[p].to
             u == orders[o].userId
  <2>1. o \in OrderIds /\ OrderRow(o) \in Rows
    BY <1>1 DEF LockOrderForStatus, HandlerInv, SubjectKnown, AboutAnOrder,
                StatusPcs, Rows, OrderRow
  <2>2. /\ pc'[p] = StatusLabel(to, u)
        /\ holder'[OrderRow(o)] = p
        /\ UNCHANGED orders
    BY <1>1, <2>1 DEF TypeOK, LockOrderForStatus, Lock, Goto, tables
  <2>3. /\ mem'[p].order = o
        /\ mem'[p].to = to
        /\ mem'[p].seen[o] = orders[o]
    BY <1>1, <2>1 DEF TypeOK, LockOrderForStatus, Mem
  <2>4. orders[o].status \in OrderStatus /\ to \in VALID_TRANSITIONS[orders[o].status]
    BY <1>1 DEF LockOrderForStatus, TransitionAllowed, Exists
  <2>5. /\ pc'[p] \in {"cancel_coupon", "deliver_user", "status_save"}
        /\ pc'[p] = "cancel_coupon" => to = "cancelado"
        /\ pc'[p] = "deliver_user" => to = "entregado" /\ u # None
        /\ pc'[p] = "status_save" => ~(to = "entregado" /\ u # None)
    BY <2>2 DEF StatusLabel
  <2>6. StatusInv(p)'
    <3> HIDE DEF o, to, u
    <3> QED BY <2>2, <2>3, <2>4, <2>5 DEF StatusInv, Holds, o, u
  <2> QED BY <2>1, <2>3, <2>5, <2>6
          DEF HandlerInv, SubjectKnown, PlaceInv, WhatsappInv,
              LinkInv, AboutAnOrder, PlacePcs, StatusPcs, LinkPcs, TaskPcs
<1>2. CASE \/ LockCouponOfCancelled(p) \/ LockRewardOfCancelled(p)
           \/ RewardsLocked(p) \/ LockUserOfDelivered(p)
  <2>1. /\ pc[p] \in {"cancel_coupon", "cancel_rewards", "deliver_user"}
        /\ UNCHANGED <<orders, mem>>
    BY <1>2 DEF LockCouponOfCancelled, LockRewardOfCancelled, RewardsLocked,
                LockUserOfDelivered, tables
  <2>2. /\ o \in OrderIds
        /\ Holds(p, OrderRow(o))
        /\ orders[o].status \in OrderStatus
        /\ mem[p].seen[o] = orders[o]
        /\ mem[p].to \in VALID_TRANSITIONS[orders[o].status]
    BY <2>1 DEF HandlerInv, SubjectKnown, StatusInv, AboutAnOrder, StatusPcs
  <2>3. holder'[OrderRow(o)] = p
    <3>1. OrderRow(o) \in Rows
      BY <2>2 DEF Rows, OrderRow
    <3>2. (\E row : Lock(p, row)) \/ UNCHANGED holder
      BY <1>2 DEF LockCouponOfCancelled, LockRewardOfCancelled, RewardsLocked,
                  LockUserOfDelivered
    <3> QED BY <2>2, <3>1, <3>2 DEF TypeOK, Lock, Holds
  <2>4. CASE LockUserOfDelivered(p)
    <3>1. /\ pc'[p] = "status_save"
          /\ mem[p].to = "entregado"
          /\ mem[p].seen[o].userId # None
      BY <2>4 DEF TypeOK, LockUserOfDelivered, Goto, HandlerInv, StatusInv
    <3>2. UserRow(mem[p].seen[o].userId) \in Rows
      BY <2>2, <3>1 DEF TypeOK, Mem, Order, Rows, UserRow
    <3>3. holder'[UserRow(mem[p].seen[o].userId)] = p
      BY <2>4, <3>2 DEF TypeOK, LockUserOfDelivered, Lock
    <3> QED BY <2>1, <2>2, <2>3, <3>1, <3>3
            DEF HandlerInv, SubjectKnown, PlaceInv, StatusInv, WhatsappInv,
                LinkInv, Holds, AboutAnOrder, PlacePcs, StatusPcs, LinkPcs, TaskPcs
  <2>5. CASE ~LockUserOfDelivered(p)
    <3>1. /\ pc[p] \in {"cancel_coupon", "cancel_rewards"}
          /\ pc'[p] \in {"cancel_rewards", "status_save"}
      BY <1>2, <2>5 DEF TypeOK, LockCouponOfCancelled, LockRewardOfCancelled,
                        RewardsLocked, Goto
    <3>2. mem[p].to = "cancelado"
      BY <3>1 DEF HandlerInv, StatusInv
    <3> QED BY <2>1, <2>2, <2>3, <3>1, <3>2
            DEF HandlerInv, SubjectKnown, PlaceInv, StatusInv, WhatsappInv,
                LinkInv, Holds, AboutAnOrder, PlacePcs, StatusPcs, LinkPcs, TaskPcs
  <2> QED BY <2>4, <2>5
<1>3. CASE StatusRefused(p) \/ SaveStatus(p)
  BY <1>3, AfterFinish DEF StatusRefused, SaveStatus, Reject
<1> QED BY <1>1, <1>2, <1>3 DEF StatusStep

(* Confirmation.                                                           *)
LEMMA OwnWhatsapp ==
  ASSUME TypeOK, NEW p \in Procs, HandlerInv(p), WhatsappStep(p)
  PROVE  HandlerInv(p)'
<1>1. CASE LockOrderForWhatsapp(p)
  <2>1. mem[p].order \in OrderIds /\ OrderRow(mem[p].order) \in Rows
    BY <1>1 DEF LockOrderForWhatsapp, HandlerInv, SubjectKnown, AboutAnOrder,
                Rows, OrderRow
  <2>2. /\ pc'[p] = "whatsapp_save"
        /\ holder'[OrderRow(mem[p].order)] = p
        /\ Confirmable(mem[p].order)
        /\ UNCHANGED <<orders, mem>>
    BY <1>1, <2>1 DEF TypeOK, LockOrderForWhatsapp, Goto, Lock, tables
  <2>3. WhatsappInv(p)'
    BY <2>2 DEF WhatsappInv, Holds, Confirmable, Exists
  <2> QED BY <2>1, <2>2, <2>3
          DEF HandlerInv, SubjectKnown, PlaceInv, StatusInv,
              LinkInv, AboutAnOrder, PlacePcs, StatusPcs, LinkPcs, TaskPcs
<1>2. CASE WhatsappUnchanged(p) \/ SaveWhatsapp(p)
  BY <1>2, AfterFinish DEF WhatsappUnchanged, SaveWhatsapp, Reject
<1> QED BY <1>1, <1>2 DEF WhatsappStep

(* Link.                                                                   *)
LEMMA OwnLink ==
  ASSUME TypeOK, NEW p \in Procs, HandlerInv(p), LinkStep(p)
  PROVE  HandlerInv(p)'
<1>0. mem[p] \in Mem
  BY DEF TypeOK
<1>1. CASE SelectLinkable(p)
  <2>1. /\ pc'[p] = "link_orders"
        /\ mem'[p].user = mem[p].user
        /\ mem'[p].seen = mem[p].seen
    BY <1>0, <1>1 DEF TypeOK, SelectLinkable, Goto, Mem
  <2>2. \A o \in OrderIds : mem'[p].seen[o].status = "none"
    BY <1>1, <2>1 DEF SelectLinkable, HandlerInv, LinkInv, Unread, NoOrder
  <2>3. mem[p].user \in Users
    BY <1>1 DEF SelectLinkable, HandlerInv, SubjectKnown, LinkPcs
  <2> QED BY <2>1, <2>2, <2>3
          DEF HandlerInv, SubjectKnown, PlaceInv, StatusInv, WhatsappInv,
              LinkInv, AboutAnOrder, PlacePcs, StatusPcs, LinkPcs, TaskPcs
<1>2. CASE LockLinkable(p)
  <2>1. PICK o \in mem[p].todo :
          /\ Lock(p, OrderRow(o))
          /\ mem' = [mem EXCEPT ![p].todo = @ \ {o}, ![p].seen[o] = orders[o]]
    BY <1>2 DEF LockLinkable
  <2>2. /\ pc[p] = "link_orders"
        /\ pc'[p] = "link_orders"
        /\ UNCHANGED orders
    BY <1>2 DEF LockLinkable, tables
  <2>3. o \in OrderIds /\ mem[p].user \in Users
    BY <1>0, <2>1, <2>2 DEF Mem, HandlerInv, SubjectKnown, LinkPcs
  <2>4. /\ mem'[p].user = mem[p].user
        /\ mem'[p].seen = [mem[p].seen EXCEPT ![o] = orders[o]]
    BY <1>0, <2>1, <2>3 DEF TypeOK, Mem
  <2>5. /\ holder'[OrderRow(o)] = p
        /\ \A row \in Rows : Holds(p, row) => holder'[row] = p
    BY <2>1, <2>3 DEF TypeOK, Lock, Holds, Rows, OrderRow
  <2>6. ASSUME NEW x \in OrderIds, mem'[p].seen[x].status # "none"
        PROVE  holder'[OrderRow(x)] = p /\ mem'[p].seen[x] = orders'[x]
    <3>1. CASE x = o
      BY <1>0, <2>2, <2>3, <2>4, <2>5, <3>1 DEF Mem
    <3>2. CASE x # o
      <4>1. mem'[p].seen[x] = mem[p].seen[x]
        BY <1>0, <2>3, <2>4, <3>2 DEF Mem
      <4>2. Holds(p, OrderRow(x)) /\ mem[p].seen[x] = orders[x]
        BY <2>2, <2>6, <4>1 DEF HandlerInv, LinkInv
      <4>3. OrderRow(x) \in Rows
        BY DEF Rows, OrderRow
      <4> QED BY <2>2, <2>5, <4>1, <4>2, <4>3
    <3> QED BY <3>1, <3>2
  <2>7. LinkInv(p)'
    BY <2>2, <2>6 DEF LinkInv, Holds
  <2> QED BY <2>2, <2>3, <2>4, <2>7
          DEF HandlerInv, SubjectKnown, PlaceInv, StatusInv, WhatsappInv,
              AboutAnOrder, PlacePcs, StatusPcs, LinkPcs, TaskPcs
<1>3. CASE LockUserOfLink(p)
  <2> DEFINE u == mem[p].user
  <2>1. /\ pc[p] = "link_orders"
        /\ AllLinkable(p)
        /\ Lock(p, UserRow(u))
        /\ UNCHANGED <<orders, spent>>
    BY <1>3 DEF LockUserOfLink, tables
  <2>2. u \in Users /\ UserRow(u) \in Rows
    BY <2>1 DEF HandlerInv, SubjectKnown, LinkPcs, Rows, UserRow
  <2>3. /\ pc'[p] = "link_save"
        /\ mem'[p].user = u
        /\ mem'[p].ids = mem[p].ids
        /\ mem'[p].phone = mem[p].phone
        /\ mem'[p].seen = mem[p].seen
        /\ mem'[p].balance = spent[u]
    BY <1>0, <1>3 DEF TypeOK, LockUserOfLink, Goto, Mem
  <2>4. /\ holder'[UserRow(u)] = p
        /\ \A row \in Rows : Holds(p, row) => holder'[row] = p
    BY <2>1, <2>2 DEF TypeOK, Lock, Holds
  <2>5. ASSUME NEW x \in OrderIds, mem[p].seen[x].status # "none"
        PROVE  holder'[OrderRow(x)] = p /\ mem[p].seen[x] = orders'[x]
    <3>1. Holds(p, OrderRow(x)) /\ mem[p].seen[x] = orders[x]
      BY <2>1, <2>5 DEF HandlerInv, LinkInv
    <3>2. OrderRow(x) \in Rows
      BY DEF Rows, OrderRow
    <3> QED BY <2>1, <2>4, <3>1, <3>2
  <2>6. AllLinkable(p)'
    BY <2>1, <2>3 DEF AllLinkable
  <2> HIDE DEF u
  <2>7. LinkInv(p)'
    BY <2>1, <2>3, <2>4, <2>5, <2>6 DEF LinkInv, Holds
  <2> QED BY <2>2, <2>3, <2>7
          DEF HandlerInv, SubjectKnown, PlaceInv, StatusInv, WhatsappInv,
              AboutAnOrder, PlacePcs, StatusPcs, LinkPcs, TaskPcs
<1>4. CASE LinkRefused(p) \/ SaveLink(p)
  BY <1>4, AfterFinish DEF LinkRefused, SaveLink, Reject
<1> QED BY <1>1, <1>2, <1>3, <1>4 DEF LinkStep

(* Loyalty tasks and maintenance.                                          *)
LEMMA OwnTask ==
  ASSUME TypeOK, NEW p \in Procs, HandlerInv(p), TaskStep(p) \/ MaintenanceStep(p)
  PROVE  HandlerInv(p)'
<1>0. mem[p] \in Mem
  BY DEF TypeOK
<1>1. CASE BeginTask(p)
  <2>1. pc'[p] \in TaskPcs
    BY <1>1 DEF TypeOK, BeginTask, Goto, TaskPcs
  <2>2. mem'[p].user \in Users
    <3>1. PICK t \in mem[p].due : mem'[p].user = t[2]
      BY <1>0, <1>1 DEF TypeOK, BeginTask, Mem
    <3> QED BY <1>0, <3>1 DEF Mem, Task
  <2> QED BY <2>1, <2>2, NothingHeld
<1>2. CASE LockUserOfGeneration(p) \/ CheckActiveCoupon(p) \/ LockUserOfStars(p)
  <2>1. pc[p] \in TaskPcs /\ pc'[p] \in TaskPcs /\ UNCHANGED mem
    BY <1>2 DEF TypeOK, LockUserOfGeneration, CheckActiveCoupon,
                LockUserOfStars, Goto, TaskPcs
  <2> QED BY <2>1, NothingHeld DEF HandlerInv, SubjectKnown
<1>3. CASE SumSinceLastCoupon(p) \/ ReadStars(p)
  <2>1. pc[p] \in TaskPcs /\ pc'[p] \in TaskPcs
    BY <1>3 DEF TypeOK, SumSinceLastCoupon, ReadStars, Goto, TaskPcs
  <2>2. mem'[p].user = mem[p].user
    BY <1>0, <1>3 DEF TypeOK, SumSinceLastCoupon, ReadStars, Mem
  <2> QED BY <2>1, <2>2, NothingHeld DEF HandlerInv, SubjectKnown
<1>4. CASE \/ ActiveCouponFound(p) \/ BelowThreshold(p) \/ NothingToGrant(p)
           \/ InsertCoupon(p) \/ InsertRewards(p) \/ SaveExpired(p)
  BY <1>4, AfterFinish DEF ActiveCouponFound, BelowThreshold, NothingToGrant,
                           TaskDone, InsertCoupon, InsertRewards, SaveExpired
<1>5. CASE LockLapsed(p)
  <2>1. pc'[p] = "expire"
    BY <1>5 DEF LockLapsed
  <2> QED BY <2>1, NothingHeld DEF TaskPcs
<1> QED BY <1>1, <1>2, <1>3, <1>4, <1>5 DEF TaskStep, MaintenanceStep

(* Every step.                                                             *)
LEMMA OwnHandler ==
  ASSUME TypeOK, NEW p \in Procs, HandlerInv(p), RowsIssued,
         Start(p) \/ Step(p) \/ Fail(p) \/ Crash(p)
  PROVE  HandlerInv(p)'
<1>1. CASE Fail(p) \/ Crash(p)
  BY <1>1, AfterFinish DEF Fail, Crash, Reject
<1> QED BY <1>1, OwnStart, OwnPlace, OwnStatus, OwnWhatsapp, OwnLink, OwnTask DEF Step

(***************************************************************************)
(* The tables.                                                             *)
(***************************************************************************)
LEMMA DraftsStayDistinct ==
  ASSUME TypeOK, NEW p \in Procs, \A q \in Procs : HandlerInv(q), DraftsDistinct,
         RowsIssued, Start(p) \/ Step(p) \/ Fail(p) \/ Crash(p)
  PROVE  DraftsDistinct'
<1>1. \A q \in Procs \ {p} : pc'[q] = pc[q] /\ mem'[q] = mem[q]
  BY StepIsOwn DEF OthersKept
<1>2. CASE StartPlace(p)
  <2>1. PICK o \in OrderIds \ issued : mem'[p].order = o
    BY <1>2 DEF TypeOK, StartPlace, Blank
  <2>2. \A q \in Procs \ {p} : pc[q] \in PlacePcs => mem[q].order \in issued
    BY DEF HandlerInv, PlaceInv
  <2> QED BY <1>1, <2>1, <2>2 DEF DraftsDistinct
<1>3. CASE pc[p] \in PlacePcs /\ mem'[p].order = mem[p].order
  BY <1>1, <1>3 DEF DraftsDistinct
<1>4. CASE pc'[p] \notin PlacePcs
  BY <1>1, <1>4 DEF DraftsDistinct
<1>5. \/ StartPlace(p)
      \/ pc[p] \in PlacePcs /\ mem'[p].order = mem[p].order
      \/ pc'[p] \notin PlacePcs
  <2>1. CASE Start(p)
    BY <2>1 DEF TypeOK, Start, StartStatus, StartWhatsapp, StartLink, StartProgress,
                StartMaintenance, Goto, PlacePcs
  <2>2. CASE ApplyToOrder(p) \/ ValidateForOrder(p)
    BY <2>2 DEF ApplyToOrder, ValidateForOrder, PlacePcs
  <2>3. ASSUME NEW tasks, Finish(p, tasks)
        PROVE  pc'[p] \notin PlacePcs
    BY <2>3 DEF TypeOK, Finish, Goto, PlacePcs
  <2>4. CASE CouponRefused(p) \/ RewardRefused(p) \/ SaveOrder(p)
    BY <2>3, <2>4 DEF CouponRefused, RewardRefused, SaveOrder, Reject
  <2>5. CASE Fail(p) \/ Crash(p)
    BY <2>3, <2>5 DEF Fail, Crash, Reject
  <2>6. CASE StatusStep(p)
    <3>1. CASE StatusRefused(p) \/ SaveStatus(p)
      BY <2>3, <3>1 DEF StatusRefused, SaveStatus, Reject
    <3>2. CASE LockOrderForStatus(p)
      BY <3>2 DEF TypeOK, LockOrderForStatus, Goto, StatusLabel, PlacePcs
    <3>3. CASE \/ LockCouponOfCancelled(p) \/ LockRewardOfCancelled(p)
               \/ RewardsLocked(p) \/ LockUserOfDelivered(p)
      BY <3>3 DEF TypeOK, LockCouponOfCancelled, LockRewardOfCancelled,
                  RewardsLocked, LockUserOfDelivered, Goto, PlacePcs
    <3> QED BY <2>6, <3>1, <3>2, <3>3 DEF StatusStep
  <2>7. CASE WhatsappStep(p)
    <3>1. CASE LockOrderForWhatsapp(p)
      BY <3>1 DEF TypeOK, LockOrderForWhatsapp, Goto, PlacePcs
    <3>2. CASE WhatsappUnchanged(p) \/ SaveWhatsapp(p)
      BY <2>3, <3>2 DEF WhatsappUnchanged, SaveWhatsapp, Reject
    <3> QED BY <2>7, <3>1, <3>2 DEF WhatsappStep
  <2>8. CASE LinkStep(p)
    <3>1. CASE SelectLinkable(p) \/ LockLinkable(p) \/ LockUserOfLink(p)
      BY <3>1 DEF TypeOK, SelectLinkable, LockLinkable, LockUserOfLink, Goto, PlacePcs
    <3>2. CASE LinkRefused(p) \/ SaveLink(p)
      BY <2>3, <3>2 DEF LinkRefused, SaveLink, Reject
    <3> QED BY <2>8, <3>1, <3>2 DEF LinkStep
  <2>9. CASE TaskStep(p)
    <3>1. CASE BeginTask(p)
      BY <3>1 DEF TypeOK, BeginTask, Goto, PlacePcs
    <3>2. CASE \/ LockUserOfGeneration(p) \/ CheckActiveCoupon(p)
               \/ SumSinceLastCoupon(p) \/ LockUserOfStars(p) \/ ReadStars(p)
      BY <3>2 DEF TypeOK, LockUserOfGeneration, CheckActiveCoupon,
                  SumSinceLastCoupon, LockUserOfStars, ReadStars, Goto, PlacePcs
    <3>3. CASE \/ ActiveCouponFound(p) \/ BelowThreshold(p) \/ NothingToGrant(p)
               \/ InsertCoupon(p) \/ InsertRewards(p)
      BY <2>3, <3>3 DEF ActiveCouponFound, BelowThreshold, NothingToGrant,
                        TaskDone, InsertCoupon, InsertRewards
    <3> QED BY <2>9, <3>1, <3>2, <3>3 DEF TaskStep
  <2>10. CASE MaintenanceStep(p)
    <3>1. CASE LockLapsed(p)
      BY <3>1 DEF LockLapsed, PlacePcs
    <3>2. CASE SaveExpired(p)
      BY <2>3, <3>2 DEF SaveExpired
    <3> QED BY <2>10, <3>1, <3>2 DEF MaintenanceStep
  <2> QED BY <2>1, <2>2, <2>4, <2>5, <2>6, <2>7, <2>8, <2>9, <2>10 DEF Step, PlaceStep
<1> QED BY <1>2, <1>3, <1>4, <1>5

(* What the four writers do to an order and to the balances.               *)
LEMMA SaveOrderWrites ==
  ASSUME TypeOK, NEW p \in Procs, HandlerInv(p), RowsIssued, SaveOrder(p),
         NEW o \in OrderIds
  PROVE  /\ UNCHANGED <<spent, issued>>
         /\ o # mem[p].order => orders'[o] = orders[o]
         /\ o = mem[p].order =>
              /\ o \in issued
              /\ orders[o] = NoOrder
              /\ orders'[o].status = "pendiente"
              /\ orders'[o].whatsappSentAt = None
<1>1. pc[p] \in PlacePcs /\ mem[p].order \in issued
        /\ orders[mem[p].order].status = "none"
  BY DEF SaveOrder, HandlerInv, PlaceInv, PlacePcs
<1>2. UNCHANGED <<spent, issued>> /\ (o # mem[p].order => orders'[o] = orders[o])
  BY DEF SaveOrder, TypeOK
<1>3. ASSUME o = mem[p].order
      PROVE  orders'[o].status = "pendiente" /\ orders'[o].whatsappSentAt = None
  BY <1>3 DEF SaveOrder, TypeOK, NoOrder
<1> QED BY <1>1, <1>2, <1>3 DEF RowsIssued

LEMMA SaveStatusWrites ==
  ASSUME TypeOK, NEW p \in Procs, HandlerInv(p), SaveStatus(p), NEW o \in OrderIds
  PROVE  /\ UNCHANGED issued
         /\ o # mem[p].order =>
              /\ orders'[o] = orders[o]
              /\ \A u \in Users : spent'[u][o] = spent[u][o]
         /\ o = mem[p].order =>
              /\ orders[o].status \in OrderStatus
              /\ orders'[o].status = mem[p].to
              /\ mem[p].to \in VALID_TRANSITIONS[orders[o].status]
              /\ orders'[o].userId = orders[o].userId
              /\ orders'[o].whatsappSentAt = orders[o].whatsappSentAt
              /\ \A u \in Users : spent'[u][o] =
                   IF mem[p].to = "entregado" /\ orders[o].userId = u
                   THEN spent[u][o] + 1 ELSE spent[u][o]
<1> DEFINE x == mem[p].order
<1>0. /\ orders \in [OrderIds -> Order]
      /\ spent \in [Users -> [OrderIds -> Nat]]
  BY DEF TypeOK
<1>1. /\ x \in OrderIds
      /\ orders[x].status \in OrderStatus
      /\ mem[p].seen[x] = orders[x]
      /\ mem[p].to \in VALID_TRANSITIONS[orders[x].status]
  BY DEF SaveStatus, HandlerInv, SubjectKnown, StatusInv, AboutAnOrder, StatusPcs
<1>2. /\ UNCHANGED issued
      /\ o # x => orders'[o] = orders[o]
  BY <1>0 DEF SaveStatus
<1>3. /\ orders'[x].status = mem[p].to
      /\ orders'[x].userId = orders[x].userId
      /\ orders'[x].whatsappSentAt = orders[x].whatsappSentAt
  BY <1>0, <1>1 DEF SaveStatus, Order
<1>4. ASSUME NEW u \in Users
      PROVE  spent'[u][o] = IF /\ o = x /\ mem[p].to = "entregado"
                               /\ orders[x].userId = u
                            THEN spent[u][o] + 1 ELSE spent[u][o]
  <2> DEFINE v == orders[x].userId
  <2>1. CASE mem[p].to = "entregado" /\ v # None
    <3>1. spent' = [spent EXCEPT ![v][x] = @ + 1]
      BY <1>1, <2>1 DEF SaveStatus, AddToSpent
    <3> HIDE DEF v, x
    <3> QED BY <1>0, <2>1, <3>1 DEF v
  <2>2. CASE ~(mem[p].to = "entregado" /\ v # None)
    <3>1. spent' = spent
      BY <1>1, <2>2 DEF SaveStatus
    <3> QED BY <2>2, <3>1, OrdersAssumption
  <2> QED BY <2>1, <2>2
<1> QED BY <1>1, <1>2, <1>3, <1>4

LEMMA SaveWhatsappWrites ==
  ASSUME TypeOK, NEW p \in Procs, HandlerInv(p), SaveWhatsapp(p), NEW o \in OrderIds
  PROVE  /\ UNCHANGED <<spent, issued>>
         /\ orders'[o].status = orders[o].status
         /\ orders'[o].userId = orders[o].userId
         /\ o # mem[p].order => orders'[o] = orders[o]
         /\ o = mem[p].order =>
              /\ Confirmable(o)
              /\ orders'[o].whatsappSentAt = p
<1>1. orders \in [OrderIds -> Order]
  BY DEF TypeOK
<1>2. Confirmable(mem[p].order)
  BY DEF SaveWhatsapp, HandlerInv, WhatsappInv
<1> QED BY <1>1, <1>2 DEF SaveWhatsapp, Order

LEMMA SaveLinkWrites ==
  ASSUME TypeOK, NEW p \in Procs, HandlerInv(p), SaveLink(p), NEW o \in OrderIds
  PROVE  /\ UNCHANGED issued
         /\ orders'[o].status = orders[o].status
         /\ orders'[o].whatsappSentAt = orders[o].whatsappSentAt
         /\ o \notin mem[p].ids =>
              /\ orders'[o] = orders[o]
              /\ \A u \in Users : spent'[u][o] = spent[u][o]
         /\ o \in mem[p].ids =>
              /\ orders[o].status # "none"
              /\ orders[o].userId = None
              /\ orders'[o].userId = mem[p].user
              /\ \A u \in Users : spent'[u][o] =
                   IF orders[o].status = "entregado" /\ mem[p].user = u
                   THEN spent[u][o] + 1 ELSE spent[u][o]
<1> DEFINE m == mem[p]
           delivered == {x \in m.ids : m.seen[x].status = "entregado"}
<1>0. /\ orders \in [OrderIds -> Order]
      /\ spent \in [Users -> [OrderIds -> Nat]]
      /\ UNCHANGED issued
  BY DEF TypeOK, SaveLink
<1>1. /\ m.user \in Users
      /\ m.balance = spent[m.user]
      /\ pc[p] = "link_save"
  BY DEF SaveLink, HandlerInv, SubjectKnown, LinkInv, LinkPcs
<1>2. o \in m.ids =>
        /\ m.seen[o] = orders[o]
        /\ orders[o].status # "none"
        /\ orders[o].userId = None
  BY <1>1, LinkedAreHeld DEF HandlerInv
<1>3. orders'[o] = IF o \in m.ids THEN [orders[o] EXCEPT !.userId = m.user]
                                  ELSE orders[o]
  BY DEF SaveLink
<1>4. /\ orders'[o].status = orders[o].status
      /\ orders'[o].whatsappSentAt = orders[o].whatsappSentAt
      /\ o \in m.ids => orders'[o].userId = m.user
      /\ o \notin m.ids => orders'[o] = orders[o]
  BY <1>0, <1>3 DEF Order
<1>5. ASSUME NEW u \in Users
      PROVE  spent'[u][o] = IF o \in delivered /\ m.user = u
                            THEN spent[u][o] + 1 ELSE spent[u][o]
  <2>1. CASE delivered = {}
    BY <2>1 DEF SaveLink
  <2>2. CASE delivered # {}
    <3> DEFINE sum == [x \in OrderIds |->
                         m.balance[x] + (IF x \in delivered THEN 1 ELSE 0)]
    <3>1. spent' = [spent EXCEPT ![m.user] = sum]
      BY <2>2 DEF SaveLink
    <3>2. sum[o] = IF o \in delivered THEN spent[m.user][o] + 1 ELSE spent[m.user][o]
      BY <1>0, <1>1
    <3> HIDE DEF sum, delivered, m
    <3> QED BY <1>0, <1>1, <3>1, <3>2
  <2> QED BY <2>1, <2>2
<1>6. o \in delivered <=> o \in m.ids /\ orders[o].status = "entregado"
  BY <1>2
<1> HIDE DEF delivered
<1> QED BY <1>0, <1>2, <1>4, <1>5, <1>6

(* Rows appear only under ids that were drawn.                             *)
LEMMA RowsStayIssued ==
  ASSUME TypeOK, NEW p \in Procs, HandlerInv(p), RowsIssued, Writes(p) \/ ReadsOnly
  PROVE  RowsIssued'
<1> SUFFICES ASSUME NEW o \in OrderIds
             PROVE  IF orders'[o].status = "none" THEN orders'[o] = NoOrder
                                                  ELSE o \in issued'
  BY DEF RowsIssued, NoOrder
<1>0. IF orders[o].status = "none" THEN orders[o] = NoOrder ELSE o \in issued
  BY DEF RowsIssued
<1>1. CASE ReadsOnly
  BY <1>0, <1>1 DEF ReadsOnly
<1>2. CASE SaveOrder(p)
  BY <1>0, <1>2, SaveOrderWrites
<1>3. CASE SaveStatus(p)
  <2>1. mem[p].to \in OrderStatus
    BY <1>3 DEF TypeOK, Mem
  <2> QED BY <1>0, <1>3, <2>1, SaveStatusWrites DEF OrderStatus
<1>4. CASE SaveWhatsapp(p)
  BY <1>0, <1>4, SaveWhatsappWrites DEF Confirmable, Exists, OrderStatus
<1>5. CASE SaveLink(p)
  BY <1>0, <1>5, SaveLinkWrites
<1> QED BY <1>1, <1>2, <1>3, <1>4, <1>5 DEF Writes

(* A delivery credits an order that was not delivered, a link one that was *)
(* nobody's.                                                               *)
LEMMA TotalsStayExact ==
  ASSUME TypeOK, NEW p \in Procs, HandlerInv(p), RowsIssued, SpentIsDelivered,
         Writes(p) \/ ReadsOnly
  PROVE  SpentIsDelivered'
<1> SUFFICES ASSUME NEW u \in Users, NEW o \in OrderIds
             PROVE  spent'[u][o] =
                      IF orders'[o].status = "entregado" /\ orders'[o].userId = u
                      THEN 1 ELSE 0
  BY DEF SpentIsDelivered, Delivered
<1>0. spent[u][o] = IF orders[o].status = "entregado" /\ orders[o].userId = u
                    THEN 1 ELSE 0
  BY DEF SpentIsDelivered, Delivered
<1>1. CASE ReadsOnly
  BY <1>0, <1>1 DEF ReadsOnly
<1>2. CASE SaveOrder(p)
  BY <1>0, <1>2, SaveOrderWrites DEF NoOrder
<1>3. CASE SaveStatus(p)
  <2>1. CASE o # mem[p].order
    BY <1>0, <1>3, <2>1, SaveStatusWrites
  <2>2. CASE o = mem[p].order
    <3>1. mem[p].to \in VALID_TRANSITIONS[orders[o].status]
            /\ orders[o].status \in OrderStatus
      BY <1>3, <2>2, SaveStatusWrites
    <3>2. orders[o].status # "entregado"
      BY <3>1 DEF VALID_TRANSITIONS, OrderStatus
    <3>3. spent[u][o] = 0
      BY <1>0, <3>2
    <3> QED BY <1>3, <2>2, <3>3, SaveStatusWrites
  <2> QED BY <2>1, <2>2
<1>4. CASE SaveWhatsapp(p)
  BY <1>0, <1>4, SaveWhatsappWrites
<1>5. CASE SaveLink(p)
  <2>1. CASE o \notin mem[p].ids
    BY <1>0, <1>5, <2>1, SaveLinkWrites
  <2>2. CASE o \in mem[p].ids
    <3>1. orders[o].userId # u
      BY <1>5, <2>2, SaveLinkWrites, OrdersAssumption
    <3>2. spent[u][o] = 0
      BY <1>0, <3>1
    <3> QED BY <1>5, <2>2, <3>2, SaveLinkWrites
  <2> QED BY <2>1, <2>2
<1> QED BY <1>1, <1>2, <1>3, <1>4, <1>5 DEF Writes

(***************************************************************************)
(* The invariant.                                                          *)
(***************************************************************************)
LEMMA InvInit == Init => Inv
<1> SUFFICES ASSUME Init PROVE Inv
  OBVIOUS
<1>1. TypeOK
  BY InitTyped
<1>2. \A p \in Procs : HandlerInv(p)
  BY DEF Init, HandlerInv, SubjectKnown, PlaceInv, StatusInv, WhatsappInv,
         LinkInv, AboutAnOrder, PlacePcs, StatusPcs, LinkPcs, TaskPcs
<1>3. DraftsDistinct
  BY DEF Init, DraftsDistinct, PlacePcs
<1>4. RowsIssued
  BY DEF Init, RowsIssued, Unread, NoOrder
<1>5. SpentIsDelivered
  BY DEF Init, SpentIsDelivered, Unread, NoOrder, NoBalance, Delivered
<1> QED BY <1>1, <1>2, <1>3, <1>4, <1>5 DEF Inv

(* Every step keeps the invariant: its own handler by OwnHandler, the      *)
(* others by discipline.                                                   *)
LEMMA InvNext == Inv /\ [Next]_vars => Inv'
<1> SUFFICES ASSUME Inv, [Next]_vars PROVE Inv'
  OBVIOUS
<1>0. /\ TypeOK /\ DraftsDistinct /\ RowsIssued /\ SpentIsDelivered
      /\ \A p \in Procs : HandlerInv(p)
  BY DEF Inv
<1>1. TypeOK'
  BY <1>0, NextTyped DEF HandlerInv
<1>2. CASE UNCHANGED <<orders, spent, issued, holder, locals>>
  <2>1. UNCHANGED <<orders, spent, issued, holder, pc, mem>>
    BY <1>2 DEF locals
  <2>2. ASSUME NEW p \in Procs PROVE HandlerInv(p)'
    <3>1. SubjectKnown(p)'
      BY <1>0, <2>1 DEF HandlerInv, SubjectKnown
    <3>2. PlaceInv(p)'
      BY <1>0, <2>1 DEF HandlerInv, PlaceInv
    <3>3. StatusInv(p)'
      BY <1>0, <2>1 DEF HandlerInv, StatusInv, Holds
    <3>4. WhatsappInv(p)'
      BY <1>0, <2>1 DEF HandlerInv, WhatsappInv, Holds, Confirmable, Exists
    <3>5. LinkInv(p)'
      <4>1. Unread' = Unread /\ (AllLinkable(p)' <=> AllLinkable(p))
        BY <2>1 DEF Unread, NoOrder, AllLinkable
      <4> QED BY <1>0, <2>1, <4>1 DEF HandlerInv, LinkInv, Holds
    <3> QED BY <3>1, <3>2, <3>3, <3>4, <3>5 DEF HandlerInv
  <2>3. DraftsDistinct' /\ RowsIssued' /\ SpentIsDelivered'
    BY <1>0, <2>1 DEF DraftsDistinct, RowsIssued, NoOrder, SpentIsDelivered, Delivered
  <2> QED BY <1>1, <2>2, <2>3 DEF Inv
<1>3. ASSUME NEW p \in Procs, Start(p) \/ Step(p) \/ Fail(p) \/ Crash(p)
      PROVE  Inv'
  <2>1. Disciplined(p)
    BY <1>0, <1>3, StepDisciplined
  <2>2. \A q \in Procs \ {p} : HandlerInv(q)'
    BY <1>0, <2>1, OthersRely
  <2>3. HandlerInv(p)'
    BY <1>0, <1>3, OwnHandler
  <2>4. DraftsDistinct'
    BY <1>0, <1>3, DraftsStayDistinct
  <2>5. Writes(p) \/ ReadsOnly
    BY <1>3, StartReadsOnly, StepWritesOrReads
  <2>6. RowsIssued' /\ SpentIsDelivered'
    BY <1>0, <2>5, RowsStayIssued, TotalsStayExact
  <2> QED BY <1>1, <2>2, <2>3, <2>4, <2>6 DEF Inv
<1>4. Environment => UNCHANGED <<orders, spent, issued, holder, locals>>
  BY DEF Environment, GenerateManual, ChangePhone, CouponLapses, MonthEnds
<1>5. UNCHANGED vars => UNCHANGED <<orders, spent, issued, holder, locals>>
  BY DEF vars, tables
<1> QED BY <1>2, <1>3, <1>4, <1>5 DEF Next

(* Orders change by a writer's step.                                       *)
LEMMA WritersOnly ==
  ASSUME [Next]_vars
  PROVE  UNCHANGED orders \/ \E p \in Procs : Writes(p)
<1>1. UNCHANGED vars \/ Environment => UNCHANGED orders
  BY DEF vars, tables, Environment, GenerateManual, ChangePhone, CouponLapses, MonthEnds
<1>2. ASSUME NEW p \in Procs, Start(p) \/ Step(p) \/ Fail(p) \/ Crash(p)
      PROVE  UNCHANGED orders \/ Writes(p)
  BY <1>2, StartReadsOnly, StepWritesOrReads DEF ReadsOnly
<1> QED BY <1>1, <1>2 DEF Next

(* The invariant behind the theorems: what a handler has read under its    *)
(* locks still holds when it writes, and the tables agree with each other. *)
THEOREM InvHolds == Spec => []Inv
  BY InvInit, InvNext, PTL DEF Spec

(* Whatever handlers do, tables, locks and local values keep their types.  *)
THEOREM OrdersTyped == Spec => []TypeOK
<1>1. Inv => TypeOK
  BY DEF Inv
<1> QED BY <1>1, InvHolds, PTL

(* totalSpent holds every delivered order of its customer once and nothing *)
(* else, for any number of concurrent deliveries and links.                *)
THEOREM TotalsAreExact == Spec => []SpentIsDelivered
<1>1. Inv => SpentIsDelivered
  BY DEF Inv
<1> QED BY <1>1, InvHolds, PTL

(* An order with a customer keeps her.                                     *)
LEMMA CustomersKept ==
  ASSUME Inv, [Next]_vars, NEW o \in OrderIds, orders[o].userId # None
  PROVE  orders'[o].userId = orders[o].userId
<1>0. CASE UNCHANGED orders
  BY <1>0
<1> SUFFICES ASSUME NEW p \in Procs, Writes(p)
             PROVE  orders'[o].userId = orders[o].userId
  BY <1>0, WritersOnly
<1>1. TypeOK /\ HandlerInv(p) /\ RowsIssued
  BY DEF Inv
<1>2. CASE SaveOrder(p)
  BY <1>1, <1>2, SaveOrderWrites DEF NoOrder
<1>3. CASE SaveStatus(p)
  BY <1>1, <1>3, SaveStatusWrites
<1>4. CASE SaveWhatsapp(p)
  BY <1>1, <1>4, SaveWhatsappWrites
<1>5. CASE SaveLink(p)
  BY <1>1, <1>5, SaveLinkWrites
<1> QED BY <1>2, <1>3, <1>4, <1>5 DEF Writes

(* Two administrators never link one order to two customers.               *)
THEOREM CustomersStay == Spec => CustomerNeverReplaced
<1>1. Inv /\ [Next]_vars => [\A o \in OrderIds :
        orders[o].userId # None => orders'[o].userId = orders[o].userId]_vars
  BY CustomersKept
<1> QED BY <1>1, InvHolds, PTL DEF Spec, CustomerNeverReplaced

(* The first WhatsApp confirmation is the one that stays, and a cancelled  *)
(* order gets none.                                                        *)
THEOREM ConfirmationsStay == Spec => FirstConfirmationKept
<1>1. ASSUME Inv, [Next]_vars, NEW o \in OrderIds,
             orders'[o].whatsappSentAt # orders[o].whatsappSentAt
      PROVE  orders[o].whatsappSentAt = None /\ orders[o].status # "cancelado"
  <2>0. CASE UNCHANGED orders
    BY <1>1, <2>0
  <2> SUFFICES ASSUME NEW p \in Procs, Writes(p)
               PROVE  orders[o].whatsappSentAt = None /\ orders[o].status # "cancelado"
    BY <1>1, <2>0, WritersOnly
  <2>2. TypeOK /\ HandlerInv(p) /\ RowsIssued
    BY <1>1 DEF Inv
  <2>3. CASE SaveOrder(p)
    BY <1>1, <2>2, <2>3, SaveOrderWrites DEF NoOrder
  <2>4. CASE SaveStatus(p)
    BY <1>1, <2>2, <2>4, SaveStatusWrites
  <2>5. CASE SaveWhatsapp(p)
    BY <1>1, <2>2, <2>5, SaveWhatsappWrites DEF Confirmable
  <2>6. CASE SaveLink(p)
    BY <1>1, <2>2, <2>6, SaveLinkWrites
  <2> QED BY <2>3, <2>4, <2>5, <2>6 DEF Writes
<1>2. Inv /\ [Next]_vars => [\A o \in OrderIds :
        orders'[o].whatsappSentAt # orders[o].whatsappSentAt =>
          /\ orders[o].whatsappSentAt = None
          /\ orders[o].status # "cancelado"]_vars
  BY <1>1
<1> QED BY <1>2, InvHolds, PTL DEF Spec, FirstConfirmationKept

(***************************************************************************)
(* Signals: no change of an order is without one, because the dedupe keys  *)
(* in the outbox are about changes that cannot happen again.               *)
(***************************************************************************)
(* The statuses an order can still get.                                    *)
Later == [none       |-> OrderStatus,
          pendiente  |-> {"confirmado", "en_camino", "entregado", "cancelado"},
          confirmado |-> {"en_camino", "entregado", "cancelado"},
          en_camino  |-> {"entregado", "cancelado"},
          entregado  |-> {},
          cancelado  |-> {}]

(* What a key is about has happened, and for good.                         *)
KeysMatch ==
  \A o \in OrderIds :
    /\ <<"created", o>> \in outbox => orders[o].status # "none"
    /\ <<"whatsapp", o>> \in outbox => orders[o].whatsappSentAt # None
    /\ <<"linked", o>> \in outbox => orders[o].userId # None
    /\ \A s \in OrderStatus : <<s, o>> \in outbox => s \notin Later[orders[o].status]

(* A transition goes to a status that was to come, and what comes after it *)
(* came after the old one.                                                 *)
LEMMA TransitionsAdvance ==
  ASSUME NEW s \in OrderStatus, NEW to \in VALID_TRANSITIONS[s]
  PROVE  /\ to \in OrderStatus
         /\ to \in Later[s]
         /\ to \notin Later[to]
         /\ Later[to] \subseteq Later[s]
  BY DEF OrderStatus, VALID_TRANSITIONS, Later

(* The keys a writer adds.                                                 *)
LEMMA SignalsOf ==
  ASSUME NEW p \in Procs, NEW o \in OrderIds, NEW operation
  PROVE  /\ SaveOrder(p) =>
              (<<operation, o>> \in outbox' <=> \/ <<operation, o>> \in outbox
                                                \/ operation = "created" /\ o = mem[p].order)
         /\ SaveStatus(p) =>
              (<<operation, o>> \in outbox' <=> \/ <<operation, o>> \in outbox
                                                \/ operation = mem[p].to /\ o = mem[p].order)
         /\ SaveWhatsapp(p) =>
              (<<operation, o>> \in outbox' <=> \/ <<operation, o>> \in outbox
                                                \/ operation = "whatsapp" /\ o = mem[p].order)
         /\ SaveLink(p) =>
              (<<operation, o>> \in outbox' <=> \/ <<operation, o>> \in outbox
                                                \/ operation = "linked" /\ o \in mem[p].ids)
<1>1. ASSUME NEW kind, NEW ids, Record(kind, ids)
      PROVE  <<operation, o>> \in outbox' <=> \/ <<operation, o>> \in outbox
                                              \/ operation = kind /\ o \in ids
  BY <1>1 DEF Record
<1>2. SaveOrder(p) => Record("created", {mem[p].order})
  BY DEF SaveOrder
<1>3. SaveStatus(p) => Record(mem[p].to, {mem[p].order})
  BY DEF SaveStatus
<1>4. SaveWhatsapp(p) => Record("whatsapp", {mem[p].order})
  BY DEF SaveWhatsapp
<1>5. SaveLink(p) => Record("linked", mem[p].ids)
  BY DEF SaveLink
<1> QED BY <1>1, <1>2, <1>3, <1>4, <1>5

(* The change a writer makes, and what it found, for one order: it is the  *)
(* change its key is about, and it had not happened.                       *)
LEMMA KeysStay ==
  ASSUME TypeOK, NEW p \in Procs, HandlerInv(p), RowsIssued, KeysMatch,
         Writes(p) \/ ReadsOnly
  PROVE  KeysMatch'
<1> SUFFICES ASSUME NEW o \in OrderIds
             PROVE  /\ <<"created", o>> \in outbox' => orders'[o].status # "none"
                    /\ <<"whatsapp", o>> \in outbox' => orders'[o].whatsappSentAt # None
                    /\ <<"linked", o>> \in outbox' => orders'[o].userId # None
                    /\ \A s \in OrderStatus :
                         <<s, o>> \in outbox' => s \notin Later[orders'[o].status]
  BY DEF KeysMatch, Later, OrderStatus
<1>0. /\ <<"created", o>> \in outbox => orders[o].status # "none"
      /\ <<"whatsapp", o>> \in outbox => orders[o].whatsappSentAt # None
      /\ <<"linked", o>> \in outbox => orders[o].userId # None
      /\ \A s \in OrderStatus : <<s, o>> \in outbox => s \notin Later[orders[o].status]
  BY DEF KeysMatch
<1>1. /\ "created" \notin OrderStatus
      /\ "whatsapp" \notin OrderStatus
      /\ "linked" \notin OrderStatus
  BY DEF OrderStatus
<1>2. CASE ReadsOnly
  BY <1>0, <1>2 DEF ReadsOnly
<1>3. CASE SaveOrder(p)
  <2>1. CASE o # mem[p].order
    BY <1>0, <1>1, <1>3, <2>1, SaveOrderWrites, SignalsOf
  <2>2. CASE o = mem[p].order
    <3>1. /\ orders[o] = NoOrder
          /\ orders'[o].status = "pendiente"
      BY <1>3, <2>2, SaveOrderWrites
    <3>2. /\ <<"whatsapp", o>> \notin outbox
          /\ <<"linked", o>> \notin outbox
          /\ \A s \in OrderStatus : <<s, o>> \notin outbox
      BY <1>0, <3>1 DEF NoOrder, Later
    <3> QED BY <1>1, <1>3, <3>1, <3>2, SignalsOf
  <2> QED BY <2>1, <2>2
<1>4. CASE SaveStatus(p)
  <2>1. CASE o # mem[p].order
    BY <1>0, <1>4, <2>1, SaveStatusWrites, SignalsOf
  <2>2. CASE o = mem[p].order
    <3> DEFINE to == mem[p].to
    <3>1. /\ orders[o].status \in OrderStatus
          /\ to \in VALID_TRANSITIONS[orders[o].status]
          /\ orders'[o].status = to
          /\ orders'[o].userId = orders[o].userId
          /\ orders'[o].whatsappSentAt = orders[o].whatsappSentAt
      BY <1>4, <2>2, SaveStatusWrites
    <3>2. /\ to \in OrderStatus
          /\ to \notin Later[to]
          /\ Later[to] \subseteq Later[orders[o].status]
      BY <3>1, TransitionsAdvance
    <3>3. /\ <<"created", o>> \in outbox' => orders'[o].status # "none"
          /\ <<"whatsapp", o>> \in outbox' => orders'[o].whatsappSentAt # None
          /\ <<"linked", o>> \in outbox' => orders'[o].userId # None
      <4>1. to # "none"
        BY <3>2 DEF OrderStatus
      <4> QED BY <1>0, <1>1, <1>4, <3>1, <3>2, <4>1, SignalsOf
    <3>4. ASSUME NEW s \in OrderStatus, <<s, o>> \in outbox'
          PROVE  s \notin Later[orders'[o].status]
      <4>1. <<s, o>> \in outbox \/ s = to
        BY <1>4, <3>4, SignalsOf
      <4> QED BY <1>0, <3>1, <3>2, <4>1
    <3> QED BY <3>3, <3>4
  <2> QED BY <2>1, <2>2
<1>5. CASE SaveWhatsapp(p)
  <2>1. /\ orders'[o].status = orders[o].status
        /\ orders'[o].userId = orders[o].userId
        /\ o # mem[p].order => orders'[o] = orders[o]
        /\ o = mem[p].order => orders'[o].whatsappSentAt # None
    BY <1>5, SaveWhatsappWrites, OrdersAssumption
  <2> QED BY <1>0, <1>1, <1>5, <2>1, SignalsOf
<1>6. CASE SaveLink(p)
  <2>1. mem[p].user # None
    BY <1>6, OrdersAssumption DEF SaveLink, HandlerInv, SubjectKnown, LinkPcs
  <2>2. /\ orders'[o].status = orders[o].status
        /\ orders'[o].whatsappSentAt = orders[o].whatsappSentAt
        /\ o \notin mem[p].ids => orders'[o].userId = orders[o].userId
        /\ o \in mem[p].ids => orders'[o].userId # None
    BY <1>6, <2>1, SaveLinkWrites
  <2> QED BY <1>0, <1>1, <1>6, <2>2, SignalsOf
<1> QED BY <1>2, <1>3, <1>4, <1>5, <1>6 DEF Writes

(* A writer's key for an order it changes is new.                          *)
LEMMA WriterSignals ==
  ASSUME TypeOK, NEW p \in Procs, HandlerInv(p), RowsIssued, KeysMatch, Writes(p),
         NEW o \in OrderIds, orders'[o] # orders[o]
  PROVE  \E key \in outbox' \ outbox : key[2] = o
<1> SUFFICES \E operation : <<operation, o>> \in outbox' \ outbox
  OBVIOUS
<1>0. /\ <<"created", o>> \in outbox => orders[o].status # "none"
      /\ <<"whatsapp", o>> \in outbox => orders[o].whatsappSentAt # None
      /\ <<"linked", o>> \in outbox => orders[o].userId # None
      /\ \A s \in OrderStatus : <<s, o>> \in outbox => s \notin Later[orders[o].status]
  BY DEF KeysMatch
<1>1. CASE SaveOrder(p)
  <2>1. o = mem[p].order /\ orders[o] = NoOrder
    BY <1>1, SaveOrderWrites
  <2>2. <<"created", o>> \in outbox' \ outbox
    BY <1>0, <1>1, <2>1, SignalsOf DEF NoOrder
  <2> QED BY <2>2
<1>2. CASE SaveStatus(p)
  <2>1. o = mem[p].order /\ orders[o].status \in OrderStatus
          /\ mem[p].to \in VALID_TRANSITIONS[orders[o].status]
    BY <1>2, SaveStatusWrites
  <2>2. mem[p].to \in OrderStatus /\ mem[p].to \in Later[orders[o].status]
    BY <2>1, TransitionsAdvance
  <2>3. <<mem[p].to, o>> \in outbox' \ outbox
    BY <1>0, <1>2, <2>1, <2>2, SignalsOf
  <2> QED BY <2>3
<1>3. CASE SaveWhatsapp(p)
  <2>1. o = mem[p].order /\ orders[o].whatsappSentAt = None
    BY <1>3, SaveWhatsappWrites DEF Confirmable
  <2>2. <<"whatsapp", o>> \in outbox' \ outbox
    BY <1>0, <1>3, <2>1, SignalsOf
  <2> QED BY <2>2
<1>4. CASE SaveLink(p)
  <2>1. o \in mem[p].ids /\ orders[o].userId = None
    BY <1>4, SaveLinkWrites
  <2>2. <<"linked", o>> \in outbox' \ outbox
    BY <1>0, <1>4, <2>1, SignalsOf
  <2> QED BY <2>2
<1> QED BY <1>1, <1>2, <1>3, <1>4 DEF Writes

(* The two invariants together.                                            *)
LEMMA KeysInit == Init => KeysMatch
  BY DEF Init, KeysMatch

LEMMA KeysNext == Inv /\ KeysMatch /\ [Next]_vars => KeysMatch'
<1> SUFFICES ASSUME Inv, KeysMatch, [Next]_vars PROVE KeysMatch'
  OBVIOUS
<1>1. CASE UNCHANGED <<orders, outbox>>
  BY <1>1 DEF KeysMatch, Later, OrderStatus
<1>2. Environment \/ UNCHANGED vars => UNCHANGED <<orders, outbox>>
  BY DEF Environment, GenerateManual, ChangePhone, CouponLapses, MonthEnds, vars, tables
<1>3. ASSUME NEW p \in Procs, Start(p) \/ Step(p) \/ Fail(p) \/ Crash(p)
      PROVE  KeysMatch'
  <2>1. Writes(p) \/ ReadsOnly
    BY <1>3, StartReadsOnly, StepWritesOrReads
  <2>2. TypeOK /\ HandlerInv(p) /\ RowsIssued
    BY DEF Inv
  <2> QED BY <2>1, <2>2, KeysStay
<1> QED BY <1>1, <1>2, <1>3 DEF Next

(* Every committed change of an order leaves a new key of that order in    *)
(* the outbox, for any number of handlers: ON CONFLICT DO NOTHING only     *)
(* ever swallows a signal that repeats itself.                             *)
THEOREM ChangesAreSignalled == Spec => EveryChangeIsSignalled
<1>1. Spec => []KeysMatch
  BY KeysInit, KeysNext, InvHolds, PTL DEF Spec
<1>2. ASSUME Inv, KeysMatch, [Next]_vars, NEW o \in OrderIds, orders'[o] # orders[o]
      PROVE  \E key \in outbox' \ outbox : key[2] = o
  <2>1. PICK p \in Procs : Writes(p)
    BY <1>2, WritersOnly
  <2>2. TypeOK /\ HandlerInv(p) /\ RowsIssued
    BY <1>2 DEF Inv
  <2> QED BY <1>2, <2>1, <2>2, WriterSignals
<1>3. Inv /\ KeysMatch /\ [Next]_vars =>
        [\A o \in OrderIds : orders'[o] # orders[o] =>
           \E key \in outbox' \ outbox : key[2] = o]_vars
  BY <1>2
<1> QED BY <1>1, <1>3, InvHolds, PTL DEF Spec, EveryChangeIsSignalled

(***************************************************************************)
(* Waiting: rows are locked in a fixed order, orders first, then coupons,  *)
(* then rewards by their ids, then customers.                              *)
(***************************************************************************)
(* Where a handler may hold a row of each kind.                            *)
OrderHolders  == (StatusPcs \ {"status_order"})
                   \cup {"whatsapp_save", "link_orders", "link_save"}
RewardHolders == {"place_rewards", "place_save", "cancel_rewards", "status_save"}
CouponHolders == RewardHolders \cup {"expire"}
UserHolders   == {"status_save", "link_save"} \cup (TaskPcs \ {"gen_user", "stars_user"})

LocksPlaced(p) ==
  /\ \A o \in OrderIds  : Holds(p, OrderRow(o))  => pc[p] \in OrderHolders
  /\ \A c \in CouponIds : Holds(p, CouponRow(c)) => pc[p] \in CouponHolders
  /\ \A r \in RewardIds : Holds(p, RewardRow(r)) => pc[p] \in RewardHolders
  /\ \A u \in Users     : Holds(p, UserRow(u))   => pc[p] \in UserHolders

(* The rewards a handler has locked come before those it has still to lock,*)
(* and it asks for a coupon, or for a reward, only if there is one.        *)
RewardsInOrder(p) ==
  /\ pc[p] = "place_coupon" => mem[p].cart.coupon # None
  /\ pc[p] = "place_rewards" =>
       /\ ClaimsLeft(p) # {}
       /\ \A r \in RewardIds, s \in ClaimsLeft(p) : Holds(p, RewardRow(r)) => r < s
  /\ pc[p] = "cancel_rewards" =>
       \A r \in RewardIds, s \in RewardsToLock(p) : Holds(p, RewardRow(r)) => r < s

LockInv(p) == LocksPlaced(p) /\ RewardsInOrder(p)

(* Three kinds of steps write rewards.                                     *)
LEMMA RewardsLeft ==
  ASSUME NEW p \in Procs, Start(p) \/ Step(p) \/ Fail(p) \/ Crash(p)
  PROVE  SaveOrder(p) \/ SaveStatus(p) \/ InsertRewards(p) \/ UNCHANGED rewards
<1>0. UNCHANGED tables => UNCHANGED rewards
  BY DEF tables, loyalty
<1>1. CASE Start(p)
  BY <1>0, <1>1 DEF Start, StartPlace, StartStatus, StartWhatsapp, StartLink,
                    StartProgress, StartMaintenance, loyalty
<1>2. CASE PlaceStep(p) \/ WhatsappStep(p) \/ Fail(p) \/ Crash(p)
  BY <1>0, <1>2 DEF PlaceStep, ApplyToOrder, CouponRefused, ValidateForOrder,
                    RewardRefused, WhatsappStep, LockOrderForWhatsapp,
                    WhatsappUnchanged, SaveWhatsapp, Fail, Crash, Reject, loyalty
<1>3. CASE StatusStep(p) \/ LinkStep(p)
  BY <1>0, <1>3 DEF StatusStep, LockOrderForStatus, StatusRefused,
                    LockCouponOfCancelled, LockRewardOfCancelled, RewardsLocked,
                    LockUserOfDelivered, LinkStep, SelectLinkable,
                    LockLinkable, LinkRefused, LockUserOfLink, SaveLink, Reject, loyalty
<1>4. CASE TaskStep(p)
  BY <1>0, <1>4 DEF TaskStep, BeginTask, LockUserOfGeneration, CheckActiveCoupon,
                    ActiveCouponFound, SumSinceLastCoupon, BelowThreshold, InsertCoupon,
                    LockUserOfStars, ReadStars, NothingToGrant, TaskDone
<1>5. CASE MaintenanceStep(p)
  BY <1>0, <1>5 DEF MaintenanceStep, LockLapsed, SaveExpired
<1> QED BY <1>1, <1>2, <1>3, <1>4, <1>5 DEF Step

(* The next claim is the least one left.                                   *)
LEMMA LeastReward ==
  ASSUME NEW R \in SUBSET Nat, R # {}
  PROVE  \E r \in R : \A s \in R : r <= s
<1>1. PICK r \in R : \A s \in Nat : <<s, r>> \in OpToRel(<, Nat) => s \notin R
  <2>1. IsWellFoundedOn(OpToRel(<, Nat), Nat)
    BY NatLessThanWellFounded
  <2> QED BY <2>1, WFMin
<1>2. \A s \in R : ~(s < r)
  BY <1>1 DEF OpToRel
<1> QED BY <1>2

LEMMA NextClaimIsLeast ==
  ASSUME TypeOK, NEW p \in Procs, ClaimsLeft(p) # {}
  PROVE  /\ ClaimsLeft(p) \subseteq RewardIds
         /\ NextClaim(p) \in ClaimsLeft(p)
         /\ \A s \in ClaimsLeft(p) : NextClaim(p) <= s
<1>1. ClaimsLeft(p) \subseteq RewardIds
  BY DEF TypeOK, Mem, Cart, ClaimsLeft
<1>2. ClaimsLeft(p) \in SUBSET Nat
  BY <1>1, RewardsAssumption
<1>3. \E r \in ClaimsLeft(p) : \A s \in ClaimsLeft(p) : r <= s
  BY <1>2, LeastReward
<1> QED BY <1>1, <1>3 DEF NextClaim

(* A lock taken adds that row to those held.                               *)
LEMMA LockAdds ==
  ASSUME TypeOK, NEW p \in Procs, NEW row, Lock(p, row), NEW s \in Rows
  PROVE  Holds(p, s)' <=> s = row \/ Holds(p, s)
  BY DEF TypeOK, Lock, Holds

(* Rows of two kinds are two rows.                                         *)
LEMMA RowKinds ==
  /\ \A o \in OrderIds : OrderRow(o) \in Rows
  /\ \A c \in CouponIds : CouponRow(c) \in Rows
  /\ \A r \in RewardIds : RewardRow(r) \in Rows
  /\ \A u \in Users : UserRow(u) \in Rows
  /\ \A o, c : OrderRow(o) # CouponRow(c)
  /\ \A o, r : OrderRow(o) # RewardRow(r)
  /\ \A o, u : OrderRow(o) # UserRow(u)
  /\ \A c, r : CouponRow(c) # RewardRow(r)
  /\ \A c, u : CouponRow(c) # UserRow(u)
  /\ \A r, u : RewardRow(r) # UserRow(u)
  /\ \A r, s : RewardRow(r) = RewardRow(s) <=> r = s
  BY DEF Rows, OrderRow, CouponRow, RewardRow, UserRow

(* The rows a step of p adds to those it holds, by kind.                   *)
LEMMA KindsAdded ==
  ASSUME TypeOK, NEW p \in Procs, LocksPlaced(p), NEW row,
         Lock(p, row) \/ UNCHANGED holder,
         pc[p] \in OrderHolders  => pc'[p] \in OrderHolders,
         pc[p] \in CouponHolders => pc'[p] \in CouponHolders,
         pc[p] \in RewardHolders => pc'[p] \in RewardHolders,
         pc[p] \in UserHolders   => pc'[p] \in UserHolders,
         (\E o : row = OrderRow(o))  => pc'[p] \in OrderHolders,
         (\E c : row = CouponRow(c)) => pc'[p] \in CouponHolders,
         (\E r : row = RewardRow(r)) => pc'[p] \in RewardHolders,
         (\E u : row = UserRow(u))   => pc'[p] \in UserHolders
  PROVE  LocksPlaced(p)'
<1>1. \A s \in Rows : Holds(p, s)' => s = row \/ Holds(p, s)
  BY LockAdds DEF Holds
<1>2. ASSUME NEW o \in OrderIds, Holds(p, OrderRow(o))'
      PROVE  pc'[p] \in OrderHolders
  BY <1>1, <1>2, RowKinds DEF LocksPlaced
<1>3. ASSUME NEW c \in CouponIds, Holds(p, CouponRow(c))'
      PROVE  pc'[p] \in CouponHolders
  BY <1>1, <1>3, RowKinds DEF LocksPlaced
<1>4. ASSUME NEW r \in RewardIds, Holds(p, RewardRow(r))'
      PROVE  pc'[p] \in RewardHolders
  BY <1>1, <1>4, RowKinds DEF LocksPlaced
<1>5. ASSUME NEW u \in Users, Holds(p, UserRow(u))'
      PROVE  pc'[p] \in UserHolders
  BY <1>1, <1>5, RowKinds DEF LocksPlaced
<1> QED BY <1>2, <1>3, <1>4, <1>5 DEF LocksPlaced

(* Who has locked nothing may be anywhere.                                 *)
LEMMA NothingLocked ==
  ASSUME NEW p \in Procs, \A row \in Rows : ~Holds(p, row)',
         pc'[p] # "place_rewards" \/ ClaimsLeft(p)' # {},
         pc'[p] # "place_coupon" \/ mem'[p].cart.coupon # None
  PROVE  LockInv(p)'
  BY RowKinds DEF LockInv, LocksPlaced, RewardsInOrder, Rows

LEMMA FinishUnlocks ==
  ASSUME TypeOK, NEW p \in Procs, NEW tasks, Finish(p, tasks)
  PROVE  LockInv(p)'
<1>1. pc'[p] \in {"idle", "after"}
  BY DEF TypeOK, Finish, Goto
<1>2. \A row \in Rows : ~Holds(p, row)'
  BY OrdersAssumption DEF Finish, Unlock, Holds
<1> QED BY <1>1, <1>2, NothingLocked DEF Rows

(* Where nothing may be held, nothing is.                                  *)
LEMMA EmptyHanded ==
  ASSUME NEW p \in Procs, LocksPlaced(p),
         pc[p] \notin OrderHolders \cup CouponHolders \cup UserHolders
  PROVE  \A row \in Rows : ~Holds(p, row)
<1>1. pc[p] \notin RewardHolders
  BY DEF CouponHolders
<1> QED BY <1>1 DEF LocksPlaced, Rows, OrderRow, CouponRow, RewardRow, UserRow

(* Every step of p keeps p's place in the order.                           *)
LEMMA StartLocks ==
  ASSUME TypeOK, NEW p \in Procs, LockInv(p), Start(p)
  PROVE  LockInv(p)'
<1>1. pc[p] = "idle" /\ UNCHANGED holder
  BY DEF Start, Arrives, StartPlace, StartStatus, StartWhatsapp, StartLink,
         StartProgress, StartMaintenance
<1>2. \A row \in Rows : ~Holds(p, row)
  BY <1>1, EmptyHanded
     DEF LockInv, OrderHolders, CouponHolders, RewardHolders, UserHolders,
         StatusPcs, TaskPcs
<1>3. \A row \in Rows : ~Holds(p, row)'
  BY <1>1, <1>2 DEF Holds, Rows
<1>4. CASE StartPlace(p)
  <2>1. PICK cart \in Carts, o \in OrderIds \ issued :
          /\ Goto(p, PlaceLabel(cart))
          /\ mem' = [mem EXCEPT ![p] = [Blank EXCEPT !.cart = cart, !.order = o]]
    BY <1>4 DEF StartPlace
  <2>2. pc'[p] = PlaceLabel(cart) /\ mem'[p].cart = cart
    BY <2>1 DEF TypeOK, Goto, Blank
  <2>3. cart.rewards \subseteq RewardIds
    BY OrdersAssumption DEF Cart
  <2>4. ClaimsLeft(p)' = cart.rewards
    BY <1>3, <2>2, <2>3, RowKinds DEF ClaimsLeft
  <2>5. /\ pc'[p] = "place_rewards" => cart.rewards # {}
        /\ pc'[p] = "place_coupon" => mem'[p].cart.coupon # None
    BY <2>2 DEF PlaceLabel
  <2> QED BY <1>3, <2>4, <2>5, NothingLocked
<1>5. CASE ~StartPlace(p)
  <2>1. pc'[p] \notin {"place_coupon", "place_rewards"}
    BY <1>5 DEF TypeOK, Start, StartStatus, StartWhatsapp, StartLink,
                StartProgress, StartMaintenance, Goto
  <2> QED BY <1>3, <2>1, NothingLocked
<1> QED BY <1>4, <1>5

LEMMA PlaceLocks ==
  ASSUME TypeOK, NEW p \in Procs, LockInv(p), PlaceStep(p)
  PROVE  LockInv(p)'
<1> USE DEF OrderHolders, CouponHolders, RewardHolders, UserHolders, StatusPcs, TaskPcs
<1>0. LocksPlaced(p) /\ RewardsInOrder(p)
  BY DEF LockInv
<1>1. CASE CouponRefused(p) \/ RewardRefused(p) \/ SaveOrder(p)
  BY <1>1, FinishUnlocks DEF CouponRefused, RewardRefused, SaveOrder, Reject
<1>2. CASE ApplyToOrder(p)
  <2> DEFINE cart == mem[p].cart
  <2>1. /\ pc[p] = "place_coupon"
        /\ pc'[p] = IF cart.rewards # {} THEN "place_rewards" ELSE "place_save"
        /\ Lock(p, CouponRow(cart.coupon))
        /\ UNCHANGED mem
    BY <1>2 DEF ApplyToOrder, Goto, TypeOK
  <2>2. cart.rewards \subseteq RewardIds
    BY DEF TypeOK, Mem, Cart
  <2> HIDE DEF cart
  <2>3. LocksPlaced(p)'
    BY <1>0, <2>1, RowKinds, KindsAdded
  <2>4. \A r \in RewardIds : ~Holds(p, RewardRow(r))
    BY <1>0, <2>1 DEF LocksPlaced
  <2>5. \A r \in RewardIds : ~Holds(p, RewardRow(r))'
    BY <2>1, <2>4, RowKinds, LockAdds
  <2>6. ClaimsLeft(p)' = cart.rewards
    BY <2>1, <2>2, <2>5 DEF ClaimsLeft, cart
  <2> QED BY <2>1, <2>3, <2>5, <2>6 DEF LockInv, RewardsInOrder
<1>3. CASE ValidateForOrder(p)
  <2> DEFINE r == NextClaim(p)
  <2>1. /\ pc[p] = "place_rewards"
        /\ pc'[p] = IF ClaimsLeft(p) = {r} THEN "place_save" ELSE "place_rewards"
        /\ Lock(p, RewardRow(r))
        /\ UNCHANGED mem
    BY <1>3 DEF ValidateForOrder, Goto, TypeOK
  <2>2. /\ ClaimsLeft(p) \subseteq RewardIds
        /\ r \in ClaimsLeft(p)
        /\ \A s \in ClaimsLeft(p) : r <= s
    BY <1>0, <2>1, NextClaimIsLeast DEF RewardsInOrder
  <2> HIDE DEF r
  <2>3. LocksPlaced(p)'
    BY <1>0, <2>1, RowKinds, KindsAdded
  <2>4. \A s \in RewardIds : Holds(p, RewardRow(s))' <=> s = r \/ Holds(p, RewardRow(s))
    BY <2>1, RowKinds, LockAdds
  <2>5. ClaimsLeft(p)' = ClaimsLeft(p) \ {r}
    <3>1. mem[p].cart.rewards \subseteq RewardIds
      BY DEF TypeOK, Mem, Cart
    <3> QED BY <2>1, <2>4, <3>1 DEF ClaimsLeft
  <2>6. ASSUME pc'[p] = "place_rewards"
        PROVE  /\ ClaimsLeft(p)' # {}
               /\ \A x \in RewardIds, s \in ClaimsLeft(p)' :
                    Holds(p, RewardRow(x))' => x < s
    <3>1. ClaimsLeft(p)' # {}
      BY <2>1, <2>2, <2>5, <2>6
    <3>2. ASSUME NEW x \in RewardIds, NEW s \in ClaimsLeft(p)', Holds(p, RewardRow(x))'
          PROVE  x < s
      <4>1. s \in ClaimsLeft(p) /\ s # r /\ s \in RewardIds
        BY <2>2, <2>5
      <4>2. CASE x = r
        <5>1. r <= s /\ s \in Nat /\ r \in Nat
          BY <2>2, <4>1, RewardsAssumption
        <5> QED BY <4>1, <4>2, <5>1
      <4>3. CASE x # r
        BY <1>0, <2>1, <2>4, <3>2, <4>1, <4>3 DEF RewardsInOrder
      <4> QED BY <4>2, <4>3
    <3> QED BY <3>1, <3>2
  <2>7. pc'[p] \notin {"place_coupon", "cancel_rewards"}
    BY <2>1
  <2> QED BY <2>3, <2>6, <2>7 DEF LockInv, RewardsInOrder
<1> QED BY <1>1, <1>2, <1>3 DEF PlaceStep

LEMMA StatusLocks ==
  ASSUME TypeOK, NEW p \in Procs, LockInv(p), StatusStep(p)
  PROVE  LockInv(p)'
<1> USE DEF OrderHolders, CouponHolders, RewardHolders, UserHolders, StatusPcs, TaskPcs
<1>0. LocksPlaced(p) /\ RewardsInOrder(p)
  BY DEF LockInv
<1>1. CASE StatusRefused(p) \/ SaveStatus(p)
  BY <1>1, FinishUnlocks DEF StatusRefused, SaveStatus, Reject
<1>2. CASE LockOrderForStatus(p)
  <2>1. /\ pc[p] = "status_order"
        /\ pc'[p] \in {"cancel_coupon", "deliver_user", "status_save"}
        /\ Lock(p, OrderRow(mem[p].order))
    BY <1>2 DEF LockOrderForStatus, Goto, TypeOK, StatusLabel
  <2>2. LocksPlaced(p)'
    BY <1>0, <2>1, RowKinds, KindsAdded
  <2> QED BY <2>1, <2>2 DEF LockInv, RewardsInOrder
<1>3. CASE LockCouponOfCancelled(p)
  <2>1. /\ pc[p] = "cancel_coupon"
        /\ pc'[p] = "cancel_rewards"
        /\ UNCHANGED <<rewards, mem>>
    BY <1>3 DEF LockCouponOfCancelled, Goto, TypeOK, tables, loyalty
  <2>2. PICK c : Lock(p, CouponRow(c)) \/ UNCHANGED holder
    BY <1>3 DEF LockCouponOfCancelled
  <2>3. LocksPlaced(p)'
    BY <1>0, <2>1, <2>2, RowKinds, KindsAdded
  <2>4. \A r \in RewardIds : ~Holds(p, RewardRow(r))
    BY <1>0, <2>1 DEF LocksPlaced
  <2>5. \A r \in RewardIds : ~Holds(p, RewardRow(r))'
    BY <2>2, <2>4, RowKinds, LockAdds DEF Holds
  <2> QED BY <2>1, <2>3, <2>5 DEF LockInv, RewardsInOrder
<1>4. CASE LockRewardOfCancelled(p)
  <2>1. PICK r \in RewardsToLock(p) :
          (\A s \in RewardsToLock(p) : r <= s) /\ Lock(p, RewardRow(r))
    BY <1>4 DEF LockRewardOfCancelled
  <2>2. pc[p] = "cancel_rewards" /\ UNCHANGED <<rewards, mem, pc>>
    BY <1>4 DEF LockRewardOfCancelled, tables, loyalty
  <2>3. LocksPlaced(p)'
    BY <1>0, <2>1, <2>2, RowKinds, KindsAdded
  <2>4. \A s \in RewardIds : Holds(p, RewardRow(s))' <=> s = r \/ Holds(p, RewardRow(s))
    BY <2>1, RowKinds, LockAdds
  <2>5. RewardsToLock(p)' = RewardsToLock(p) \ {r} /\ RewardsToLock(p) \subseteq RewardIds
    BY <2>2, <2>4 DEF RewardsToLock, RewardsUsedIn
  <2>6. ASSUME NEW x \in RewardIds, NEW s \in RewardsToLock(p)', Holds(p, RewardRow(x))'
        PROVE  x < s
    <3>1. s \in RewardsToLock(p) /\ s # r /\ s \in RewardIds
      BY <2>5
    <3>2. CASE x = r
      <4>1. r <= s /\ s \in Nat /\ r \in Nat
        BY <2>1, <2>5, <3>1, RewardsAssumption
      <4> QED BY <3>1, <3>2, <4>1
    <3>3. CASE x # r
      BY <1>0, <2>2, <2>4, <2>6, <3>1, <3>3 DEF RewardsInOrder
    <3> QED BY <3>2, <3>3
  <2> QED BY <2>2, <2>3, <2>6 DEF LockInv, RewardsInOrder
<1>5. CASE RewardsLocked(p)
  <2>1. pc[p] = "cancel_rewards" /\ pc'[p] = "status_save" /\ UNCHANGED holder
    BY <1>5 DEF RewardsLocked, Goto, TypeOK
  <2>2. LocksPlaced(p)'
    BY <1>0, <2>1 DEF LocksPlaced, Holds
  <2> QED BY <2>1, <2>2 DEF LockInv, RewardsInOrder
<1>6. CASE LockUserOfDelivered(p)
  <2>1. /\ pc[p] = "deliver_user"
        /\ pc'[p] = "status_save"
        /\ Lock(p, UserRow(mem[p].seen[mem[p].order].userId))
    BY <1>6 DEF LockUserOfDelivered, Goto, TypeOK
  <2>2. LocksPlaced(p)'
    BY <1>0, <2>1, RowKinds, KindsAdded
  <2> QED BY <2>1, <2>2 DEF LockInv, RewardsInOrder
<1> QED BY <1>1, <1>2, <1>3, <1>4, <1>5, <1>6 DEF StatusStep

(* The other requests lock no rewards.                                     *)
LEMMA OtherLocks ==
  ASSUME TypeOK, NEW p \in Procs, LockInv(p),
         WhatsappStep(p) \/ LinkStep(p) \/ TaskStep(p) \/ MaintenanceStep(p)
  PROVE  LockInv(p)'
<1> USE DEF OrderHolders, CouponHolders, RewardHolders, UserHolders, StatusPcs, TaskPcs
<1>0. LocksPlaced(p)
  BY DEF LockInv
<1>1. CASE \/ WhatsappUnchanged(p) \/ SaveWhatsapp(p) \/ LinkRefused(p) \/ SaveLink(p)
           \/ ActiveCouponFound(p) \/ BelowThreshold(p) \/ NothingToGrant(p)
           \/ InsertCoupon(p) \/ InsertRewards(p) \/ SaveExpired(p)
  BY <1>1, FinishUnlocks DEF WhatsappUnchanged, SaveWhatsapp, LinkRefused, SaveLink,
       ActiveCouponFound, BelowThreshold, NothingToGrant, TaskDone, InsertCoupon,
       InsertRewards, SaveExpired, Reject
<1>2. CASE LockOrderForWhatsapp(p)
  <2>1. /\ pc[p] = "whatsapp_order" /\ pc'[p] = "whatsapp_save"
        /\ Lock(p, OrderRow(mem[p].order))
    BY <1>2 DEF LockOrderForWhatsapp, Goto, TypeOK
  <2>2. LocksPlaced(p)'
    BY <1>0, <2>1, RowKinds, KindsAdded
  <2> QED BY <2>1, <2>2 DEF LockInv, RewardsInOrder
<1>3. CASE LockLinkable(p)
  <2>1. pc[p] = "link_orders" /\ pc'[p] = "link_orders" /\ \E o : Lock(p, OrderRow(o))
    BY <1>3 DEF LockLinkable
  <2>2. LocksPlaced(p)'
    BY <1>0, <2>1, RowKinds, KindsAdded
  <2> QED BY <2>1, <2>2 DEF LockInv, RewardsInOrder
<1>4. CASE LockUserOfLink(p)
  <2>1. /\ pc[p] = "link_orders" /\ pc'[p] = "link_save"
        /\ Lock(p, UserRow(mem[p].user))
    BY <1>4 DEF LockUserOfLink, Goto, TypeOK
  <2>2. LocksPlaced(p)'
    BY <1>0, <2>1, RowKinds, KindsAdded
  <2> QED BY <2>1, <2>2 DEF LockInv, RewardsInOrder
<1>5. CASE LockUserOfGeneration(p) \/ LockUserOfStars(p)
  <2>1. /\ pc[p] \in {"gen_user", "stars_user"} /\ pc'[p] \in {"gen_check", "stars_read"}
        /\ Lock(p, UserRow(mem[p].user))
    BY <1>5 DEF LockUserOfGeneration, LockUserOfStars, Goto, TypeOK
  <2>2. LocksPlaced(p)'
    BY <1>0, <2>1, RowKinds, KindsAdded
  <2> QED BY <2>1, <2>2 DEF LockInv, RewardsInOrder
<1>6. CASE SelectLinkable(p) \/ BeginTask(p)
  <2>1. /\ pc[p] \in {"link_select", "after"}
        /\ pc'[p] \in {"link_orders", "gen_user", "stars_user"}
        /\ UNCHANGED holder
    BY <1>6 DEF SelectLinkable, BeginTask, Goto, TypeOK
  <2>2. LocksPlaced(p)'
    BY <1>0, <2>1 DEF LocksPlaced, Holds
  <2> QED BY <2>1, <2>2 DEF LockInv, RewardsInOrder
<1>7. CASE CheckActiveCoupon(p) \/ SumSinceLastCoupon(p) \/ ReadStars(p)
  <2>1. /\ pc[p] \in {"gen_check", "gen_sum", "stars_read"}
        /\ pc'[p] \in {"gen_sum", "gen_insert", "stars_insert"}
        /\ UNCHANGED holder
    BY <1>7 DEF CheckActiveCoupon, SumSinceLastCoupon, ReadStars, Goto, TypeOK
  <2>2. LocksPlaced(p)'
    BY <1>0, <2>1 DEF LocksPlaced, Holds
  <2> QED BY <2>1, <2>2 DEF LockInv, RewardsInOrder
<1>8. CASE LockLapsed(p)
  <2>1. pc[p] = "expire" /\ UNCHANGED pc
    BY <1>8 DEF LockLapsed
  <2>2. PICK c : Lock(p, CouponRow(c)) \/ UNCHANGED holder
    BY <1>8 DEF LockLapsed
  <2>3. LocksPlaced(p)'
    BY <1>0, <2>1, <2>2, RowKinds, KindsAdded
  <2> QED BY <2>1, <2>3 DEF LockInv, RewardsInOrder
<1> QED BY <1>1, <1>2, <1>3, <1>4, <1>5, <1>6, <1>7, <1>8
        DEF WhatsappStep, LinkStep, TaskStep, MaintenanceStep

(* Nobody else adds to the rewards that are used in an order p has locked. *)
LEMMA RewardsUsedStay ==
  ASSUME TypeOK, NEW p \in Procs, NEW q \in Procs \ {p}, HandlerInv(p), HandlerInv(q),
         Start(p) \/ Step(p) \/ Fail(p) \/ Crash(p), pc[q] = "cancel_rewards",
         NEW r \in RewardIds, rewards'[r].order = mem[q].order
  PROVE  rewards[r].order = mem[q].order
<1>1. /\ mem[q].order \in OrderIds
      /\ orders[mem[q].order].status \in OrderStatus
  BY DEF HandlerInv, SubjectKnown, StatusInv, AboutAnOrder, StatusPcs
<1>2. mem[q].order # None /\ "none" \notin OrderStatus
  BY <1>1, OrdersAssumption DEF OrderStatus
<1>3. rewards \in [RewardIds -> Reward]
  BY DEF TypeOK
<1>4. CASE SaveOrder(p)
  <2>1. orders[mem[p].order].status = "none"
    BY <1>4 DEF SaveOrder, HandlerInv, PlaceInv, PlacePcs
  <2>2. mem[p].order # mem[q].order
    BY <1>1, <1>2, <2>1
  <2>3. rewards'[r] = IF r \in mem[p].cart.rewards
                      THEN [rewards[r] EXCEPT !.order = mem[p].order] ELSE rewards[r]
    BY <1>4 DEF SaveOrder, MarkRewardsUsed
  <2> QED BY <1>3, <2>2, <2>3 DEF Reward
<1>5. CASE SaveStatus(p)
  <2>1. rewards'[r] \in {rewards[r], [rewards[r] EXCEPT !.order = None]}
    BY <1>5 DEF SaveStatus, ReactivateRewardsOf
  <2> QED BY <1>2, <1>3, <2>1 DEF Reward
<1>6. CASE InsertRewards(p)
  <2>1. PICK slot \in [mem[p].grants -> FreeRewards] :
          rewards' = GrantRewards(mem[p].user, slot, mem[p].backing)
    BY <1>6 DEF InsertRewards
  <2>2. rewards'[r] = rewards[r] \/ rewards'[r].order = None
    BY <2>1 DEF GrantRewards
  <2> QED BY <1>2, <2>2
<1>7. CASE ~(SaveOrder(p) \/ SaveStatus(p) \/ InsertRewards(p))
  BY <1>7, RewardsLeft
<1> QED BY <1>4, <1>5, <1>6, <1>7

(* A handler that does not move keeps its place in the order.              *)
LEMMA OthersLocks ==
  ASSUME TypeOK, NEW p \in Procs, NEW q \in Procs \ {p}, HandlerInv(p), HandlerInv(q),
         LockInv(q), Start(p) \/ Step(p) \/ Fail(p) \/ Crash(p)
  PROVE  LockInv(q)'
<1>1. /\ pc'[q] = pc[q]
      /\ mem'[q] = mem[q]
      /\ \A row \in Rows : Holds(q, row) => Holds(q, row)'
  BY StepIsOwn DEF OthersKept, Holds
<1>2. \A row \in Rows : Holds(q, row)' <=> Holds(q, row)
  BY <1>1, OthersGetNothing DEF Holds
<1>3. LocksPlaced(q) /\ RewardsInOrder(q)
  BY DEF LockInv
<1>4. LocksPlaced(q)'
  BY <1>1, <1>2, <1>3, RowKinds DEF LocksPlaced
<1>5. ClaimsLeft(q)' = ClaimsLeft(q)
  <2>1. mem[q].cart.rewards \subseteq RewardIds
    BY DEF TypeOK, Mem, Cart
  <2> QED BY <1>1, <1>2, <2>1, RowKinds DEF ClaimsLeft
<1>6. pc[q] = "cancel_rewards" => RewardsToLock(q)' \subseteq RewardsToLock(q)
  BY <1>1, <1>2, RewardsUsedStay, RowKinds DEF RewardsToLock, RewardsUsedIn
<1>7. RewardsInOrder(q)'
  BY <1>1, <1>2, <1>3, <1>5, <1>6, RowKinds DEF RewardsInOrder
<1> QED BY <1>4, <1>7 DEF LockInv

(* The invariant.                                                          *)
LEMMA LocksInitial == Init => \A p \in Procs : LockInv(p)
<1> SUFFICES ASSUME Init, NEW p \in Procs PROVE LockInv(p)
  OBVIOUS
<1>1. pc[p] = "idle" /\ \A row \in Rows : ~Holds(p, row)
  BY OrdersAssumption DEF Init, LocksInit, Holds
<1> QED BY <1>1, RowKinds DEF LockInv, LocksPlaced, RewardsInOrder

LEMMA LocksNext ==
  Inv /\ (\A p \in Procs : LockInv(p)) /\ [Next]_vars => \A p \in Procs : LockInv(p)'
<1> SUFFICES ASSUME Inv, \A p \in Procs : LockInv(p), [Next]_vars, NEW q \in Procs
             PROVE  LockInv(q)'
  OBVIOUS
<1>0. TypeOK /\ (\A p \in Procs : HandlerInv(p)) /\ LockInv(q)
  BY DEF Inv
<1>1. CASE Environment \/ UNCHANGED vars
  <2>1. UNCHANGED <<holder, pc, mem, rewards>>
    BY <1>1 DEF Environment, GenerateManual, ChangePhone, CouponLapses, MonthEnds,
                vars, tables, locals, loyalty
  <2>2. LocksPlaced(q)'
    BY <1>0, <2>1 DEF LockInv, LocksPlaced, Holds
  <2>3. ClaimsLeft(q)' = ClaimsLeft(q) /\ RewardsToLock(q)' = RewardsToLock(q)
    BY <2>1 DEF ClaimsLeft, RewardsToLock, RewardsUsedIn, Holds
  <2>4. RewardsInOrder(q)'
    BY <1>0, <2>1, <2>3 DEF LockInv, RewardsInOrder, Holds
  <2> QED BY <2>2, <2>4 DEF LockInv
<1>2. ASSUME NEW p \in Procs, Start(p) \/ Step(p) \/ Fail(p) \/ Crash(p)
      PROVE  LockInv(q)'
  <2>1. CASE q # p
    BY <1>0, <1>2, <2>1, OthersLocks
  <2>2. CASE q = p
    <3>1. CASE Fail(p) \/ Crash(p)
      BY <1>0, <2>2, <3>1, FinishUnlocks DEF Fail, Crash, Reject
    <3> QED BY <1>0, <1>2, <2>2, <3>1, StartLocks, PlaceLocks, StatusLocks, OtherLocks
            DEF Step
  <2> QED BY <2>1, <2>2
<1> QED BY <1>1, <1>2 DEF Next

(***************************************************************************)
(* Circles.                                                                *)
(***************************************************************************)
(* Who asks for a row of each kind.                                        *)
LEMMA WantsByKind ==
  ASSUME TypeOK, NEW p \in Procs, HandlerInv(p), LockInv(p), NEW row \in Wants(p)
  PROVE  \/ /\ \E o \in OrderIds : row = OrderRow(o)
            /\ pc[p] \in {"status_order", "whatsapp_order", "link_orders"}
         \/ /\ \E c \in CouponIds : row = CouponRow(c)
            /\ pc[p] \in {"place_coupon", "cancel_coupon", "expire"}
         \/ /\ \E r \in RewardIds : row = RewardRow(r)
            /\ pc[p] \in {"place_rewards", "cancel_rewards"}
         \/ \E u \in Users : row = UserRow(u)
<1>0. mem[p] \in Mem
  BY DEF TypeOK
<1>1. /\ mem[p].todo \subseteq OrderIds
      /\ mem[p].lapsed \subseteq CouponIds
      /\ mem[p].cart.coupon \in CouponIds \cup {None}
      /\ mem[p].cart.userId \in Users \cup {None}
      /\ \A o \in OrderIds : mem[p].seen[o].userId \in Users \cup {None}
  BY <1>0 DEF Mem, Cart, Order
<1>2. /\ pc[p] \in AboutAnOrder => mem[p].order \in OrderIds
      /\ pc[p] \in LinkPcs \cup TaskPcs => mem[p].user \in Users
      /\ pc[p] = "deliver_user" => mem[p].seen[mem[p].order].userId # None
      /\ pc[p] = "place_coupon" => mem[p].cart.coupon # None
  BY DEF HandlerInv, SubjectKnown, StatusInv, LockInv, RewardsInOrder
<1>3. pc[p] = "place_rewards" => NextClaim(p) \in RewardIds
  BY NextClaimIsLeast DEF LockInv, RewardsInOrder
<1>4. RewardsToLock(p) \subseteq RewardIds /\ CouponsUsedIn(mem[p].order) \subseteq CouponIds
  BY DEF RewardsToLock, RewardsUsedIn, CouponsUsedIn
<1> QED BY <1>1, <1>2, <1>3, <1>4
        DEF Wants, AboutAnOrder, PlacePcs, StatusPcs, LinkPcs, TaskPcs

(* A reward asked for comes after those its asker has.                     *)
LEMMA WantsHigher ==
  ASSUME TypeOK, NEW p \in Procs, HandlerInv(p), LockInv(p),
         NEW r \in RewardIds, RewardRow(r) \in Wants(p),
         NEW x \in RewardIds, Holds(p, RewardRow(x))
  PROVE  x < r
<1>1. pc[p] \in {"place_rewards", "cancel_rewards"}
  BY WantsByKind, RowKinds
<1>2. CASE pc[p] = "place_rewards"
  <2>1. RewardRow(r) = RewardRow(NextClaim(p))
    BY <1>2 DEF Wants
  <2>2. r \in ClaimsLeft(p)
    BY <1>2, <2>1, RowKinds, NextClaimIsLeast DEF LockInv, RewardsInOrder
  <2> QED BY <1>2, <2>2 DEF LockInv, RewardsInOrder
<1>3. CASE pc[p] = "cancel_rewards"
  <2>1. r \in RewardsToLock(p)
    BY <1>3, RowKinds DEF Wants
  <2> QED BY <1>3, <2>1 DEF LockInv, RewardsInOrder
<1> QED BY <1>1, <1>2, <1>3

(* Who has locked a customer waits for nothing.                            *)
LEMMA UserHoldersRun ==
  ASSUME NEW p \in Procs, pc[p] \in UserHolders
  PROVE  Wants(p) = {}
  BY DEF Wants, UserHolders, TaskPcs

(* In a circle everybody is waited for, by somebody who asks for a row of  *)
(* the same kind as he does himself or of an earlier one.                  *)
LEMMA CirclesAreBatches ==
  ASSUME Inv, \A p \in Procs : LockInv(p), NEW S \in SUBSET Procs, Circle(S)
  PROVE  \E batch \in {"link_orders", "expire"}, p, q \in S :
           p # q /\ pc[p] = batch /\ pc[q] = batch
<1> DEFINE AsksOrder(p)  == pc[p] \in {"status_order", "whatsapp_order", "link_orders"}
           AsksCoupon(p) == pc[p] \in {"place_coupon", "cancel_coupon", "expire"}
           AsksReward(p) == pc[p] \in {"place_rewards", "cancel_rewards"}
<1>0. TypeOK /\ \A p \in Procs : HandlerInv(p)
  BY DEF Inv
<1>1. /\ S # {}
      /\ \A p \in S : \E q \in S : p # q /\ \E row \in Wants(p) : Holds(q, row)
      /\ \A p \in S : \E q \in S : p # q /\ \E row \in Wants(q) : Holds(p, row)
  BY DEF Circle, WaitsFor
<1>2. \A p \in S : pc[p] \notin UserHolders
  BY <1>1, UserHoldersRun
<1>3. ASSUME NEW p \in S, NEW q \in S, NEW row \in Wants(p), Holds(q, row)
      PROVE  \/ /\ AsksOrder(p) /\ pc[q] \in OrderHolders
             \/ /\ AsksCoupon(p) /\ pc[q] \in CouponHolders
             \/ /\ AsksReward(p) /\ pc[q] \in RewardHolders
                /\ \E r \in RewardIds : row = RewardRow(r)
  <2>1. LocksPlaced(q)
    BY DEF LockInv
  <2>2. ~\E u \in Users : row = UserRow(u)
    BY <1>2, <1>3, <2>1 DEF LocksPlaced
  <2> QED BY <1>0, <1>3, <2>1, <2>2, WantsByKind DEF LocksPlaced
<1>4. ASSUME NEW p \in S
      PROVE  \E w \in S : /\ w # p
                          /\ \/ AsksOrder(w) /\ pc[p] \in OrderHolders
                             \/ AsksCoupon(w) /\ pc[p] \in CouponHolders
                             \/ AsksReward(w) /\ pc[p] \in RewardHolders
  BY <1>1, <1>3
<1>5. ASSUME NEW p \in S
      PROVE  AsksOrder(p) \/ AsksCoupon(p) \/ AsksReward(p)
  BY <1>1, <1>3
<1>6. CASE \E p \in S : AsksOrder(p)
  <2>1. ASSUME NEW p \in S, AsksOrder(p)
        PROVE  pc[p] = "link_orders" /\ \E w \in S : w # p /\ AsksOrder(w)
    BY <1>4, <2>1 DEF OrderHolders, CouponHolders, RewardHolders, StatusPcs
  <2> QED BY <1>6, <2>1
<1>7. CASE (\E p \in S : AsksCoupon(p)) /\ ~\E p \in S : AsksOrder(p)
  <2>1. ASSUME NEW p \in S, AsksCoupon(p)
        PROVE  pc[p] = "expire" /\ \E w \in S : w # p /\ AsksCoupon(w)
    BY <1>4, <1>7, <2>1 DEF CouponHolders, RewardHolders
  <2> QED BY <1>7, <2>1
<1>8. CASE \A p \in S : AsksReward(p)
  <2> DEFINE Asked == {r \in RewardIds :
                         \E p, q \in S : RewardRow(r) \in Wants(p) /\ Holds(q, RewardRow(r))}
  <2>1. \A p, q \in S : \A row \in Wants(p) : Holds(q, row) =>
          \E r \in RewardIds : row = RewardRow(r)
    BY <1>3, <1>8
  <2>2. Asked # {}
    BY <1>1, <2>1
  <2>3. Asked \in SUBSET Nat
    BY RewardsAssumption
  <2>4. PICK r \in Asked : \A s \in Asked : r <= s
    <3> HIDE DEF Asked
    <3> QED BY <2>2, <2>3, LeastReward
  <2>5. PICK p \in S : RewardRow(r) \in Wants(p)
    OBVIOUS
  <2>6. PICK w \in S, x \in RewardIds : RewardRow(x) \in Wants(w) /\ Holds(p, RewardRow(x))
    BY <1>1, <2>1
  <2>7. x \in Asked
    BY <2>6
  <2>8. x < r
    BY <1>0, <2>5, <2>6, WantsHigher
  <2>9. r \in Nat /\ x \in Nat /\ r <= x
    BY <2>3, <2>4, <2>7
  <2> QED BY <2>8, <2>9
<1> QED BY <1>5, <1>6, <1>7, <1>8

(* Checkouts, cancellations, deliveries and loyalty tasks never wait for   *)
(* each other in a circle, however many there are: every circle has two    *)
(* links, or two daily expiries, in the middle of locking their rows.      *)
THEOREM OnlyBatchesWaitInCircles == Spec => []OnlyBatchesDeadlock
<1>1. Init => \A p \in Procs : LockInv(p)
  BY LocksInitial
<1>2. Inv /\ (\A p \in Procs : LockInv(p)) /\ [Next]_vars => (\A p \in Procs : LockInv(p))'
  BY LocksNext
<1>3. Inv /\ (\A p \in Procs : LockInv(p)) => OnlyBatchesDeadlock
  BY CirclesAreBatches DEF OnlyBatchesDeadlock
<1> QED BY <1>1, <1>2, <1>3, InvHolds, PTL DEF Spec


=============================================================================
