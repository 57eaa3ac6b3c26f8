------------------------ MODULE OrdersRefinement_proofs ----------------------
(***************************************************************************)
(* Coupons and rewards pay once: what a checkout or the daily expiry has   *)
(* judged under its locks still holds when it writes.  With that, Orders   *)
(* implements OrderBook for every value of the constants: the last step of *)
(* each transaction is one step of the book, judged against the book as it *)
(* is then, and every other step leaves the book alone.                    *)
(***************************************************************************)
EXTENDS Orders_proofs, OrdersRefinement

(* A checkout past its coupon holds it, unused; every claim it holds is    *)
(* somebody's and unused; and before its last step it holds all.           *)
CheckoutInv(p) ==
  LET cart == mem[p].cart IN
  /\ pc[p] \in PlacePcs /\ cart.rewards # {} => cart.userId # None
  /\ pc[p] \in {"place_rewards", "place_save"} /\ cart.coupon # None =>
       /\ Holds(p, CouponRow(cart.coupon))
       /\ coupons[cart.coupon].status = "active"
  /\ pc[p] \in PlacePcs =>
       \A r \in cart.rewards : Holds(p, RewardRow(r)) =>
         rewards[r].order = None /\ rewards[r].owner # None
  /\ pc[p] = "place_save" =>
       \A r \in cart.rewards : Holds(p, RewardRow(r))

(* The daily UPDATE holds only coupons that are still active.              *)
ExpireInv(p) ==
  pc[p] = "expire" =>
    \A c \in mem[p].lapsed : Holds(p, CouponRow(c)) => coupons[c].status = "active"

(* Between transactions no row is held.                                    *)
IdleInv(p) == pc[p] \in {"idle", "after"} => \A row \in Rows : ~Holds(p, row)

BenefitsRelied(p) == CheckoutInv(p) /\ ExpireInv(p) /\ IdleInv(p)

(* A reward used in an order is somebody's.                                *)
RewardsOwned == \A r \in RewardIds : rewards[r].order # None => rewards[r].owner # None

BenefitInv ==
  /\ \A p \in Procs : BenefitsRelied(p)
  /\ RewardsOwned
  /\ BenefitPaysOnce

(***************************************************************************)
(* Discipline.                                                             *)
(***************************************************************************)
(* An active coupon, or an unused reward somebody has, stays that unless   *)
(* p holds it.                                                             *)
CouponsKept(p) ==
  \A c \in CouponIds : coupons[c].status = "active" /\ ~Holds(p, CouponRow(c)) =>
    coupons'[c].status = "active"

RewardsKept(p) ==
  \A r \in RewardIds :
    /\ rewards[r].order = None
    /\ rewards[r].owner # None
    /\ ~Holds(p, RewardRow(r))
    => rewards'[r].order = None /\ rewards'[r].owner # None

(***************************************************************************)
(* What the writers do.                                                    *)
(***************************************************************************)
(* A checkout uses the coupon and the rewards it holds, all of them unused.*)
LEMMA SaveOrderUses ==
  ASSUME TypeOK, NEW p \in Procs, HandlerInv(p), CheckoutInv(p), SaveOrder(p)
  PROVE  /\ mem[p].order \in OrderIds /\ ~Live(mem[p].order)
         /\ \A o \in OrderIds : IF o = mem[p].order
              THEN /\ Live(o)'
                   /\ orders'[o].coupon = mem[p].cart.coupon
                   /\ orders'[o].rewards = mem[p].cart.rewards
              ELSE orders'[o] = orders[o]
         /\ \A c \in CouponIds : IF c = mem[p].cart.coupon
              THEN /\ Holds(p, CouponRow(c)) /\ coupons[c].status = "active"
                   /\ coupons'[c].status = "used"
                   /\ coupons'[c].order = mem[p].order
              ELSE coupons'[c] = coupons[c]
         /\ \A r \in RewardIds : IF r \in mem[p].cart.rewards
              THEN /\ Holds(p, RewardRow(r))
                   /\ rewards[r].order = None /\ rewards[r].owner # None
                   /\ rewards'[r].order = mem[p].order
                   /\ rewards'[r].owner = rewards[r].owner
              ELSE rewards'[r] = rewards[r]
<1> DEFINE x == mem[p].order
           cart == mem[p].cart
<1>0. /\ orders \in [OrderIds -> Order]
      /\ coupons \in [CouponIds -> Coupon]
      /\ rewards \in [RewardIds -> Reward]
      /\ cart \in Cart
  BY DEF TypeOK, Mem
<1>1. pc[p] = "place_save" /\ pc[p] \in PlacePcs
  BY DEF SaveOrder, PlacePcs
<1>2. x \in OrderIds /\ ~Live(x)
  BY <1>1 DEF HandlerInv, SubjectKnown, PlaceInv, AboutAnOrder, Live, OrderStatus
<1>3. ASSUME NEW o \in OrderIds
      PROVE  IF o = x THEN /\ Live(o)'
                           /\ orders'[o].coupon = cart.coupon
                           /\ orders'[o].rewards = cart.rewards
                      ELSE orders'[o] = orders[o]
  <2>1. orders' = [orders EXCEPT ![x] =
          [NoOrder EXCEPT !.status = "pendiente", !.userId = cart.userId,
                          !.customerPhone = cart.customerPhone,
                          !.coupon = cart.coupon, !.rewards = cart.rewards]]
    BY DEF SaveOrder
  <2> HIDE DEF x, cart
  <2> QED BY <1>0, <2>1 DEF Live, OrderStatus, NoOrder
<1>4. ASSUME NEW c \in CouponIds
      PROVE  IF c = cart.coupon
             THEN /\ Holds(p, CouponRow(c)) /\ coupons[c].status = "active"
                  /\ coupons'[c].status = "used" /\ coupons'[c].order = x
             ELSE coupons'[c] = coupons[c]
  <2>1. CASE c = cart.coupon
    <3>1. c # None
      BY OrdersAssumption
    <3>2. coupons' = MarkCouponUsed(coupons, c, x)
      BY <2>1, <3>1 DEF SaveOrder
    <3>3. coupons'[c] = [coupons[c] EXCEPT !.status = "used", !.order = x]
      BY <1>0, <3>2 DEF MarkCouponUsed
    <3>4. Holds(p, CouponRow(c)) /\ coupons[c].status = "active"
      BY <1>1, <2>1, <3>1 DEF CheckoutInv
    <3> HIDE DEF x, cart
    <3> QED BY <1>0, <2>1, <3>3, <3>4 DEF Coupon
  <2>2. CASE c # cart.coupon
    BY <1>0, <2>2 DEF SaveOrder, MarkCouponUsed
  <2> QED BY <2>1, <2>2
<1>5. ASSUME NEW r \in RewardIds
      PROVE  IF r \in cart.rewards
             THEN /\ Holds(p, RewardRow(r))
                  /\ rewards[r].order = None /\ rewards[r].owner # None
                  /\ rewards'[r].order = x /\ rewards'[r].owner = rewards[r].owner
             ELSE rewards'[r] = rewards[r]
  <2>1. rewards'[r] = IF r \in cart.rewards THEN [rewards[r] EXCEPT !.order = x]
                                            ELSE rewards[r]
    BY DEF SaveOrder, MarkRewardsUsed
  <2>2. r \in cart.rewards => /\ Holds(p, RewardRow(r))
                              /\ rewards[r].order = None /\ rewards[r].owner # None
    BY <1>1 DEF CheckoutInv
  <2> HIDE DEF x, cart
  <2> QED BY <1>0, <2>1, <2>2 DEF Reward
<1> QED BY <1>2, <1>3, <1>4, <1>5

(* A cancellation gives back what was used in its order, the other status  *)
(* changes no benefit.                                                     *)
LEMMA SaveStatusGivesBack ==
  ASSUME TypeOK, NEW p \in Procs, HandlerInv(p), SaveStatus(p)
  PROVE  /\ \A o \in OrderIds :
              /\ orders'[o].coupon = orders[o].coupon
              /\ orders'[o].rewards = orders[o].rewards
              /\ IF o = mem[p].order /\ mem[p].to = "cancelado"
                 THEN ~Live(o)' ELSE Live(o)' <=> Live(o)
         /\ \A c \in CouponIds :
              IF mem[p].to = "cancelado" /\ coupons[c].order = mem[p].order
              THEN coupons'[c].status = "active" /\ coupons'[c].order = None
              ELSE coupons'[c] = coupons[c]
         /\ \A r \in RewardIds :
              IF mem[p].to = "cancelado" /\ rewards[r].order = mem[p].order
              THEN rewards'[r].order = None /\ rewards'[r].owner = rewards[r].owner
              ELSE rewards'[r] = rewards[r]
<1> DEFINE x == mem[p].order
           to == mem[p].to
<1>0. /\ orders \in [OrderIds -> Order]
      /\ coupons \in [CouponIds -> Coupon]
      /\ rewards \in [RewardIds -> Reward]
  BY DEF TypeOK
<1>1. /\ x \in OrderIds
      /\ orders[x].status \in OrderStatus
      /\ to \in VALID_TRANSITIONS[orders[x].status]
  BY DEF SaveStatus, HandlerInv, SubjectKnown, StatusInv, AboutAnOrder, StatusPcs
<1>2. to \in OrderStatus /\ orders[x].status # "cancelado"
  BY <1>1 DEF OrderStatus, VALID_TRANSITIONS
<1>3. ASSUME NEW o \in OrderIds
      PROVE  /\ orders'[o].coupon = orders[o].coupon
             /\ orders'[o].rewards = orders[o].rewards
             /\ orders'[o].status = IF o = x THEN to ELSE orders[o].status
  <2>1. orders' = [orders EXCEPT ![x].status = to,
          ![x].deliveredIn = IF to = "entregado" THEN month ELSE @]
    BY DEF SaveStatus
  <2> HIDE DEF x, to
  <2> QED BY <1>0, <1>1, <2>1 DEF Order
<1>4. ASSUME NEW o \in OrderIds
      PROVE  IF o = x /\ to = "cancelado" THEN ~Live(o)' ELSE Live(o)' <=> Live(o)
  <2>1. CASE o = x
    BY <1>1, <1>2, <1>3, <2>1 DEF Live, OrderStatus
  <2>2. CASE o # x
    BY <1>3, <2>2 DEF Live, OrderStatus
  <2> QED BY <2>1, <2>2
<1>5. ASSUME NEW c \in CouponIds
      PROVE  IF to = "cancelado" /\ coupons[c].order = x
             THEN coupons'[c].status = "active" /\ coupons'[c].order = None
             ELSE coupons'[c] = coupons[c]
  BY <1>0 DEF SaveStatus, ReactivateCouponsOf, Coupon
<1>6. ASSUME NEW r \in RewardIds
      PROVE  IF to = "cancelado" /\ rewards[r].order = x
             THEN rewards'[r].order = None /\ rewards'[r].owner = rewards[r].owner
             ELSE rewards'[r] = rewards[r]
  BY <1>0 DEF SaveStatus, ReactivateRewardsOf, Reward
<1> QED BY <1>3, <1>4, <1>5, <1>6

(* Other steps leave which benefit is used in which order, and an order's  *)
(* standing and benefits.                                                  *)
Quiet ==
  /\ \A c \in CouponIds :
       /\ coupons'[c].order = coupons[c].order
       /\ coupons[c].order # None => coupons'[c].status = coupons[c].status
  /\ \A r \in RewardIds :
       /\ rewards'[r].order = rewards[r].order
       /\ rewards[r].owner # None => rewards'[r].owner = rewards[r].owner
  /\ \A o \in OrderIds :
       /\ Live(o)' <=> Live(o)
       /\ orders'[o].coupon = orders[o].coupon
       /\ orders'[o].rewards = orders[o].rewards

LEMMA OrdersQuiet ==
  ASSUME TypeOK, NEW p \in Procs, SaveWhatsapp(p) \/ SaveLink(p), NEW o \in OrderIds
  PROVE  /\ Live(o)' <=> Live(o)
         /\ orders'[o].coupon = orders[o].coupon
         /\ orders'[o].rewards = orders[o].rewards
<1>1. orders \in [OrderIds -> Order]
  BY DEF TypeOK
<1>2. /\ orders'[o].status = orders[o].status
      /\ orders'[o].coupon = orders[o].coupon
      /\ orders'[o].rewards = orders[o].rewards
  <2>1. CASE SaveWhatsapp(p)
    BY <1>1, <2>1 DEF SaveWhatsapp, Order
  <2>2. CASE SaveLink(p)
    <3>1. orders'[o] = IF o \in mem[p].ids THEN [orders[o] EXCEPT !.userId = mem[p].user]
                                           ELSE orders[o]
      BY <2>2 DEF SaveLink
    <3> QED BY <1>1, <3>1 DEF Order
  <2> QED BY <2>1, <2>2
<1> QED BY <1>2 DEF Live, OrderStatus

(* A benefit is used in an order only if it is marked used, and somebody's.*)
LEMMA UsedIsMarked ==
  ASSUME TypeOK, BenefitPaysOnce
  PROVE  \A c \in CouponIds : coupons[c].status # "used" => coupons[c].order = None
<1>1. \A c \in CouponIds : coupons[c].order \in OrderIds \cup {None}
  BY DEF TypeOK, Coupon
<1> QED BY <1>1 DEF BenefitPaysOnce

(* A granted coupon takes a row nobody had.                                *)
LEMMA GrantTakesFree ==
  ASSUME TypeOK, BenefitPaysOnce, NEW u, NEW origin, NEW cut, NEW paid,
         NEW d \in FreeCoupons,
         coupons' = [coupons EXCEPT ![d] = NewCoupon(u, origin, cut, paid)]
  PROVE  \A c \in CouponIds :
           /\ coupons'[c].order = coupons[c].order
           /\ coupons[c].order # None => coupons'[c].status = coupons[c].status
           /\ coupons[c].status = "active" => coupons'[c].status = "active"
<1> SUFFICES ASSUME NEW c \in CouponIds
             PROVE  /\ coupons'[c].order = coupons[c].order
                    /\ coupons[c].order # None => coupons'[c].status = coupons[c].status
                    /\ coupons[c].status = "active" => coupons'[c].status = "active"
  OBVIOUS
<1>1. coupons \in [CouponIds -> Coupon]
  BY DEF TypeOK
<1>2. CASE c = d
  <2>1. coupons[c].status = "none" /\ coupons[c].order = None
    BY <1>2, UsedIsMarked DEF FreeCoupons
  <2>2. coupons'[c] = NewCoupon(u, origin, cut, paid)
    BY <1>1, <1>2
  <2>3. NewCoupon(u, origin, cut, paid).order = None
    BY DEF NewCoupon, NoCoupon
  <2> QED BY <2>1, <2>2, <2>3
<1>3. CASE c # d
  BY <1>1, <1>3
<1> QED BY <1>2, <1>3

(* Granted rewards take rows nobody had.                                   *)
LEMMA RewardsTakeFree ==
  ASSUME TypeOK, NEW p \in Procs, SubjectKnown(p), RewardsOwned, InsertRewards(p)
  PROVE  \A r \in RewardIds :
           /\ rewards'[r].order = rewards[r].order
           /\ rewards[r].owner # None => rewards'[r].owner = rewards[r].owner
<1> SUFFICES ASSUME NEW r \in RewardIds
             PROVE  /\ rewards'[r].order = rewards[r].order
                    /\ rewards[r].owner # None => rewards'[r].owner = rewards[r].owner
  OBVIOUS
<1>1. PICK slot \in [mem[p].grants -> FreeRewards] :
        rewards' = GrantRewards(mem[p].user, slot, mem[p].backing)
  BY DEF InsertRewards
<1>2. CASE \E s \in DOMAIN slot : slot[s] = r
  <2>1. rewards'[r].order = None
    BY <1>1, <1>2 DEF GrantRewards
  <2>2. rewards[r].owner = None
    BY <1>1, <1>2 DEF FreeRewards
  <2> QED BY <2>1, <2>2 DEF RewardsOwned
<1>3. CASE ~\E s \in DOMAIN slot : slot[s] = r
  BY <1>1, <1>3 DEF GrantRewards
<1> QED BY <1>2, <1>3

(* Expired coupons were used in no order, and active while nobody else     *)
(* could touch them.                                                       *)
LEMMA ExpiryMarks ==
  ASSUME TypeOK, BenefitPaysOnce, NEW p \in Procs, ExpireInv(p), SaveExpired(p),
         NEW c \in CouponIds
  PROVE  /\ coupons'[c].order = coupons[c].order
         /\ coupons[c].order # None => coupons'[c].status = coupons[c].status
         /\ ~Holds(p, CouponRow(c)) => coupons'[c].status = coupons[c].status
<1>0. coupons \in [CouponIds -> Coupon] /\ pc[p] = "expire"
  BY DEF TypeOK, SaveExpired
<1>1. coupons'[c] = IF c \in mem[p].lapsed THEN [coupons[c] EXCEPT !.status = "expired"]
                                           ELSE coupons[c]
  BY DEF SaveExpired, ExpireCoupons
<1>2. CASE c \in mem[p].lapsed
  <2>1. Holds(p, CouponRow(c)) /\ coupons[c].status = "active"
    BY <1>0, <1>2 DEF SaveExpired, ExpireInv
  <2>2. coupons[c].order = None
    BY <2>1, UsedIsMarked
  <2> QED BY <1>0, <1>1, <1>2, <2>1, <2>2 DEF Coupon
<1>3. CASE c \notin mem[p].lapsed
  BY <1>1, <1>3
<1> QED BY <1>2, <1>3

(***************************************************************************)
(* What the tables keep.                                                   *)
(***************************************************************************)
(* A step writes benefits, or orders alone, or neither.                    *)
LEMMA StepKinds ==
  ASSUME NEW p \in Procs, Start(p) \/ Step(p) \/ Fail(p) \/ Crash(p)
  PROVE  \/ SaveOrder(p) \/ SaveStatus(p)
         \/ InsertCoupon(p) \/ InsertRewards(p) \/ SaveExpired(p)
         \/ SaveWhatsapp(p) \/ SaveLink(p)
         \/ UNCHANGED <<orders, coupons, rewards>>
<1> DEFINE Still == UNCHANGED <<orders, coupons, rewards>>
<1>0. UNCHANGED tables => Still
  BY DEF tables, loyalty
<1>1. CASE Start(p)
  BY <1>0, <1>1 DEF Start, StartPlace, StartStatus, StartWhatsapp, StartLink,
                    StartProgress, StartMaintenance, loyalty
<1>2. CASE PlaceStep(p) \/ WhatsappStep(p) \/ Fail(p) \/ Crash(p)
  BY <1>0, <1>2 DEF PlaceStep, ApplyToOrder, CouponRefused, ValidateForOrder,
                    RewardRefused, WhatsappStep, LockOrderForWhatsapp,
                    WhatsappUnchanged, Fail, Crash, Reject
<1>3. CASE StatusStep(p) \/ LinkStep(p)
  BY <1>0, <1>3 DEF StatusStep, LockOrderForStatus, StatusRefused,
                    LockCouponOfCancelled, LockRewardOfCancelled, RewardsLocked,
                    LockUserOfDelivered, LinkStep, SelectLinkable,
                    LockLinkable, LinkRefused, LockUserOfLink, Reject
<1>4. CASE TaskStep(p)
  BY <1>0, <1>4 DEF TaskStep, BeginTask, LockUserOfGeneration, CheckActiveCoupon,
                    ActiveCouponFound, SumSinceLastCoupon, BelowThreshold,
                    LockUserOfStars, ReadStars, NothingToGrant, TaskDone
<1>5. CASE MaintenanceStep(p)
  BY <1>0, <1>5 DEF MaintenanceStep, LockLapsed
<1> QED BY <1>1, <1>2, <1>3, <1>4, <1>5 DEF Step

(* All steps but a checkout's and a status change's last one are quiet.    *)
LEMMA QuietSteps ==
  ASSUME TypeOK, NEW p \in Procs, HandlerInv(p), ExpireInv(p), RewardsOwned,
         BenefitPaysOnce, Start(p) \/ Step(p) \/ Fail(p) \/ Crash(p),
         ~SaveOrder(p), ~SaveStatus(p)
  PROVE  Quiet /\ CouponsKept(p)
<1>1. CASE InsertCoupon(p)
  <2>1. UNCHANGED <<orders, rewards>>
    BY <1>1 DEF InsertCoupon
  <2>2. PICK d \in FreeCoupons :
          coupons' = [coupons EXCEPT ![d] =
                        NewCoupon(mem[p].user, "auto", mem[p].cut, mem[p].basis)]
    BY <1>1 DEF InsertCoupon
  <2>3. \A c \in CouponIds :
          /\ coupons'[c].order = coupons[c].order
          /\ coupons[c].order # None => coupons'[c].status = coupons[c].status
          /\ coupons[c].status = "active" => coupons'[c].status = "active"
    BY <2>2, GrantTakesFree
  <2> QED BY <2>1, <2>3 DEF Quiet, CouponsKept, Live
<1>2. CASE InsertRewards(p)
  <2>1. UNCHANGED <<orders, coupons>>
    BY <1>2 DEF InsertRewards
  <2>2. \A r \in RewardIds :
          /\ rewards'[r].order = rewards[r].order
          /\ rewards[r].owner # None => rewards'[r].owner = rewards[r].owner
    BY <1>2, RewardsTakeFree DEF HandlerInv
  <2> QED BY <2>1, <2>2 DEF Quiet, CouponsKept, Live
<1>3. CASE SaveExpired(p)
  <2>1. UNCHANGED <<orders, rewards>>
    BY <1>3 DEF SaveExpired
  <2> QED BY <1>3, <2>1, ExpiryMarks DEF Quiet, CouponsKept, Live
<1>4. CASE SaveWhatsapp(p) \/ SaveLink(p)
  <2>1. UNCHANGED <<coupons, rewards>>
    BY <1>4 DEF SaveWhatsapp, SaveLink, loyalty
  <2> QED BY <1>4, <2>1, OrdersQuiet DEF Quiet, CouponsKept
<1>5. CASE UNCHANGED <<orders, coupons, rewards>>
  BY <1>5 DEF Quiet, CouponsKept, Live
<1> QED BY <1>1, <1>2, <1>3, <1>4, <1>5, StepKinds

(* A quiet step leaves an unused reward its owner, and the books balanced. *)
LEMMA QuietKeeps ==
  ASSUME Quiet, RewardsOwned, BenefitPaysOnce
  PROVE  BenefitPaysOnce' /\ RewardsOwned' /\ \A p \in Procs : RewardsKept(p)
<1>1. BenefitPaysOnce'
  <2> SUFFICES ASSUME NEW o \in OrderIds
               PROVE  /\ \A c \in CouponIds :
                           /\ coupons'[c].order = o <=> Live(o)' /\ orders'[o].coupon = c
                           /\ coupons'[c].order = o => coupons'[c].status = "used"
                      /\ \A r \in RewardIds :
                           rewards'[r].order = o <=> Live(o)' /\ r \in orders'[o].rewards
    BY DEF BenefitPaysOnce
  <2> QED BY OrdersAssumption DEF Quiet, BenefitPaysOnce
<1>2. RewardsOwned' /\ \A p \in Procs : RewardsKept(p)
  BY DEF Quiet, RewardsOwned, RewardsKept
<1> QED BY <1>1, <1>2

(* A checkout takes benefits no standing order has.                        *)
LEMMA CheckoutKeeps ==
  ASSUME TypeOK, NEW p \in Procs, HandlerInv(p), CheckoutInv(p), RewardsOwned,
         BenefitPaysOnce, SaveOrder(p)
  PROVE  BenefitPaysOnce' /\ RewardsOwned' /\ CouponsKept(p) /\ RewardsKept(p)
<1> DEFINE x == mem[p].order
           cart == mem[p].cart
<1>1. x \in OrderIds /\ ~Live(x)
  BY SaveOrderUses
<1>2. \A o \in OrderIds : IF o = x
        THEN Live(o)' /\ orders'[o].coupon = cart.coupon /\ orders'[o].rewards = cart.rewards
        ELSE orders'[o] = orders[o]
  BY SaveOrderUses
<1>3. \A c \in CouponIds : IF c = cart.coupon
        THEN /\ Holds(p, CouponRow(c)) /\ coupons[c].status = "active"
             /\ coupons'[c].status = "used" /\ coupons'[c].order = x
        ELSE coupons'[c] = coupons[c]
  BY SaveOrderUses
<1>4. \A r \in RewardIds : IF r \in cart.rewards
        THEN /\ Holds(p, RewardRow(r))
             /\ rewards[r].order = None /\ rewards[r].owner # None
             /\ rewards'[r].order = x /\ rewards'[r].owner = rewards[r].owner
        ELSE rewards'[r] = rewards[r]
  BY SaveOrderUses
<1>5. CouponsKept(p) /\ RewardsKept(p) /\ RewardsOwned'
  BY <1>3, <1>4 DEF CouponsKept, RewardsKept, RewardsOwned
<1>6. ASSUME NEW o \in OrderIds, NEW c \in CouponIds
      PROVE  /\ coupons'[c].order = o <=> Live(o)' /\ orders'[o].coupon = c
             /\ coupons'[c].order = o => coupons'[c].status = "used"
  <2>1. coupons[c].order = o <=> Live(o) /\ orders[o].coupon = c
    BY DEF BenefitPaysOnce
  <2>2. coupons[c].order = o => coupons[c].status = "used"
    BY DEF BenefitPaysOnce
  <2>3. o # x => (Live(o)' <=> Live(o)) /\ orders'[o].coupon = orders[o].coupon
    BY <1>2 DEF Live
  <2> HIDE DEF x, cart
  <2> QED BY <1>1, <1>2, <1>3, <2>1, <2>2, <2>3
<1>7. ASSUME NEW o \in OrderIds, NEW r \in RewardIds
      PROVE  rewards'[r].order = o <=> Live(o)' /\ r \in orders'[o].rewards
  <2>1. rewards[r].order = o <=> Live(o) /\ r \in orders[o].rewards
    BY DEF BenefitPaysOnce
  <2>2. o # None
    BY OrdersAssumption
  <2>3. o # x => (Live(o)' <=> Live(o)) /\ orders'[o].rewards = orders[o].rewards
    BY <1>2 DEF Live
  <2> HIDE DEF x, cart
  <2> QED BY <1>1, <1>2, <1>4, <2>1, <2>2, <2>3
<1> QED BY <1>5, <1>6, <1>7 DEF BenefitPaysOnce

(* A cancellation gives back exactly what its order has.                   *)
LEMMA StatusKeeps ==
  ASSUME TypeOK, NEW p \in Procs, HandlerInv(p), RewardsOwned, BenefitPaysOnce,
         SaveStatus(p)
  PROVE  BenefitPaysOnce' /\ RewardsOwned' /\ CouponsKept(p) /\ RewardsKept(p)
<1> DEFINE x == mem[p].order
           back == mem[p].to = "cancelado"
<1>1. \A o \in OrderIds :
        /\ orders'[o].coupon = orders[o].coupon
        /\ orders'[o].rewards = orders[o].rewards
        /\ IF o = x /\ back THEN ~Live(o)' ELSE Live(o)' <=> Live(o)
  BY SaveStatusGivesBack
<1>2. \A c \in CouponIds :
        IF back /\ coupons[c].order = x
        THEN coupons'[c].status = "active" /\ coupons'[c].order = None
        ELSE coupons'[c] = coupons[c]
  BY SaveStatusGivesBack
<1>3. \A r \in RewardIds :
        IF back /\ rewards[r].order = x
        THEN rewards'[r].order = None /\ rewards'[r].owner = rewards[r].owner
        ELSE rewards'[r] = rewards[r]
  BY SaveStatusGivesBack
<1> HIDE DEF x, back
<1>4. CouponsKept(p) /\ RewardsKept(p) /\ RewardsOwned'
  BY <1>2, <1>3 DEF CouponsKept, RewardsKept, RewardsOwned
<1>5. ASSUME NEW o \in OrderIds, NEW c \in CouponIds
      PROVE  /\ coupons'[c].order = o <=> Live(o)' /\ orders'[o].coupon = c
             /\ coupons'[c].order = o => coupons'[c].status = "used"
  <2>1. /\ coupons[c].order = o <=> Live(o) /\ orders[o].coupon = c
        /\ coupons[c].order = o => coupons[c].status = "used"
    BY DEF BenefitPaysOnce
  <2>2. o # None
    BY OrdersAssumption
  <2> QED BY <1>1, <1>2, <2>1, <2>2
<1>6. ASSUME NEW o \in OrderIds, NEW r \in RewardIds
      PROVE  rewards'[r].order = o <=> Live(o)' /\ r \in orders'[o].rewards
  <2>1. rewards[r].order = o <=> Live(o) /\ r \in orders[o].rewards
    BY DEF BenefitPaysOnce
  <2>2. o # None
    BY OrdersAssumption
  <2> QED BY <1>1, <1>3, <2>1, <2>2
<1> QED BY <1>4, <1>5, <1>6 DEF BenefitPaysOnce

(* Every step of p keeps the books, and the benefits others hold.          *)
LEMMA StepKeeps ==
  ASSUME TypeOK, NEW p \in Procs, HandlerInv(p), BenefitsRelied(p), RewardsOwned,
         BenefitPaysOnce, Start(p) \/ Step(p) \/ Fail(p) \/ Crash(p)
  PROVE  BenefitPaysOnce' /\ RewardsOwned' /\ CouponsKept(p) /\ RewardsKept(p)
<1>1. CASE SaveOrder(p)
  BY <1>1, CheckoutKeeps DEF BenefitsRelied
<1>2. CASE SaveStatus(p)
  BY <1>2, StatusKeeps
<1>3. CASE ~SaveOrder(p) /\ ~SaveStatus(p)
  BY <1>3, QuietSteps, QuietKeeps DEF BenefitsRelied
<1> QED BY <1>1, <1>2, <1>3

(***************************************************************************)
(* What handlers rely on.                                                  *)
(***************************************************************************)
(* A handler that stays where it is, with its locks, can rely on what it   *)
(* relied on if the benefits it holds are left alone.                      *)
LEMMA StillRelied ==
  ASSUME TypeOK, NEW q \in Procs, BenefitsRelied(q),
         pc'[q] = pc[q], mem'[q] = mem[q],
         \A row \in Rows : Holds(q, row)' <=> Holds(q, row),
         \A c \in CouponIds :
           Holds(q, CouponRow(c)) /\ coupons[c].status = "active" =>
             coupons'[c].status = "active",
         \A r \in RewardIds :
           /\ Holds(q, RewardRow(r))
           /\ rewards[r].order = None
           /\ rewards[r].owner # None
           => rewards'[r].order = None /\ rewards'[r].owner # None
  PROVE  BenefitsRelied(q)'
<1>1. /\ mem[q].cart.coupon \in CouponIds \cup {None}
      /\ mem[q].cart.rewards \subseteq RewardIds
      /\ mem[q].lapsed \subseteq CouponIds
  BY DEF TypeOK, Mem, Cart
<1>2. /\ \A c \in CouponIds : CouponRow(c) \in Rows
      /\ \A r \in RewardIds : RewardRow(r) \in Rows
  BY DEF Rows, CouponRow, RewardRow
<1>3. CheckoutInv(q)'
  <2>1. CheckoutInv(q)
    BY DEF BenefitsRelied
  <2> QED BY <1>1, <1>2, <2>1 DEF CheckoutInv
<1>4. ExpireInv(q)'
  <2>1. ExpireInv(q)
    BY DEF BenefitsRelied
  <2> QED BY <1>1, <1>2, <2>1 DEF ExpireInv
<1>5. IdleInv(q)'
  BY DEF BenefitsRelied, IdleInv, Rows
<1> QED BY <1>3, <1>4, <1>5 DEF BenefitsRelied

LEMMA OthersBenefits ==
  ASSUME TypeOK, NEW p \in Procs, NEW q \in Procs \ {p}, BenefitsRelied(q),
         Start(p) \/ Step(p) \/ Fail(p) \/ Crash(p), CouponsKept(p), RewardsKept(p)
  PROVE  BenefitsRelied(q)'
<1>1. /\ pc'[q] = pc[q]
      /\ mem'[q] = mem[q]
      /\ \A row \in Rows : Holds(q, row) => holder'[row] = q
  BY StepIsOwn DEF OthersKept
<1>2. \A row \in Rows : Holds(q, row)' <=> Holds(q, row)
  BY <1>1, OthersGetNothing DEF Holds
<1>3. \A c \in CouponIds :
        Holds(q, CouponRow(c)) /\ coupons[c].status = "active" =>
          coupons'[c].status = "active"
  BY DEF CouponsKept, Holds
<1>4. \A r \in RewardIds :
        /\ Holds(q, RewardRow(r))
        /\ rewards[r].order = None
        /\ rewards[r].owner # None
        => rewards'[r].order = None /\ rewards'[r].owner # None
  BY DEF RewardsKept, Holds
<1> QED BY <1>1, <1>2, <1>3, <1>4, StillRelied

(* Outside a checkout, the expiry and the pauses nothing is relied on.     *)
LEMMA NothingRelied ==
  ASSUME NEW p \in Procs, pc'[p] \notin PlacePcs \cup {"expire", "idle", "after"}
  PROVE  BenefitsRelied(p)'
  BY DEF BenefitsRelied, CheckoutInv, ExpireInv, IdleInv, PlacePcs

(* After its transaction p holds nothing.                                  *)
LEMMA FinishReleases ==
  ASSUME TypeOK, NEW p \in Procs, NEW tasks, Finish(p, tasks)
  PROVE  BenefitsRelied(p)'
<1>1. pc'[p] \in {"idle", "after"}
  BY DEF TypeOK, Finish, Goto
<1>2. \A row \in Rows : ~Holds(p, row)'
  BY OrdersAssumption DEF Finish, Unlock, Holds
<1> QED BY <1>1, <1>2
        DEF BenefitsRelied, CheckoutInv, ExpireInv, IdleInv, PlacePcs, Rows

(* A request begins with no row held.                                      *)
LEMMA StartRelies ==
  ASSUME TypeOK, NEW p \in Procs, BenefitsRelied(p), Start(p)
  PROVE  BenefitsRelied(p)'
<1>1. pc[p] = "idle" /\ UNCHANGED holder
  BY DEF Start, Arrives, StartPlace, StartStatus, StartWhatsapp, StartLink,
         StartProgress, StartMaintenance
<1>2. \A row \in Rows : ~Holds(p, row)'
  BY <1>1 DEF BenefitsRelied, IdleInv, Holds, Rows
<1>3. /\ \A c \in CouponIds : ~Holds(p, CouponRow(c))'
      /\ \A r \in RewardIds : ~Holds(p, RewardRow(r))'
  BY <1>2 DEF Rows, CouponRow, RewardRow
<1>4. CASE StartPlace(p)
  <2>1. PICK cart \in Carts, o \in OrderIds \ issued :
          /\ cart.userId = None => cart.coupon = None /\ cart.rewards = {}
          /\ Goto(p, PlaceLabel(cart))
          /\ mem' = [mem EXCEPT ![p] = [Blank EXCEPT !.cart = cart, !.order = o]]
    BY <1>4 DEF StartPlace
  <2>2. pc'[p] = PlaceLabel(cart)
    BY <2>1 DEF TypeOK, Goto
  <2>3. mem'[p].cart = cart
    BY <2>1 DEF TypeOK, Blank
  <2>4. cart.rewards \subseteq RewardIds
    BY OrdersAssumption DEF Cart
  <2>5. CheckoutInv(p)'
    BY <1>3, <2>1, <2>2, <2>3, <2>4 DEF CheckoutInv, PlaceLabel, PlacePcs
  <2>6. ExpireInv(p)' /\ IdleInv(p)'
    BY <2>2 DEF ExpireInv, IdleInv, PlaceLabel
  <2> QED BY <2>5, <2>6 DEF BenefitsRelied
<1>5. CASE StartStatus(p) \/ StartWhatsapp(p) \/ StartLink(p)
  <2>1. pc'[p] \in {"status_order", "whatsapp_order", "link_select"}
    BY <1>5 DEF TypeOK, StartStatus, StartWhatsapp, StartLink, Goto
  <2> QED BY <2>1, NothingRelied DEF PlacePcs
<1>6. CASE StartProgress(p)
  <2>1. pc'[p] = "after"
    BY <1>6 DEF TypeOK, StartProgress, Goto
  <2> QED BY <1>2, <2>1
          DEF BenefitsRelied, CheckoutInv, ExpireInv, IdleInv, PlacePcs, Rows
<1>7. CASE StartMaintenance(p)
  <2>1. pc'[p] = "expire"
    BY <1>7 DEF TypeOK, StartMaintenance, Goto
  <2>2. mem'[p].lapsed \subseteq CouponIds
    BY <1>7 DEF TypeOK, StartMaintenance, Blank, LapsedCoupons
  <2> QED BY <1>3, <2>1, <2>2
          DEF BenefitsRelied, CheckoutInv, ExpireInv, IdleInv, PlacePcs
<1> QED BY <1>4, <1>5, <1>6, <1>7 DEF Start

(* Checkout: each benefit is judged once it is locked.                     *)
LEMMA CheckoutRelies ==
  ASSUME TypeOK, NEW p \in Procs, BenefitsRelied(p), PlaceStep(p)
  PROVE  BenefitsRelied(p)'
<1> DEFINE cart == mem[p].cart
<1>0. /\ CheckoutInv(p)
      /\ cart.coupon \in CouponIds \cup {None}
      /\ cart.rewards \subseteq RewardIds
  BY DEF BenefitsRelied, TypeOK, Mem, Cart
<1>1. CASE CouponRefused(p) \/ RewardRefused(p) \/ SaveOrder(p)
  BY <1>1, FinishReleases DEF CouponRefused, RewardRefused, SaveOrder, Reject
<1>2. CASE ApplyToOrder(p)
  <2>1. /\ pc[p] = "place_coupon" /\ pc[p] \in PlacePcs
        /\ pc'[p] = IF cart.rewards # {} THEN "place_rewards" ELSE "place_save"
        /\ UNCHANGED <<coupons, rewards, mem>>
    BY <1>2 DEF ApplyToOrder, Goto, TypeOK, PlacePcs, tables, loyalty
  <2>2. cart.coupon # None =>
          Holds(p, CouponRow(cart.coupon))' /\ coupons[cart.coupon].status = "active"
    <3> SUFFICES ASSUME cart.coupon # None
                 PROVE  /\ Holds(p, CouponRow(cart.coupon))'
                        /\ coupons[cart.coupon].status = "active"
      OBVIOUS
    <3>1. CouponRow(cart.coupon) \in Rows
      BY <1>0 DEF Rows, CouponRow
    <3>2. coupons[cart.coupon] \in Coupon
      BY <1>0 DEF TypeOK
    <3> QED BY <1>2, <3>1, <3>2, LockHolds
            DEF ApplyToOrder, AssertUsable, Coupon, CouponStatus
  <2>3. \A r \in cart.rewards : Holds(p, RewardRow(r))' => Holds(p, RewardRow(r))
    BY <1>2 DEF ApplyToOrder, Lock, TypeOK, Holds, CouponRow, RewardRow
  <2>4. CheckoutInv(p)'
    BY <1>0, <2>1, <2>2, <2>3 DEF CheckoutInv, PlacePcs
  <2> QED BY <2>1, <2>4 DEF BenefitsRelied, ExpireInv, IdleInv
<1>3. CASE ValidateForOrder(p)
  <2> DEFINE r == NextClaim(p)
  <2>1. /\ pc[p] = "place_rewards" /\ pc[p] \in PlacePcs
        /\ Lock(p, RewardRow(r))
        /\ ValidReward(r, cart.userId)
        /\ pc'[p] = IF ClaimsLeft(p) = {r} THEN "place_save" ELSE "place_rewards"
        /\ UNCHANGED <<coupons, rewards, mem>>
    BY <1>3 DEF ValidateForOrder, Goto, TypeOK, PlacePcs, tables, loyalty
  <2> HIDE DEF r
  <2>2. \A c \in CouponIds : Holds(p, CouponRow(c)) => Holds(p, CouponRow(c))'
    BY <2>1 DEF Lock, TypeOK, Holds, CouponRow, RewardRow, Rows
  <2>3. \A s \in cart.rewards : Holds(p, RewardRow(s))' => s = r \/ Holds(p, RewardRow(s))
    BY <2>1 DEF Lock, TypeOK, Holds, RewardRow
  <2>4. \A s \in cart.rewards : Holds(p, RewardRow(s))' =>
          rewards[s].order = None /\ rewards[s].owner # None
    BY <1>0, <2>1, <2>3 DEF CheckoutInv, ValidReward
  <2>5. ClaimsLeft(p) = {r} => \A s \in cart.rewards : Holds(p, RewardRow(s))'
    <3> SUFFICES ASSUME ClaimsLeft(p) = {r}, NEW s \in cart.rewards
                 PROVE  Holds(p, RewardRow(s))'
      OBVIOUS
    <3>1. RewardRow(s) \in Rows
      BY <1>0 DEF Rows, RewardRow
    <3>2. CASE s = r
      BY <2>1, <3>1, <3>2, LockHolds
    <3>3. CASE s # r
      <4>1. Holds(p, RewardRow(s))
        BY <3>3 DEF ClaimsLeft
      <4> QED BY <2>1, <3>1, <4>1 DEF Lock, TypeOK, Holds
    <3> QED BY <3>2, <3>3
  <2>6. CheckoutInv(p)'
    BY <1>0, <2>1, <2>2, <2>4, <2>5 DEF CheckoutInv, PlacePcs
  <2> QED BY <2>1, <2>6 DEF BenefitsRelied, ExpireInv, IdleInv
<1> QED BY <1>1, <1>2, <1>3 DEF PlaceStep

(* The daily UPDATE: a row is judged again once it is locked.              *)
LEMMA ExpiryRelies ==
  ASSUME TypeOK, NEW p \in Procs, BenefitsRelied(p), MaintenanceStep(p)
  PROVE  BenefitsRelied(p)'
<1>1. CASE SaveExpired(p)
  BY <1>1, FinishReleases DEF SaveExpired
<1>2. CASE LockLapsed(p)
  <2>1. /\ ExpireInv(p) /\ pc[p] = "expire" /\ pc'[p] = "expire"
        /\ UNCHANGED coupons
        /\ mem[p].lapsed \subseteq CouponIds
    BY <1>2 DEF BenefitsRelied, LockLapsed, tables, loyalty, TypeOK, Mem
  <2>2. PICK c \in mem[p].lapsed :
          \/ c \in LapsedCoupons /\ Lock(p, CouponRow(c)) /\ UNCHANGED mem
          \/ mem' = [mem EXCEPT ![p].lapsed = @ \ {c}] /\ UNCHANGED holder
    BY <1>2 DEF LockLapsed
  <2>3. CASE c \in LapsedCoupons /\ Lock(p, CouponRow(c)) /\ UNCHANGED mem
    <3>1. \A d \in CouponIds : Holds(p, CouponRow(d))' => d = c \/ Holds(p, CouponRow(d))
      BY <2>3 DEF Lock, TypeOK, Holds, CouponRow
    <3> QED BY <2>1, <2>3, <3>1
            DEF BenefitsRelied, CheckoutInv, ExpireInv, IdleInv, PlacePcs, LapsedCoupons
  <2>4. CASE mem' = [mem EXCEPT ![p].lapsed = @ \ {c}] /\ UNCHANGED holder
    <3>1. mem'[p].lapsed \subseteq mem[p].lapsed
      BY <2>4 DEF TypeOK, Mem
    <3> QED BY <2>1, <2>4, <3>1
            DEF BenefitsRelied, CheckoutInv, ExpireInv, IdleInv, PlacePcs, Holds
  <2> QED BY <2>2, <2>3, <2>4
<1> QED BY <1>1, <1>2 DEF MaintenanceStep

LEMMA StatusRelies ==
  ASSUME TypeOK, NEW p \in Procs, StatusStep(p)
  PROVE  BenefitsRelied(p)'
<1>1. CASE LockOrderForStatus(p)
  <2>1. pc'[p] \in StatusPcs
    BY <1>1, PcsKnown DEF LockOrderForStatus, Goto, TypeOK
  <2> QED BY <2>1, NothingRelied DEF StatusPcs, PlacePcs
<1>2. CASE LockCouponOfCancelled(p) \/ RewardsLocked(p) \/ LockUserOfDelivered(p)
  <2>1. pc'[p] \in {"cancel_rewards", "status_save"}
    BY <1>2 DEF LockCouponOfCancelled, RewardsLocked, LockUserOfDelivered, Goto, TypeOK
  <2> QED BY <2>1, NothingRelied DEF PlacePcs
<1>3. CASE LockRewardOfCancelled(p)
  <2>1. pc'[p] = "cancel_rewards"
    BY <1>3 DEF LockRewardOfCancelled
  <2> QED BY <2>1, NothingRelied DEF PlacePcs
<1>4. CASE StatusRefused(p) \/ SaveStatus(p)
  BY <1>4, FinishReleases DEF StatusRefused, Reject, SaveStatus
<1> QED BY <1>1, <1>2, <1>3, <1>4 DEF StatusStep

LEMMA WhatsappAndLinkRely ==
  ASSUME TypeOK, NEW p \in Procs, WhatsappStep(p) \/ LinkStep(p)
  PROVE  BenefitsRelied(p)'
<1>1. CASE LockOrderForWhatsapp(p) \/ SelectLinkable(p) \/ LockUserOfLink(p)
  <2>1. pc'[p] \in {"whatsapp_save", "link_orders", "link_save"}
    BY <1>1 DEF LockOrderForWhatsapp, SelectLinkable, LockUserOfLink, Goto, TypeOK
  <2> QED BY <2>1, NothingRelied DEF PlacePcs
<1>2. CASE LockLinkable(p)
  <2>1. pc'[p] = "link_orders"
    BY <1>2 DEF LockLinkable
  <2> QED BY <2>1, NothingRelied DEF PlacePcs
<1>3. CASE WhatsappUnchanged(p) \/ SaveWhatsapp(p) \/ LinkRefused(p) \/ SaveLink(p)
  BY <1>3, FinishReleases DEF WhatsappUnchanged, SaveWhatsapp, LinkRefused, SaveLink, Reject
<1> QED BY <1>1, <1>2, <1>3 DEF WhatsappStep, LinkStep

LEMMA TaskRelies ==
  ASSUME TypeOK, NEW p \in Procs, TaskStep(p)
  PROVE  BenefitsRelied(p)'
<1>1. CASE BeginTask(p)
  <2>1. pc'[p] \in {"gen_user", "stars_user"}
    BY <1>1 DEF BeginTask, Goto, TypeOK
  <2> QED BY <2>1, NothingRelied DEF PlacePcs
<1>2. CASE LockUserOfGeneration(p) \/ CheckActiveCoupon(p) \/ SumSinceLastCoupon(p)
             \/ LockUserOfStars(p) \/ ReadStars(p)
  <2>1. pc'[p] \in {"gen_check", "gen_sum", "gen_insert", "stars_read", "stars_insert"}
    BY <1>2 DEF LockUserOfGeneration, CheckActiveCoupon, SumSinceLastCoupon,
                LockUserOfStars, ReadStars, Goto, TypeOK
  <2> QED BY <2>1, NothingRelied DEF PlacePcs
<1>3. CASE ActiveCouponFound(p) \/ BelowThreshold(p) \/ NothingToGrant(p)
             \/ InsertCoupon(p) \/ InsertRewards(p)
  BY <1>3, FinishReleases DEF ActiveCouponFound, BelowThreshold, NothingToGrant,
                              TaskDone, InsertCoupon, InsertRewards
<1> QED BY <1>1, <1>2, <1>3 DEF TaskStep

LEMMA OwnBenefits ==
  ASSUME TypeOK, NEW p \in Procs, BenefitsRelied(p),
         Start(p) \/ Step(p) \/ Fail(p) \/ Crash(p)
  PROVE  BenefitsRelied(p)'
<1>1. CASE Fail(p) \/ Crash(p)
  BY <1>1, FinishReleases DEF Fail, Crash, Reject
<1> QED BY <1>1, StartRelies, CheckoutRelies, ExpiryRelies, StatusRelies,
           WhatsappAndLinkRely, TaskRelies DEF Step

(***************************************************************************)
(* The invariant.                                                          *)
(***************************************************************************)
LEMMA BenefitInit == Init => BenefitInv
<1> SUFFICES ASSUME Init PROVE BenefitInv
  OBVIOUS
<1>1. \A p \in Procs : BenefitsRelied(p)
  BY OrdersAssumption DEF Init, LocksInit, BenefitsRelied, CheckoutInv, ExpireInv,
                          IdleInv, PlacePcs, Holds
<1>2. RewardsOwned
  BY InitialAssumption DEF Init, RewardsOwned
<1>3. BenefitPaysOnce
  <2>1. \A o \in OrderIds : ~Live(o) /\ o # None
    BY OrdersAssumption DEF Init, Unread, NoOrder, Live, OrderStatus
  <2> QED BY <2>1, InitialAssumption DEF Init, BenefitPaysOnce
<1> QED BY <1>1, <1>2, <1>3 DEF BenefitInv

(* The world outside the handlers moves no handler, and is quiet.          *)
LEMMA OutsideQuiet ==
  ASSUME TypeOK, BenefitPaysOnce, Environment \/ UNCHANGED vars
  PROVE  /\ UNCHANGED <<holder, pc, mem>>
         /\ Quiet
         /\ \A c \in CouponIds :
              coupons[c].status = "active" => coupons'[c].status = "active"
<1>0. UNCHANGED <<holder, pc, mem>>
  BY DEF Environment, GenerateManual, ChangePhone, CouponLapses, MonthEnds, vars, locals
<1>1. CASE GenerateManual
  <2>1. UNCHANGED <<orders, rewards>>
    BY <1>1 DEF GenerateManual
  <2>2. PICK u \in Users, d \in FreeCoupons :
          coupons' = [coupons EXCEPT ![d] = NewCoupon(u, "manual", issued, {})]
    BY <1>1 DEF GenerateManual
  <2>3. \A c \in CouponIds :
          /\ coupons'[c].order = coupons[c].order
          /\ coupons[c].order # None => coupons'[c].status = coupons[c].status
          /\ coupons[c].status = "active" => coupons'[c].status = "active"
    BY <2>2, GrantTakesFree
  <2> QED BY <1>0, <2>1, <2>3 DEF Quiet, Live
<1>2. CASE CouponLapses
  <2>1. UNCHANGED <<orders, rewards>>
    BY <1>2 DEF CouponLapses
  <2>2. \A c \in CouponIds : /\ coupons'[c].order = coupons[c].order
                             /\ coupons'[c].status = coupons[c].status
    BY <1>2 DEF CouponLapses, TypeOK, Coupon
  <2> QED BY <1>0, <2>1, <2>2 DEF Quiet, Live
<1>3. CASE ChangePhone \/ MonthEnds \/ UNCHANGED vars
  <2>1. UNCHANGED <<orders, coupons, rewards>>
    BY <1>3 DEF ChangePhone, MonthEnds, vars, tables, loyalty
  <2> QED BY <1>0, <2>1 DEF Quiet, Live
<1> QED BY <1>1, <1>2, <1>3 DEF Environment

LEMMA BenefitNext == Inv /\ BenefitInv /\ [Next]_vars => BenefitInv'
<1> SUFFICES ASSUME Inv, BenefitInv, [Next]_vars PROVE BenefitInv'
  OBVIOUS
<1>0. /\ TypeOK
      /\ \A p \in Procs : HandlerInv(p) /\ BenefitsRelied(p)
      /\ RewardsOwned
      /\ BenefitPaysOnce
  BY DEF Inv, BenefitInv
<1>1. CASE Environment \/ UNCHANGED vars
  <2>1. /\ UNCHANGED <<holder, pc, mem>>
        /\ Quiet
        /\ \A c \in CouponIds :
             coupons[c].status = "active" => coupons'[c].status = "active"
    BY <1>0, <1>1, OutsideQuiet
  <2>2. ASSUME NEW p \in Procs PROVE BenefitsRelied(p)'
    BY <1>0, <2>1, StillRelied DEF Quiet, Holds
  <2>3. BenefitPaysOnce' /\ RewardsOwned'
    BY <1>0, <2>1, QuietKeeps
  <2> QED BY <2>2, <2>3 DEF BenefitInv
<1>2. ASSUME NEW p \in Procs, Start(p) \/ Step(p) \/ Fail(p) \/ Crash(p)
      PROVE  BenefitInv'
  <2>1. BenefitPaysOnce' /\ RewardsOwned' /\ CouponsKept(p) /\ RewardsKept(p)
    BY <1>0, <1>2, StepKeeps
  <2>2. \A q \in Procs \ {p} : BenefitsRelied(q)'
    BY <1>0, <1>2, <2>1, OthersBenefits
  <2>3. BenefitsRelied(p)'
    BY <1>0, <1>2, OwnBenefits
  <2> QED BY <2>1, <2>2, <2>3 DEF BenefitInv
<1> QED BY <1>1, <1>2 DEF Next

(* No coupon or reward pays for two standing orders, is lost with a        *)
(* cancelled one, or is free while an order has it: for any number of      *)
(* checkouts, cancellations, expiries and grants at once.                  *)
THEOREM BenefitsPayOnce == Spec => []BenefitPaysOnce
<1>1. Inv /\ BenefitInv /\ [Next]_vars => BenefitInv'
  BY BenefitNext
<1>2. BenefitInv => BenefitPaysOnce
  BY DEF BenefitInv
<1> QED BY <1>1, <1>2, BenefitInit, InvHolds, PTL DEF Spec

(***************************************************************************)
(* Loyalty: one reward per milestone and month, one coupon per spend.      *)
(***************************************************************************)
(* Where a task holds its customer.                                        *)
CustomerHeld == {"gen_check", "gen_sum", "gen_insert", "stars_read", "stars_insert"}

(* Past its first step a task holds its customer.  What it is about to     *)
(* grant is still due: the rewards she has for the same milestones are of  *)
(* earlier months, and the orders that were added up are hers and younger  *)
(* than her last coupon.                                                   *)
TaskInv(p) ==
  LET u == mem[p].user IN
  /\ pc[p] \in CustomerHeld => Holds(p, UserRow(u))
  /\ pc[p] = "stars_insert" =>
       \A r \in RewardIds :
         rewards[r].owner = u /\ rewards[r].milestone \in mem[p].grants =>
           rewards[r].earned < month
  /\ pc[p] = "gen_insert" =>
       \A o \in mem[p].basis : orders[o].userId = u /\ CreatedSince(u, o)

(* Nobody has a reward of a month to come.                                 *)
EarnedByNow == \A r \in RewardIds : rewards[r].owner # None => rewards[r].earned <= month

(* A coupon was earned by orders of its owner.                             *)
PaidByOwner ==
  \A c \in CouponIds : \A o \in coupons[c].paid :
    coupons[c].owner # None /\ orders[o].userId = coupons[c].owner

LoyaltyInv ==
  /\ \A p \in Procs : TaskInv(p)
  /\ EarnedByNow
  /\ PaidByOwner
  /\ OneRewardPerMilestone
  /\ SpendEarnsOneCoupon

(* The terms of a coupon or a reward, which only its grant writes.         *)
CouponTermsKept ==
  \A c \in CouponIds : /\ coupons'[c].owner = coupons[c].owner
                       /\ coupons'[c].cut = coupons[c].cut
                       /\ coupons'[c].paid = coupons[c].paid

RewardTermsKept ==
  \A r \in RewardIds : /\ rewards'[r].owner = rewards[r].owner
                       /\ rewards'[r].milestone = rewards[r].milestone
                       /\ rewards'[r].earned = rewards[r].earned

(* Using a benefit, giving it back and its expiry keep its terms.          *)
LEMMA UseKeepsTerms ==
  ASSUME TypeOK, NEW p \in Procs, SaveOrder(p) \/ SaveStatus(p) \/ SaveExpired(p)
  PROVE  CouponTermsKept /\ RewardTermsKept
<1>0. coupons \in [CouponIds -> Coupon] /\ rewards \in [RewardIds -> Reward]
  BY DEF TypeOK
<1>1. CASE SaveOrder(p)
  <2>1. CouponTermsKept
    <3>1. \/ coupons' = coupons
          \/ coupons' = MarkCouponUsed(coupons, mem[p].cart.coupon, mem[p].order)
      BY <1>1 DEF SaveOrder
    <3> QED BY <1>0, <3>1 DEF CouponTermsKept, MarkCouponUsed, Coupon
  <2>2. RewardTermsKept
    <3>1. rewards' = MarkRewardsUsed(mem[p].cart.rewards, mem[p].order)
      BY <1>1 DEF SaveOrder
    <3> QED BY <1>0, <3>1 DEF RewardTermsKept, MarkRewardsUsed, Reward
  <2> QED BY <2>1, <2>2
<1>2. CASE SaveStatus(p)
  <2>1. coupons' = coupons \/ coupons' = ReactivateCouponsOf(mem[p].order)
    BY <1>2 DEF SaveStatus
  <2>2. rewards' = rewards \/ rewards' = ReactivateRewardsOf(mem[p].order)
    BY <1>2 DEF SaveStatus
  <2>3. CouponTermsKept
    BY <1>0, <2>1 DEF CouponTermsKept, ReactivateCouponsOf, Coupon
  <2>4. RewardTermsKept
    BY <1>0, <2>2 DEF RewardTermsKept, ReactivateRewardsOf, Reward
  <2> QED BY <2>3, <2>4
<1>3. CASE SaveExpired(p)
  <2>1. coupons' = ExpireCoupons(mem[p].lapsed) /\ rewards' = rewards
    BY <1>3 DEF SaveExpired
  <2> QED BY <1>0, <2>1 DEF CouponTermsKept, RewardTermsKept, ExpireCoupons, Coupon
<1> QED BY <1>1, <1>2, <1>3

(* One task at a time grants, and it grants a coupon or rewards.           *)
LEMMA TermsKept ==
  ASSUME TypeOK, NEW p \in Procs, Start(p) \/ Step(p) \/ Fail(p) \/ Crash(p)
  PROVE  /\ CouponTermsKept \/ InsertCoupon(p)
         /\ RewardTermsKept \/ InsertRewards(p)
<1>1. CASE SaveOrder(p) \/ SaveStatus(p) \/ SaveExpired(p)
  BY <1>1, UseKeepsTerms
<1>2. CASE InsertCoupon(p)
  <2>1. UNCHANGED rewards
    BY <1>2 DEF InsertCoupon
  <2> QED BY <1>2, <2>1 DEF RewardTermsKept
<1>3. CASE InsertRewards(p)
  <2>1. UNCHANGED coupons
    BY <1>3 DEF InsertRewards
  <2> QED BY <1>3, <2>1 DEF CouponTermsKept
<1>4. CASE SaveWhatsapp(p) \/ SaveLink(p) \/ UNCHANGED <<orders, coupons, rewards>>
  <2>1. UNCHANGED <<coupons, rewards>>
    BY <1>4 DEF SaveWhatsapp, SaveLink, loyalty
  <2> QED BY <2>1 DEF CouponTermsKept, RewardTermsKept
<1> QED BY <1>1, <1>2, <1>3, <1>4, StepKinds

(* New rewards are the customer's, of this month, for distinct milestones  *)
(* among those to grant; nobody's reward changes.                          *)
LEMMA RewardsGranted ==
  ASSUME TypeOK, NEW p \in Procs, InsertRewards(p)
  PROVE  \E slot \in [mem[p].grants -> FreeRewards] :
           /\ \A s, t \in mem[p].grants : slot[s] = slot[t] => s = t
           /\ \A r \in RewardIds :
                \/ /\ rewards[r].owner = None
                   /\ rewards'[r].owner = mem[p].user
                   /\ rewards'[r].milestone \in mem[p].grants
                   /\ slot[rewards'[r].milestone] = r
                   /\ rewards'[r].earned = month
                \/ rewards'[r] = rewards[r]
<1>1. PICK slot \in [mem[p].grants -> FreeRewards] :
        /\ \A s, t \in mem[p].grants : slot[s] = slot[t] => s = t
        /\ rewards' = GrantRewards(mem[p].user, slot, mem[p].backing)
  BY DEF InsertRewards
<1>2. ASSUME NEW r \in RewardIds, \E s \in DOMAIN slot : slot[s] = r
      PROVE  /\ rewards[r].owner = None
             /\ rewards'[r].owner = mem[p].user
             /\ rewards'[r].milestone \in mem[p].grants
             /\ slot[rewards'[r].milestone] = r
             /\ rewards'[r].earned = month
  <2> DEFINE ms == CHOOSE s \in DOMAIN slot : slot[s] = r
  <2>1. ms \in DOMAIN slot /\ slot[ms] = r
    BY <1>2
  <2>2. rewards[r].owner = None
    BY <2>1 DEF FreeRewards
  <2>3. rewards'[r] = [owner |-> mem[p].user, milestone |-> ms, earned |-> month,
                       backing |-> mem[p].backing, order |-> None]
    BY <1>1, <1>2 DEF GrantRewards
  <2> HIDE DEF ms
  <2> QED BY <2>1, <2>2, <2>3
<1>3. ASSUME NEW r \in RewardIds, ~\E s \in DOMAIN slot : slot[s] = r
      PROVE  rewards'[r] = rewards[r]
  BY <1>1, <1>3 DEF GrantRewards
<1> QED BY <1>1, <1>2, <1>3

(* Only the end of the month moves the month.                              *)
LEMMA MonthStays ==
  ASSUME NEW p \in Procs, Start(p) \/ Step(p) \/ Fail(p) \/ Crash(p)
  PROVE  month' = month
<1>0. UNCHANGED tables => month' = month
  BY DEF tables
<1>1. CASE Start(p)
  BY <1>0, <1>1 DEF Start, StartPlace, StartStatus, StartWhatsapp, StartLink,
                    StartProgress, StartMaintenance
<1>2. CASE PlaceStep(p) \/ WhatsappStep(p) \/ Fail(p) \/ Crash(p)
  BY <1>0, <1>2 DEF PlaceStep, ApplyToOrder, CouponRefused, ValidateForOrder,
                    RewardRefused, SaveOrder, WhatsappStep, LockOrderForWhatsapp,
                    WhatsappUnchanged, SaveWhatsapp, Fail, Crash, Reject
<1>3. CASE StatusStep(p) \/ LinkStep(p)
  BY <1>0, <1>3 DEF StatusStep, LockOrderForStatus, StatusRefused,
                    LockCouponOfCancelled, LockRewardOfCancelled, RewardsLocked,
                    LockUserOfDelivered, SaveStatus, LinkStep, SelectLinkable,
                    LockLinkable, LinkRefused, LockUserOfLink, SaveLink, Reject
<1>4. CASE TaskStep(p) \/ MaintenanceStep(p)
  BY <1>0, <1>4 DEF TaskStep, BeginTask, LockUserOfGeneration, CheckActiveCoupon,
                    ActiveCouponFound, SumSinceLastCoupon, BelowThreshold,
                    InsertCoupon, LockUserOfStars, ReadStars, NothingToGrant,
                    InsertRewards, TaskDone, MaintenanceStep, LockLapsed, SaveExpired
<1> QED BY <1>1, <1>2, <1>3, <1>4 DEF Step

(***************************************************************************)
(* What tasks rely on.                                                     *)
(***************************************************************************)
(* A task that stays where it is with its customer locked can rely on what *)
(* it read, if nobody grants her anything and orders keep their customers. *)
LEMMA StillDue ==
  ASSUME TypeOK, TypeOK', NEW q \in Procs, SubjectKnown(q), TaskInv(q),
         pc'[q] = pc[q], mem'[q] = mem[q],
         \A u \in Users : Holds(q, UserRow(u)) => Holds(q, UserRow(u))',
         \A o \in OrderIds : orders[o].userId # None => orders'[o].userId = orders[o].userId,
         month <= month',
         \A u \in Users : Holds(q, UserRow(u)) =>
           /\ \A c \in CouponIds : coupons'[c].owner = u =>
                coupons[c].owner = u /\ coupons'[c].cut = coupons[c].cut
           /\ \A r \in RewardIds : rewards'[r].owner = u =>
                /\ rewards[r].owner = u
                /\ rewards'[r].milestone = rewards[r].milestone
                /\ rewards'[r].earned = rewards[r].earned
  PROVE  TaskInv(q)'
<1> DEFINE u == mem[q].user
<1>1. pc[q] \in CustomerHeld => u \in Users /\ u # None
  BY OrdersAssumption DEF SubjectKnown, TaskPcs, CustomerHeld
<1>2. pc[q] \in CustomerHeld => Holds(q, UserRow(u)) /\ Holds(q, UserRow(u))'
  BY <1>1 DEF TaskInv
<1>3. ASSUME pc[q] = "stars_insert", NEW r \in RewardIds,
             rewards'[r].owner = u, rewards'[r].milestone \in mem[q].grants
      PROVE  rewards'[r].earned < month'
  <2>1. u \in Users /\ Holds(q, UserRow(u))
    BY <1>1, <1>2, <1>3 DEF CustomerHeld
  <2>2. /\ rewards[r].owner = u
        /\ rewards'[r].milestone = rewards[r].milestone
        /\ rewards'[r].earned = rewards[r].earned
    BY <1>3, <2>1
  <2>3. rewards[r].earned < month
    BY <1>3, <2>2 DEF TaskInv
  <2>4. rewards[r].earned \in Nat /\ month \in Nat /\ month' \in Nat
    BY RewardsAssumption DEF TypeOK, Reward, Months
  <2> QED BY <2>2, <2>3, <2>4
<1>4. ASSUME pc[q] = "gen_insert", NEW o \in mem[q].basis
      PROVE  orders'[o].userId = u /\ CreatedSince(u, o)'
  <2>1. u \in Users /\ u # None /\ Holds(q, UserRow(u))
    BY <1>1, <1>2, <1>4 DEF CustomerHeld
  <2>2. o \in OrderIds
    BY DEF TypeOK, Mem
  <2>3. orders[o].userId = u /\ CreatedSince(u, o)
    BY <1>4 DEF TaskInv
  <2>4. orders'[o].userId = u
    BY <2>1, <2>2, <2>3
  <2>5. \A c \in CouponIds : coupons'[c].owner = u => o \notin coupons'[c].cut
    BY <2>1, <2>3 DEF CreatedSince
  <2> QED BY <2>4, <2>5 DEF CreatedSince
<1> QED BY <1>2, <1>3, <1>4 DEF TaskInv, CreatedSince

(* Where no customer is held nothing is relied on.                         *)
LEMMA NothingDue ==
  ASSUME NEW p \in Procs, pc'[p] \notin CustomerHeld
  PROVE  TaskInv(p)'
  BY DEF TaskInv, CustomerHeld

LEMMA FinishDue ==
  ASSUME TypeOK, NEW p \in Procs, NEW tasks, Finish(p, tasks)
  PROVE  TaskInv(p)'
<1>1. pc'[p] \in {"idle", "after"}
  BY DEF TypeOK, Finish, Goto
<1> QED BY <1>1, NothingDue DEF CustomerHeld

(* Outside the tasks no customer is held for one.                          *)
LEMMA RequestsDue ==
  ASSUME TypeOK, NEW p \in Procs,
         Start(p) \/ PlaceStep(p) \/ StatusStep(p) \/ WhatsappStep(p) \/ LinkStep(p)
           \/ MaintenanceStep(p) \/ Fail(p) \/ Crash(p)
  PROVE  TaskInv(p)'
<1>1. CASE Start(p)
  <2>1. CASE StartPlace(p)
    <3>1. PICK cart \in Carts : Goto(p, PlaceLabel(cart))
      BY <2>1 DEF StartPlace
    <3>2. pc'[p] \in PlacePcs
      BY <3>1, PcsKnown DEF Goto, TypeOK
    <3> QED BY <3>2, NothingDue DEF PlacePcs, CustomerHeld
  <2>2. CASE ~StartPlace(p)
    <3>1. pc'[p] \in {"status_order", "whatsapp_order", "link_select", "after", "expire"}
      BY <1>1, <2>2 DEF TypeOK, Start, StartStatus, StartWhatsapp, StartLink,
                        StartProgress, StartMaintenance, Goto
    <3> QED BY <3>1, NothingDue DEF CustomerHeld
  <2> QED BY <2>1, <2>2
<1>2. CASE PlaceStep(p)
  <2>1. CASE ApplyToOrder(p) \/ ValidateForOrder(p)
    <3>1. pc'[p] \in {"place_rewards", "place_save"}
      BY <2>1 DEF TypeOK, ApplyToOrder, ValidateForOrder, Goto
    <3> QED BY <3>1, NothingDue DEF CustomerHeld
  <2> QED BY <1>2, <2>1, FinishDue DEF PlaceStep, CouponRefused, RewardRefused, SaveOrder, Reject
<1>3. CASE StatusStep(p)
  <2>1. CASE LockOrderForStatus(p) \/ LockCouponOfCancelled(p) \/ LockRewardOfCancelled(p)
               \/ RewardsLocked(p) \/ LockUserOfDelivered(p)
    <3>1. pc'[p] \in StatusPcs
      BY <2>1, PcsKnown DEF TypeOK, LockOrderForStatus, LockCouponOfCancelled,
                  LockRewardOfCancelled, RewardsLocked, LockUserOfDelivered, Goto, StatusPcs
    <3> QED BY <3>1, NothingDue DEF StatusPcs, CustomerHeld
  <2> QED BY <1>3, <2>1, FinishDue DEF StatusStep, StatusRefused, SaveStatus, Reject
<1>4. CASE WhatsappStep(p)
  <2>1. CASE LockOrderForWhatsapp(p)
    <3>1. pc'[p] = "whatsapp_save"
      BY <2>1 DEF TypeOK, LockOrderForWhatsapp, Goto
    <3> QED BY <3>1, NothingDue DEF CustomerHeld
  <2> QED BY <1>4, <2>1, FinishDue DEF WhatsappStep, WhatsappUnchanged, SaveWhatsapp, Reject
<1>5. CASE LinkStep(p)
  <2>1. CASE SelectLinkable(p) \/ LockLinkable(p) \/ LockUserOfLink(p)
    <3>1. pc'[p] \in LinkPcs
      BY <2>1 DEF TypeOK, SelectLinkable, LockLinkable, LockUserOfLink, Goto, LinkPcs
    <3> QED BY <3>1, NothingDue DEF LinkPcs, CustomerHeld
  <2> QED BY <1>5, <2>1, FinishDue DEF LinkStep, LinkRefused, SaveLink, Reject
<1>6. CASE MaintenanceStep(p)
  <2>1. CASE LockLapsed(p)
    <3>1. pc'[p] = "expire"
      BY <2>1 DEF LockLapsed
    <3> QED BY <3>1, NothingDue DEF CustomerHeld
  <2> QED BY <1>6, <2>1, FinishDue DEF MaintenanceStep, SaveExpired
<1>7. CASE Fail(p) \/ Crash(p)
  BY <1>7, FinishDue DEF Fail, Crash, Reject
<1> QED BY <1>1, <1>2, <1>3, <1>4, <1>5, <1>6, <1>7

(* A task locks its customer, then reads what is due, and reads it in the  *)
(* state it locked.                                                        *)
LEMMA TasksDue ==
  ASSUME TypeOK, NEW p \in Procs, SubjectKnown(p), TaskInv(p), EarnedByNow, TaskStep(p)
  PROVE  TaskInv(p)'
<1> DEFINE u == mem[p].user
<1>1. CASE BeginTask(p)
  <2>1. pc'[p] \in {"gen_user", "stars_user"}
    BY <1>1 DEF BeginTask, Goto, TypeOK
  <2> QED BY <2>1, NothingDue DEF CustomerHeld
<1>2. CASE ActiveCouponFound(p) \/ BelowThreshold(p) \/ NothingToGrant(p)
             \/ InsertCoupon(p) \/ InsertRewards(p)
  BY <1>2, FinishDue DEF ActiveCouponFound, BelowThreshold, NothingToGrant,
                         TaskDone, InsertCoupon, InsertRewards
<1>3. CASE LockUserOfGeneration(p) \/ LockUserOfStars(p)
  <2>1. /\ pc'[p] \in {"gen_check", "stars_read"}
        /\ mem' = mem
        /\ pc[p] \in TaskPcs
        /\ Lock(p, UserRow(u))
    BY <1>3 DEF LockUserOfGeneration, LockUserOfStars, Goto, TypeOK, TaskPcs
  <2>2. UserRow(u) \in Rows
    BY <2>1 DEF SubjectKnown, Rows, UserRow
  <2>3. Holds(p, UserRow(u))'
    BY <2>1, <2>2, LockHolds
  <2> QED BY <2>1, <2>3 DEF TaskInv
<1>4. CASE CheckActiveCoupon(p)
  <2>1. pc[p] = "gen_check" /\ pc'[p] = "gen_sum" /\ UNCHANGED <<holder, mem>>
    BY <1>4 DEF CheckActiveCoupon, Goto, TypeOK
  <2> QED BY <2>1 DEF TaskInv, CustomerHeld, Holds
<1>5. CASE SumSinceLastCoupon(p)
  <2>1. /\ pc[p] = "gen_sum" /\ pc'[p] = "gen_insert"
        /\ UNCHANGED <<holder, orders, coupons>>
        /\ mem'[p].user = u /\ mem'[p].basis = SpentSinceLastCoupon(u)
    BY <1>5 DEF SumSinceLastCoupon, Goto, TypeOK, Mem, tables, loyalty
  <2>2. \A o \in SpentSinceLastCoupon(u) : orders[o].userId = u /\ CreatedSince(u, o)
    BY DEF SpentSinceLastCoupon
  <2> QED BY <2>1, <2>2 DEF TaskInv, CustomerHeld, Holds, CreatedSince
<1>6. CASE ReadStars(p)
  <2>1. /\ pc[p] = "stars_read" /\ pc'[p] = "stars_insert"
        /\ UNCHANGED <<holder, rewards, month>>
        /\ mem'[p].user = u /\ mem'[p].grants = ToGrant(u, month)
    BY <1>6 DEF ReadStars, Goto, TypeOK, Mem, tables, loyalty
  <2>2. ASSUME NEW r \in RewardIds, rewards[r].owner = u,
               rewards[r].milestone \in ToGrant(u, month)
        PROVE  rewards[r].earned < month
    <3>1. rewards[r].earned # month
      BY <2>2 DEF ToGrant, GrantedIn
    <3>2. rewards[r].earned <= month
      BY <2>1, <2>2, OrdersAssumption DEF EarnedByNow, SubjectKnown, TaskPcs
    <3>3. rewards[r].earned \in Nat /\ month \in Nat
      BY RewardsAssumption DEF TypeOK, Reward, Months
    <3> QED BY <3>1, <3>2, <3>3
  <2> QED BY <2>1, <2>2 DEF TaskInv, CustomerHeld, Holds
<1> QED BY <1>1, <1>2, <1>3, <1>4, <1>5, <1>6 DEF TaskStep

(***************************************************************************)
(* The invariant.                                                          *)
(***************************************************************************)
(* Two tasks never hold one customer.                                      *)
LEMMA OneHolder ==
  ASSUME NEW p \in Procs, NEW q \in Procs, NEW row, Holds(p, row), Holds(q, row)
  PROVE  p = q
  BY DEF Holds

(* A step of p grants nothing to a customer another handler holds.         *)
LEMMA OthersDue ==
  ASSUME Inv, Inv', NEW p \in Procs, TaskInv(p), NEW q \in Procs \ {p}, TaskInv(q),
         Start(p) \/ Step(p) \/ Fail(p) \/ Crash(p),
         \A o \in OrderIds : orders[o].userId # None => orders'[o].userId = orders[o].userId,
         month <= month'
  PROVE  TaskInv(q)'
<1>0. TypeOK /\ TypeOK' /\ SubjectKnown(p) /\ SubjectKnown(q)
  BY DEF Inv, HandlerInv
<1>1. /\ pc'[q] = pc[q]
      /\ mem'[q] = mem[q]
      /\ \A row \in Rows : Holds(q, row) => Holds(q, row)'
  BY <1>0, StepIsOwn DEF OthersKept, Holds
<1>2. \A u \in Users : Holds(q, UserRow(u)) => Holds(q, UserRow(u))'
  BY <1>1 DEF Rows, UserRow
<1>3. ASSUME NEW u \in Users, Holds(q, UserRow(u)), NEW c \in CouponIds,
             coupons'[c].owner = u
      PROVE  coupons[c].owner = u /\ coupons'[c].cut = coupons[c].cut
  <2>1. CASE CouponTermsKept
    BY <1>3, <2>1 DEF CouponTermsKept
  <2>2. CASE InsertCoupon(p)
    <3>1. Holds(p, UserRow(mem[p].user))
      BY <2>2 DEF InsertCoupon, TaskInv, CustomerHeld
    <3>2. mem[p].user # u
      BY <1>3, <3>1, OneHolder
    <3>3. PICK d \in FreeCoupons :
            coupons' = [coupons EXCEPT ![d] =
                          NewCoupon(mem[p].user, "auto", mem[p].cut, mem[p].basis)]
      BY <2>2 DEF InsertCoupon
    <3>4. IF c = d THEN coupons'[c].owner = mem[p].user ELSE coupons'[c] = coupons[c]
      BY <1>0, <3>3 DEF TypeOK, FreeCoupons, NewCoupon, NoCoupon
    <3> QED BY <1>3, <3>2, <3>4
  <2> QED BY <1>0, <2>1, <2>2, TermsKept
<1>4. ASSUME NEW u \in Users, Holds(q, UserRow(u)), NEW r \in RewardIds,
             rewards'[r].owner = u
      PROVE  /\ rewards[r].owner = u
             /\ rewards'[r].milestone = rewards[r].milestone
             /\ rewards'[r].earned = rewards[r].earned
  <2>1. CASE RewardTermsKept
    BY <1>4, <2>1 DEF RewardTermsKept
  <2>2. CASE InsertRewards(p)
    <3>1. Holds(p, UserRow(mem[p].user))
      BY <2>2 DEF InsertRewards, TaskInv, CustomerHeld
    <3>2. mem[p].user # u
      BY <1>4, <3>1, OneHolder
    <3>3. rewards'[r].owner = mem[p].user \/ rewards'[r] = rewards[r]
      BY <1>0, <2>2, RewardsGranted
    <3> QED BY <1>4, <3>2, <3>3
  <2> QED BY <1>0, <2>1, <2>2, TermsKept
<1> QED BY <1>0, <1>1, <1>2, <1>3, <1>4, StillDue

(* The new coupon was earned by orders that count for no other one of      *)
(* hers, as they are younger than it.                                      *)
LEMMA CouponEarnedOnce ==
  ASSUME Inv, NEW p \in Procs, TaskInv(p), PaidByOwner, SpendEarnsOneCoupon,
         InsertCoupon(p)
  PROVE  PaidByOwner' /\ SpendEarnsOneCoupon'
<1> DEFINE u == mem[p].user
           basis == mem[p].basis
<1>0. TypeOK /\ pc[p] = "gen_insert" /\ u \in Users /\ u # None
  BY OrdersAssumption DEF Inv, HandlerInv, SubjectKnown, TaskPcs, InsertCoupon
<1>1. PICK d \in FreeCoupons :
        coupons' = [coupons EXCEPT ![d] = NewCoupon(u, "auto", mem[p].cut, basis)]
  BY DEF InsertCoupon
<1>2. orders' = orders
  BY DEF InsertCoupon
<1>3. \A c \in CouponIds :
        IF c = d THEN /\ coupons'[c].owner = u
                      /\ coupons'[c].paid = basis
                 ELSE coupons'[c] = coupons[c]
  BY <1>0, <1>1 DEF TypeOK, FreeCoupons, NewCoupon, NoCoupon
<1>4. \A o \in basis : orders[o].userId = u /\ CreatedSince(u, o)
  BY <1>0 DEF TaskInv
<1> HIDE DEF u, basis
<1>5. PaidByOwner'
  BY <1>0, <1>2, <1>3, <1>4 DEF PaidByOwner
<1>6. ASSUME NEW c \in CouponIds, c # d
      PROVE  basis \cap coupons[c].paid \cap coupons[c].cut = {}
  BY <1>4 DEF PaidByOwner, CreatedSince
<1>7. SpendEarnsOneCoupon'
  <2> SUFFICES ASSUME NEW c \in CouponIds, NEW e \in CouponIds, c # e
               PROVE  coupons'[c].paid \cap coupons'[e].paid \cap coupons'[c].cut
                        \cap coupons'[e].cut = {}
    BY DEF SpendEarnsOneCoupon
  <2>1. CASE c = d
    BY <1>3, <1>6, <2>1
  <2>2. CASE e = d
    BY <1>3, <1>6, <2>2
  <2>3. CASE c # d /\ e # d
    BY <1>3, <2>3 DEF SpendEarnsOneCoupon
  <2> QED BY <2>1, <2>2, <2>3
<1> QED BY <1>5, <1>7

(* A granted coupon of the back office was earned by nothing.              *)
LEMMA GiftEarnedByNothing ==
  ASSUME TypeOK, PaidByOwner, SpendEarnsOneCoupon, GenerateManual
  PROVE  PaidByOwner' /\ SpendEarnsOneCoupon'
<1>1. PICK u \in Users, d \in FreeCoupons :
        coupons' = [coupons EXCEPT ![d] = NewCoupon(u, "manual", issued, {})]
  BY DEF GenerateManual
<1>2. orders' = orders
  BY DEF GenerateManual
<1>3. \A c \in CouponIds :
        IF c = d THEN coupons'[c].paid = {} ELSE coupons'[c] = coupons[c]
  BY <1>1 DEF TypeOK, FreeCoupons, NewCoupon, NoCoupon
<1>4. PaidByOwner'
  BY <1>2, <1>3 DEF PaidByOwner
<1>5. SpendEarnsOneCoupon'
  <2> SUFFICES ASSUME NEW c \in CouponIds, NEW e \in CouponIds, c # e
               PROVE  coupons'[c].paid \cap coupons'[e].paid \cap coupons'[c].cut
                        \cap coupons'[e].cut = {}
    BY DEF SpendEarnsOneCoupon
  <2>1. CASE c # d /\ e # d
    BY <1>3, <2>1 DEF SpendEarnsOneCoupon
  <2>2. CASE c = d \/ e = d
    BY <1>3, <2>2
  <2> QED BY <2>1, <2>2
<1> QED BY <1>4, <1>5

(* New rewards are of this month, the customer's others for the same       *)
(* milestones are older.                                                   *)
LEMMA RewardEarnedOnce ==
  ASSUME Inv, NEW p \in Procs, TaskInv(p), EarnedByNow, OneRewardPerMilestone,
         InsertRewards(p)
  PROVE  EarnedByNow' /\ OneRewardPerMilestone'
<1> DEFINE u == mem[p].user
           grants == mem[p].grants
<1>0. TypeOK /\ pc[p] = "stars_insert" /\ month' = month /\ month \in Nat
  BY RewardsAssumption DEF Inv, InsertRewards, TypeOK, Months
<1>1. PICK slot \in [grants -> FreeRewards] :
        /\ \A s, t \in grants : slot[s] = slot[t] => s = t
        /\ \A r \in RewardIds :
             \/ /\ rewards[r].owner = None
                /\ rewards'[r].owner = u
                /\ rewards'[r].milestone \in grants
                /\ slot[rewards'[r].milestone] = r
                /\ rewards'[r].earned = month
             \/ rewards'[r] = rewards[r]
  BY <1>0, RewardsGranted
<1>2. \A r \in RewardIds : rewards[r].owner = u /\ rewards[r].milestone \in grants =>
        rewards[r].earned # month
  <2>1. \A r \in RewardIds : rewards[r].owner = u /\ rewards[r].milestone \in grants =>
          rewards[r].earned < month
    BY <1>0 DEF TaskInv
  <2>2. \A r \in RewardIds : rewards[r].earned \in Nat
    BY <1>0, RewardsAssumption DEF TypeOK, Reward
  <2> QED BY <1>0, <2>1, <2>2
<1> HIDE DEF u, grants
<1>3. EarnedByNow'
  BY <1>0, <1>1 DEF EarnedByNow
<1>4. OneRewardPerMilestone'
  <2> SUFFICES ASSUME NEW r \in RewardIds, NEW s \in RewardIds,
                      rewards'[r].owner # None,
                      rewards'[r].owner = rewards'[s].owner,
                      rewards'[r].earned = rewards'[s].earned,
                      rewards'[r].milestone = rewards'[s].milestone
               PROVE  r = s
    BY DEF OneRewardPerMilestone
  <2>1. CASE rewards'[r] = rewards[r] /\ rewards'[s] = rewards[s]
    BY <2>1 DEF OneRewardPerMilestone
  <2>2. CASE rewards'[r] # rewards[r] /\ rewards'[s] # rewards[s]
    BY <1>1, <2>2
  <2>3. CASE rewards'[r] # rewards[r] /\ rewards'[s] = rewards[s]
    BY <1>1, <1>2, <2>3
  <2>4. CASE rewards'[r] = rewards[r] /\ rewards'[s] # rewards[s]
    BY <1>1, <1>2, <2>4
  <2> QED BY <2>1, <2>2, <2>3, <2>4
<1> QED BY <1>3, <1>4

(* Steps that grant nothing keep what was granted in order.                *)
LEMMA TermsEnough ==
  ASSUME TypeOK, TypeOK', LoyaltyInv, month <= month',
         \A o \in OrderIds : orders[o].userId # None => orders'[o].userId = orders[o].userId
  PROVE  /\ CouponTermsKept => PaidByOwner' /\ SpendEarnsOneCoupon'
         /\ RewardTermsKept => EarnedByNow' /\ OneRewardPerMilestone'
<1>1. ASSUME CouponTermsKept PROVE PaidByOwner' /\ SpendEarnsOneCoupon'
  <2>1. \A c \in CouponIds : coupons[c].paid \subseteq OrderIds
    BY DEF TypeOK, Coupon
  <2>2. PaidByOwner'
    BY <1>1, <2>1 DEF CouponTermsKept, PaidByOwner, LoyaltyInv
  <2>3. SpendEarnsOneCoupon'
    BY <1>1 DEF CouponTermsKept, SpendEarnsOneCoupon, LoyaltyInv
  <2> QED BY <2>2, <2>3
<1>2. ASSUME RewardTermsKept PROVE EarnedByNow' /\ OneRewardPerMilestone'
  <2>1. month \in Nat /\ month' \in Nat /\ \A r \in RewardIds : rewards[r].earned \in Nat
    BY RewardsAssumption DEF TypeOK, Months, Reward
  <2>2. EarnedByNow'
    BY <1>2, <2>1 DEF RewardTermsKept, EarnedByNow, LoyaltyInv
  <2>3. OneRewardPerMilestone'
    BY <1>2 DEF RewardTermsKept, OneRewardPerMilestone, LoyaltyInv
  <2> QED BY <2>2, <2>3
<1> QED BY <1>1, <1>2

LEMMA LoyaltyInit == Init => LoyaltyInv
<1> SUFFICES ASSUME Init PROVE LoyaltyInv
  OBVIOUS
<1>1. \A p \in Procs : TaskInv(p)
  BY DEF Init, TaskInv, CustomerHeld
<1>2. EarnedByNow
  BY InitialAssumption DEF Init, EarnedByNow
<1>3. OneRewardPerMilestone
  BY InitialAssumption DEF Init, OneRewardPerMilestone
<1>4. PaidByOwner /\ SpendEarnsOneCoupon
  BY InitialAssumption DEF Init, PaidByOwner, SpendEarnsOneCoupon
<1> QED BY <1>1, <1>2, <1>3, <1>4 DEF LoyaltyInv

LEMMA LoyaltyNext == Inv /\ LoyaltyInv /\ [Next]_vars => LoyaltyInv'
<1> SUFFICES ASSUME Inv, LoyaltyInv, [Next]_vars PROVE LoyaltyInv'
  OBVIOUS
<1>0. /\ Inv' /\ TypeOK /\ TypeOK'
      /\ \A p \in Procs : SubjectKnown(p) /\ TaskInv(p)
      /\ PaidByOwner /\ SpendEarnsOneCoupon /\ EarnedByNow /\ OneRewardPerMilestone
  BY InvNext DEF Inv, HandlerInv, LoyaltyInv
<1>1. \A o \in OrderIds : orders[o].userId # None => orders'[o].userId = orders[o].userId
  BY CustomersKept
<1>2. CASE Environment \/ UNCHANGED vars
  <2>1. /\ UNCHANGED <<pc, mem, holder>>
        /\ RewardTermsKept
        /\ CouponTermsKept \/ GenerateManual
    <3>1. UNCHANGED <<pc, mem, holder, rewards>>
      BY <1>2 DEF Environment, GenerateManual, ChangePhone, CouponLapses, MonthEnds,
                  vars, tables, loyalty, locals
    <3>2. ASSUME CouponLapses PROVE CouponTermsKept
      BY <1>0, <3>2 DEF CouponLapses, CouponTermsKept, TypeOK, Coupon
    <3>3. ASSUME ChangePhone \/ MonthEnds \/ UNCHANGED vars PROVE CouponTermsKept
      BY <3>3 DEF ChangePhone, MonthEnds, vars, tables, loyalty, CouponTermsKept
    <3>4. CouponTermsKept \/ GenerateManual
      BY <1>2, <3>2, <3>3 DEF Environment
    <3> QED BY <3>1, <3>4 DEF RewardTermsKept
  <2>2. month <= month'
    <3>1. month \in Nat /\ (month' = month \/ month' = month + 1)
      BY <1>0, <1>2, RewardsAssumption
         DEF Environment, GenerateManual, ChangePhone, CouponLapses, MonthEnds, vars,
             tables, TypeOK, Months
    <3> QED BY <3>1
  <2>3. ASSUME NEW u \in Users, NEW q \in Procs, Holds(q, UserRow(u)), NEW c \in CouponIds,
               coupons'[c].owner = u
        PROVE  coupons[c].owner = u /\ coupons'[c].cut = coupons[c].cut
    <3>1. CASE CouponTermsKept
      BY <2>3, <3>1 DEF CouponTermsKept
    <3>2. CASE GenerateManual
      <4>1. PICK v \in Users, d \in FreeCoupons :
              /\ holder[UserRow(v)] = None
              /\ coupons' = [coupons EXCEPT ![d] = NewCoupon(v, "manual", issued, {})]
        BY <3>2 DEF GenerateManual
      <4>2. v # u
        BY <2>3, <4>1, OrdersAssumption DEF Holds
      <4>3. IF c = d THEN coupons'[c].owner = v ELSE coupons'[c] = coupons[c]
        BY <1>0, <4>1 DEF TypeOK, FreeCoupons, NewCoupon, NoCoupon
      <4> QED BY <2>3, <4>2, <4>3
    <3> QED BY <2>1, <3>1, <3>2
  <2>4. ASSUME NEW q \in Procs PROVE TaskInv(q)'
    <3>1. \A u \in Users : Holds(q, UserRow(u)) => Holds(q, UserRow(u))'
      BY <2>1 DEF Holds
    <3> QED BY <1>0, <1>1, <2>1, <2>2, <2>3, <3>1, StillDue DEF RewardTermsKept
  <2>5. EarnedByNow' /\ OneRewardPerMilestone'
    BY <1>0, <1>1, <2>1, <2>2, TermsEnough
  <2>6. PaidByOwner' /\ SpendEarnsOneCoupon'
    BY <1>0, <1>1, <2>1, <2>2, TermsEnough, GiftEarnedByNothing
  <2> QED BY <2>4, <2>5, <2>6 DEF LoyaltyInv
<1>3. ASSUME NEW p \in Procs, Start(p) \/ Step(p) \/ Fail(p) \/ Crash(p)
      PROVE  LoyaltyInv'
  <2>1. month <= month'
    <3>1. month' = month
      BY <1>3, MonthStays
    <3>2. month \in Nat
      BY <1>0, RewardsAssumption DEF TypeOK, Months
    <3> QED BY <3>1, <3>2
  <2>2. \A q \in Procs \ {p} : TaskInv(q)'
    BY <1>0, <1>1, <1>3, <2>1, OthersDue
  <2>3. TaskInv(p)'
    BY <1>0, <1>3, RequestsDue, TasksDue DEF Step
  <2>4. PaidByOwner' /\ SpendEarnsOneCoupon'
    BY <1>0, <1>1, <1>3, <2>1, TermsKept, TermsEnough, CouponEarnedOnce
  <2>5. EarnedByNow' /\ OneRewardPerMilestone'
    BY <1>0, <1>1, <1>3, <2>1, TermsKept, TermsEnough, RewardEarnedOnce
  <2> QED BY <2>2, <2>3, <2>4, <2>5 DEF LoyaltyInv
<1> QED BY <1>2, <1>3 DEF Next

(* What loyalty tasks grant is due, and granted once.                      *)
THEOREM LoyaltyHolds == Spec => []LoyaltyInv
  BY LoyaltyInit, LoyaltyNext, InvHolds, PTL DEF Spec

(* A customer never has two rewards for one milestone of one month,        *)
(* however many deliveries, links and progress queries recalculate her     *)
(* stars at once, and whenever the month ends among them.                  *)
THEOREM RewardsAreEarnedOnce == Spec => []OneRewardPerMilestone
<1>1. LoyaltyInv => OneRewardPerMilestone
  BY DEF LoyaltyInv
<1> QED BY <1>1, LoyaltyHolds, PTL

(* No order is added up for two coupons that were both granted after it,   *)
(* whatever deliveries, links and the cron generate at once.               *)
THEOREM SpendIsAddedUpOnce == Spec => []SpendEarnsOneCoupon
<1>1. LoyaltyInv => SpendEarnsOneCoupon
  BY DEF LoyaltyInv
<1> QED BY <1>1, LoyaltyHolds, PTL

(***************************************************************************)
(* What a checkout has redeemed is the customer's.                         *)
(***************************************************************************)
(* The coupon a checkout has locked and the claims it has locked belong to *)
(* the customer the order is for.                                          *)
CheckoutOwns(p) ==
  LET cart == mem[p].cart IN
  /\ pc[p] \in PlacePcs /\ cart.coupon # None => cart.userId # None
  /\ pc[p] \in {"place_rewards", "place_save"} /\ cart.coupon # None =>
       coupons[cart.coupon].owner = cart.userId
  /\ pc[p] \in PlacePcs =>
       \A r \in cart.rewards : Holds(p, RewardRow(r)) =>
         rewards[r].owner = cart.userId

OwnersInv == \A p \in Procs : CheckoutOwns(p)

(* A coupon that is active, and a reward somebody has, keep their owners.  *)
OwnersKept ==
  /\ \A c \in CouponIds : coupons[c].status = "active" =>
       coupons'[c].owner = coupons[c].owner
  /\ \A r \in RewardIds : rewards[r].owner # None =>
       rewards'[r].owner = rewards[r].owner

LEMMA GrantKeepsOwners ==
  ASSUME TypeOK, NEW u, NEW origin, NEW cut, NEW paid, NEW d \in FreeCoupons,
         coupons' = [coupons EXCEPT ![d] = NewCoupon(u, origin, cut, paid)]
  PROVE  \A c \in CouponIds : coupons[c].status = "active" => coupons'[c] = coupons[c]
  BY DEF TypeOK, FreeCoupons

LEMMA OwnersStay ==
  ASSUME Inv, RewardsOwned, [Next]_vars
  PROVE  OwnersKept
<1>0. TypeOK /\ \A p \in Procs : SubjectKnown(p)
  BY DEF Inv, HandlerInv
<1>1. ASSUME NEW p \in Procs, Start(p) \/ Step(p) \/ Fail(p) \/ Crash(p)
      PROVE  OwnersKept
  <2>1. CouponTermsKept \/ InsertCoupon(p)
    BY <1>0, <1>1, TermsKept
  <2>2. \A c \in CouponIds : coupons[c].status = "active" =>
          coupons'[c].owner = coupons[c].owner
    <3>1. ASSUME InsertCoupon(p)
          PROVE  \A c \in CouponIds : coupons[c].status = "active" =>
                   coupons'[c].owner = coupons[c].owner
      <4>1. PICK d \in FreeCoupons :
              coupons' = [coupons EXCEPT ![d] =
                            NewCoupon(mem[p].user, "auto", mem[p].cut, mem[p].basis)]
        BY <3>1 DEF InsertCoupon
      <4> QED BY <1>0, <4>1, GrantKeepsOwners
    <3> QED BY <2>1, <3>1 DEF CouponTermsKept
  <2>3. RewardTermsKept \/ InsertRewards(p)
    BY <1>0, <1>1, TermsKept
  <2>4. \A r \in RewardIds : rewards[r].owner # None =>
          rewards'[r].owner = rewards[r].owner
    BY <1>0, <2>3, RewardsTakeFree DEF RewardTermsKept
  <2> QED BY <2>2, <2>4 DEF OwnersKept
<1>2. CASE GenerateManual
  <2>1. PICK u \in Users, d \in FreeCoupons :
          coupons' = [coupons EXCEPT ![d] = NewCoupon(u, "manual", issued, {})]
    BY <1>2 DEF GenerateManual
  <2>2. rewards' = rewards
    BY <1>2 DEF GenerateManual
  <2> QED BY <1>0, <2>1, <2>2, GrantKeepsOwners DEF OwnersKept
<1>3. CASE CouponLapses
  BY <1>0, <1>3 DEF CouponLapses, OwnersKept, TypeOK, Coupon
<1>4. CASE ChangePhone \/ MonthEnds \/ UNCHANGED vars
  BY <1>4 DEF ChangePhone, MonthEnds, vars, tables, loyalty, OwnersKept
<1> QED BY <1>1, <1>2, <1>3, <1>4 DEF Next, Environment

(* A checkout that stays where it is with its locks still owns.            *)
LEMMA StillOwned ==
  ASSUME TypeOK, NEW q \in Procs, CheckoutInv(q), CheckoutOwns(q), OwnersKept,
         pc'[q] = pc[q], mem'[q] = mem[q],
         \A row \in Rows : Holds(q, row)' => Holds(q, row)
  PROVE  CheckoutOwns(q)'
<1> DEFINE cart == mem[q].cart
<1>1. cart.coupon \in CouponIds \cup {None} /\ cart.rewards \subseteq RewardIds
  BY DEF TypeOK, Mem, Cart
<1>2. ASSUME pc[q] \in {"place_rewards", "place_save"}, cart.coupon # None
      PROVE  coupons'[cart.coupon].owner = cart.userId
  BY <1>1, <1>2 DEF CheckoutInv, CheckoutOwns, OwnersKept
<1>3. ASSUME pc[q] \in PlacePcs, NEW r \in cart.rewards, Holds(q, RewardRow(r))'
      PROVE  rewards'[r].owner = cart.userId
  <2>1. Holds(q, RewardRow(r))
    BY <1>1, <1>3 DEF Rows, RewardRow
  <2>2. rewards[r].owner # None /\ rewards[r].owner = cart.userId
    BY <1>3, <2>1 DEF CheckoutInv, CheckoutOwns
  <2> QED BY <1>1, <2>2 DEF OwnersKept
<1> QED BY <1>2, <1>3 DEF CheckoutOwns

(* Outside a checkout there is nothing to own.                             *)
LEMMA NothingOwned ==
  ASSUME NEW p \in Procs, pc'[p] \notin PlacePcs
  PROVE  CheckoutOwns(p)'
  BY DEF CheckoutOwns, PlacePcs

LEMMA FinishOwns ==
  ASSUME TypeOK, NEW p \in Procs, NEW tasks, Finish(p, tasks)
  PROVE  CheckoutOwns(p)'
<1>1. pc'[p] \in {"idle", "after"}
  BY DEF TypeOK, Finish, Goto
<1> QED BY <1>1, NothingOwned DEF PlacePcs

(* A checkout begins with no row held, and judges what it locks.           *)
LEMMA PlaceOwns ==
  ASSUME TypeOK, NEW p \in Procs, BenefitsRelied(p), CheckoutOwns(p),
         StartPlace(p) \/ PlaceStep(p)
  PROVE  CheckoutOwns(p)'
<1> DEFINE cart == mem[p].cart
<1>0. cart.coupon \in CouponIds \cup {None} /\ cart.rewards \subseteq RewardIds
  BY DEF TypeOK, Mem, Cart
<1>1. CASE StartPlace(p)
  <2>1. PICK c \in Carts, o \in OrderIds \ issued :
          /\ c.userId = None => c.coupon = None /\ c.rewards = {}
          /\ Goto(p, PlaceLabel(c))
          /\ mem' = [mem EXCEPT ![p] = [Blank EXCEPT !.cart = c, !.order = o]]
    BY <1>1 DEF StartPlace
  <2>2. pc'[p] = PlaceLabel(c) /\ mem'[p].cart = c
    BY <2>1 DEF TypeOK, Goto, Blank
  <2>3. \A r \in RewardIds : ~Holds(p, RewardRow(r))'
    <3>1. pc[p] = "idle" /\ UNCHANGED holder
      BY <1>1 DEF StartPlace, Arrives
    <3> QED BY <3>1 DEF BenefitsRelied, IdleInv, Holds, Rows, RewardRow
  <2>4. c.rewards \subseteq RewardIds
    BY OrdersAssumption DEF Cart
  <2>5. pc'[p] \in {"place_rewards", "place_save"} => c.coupon = None
    BY <2>2 DEF PlaceLabel
  <2> QED BY <2>1, <2>2, <2>3, <2>4, <2>5 DEF CheckoutOwns
<1>2. CASE ApplyToOrder(p)
  <2>1. /\ pc[p] \in PlacePcs
        /\ UNCHANGED <<coupons, rewards, mem>>
        /\ coupons[cart.coupon].owner = cart.userId
        /\ Lock(p, CouponRow(cart.coupon))
    BY <1>2 DEF ApplyToOrder, AssertUsable, PlacePcs, tables, loyalty
  <2>2. \A r \in cart.rewards : Holds(p, RewardRow(r))' => Holds(p, RewardRow(r))
    BY <2>1 DEF Lock, TypeOK, Holds, CouponRow, RewardRow
  <2> QED BY <2>1, <2>2 DEF CheckoutOwns
<1>3. CASE ValidateForOrder(p)
  <2> DEFINE r == NextClaim(p)
  <2>1. /\ pc[p] = "place_rewards" /\ pc[p] \in PlacePcs
        /\ UNCHANGED <<coupons, rewards, mem>>
        /\ rewards[r].owner = cart.userId
        /\ Lock(p, RewardRow(r))
    BY <1>3 DEF ValidateForOrder, ValidReward, PlacePcs, tables, loyalty
  <2> HIDE DEF r
  <2>2. \A s \in cart.rewards : Holds(p, RewardRow(s))' => s = r \/ Holds(p, RewardRow(s))
    BY <2>1 DEF Lock, TypeOK, Holds, RewardRow
  <2> QED BY <2>1, <2>2 DEF CheckoutOwns
<1>4. CASE CouponRefused(p) \/ RewardRefused(p) \/ SaveOrder(p)
  BY <1>4, FinishOwns DEF CouponRefused, RewardRefused, SaveOrder, Reject
<1> QED BY <1>1, <1>2, <1>3, <1>4 DEF PlaceStep

(* No other step of p leads into a checkout.                               *)
LEMMA ElsewhereOwns ==
  ASSUME TypeOK, NEW p \in Procs,
         Start(p) \/ Step(p) \/ Fail(p) \/ Crash(p), ~StartPlace(p), ~PlaceStep(p)
  PROVE  CheckoutOwns(p)'
<1>1. CASE Start(p)
  <2>1. pc'[p] \in {"status_order", "whatsapp_order", "link_select", "after", "expire"}
    BY <1>1 DEF TypeOK, Start, StartStatus, StartWhatsapp, StartLink,
                StartProgress, StartMaintenance, Goto
  <2> QED BY <2>1, NothingOwned DEF PlacePcs
<1>2. CASE StatusStep(p)
  <2>1. CASE LockOrderForStatus(p) \/ LockCouponOfCancelled(p) \/ LockRewardOfCancelled(p)
               \/ RewardsLocked(p) \/ LockUserOfDelivered(p)
    <3>1. pc'[p] \in StatusPcs
      BY <2>1, PcsKnown DEF TypeOK, LockOrderForStatus, LockCouponOfCancelled,
                  LockRewardOfCancelled, RewardsLocked, LockUserOfDelivered, Goto, StatusPcs
    <3> QED BY <3>1, NothingOwned DEF StatusPcs, PlacePcs
  <2> QED BY <1>2, <2>1, FinishOwns DEF StatusStep, StatusRefused, SaveStatus, Reject
<1>3. CASE WhatsappStep(p) \/ LinkStep(p) \/ MaintenanceStep(p)
  <2>1. CASE LockOrderForWhatsapp(p) \/ SelectLinkable(p) \/ LockLinkable(p)
               \/ LockUserOfLink(p) \/ LockLapsed(p)
    <3>1. pc'[p] \in {"whatsapp_save", "link_orders", "link_save", "expire"}
      BY <2>1 DEF TypeOK, LockOrderForWhatsapp, SelectLinkable, LockLinkable,
                  LockUserOfLink, LockLapsed, Goto
    <3> QED BY <3>1, NothingOwned DEF PlacePcs
  <2> QED BY <1>3, <2>1, FinishOwns
          DEF WhatsappStep, LinkStep, MaintenanceStep, WhatsappUnchanged, SaveWhatsapp,
              LinkRefused, SaveLink, SaveExpired, Reject
<1>4. CASE TaskStep(p)
  <2>1. CASE BeginTask(p) \/ LockUserOfGeneration(p) \/ CheckActiveCoupon(p)
               \/ SumSinceLastCoupon(p) \/ LockUserOfStars(p) \/ ReadStars(p)
    <3>1. pc'[p] \in TaskPcs
      BY <2>1 DEF BeginTask, LockUserOfGeneration, CheckActiveCoupon, SumSinceLastCoupon,
                  LockUserOfStars, ReadStars, Goto, TypeOK, TaskPcs
    <3> QED BY <3>1, NothingOwned DEF TaskPcs, PlacePcs
  <2> QED BY <1>4, <2>1, FinishOwns
          DEF TaskStep, ActiveCouponFound, BelowThreshold, NothingToGrant, TaskDone,
              InsertCoupon, InsertRewards
<1>5. CASE Fail(p) \/ Crash(p)
  BY <1>5, FinishOwns DEF Fail, Crash, Reject
<1> QED BY <1>1, <1>2, <1>3, <1>4, <1>5 DEF Step

LEMMA OwnersInit == Init => OwnersInv
  BY DEF Init, OwnersInv, CheckoutOwns, PlacePcs

LEMMA OwnersNext ==
  Inv /\ BenefitInv /\ OwnersInv /\ [Next]_vars => OwnersInv'
<1> SUFFICES ASSUME Inv, BenefitInv, OwnersInv, [Next]_vars PROVE OwnersInv'
  OBVIOUS
<1>0. /\ TypeOK
      /\ OwnersKept
      /\ \A p \in Procs : BenefitsRelied(p) /\ CheckoutInv(p) /\ CheckoutOwns(p)
  BY OwnersStay DEF Inv, BenefitInv, BenefitsRelied, OwnersInv
<1>1. CASE Environment \/ UNCHANGED vars
  <2>1. UNCHANGED <<pc, mem, holder>>
    BY <1>1 DEF Environment, GenerateManual, ChangePhone, CouponLapses, MonthEnds,
                vars, locals
  <2> QED BY <1>0, <2>1, StillOwned DEF OwnersInv, Holds
<1>2. ASSUME NEW p \in Procs, Start(p) \/ Step(p) \/ Fail(p) \/ Crash(p)
      PROVE  OwnersInv'
  <2>1. ASSUME NEW q \in Procs \ {p} PROVE CheckoutOwns(q)'
    <3>1. pc'[q] = pc[q] /\ mem'[q] = mem[q]
      BY <1>0, <1>2, StepIsOwn DEF OthersKept
    <3>2. \A row \in Rows : Holds(q, row)' => Holds(q, row)
      BY <1>0, <1>2, OthersGetNothing DEF Holds
    <3> QED BY <1>0, <3>1, <3>2, StillOwned
  <2>2. CheckoutOwns(p)'
    BY <1>0, <1>2, PlaceOwns, ElsewhereOwns
  <2> QED BY <2>1, <2>2 DEF OwnersInv
<1> QED BY <1>1, <1>2 DEF Next

(***************************************************************************)
(* The writers are the steps of the book.                                  *)
(***************************************************************************)
LEMMA SaveOrderPlaces ==
  ASSUME Inv, NEW p \in Procs, BenefitsRelied(p), CheckoutOwns(p), SaveOrder(p)
  PROVE  Book!Next
<1> DEFINE x == mem[p].order
           cart == mem[p].cart
<1>0. TypeOK /\ HandlerInv(p) /\ RowsIssued /\ CheckoutInv(p)
  BY DEF Inv, BenefitsRelied
<1>1. /\ x \in OrderIds
      /\ pc[p] = "place_save" /\ pc[p] \in PlacePcs
      /\ cart.userId \in Users \cup {None}
      /\ cart.coupon \in CouponIds \cup {None}
      /\ cart.rewards \in SUBSET RewardIds
  BY <1>0 DEF SaveOrder, HandlerInv, SubjectKnown, AboutAnOrder, PlacePcs, TypeOK, Mem, Cart
<1>2. \A o \in OrderIds : IF o = x
        THEN /\ orders[o].status = "none"
             /\ orders'[o].status = "pendiente"
             /\ orders'[o].userId = cart.userId
             /\ orders'[o].whatsappSentAt = None
             /\ orders'[o].coupon = cart.coupon
             /\ orders'[o].rewards = cart.rewards
        ELSE orders'[o] = orders[o]
  <2>1. orders[x].status = "none"
    BY <1>0, <1>1 DEF HandlerInv, PlaceInv
  <2>2. orders' = [orders EXCEPT ![x] =
          [NoOrder EXCEPT !.status = "pendiente", !.userId = cart.userId,
                          !.customerPhone = cart.customerPhone,
                          !.coupon = cart.coupon, !.rewards = cart.rewards]]
    BY DEF SaveOrder
  <2> HIDE DEF x, cart
  <2> QED BY <1>0, <2>1, <2>2 DEF TypeOK, NoOrder
<1>3. \A c \in CouponIds : IF c = cart.coupon
        THEN /\ coupons[c].status = "active" /\ coupons[c].owner = cart.userId
             /\ coupons'[c].status = "used" /\ coupons'[c].order = x
             /\ coupons'[c].owner = coupons[c].owner
        ELSE coupons'[c] = coupons[c]
  <2>1. \A c \in CouponIds : IF c = cart.coupon
          THEN /\ coupons[c].status = "active"
               /\ coupons'[c].status = "used" /\ coupons'[c].order = x
          ELSE coupons'[c] = coupons[c]
    BY <1>0, SaveOrderUses
  <2>2. \A c \in CouponIds : coupons'[c].owner = coupons[c].owner
    BY <1>0, UseKeepsTerms DEF CouponTermsKept
  <2>3. \A c \in CouponIds : c = cart.coupon => coupons[c].owner = cart.userId
    BY <1>1, OrdersAssumption DEF CheckoutOwns
  <2> HIDE DEF x, cart
  <2> QED BY <2>1, <2>2, <2>3
<1>4. \A r \in RewardIds : IF r \in cart.rewards
        THEN /\ rewards[r].order = None /\ rewards[r].owner = cart.userId
             /\ rewards'[r].order = x /\ rewards'[r].owner = rewards[r].owner
        ELSE rewards'[r] = rewards[r]
  <2>1. \A r \in RewardIds : IF r \in cart.rewards
          THEN /\ Holds(p, RewardRow(r)) /\ rewards[r].order = None
               /\ rewards'[r].order = x /\ rewards'[r].owner = rewards[r].owner
          ELSE rewards'[r] = rewards[r]
    BY <1>0, SaveOrderUses
  <2>2. \A r \in cart.rewards : Holds(p, RewardRow(r)) => rewards[r].owner = cart.userId
    BY <1>1 DEF CheckoutOwns
  <2> HIDE DEF x, cart
  <2> QED BY <2>1, <2>2
<1>5. /\ cart.coupon # None => cart.userId # None
      /\ cart.rewards # {} => cart.userId # None
  BY <1>0, <1>1 DEF CheckoutOwns, CheckoutInv
<1>6. spent' = spent
  BY DEF SaveOrder
<1> HIDE DEF x, cart
<1>7. BookOf' = [BookOf EXCEPT ![x] =
        [status |-> "pendiente", userId |-> cart.userId, confirmed |-> None,
         coupon |-> cart.coupon, rewards |-> cart.rewards]]
  BY <1>1, <1>2 DEF BookOf
<1>8. CouponsOf' = [d \in CouponIds |->
        IF d = cart.coupon THEN [CouponsOf[d] EXCEPT !.status = "used", !.order = x]
                           ELSE CouponsOf[d]]
  BY <1>3 DEF CouponsOf
<1>9. RewardsOf' = [r \in RewardIds |->
        IF r \in cart.rewards THEN [RewardsOf[r] EXCEPT !.order = x] ELSE RewardsOf[r]]
  BY <1>4 DEF RewardsOf
<1>10. /\ BookOf[x].status = "none"
       /\ cart.coupon # None => /\ cart.userId # None
                                /\ CouponsOf[cart.coupon].owner = cart.userId
                                /\ CouponsOf[cart.coupon].status = "active"
       /\ \A r \in cart.rewards : /\ cart.userId # None
                                  /\ RewardsOf[r].owner = cart.userId
                                  /\ RewardsOf[r].order = None
  BY <1>1, <1>2, <1>3, <1>4, <1>5 DEF BookOf, CouponsOf, RewardsOf
<1>11. Book!Place(x, cart.userId, cart.coupon, cart.rewards)
  BY <1>6, <1>7, <1>8, <1>9, <1>10 DEF Book!Place
<1> QED BY <1>1, <1>11 DEF Book!Next

LEMMA SaveStatusMoves ==
  ASSUME Inv, NEW p \in Procs, SaveStatus(p)
  PROVE  Book!Next
<1> DEFINE x == mem[p].order
           to == mem[p].to
<1>0. TypeOK /\ TypeOK' /\ HandlerInv(p)
  <2>1. [Next]_vars
    BY DEF Next, Step, StatusStep
  <2> QED BY <2>1, InvNext DEF Inv
<1>1. x \in OrderIds
  BY <1>0 DEF SaveStatus, HandlerInv, SubjectKnown, AboutAnOrder, StatusPcs
<1>2. \A o \in OrderIds : IF o = x
        THEN /\ orders'[o].status = to
             /\ to \in VALID_TRANSITIONS[orders[o].status]
             /\ orders[o].status \in OrderStatus
             /\ orders'[o].userId = orders[o].userId
             /\ orders'[o].whatsappSentAt = orders[o].whatsappSentAt
             /\ orders'[o].coupon = orders[o].coupon
             /\ orders'[o].rewards = orders[o].rewards
        ELSE orders'[o] = orders[o]
  BY <1>0, SaveStatusWrites, SaveStatusGivesBack
<1>3. \A u \in Users, o \in OrderIds : spent'[u][o] =
        IF o = x /\ to = "entregado" /\ orders[x].userId = u
        THEN spent[u][o] + 1 ELSE spent[u][o]
  BY <1>0, <1>1, SaveStatusWrites
<1>4. to # "cancelado" => coupons' = coupons /\ rewards' = rewards
  BY DEF SaveStatus
<1>5. to = "cancelado" => \A c \in CouponIds :
        IF coupons[c].order = x
        THEN /\ coupons'[c].owner = coupons[c].owner
             /\ coupons'[c].status = "active" /\ coupons'[c].order = None
        ELSE coupons'[c] = coupons[c]
  <2>1. \A c \in CouponIds : coupons'[c].owner = coupons[c].owner
    BY <1>0, UseKeepsTerms DEF CouponTermsKept
  <2> QED BY <1>0, <2>1, SaveStatusGivesBack
<1>6. to = "cancelado" => \A r \in RewardIds :
        IF rewards[r].order = x
        THEN rewards'[r].order = None /\ rewards'[r].owner = rewards[r].owner
        ELSE rewards'[r] = rewards[r]
  BY <1>0, SaveStatusGivesBack
<1>7. to # "entregado" => spent' = spent
  BY DEF SaveStatus
<1>8. spent \in [Users -> [OrderIds -> Nat]] /\ spent' \in [Users -> [OrderIds -> Nat]]
  BY <1>0 DEF TypeOK
<1> HIDE DEF x, to
<1>9. BookOf' = [BookOf EXCEPT ![x].status = to]
  BY <1>1, <1>2 DEF BookOf
<1>10. BookOf[x].status = orders[x].status /\ BookOf[x].userId = orders[x].userId
  BY <1>1 DEF BookOf
<1>11. \/ orders[x].status = "pendiente" /\ to = "confirmado"
       \/ orders[x].status = "confirmado" /\ to = "en_camino"
       \/ orders[x].status = "en_camino" /\ to = "entregado"
       \/ /\ orders[x].status \in {"pendiente", "confirmado", "en_camino"}
          /\ to = "cancelado"
  BY <1>1, <1>2 DEF OrderStatus, VALID_TRANSITIONS
<1>12. ASSUME to \in {"confirmado", "en_camino"} PROVE Book!Advance(x)
  <2>1. CouponsOf' = CouponsOf /\ RewardsOf' = RewardsOf
    BY <1>4, <1>12 DEF CouponsOf, RewardsOf
  <2> QED BY <1>7, <1>9, <1>10, <1>11, <1>12, <2>1 DEF Book!Advance
<1>13. ASSUME to = "entregado" PROVE Book!Deliver(x)
  <2>1. CouponsOf' = CouponsOf /\ RewardsOf' = RewardsOf
    BY <1>4, <1>13 DEF CouponsOf, RewardsOf
  <2>2. spent' = [u \in Users |-> [o \in OrderIds |->
          IF o = x /\ BookOf[x].userId = u THEN spent[u][o] + 1 ELSE spent[u][o]]]
    BY <1>3, <1>8, <1>10, <1>13
  <2> QED BY <1>9, <1>10, <1>11, <1>13, <2>1, <2>2 DEF Book!Deliver
<1>14. ASSUME to = "cancelado" PROVE Book!Cancel(x)
  <2>1. CouponsOf' = [c \in CouponIds |->
          IF CouponsOf[c].order = x
          THEN [CouponsOf[c] EXCEPT !.status = "active", !.order = None]
          ELSE CouponsOf[c]]
    BY <1>5, <1>14 DEF CouponsOf
  <2>2. RewardsOf' = [r \in RewardIds |->
          IF RewardsOf[r].order = x THEN [RewardsOf[r] EXCEPT !.order = None]
                                    ELSE RewardsOf[r]]
    BY <1>6, <1>14 DEF RewardsOf
  <2> QED BY <1>7, <1>9, <1>10, <1>11, <1>14, <2>1, <2>2 DEF Book!Cancel
<1> QED BY <1>1, <1>11, <1>12, <1>13, <1>14 DEF Book!Next

LEMMA SaveWhatsappConfirms ==
  ASSUME Inv, NEW p \in Procs, SaveWhatsapp(p)
  PROVE  Book!Next
<1> DEFINE x == mem[p].order
<1>0. TypeOK /\ HandlerInv(p)
  BY DEF Inv
<1>1. x \in OrderIds
  BY <1>0 DEF SaveWhatsapp, HandlerInv, SubjectKnown, AboutAnOrder
<1>2. \A o \in OrderIds : IF o = x
        THEN /\ Confirmable(o)
             /\ orders'[o].status = orders[o].status
             /\ orders'[o].userId = orders[o].userId
             /\ orders'[o].whatsappSentAt = p
             /\ orders'[o].coupon = orders[o].coupon
             /\ orders'[o].rewards = orders[o].rewards
        ELSE orders'[o] = orders[o]
  BY <1>0, SaveWhatsappWrites, OrdersQuiet
<1>3. spent' = spent /\ CouponsOf' = CouponsOf /\ RewardsOf' = RewardsOf
  BY DEF SaveWhatsapp, loyalty, CouponsOf, RewardsOf
<1> HIDE DEF x
<1>4. BookOf' = [BookOf EXCEPT ![x].confirmed = p]
  BY <1>1, <1>2 DEF BookOf
<1>5. BookOf[x].status \in OrderStatus \ {"cancelado"} /\ BookOf[x].confirmed = None
  BY <1>1, <1>2 DEF BookOf, Confirmable, Exists
<1>6. Book!Standing(x)
  BY <1>5 DEF Book!Standing, Book!OrderStatus, OrderStatus
<1>7. Book!ConfirmWhatsapp(x, p)
  BY <1>3, <1>4, <1>5, <1>6 DEF Book!ConfirmWhatsapp
<1> QED BY <1>1, <1>7 DEF Book!Next

LEMMA SaveLinkLinks ==
  ASSUME Inv, NEW p \in Procs, SaveLink(p)
  PROVE  Book!Next
<1> DEFINE u == mem[p].user
           ids == mem[p].ids
<1>0. TypeOK /\ TypeOK' /\ HandlerInv(p)
  <2>1. [Next]_vars
    BY DEF Next, Step, LinkStep
  <2> QED BY <2>1, InvNext DEF Inv
<1>1. u \in Users /\ ids \in SUBSET OrderIds
  BY <1>0 DEF SaveLink, HandlerInv, SubjectKnown, LinkPcs, TypeOK, Mem
<1>2. \A o \in OrderIds : IF o \in ids
        THEN /\ orders[o].status # "none" /\ orders[o].userId = None
             /\ orders'[o].userId = u
        ELSE orders'[o] = orders[o]
  BY <1>0, SaveLinkWrites
<1>3. \A o \in OrderIds : /\ orders'[o].status = orders[o].status
                          /\ orders'[o].whatsappSentAt = orders[o].whatsappSentAt
                          /\ orders'[o].coupon = orders[o].coupon
                          /\ orders'[o].rewards = orders[o].rewards
  BY <1>0, SaveLinkWrites, OrdersQuiet
<1>4. \A v \in Users, o \in OrderIds : spent'[v][o] =
        IF o \in ids /\ orders[o].status = "entregado" /\ u = v
        THEN spent[v][o] + 1 ELSE spent[v][o]
  BY <1>0, SaveLinkWrites
<1>5. CouponsOf' = CouponsOf /\ RewardsOf' = RewardsOf
  BY DEF SaveLink, loyalty, CouponsOf, RewardsOf
<1>6. spent \in [Users -> [OrderIds -> Nat]] /\ spent' \in [Users -> [OrderIds -> Nat]]
  BY <1>0 DEF TypeOK
<1> HIDE DEF u, ids
<1>7. BookOf' = [o \in OrderIds |->
        IF o \in ids THEN [BookOf[o] EXCEPT !.userId = u] ELSE BookOf[o]]
  BY <1>2, <1>3 DEF BookOf
<1>8. spent' = [spent EXCEPT ![u] = [o \in OrderIds |->
        IF o \in ids /\ BookOf[o].status = "entregado" THEN spent[u][o] + 1
                                                       ELSE spent[u][o]]]
  <2>1. \A o \in OrderIds : BookOf[o].status = orders[o].status
    BY DEF BookOf
  <2> QED BY <1>1, <1>4, <1>6, <2>1
<1>9. \A o \in ids : BookOf[o].status # "none" /\ BookOf[o].userId = None
  BY <1>1, <1>2 DEF BookOf
<1>10. Book!Link(u, ids)
  BY <1>5, <1>7, <1>8, <1>9 DEF Book!Link
<1> QED BY <1>1, <1>10 DEF Book!Next

LEMMA GrantIsGrant ==
  ASSUME TypeOK, NEW u \in Users, NEW origin, NEW cut, NEW paid, NEW d \in FreeCoupons,
         coupons' = [coupons EXCEPT ![d] = NewCoupon(u, origin, cut, paid)],
         UNCHANGED <<orders, spent, rewards>>
  PROVE  Book!Next
<1>1. d \in CouponIds /\ coupons[d].status = "none"
  BY DEF FreeCoupons
<1>2. \A c \in CouponIds : IF c = d
        THEN /\ coupons'[c].owner = u /\ coupons'[c].status = "active"
             /\ coupons'[c].order = None
        ELSE coupons'[c] = coupons[c]
  BY <1>1 DEF TypeOK, NewCoupon, NoCoupon
<1>3. CouponsOf' = [CouponsOf EXCEPT ![d] = [owner |-> u, status |-> "active",
                                             order |-> None]]
  BY <1>1, <1>2 DEF CouponsOf
<1>4. CouponsOf[d].status = "none"
  BY <1>1 DEF CouponsOf
<1>5. BookOf' = BookOf /\ RewardsOf' = RewardsOf
  BY DEF BookOf, RewardsOf
<1>6. Book!GrantCoupon(d, u)
  BY <1>3, <1>4, <1>5 DEF Book!GrantCoupon
<1> QED BY <1>1, <1>6 DEF Book!Next

LEMMA InsertRewardsGrants ==
  ASSUME Inv, RewardsOwned, NEW p \in Procs, InsertRewards(p)
  PROVE  Book!Next
<1> DEFINE u == mem[p].user
           R == {r \in RewardIds : rewards[r].owner = None /\ rewards'[r].owner = u}
<1>0. TypeOK /\ u \in Users /\ u # None
  BY OrdersAssumption DEF Inv, HandlerInv, SubjectKnown, TaskPcs, InsertRewards
<1>1. \A r \in RewardIds :
        \/ /\ rewards[r].owner = None
           /\ rewards'[r].owner = u
        \/ rewards'[r] = rewards[r]
  BY <1>0, RewardsGranted
<1>2. \A r \in RewardIds : rewards'[r].order = rewards[r].order
  BY <1>0, RewardsTakeFree DEF Inv, HandlerInv
<1>3. \A r \in R : rewards[r].order = None
  BY DEF RewardsOwned
<1>4. R \in SUBSET RewardIds
  OBVIOUS
<1>5. BookOf' = BookOf /\ CouponsOf' = CouponsOf /\ spent' = spent
  BY DEF InsertRewards, BookOf, CouponsOf
<1>6. \A r \in RewardIds : IF r \in R
        THEN rewards'[r].owner = u /\ rewards'[r].order = None
        ELSE rewards'[r].owner = rewards[r].owner /\ rewards'[r].order = rewards[r].order
  BY <1>1, <1>2, <1>3
<1>7. \A r \in R : RewardsOf[r].owner = None /\ RewardsOf[r].order = None
  BY <1>3 DEF RewardsOf
<1> HIDE DEF R, u
<1>8. RewardsOf' = [r \in RewardIds |-> IF r \in R THEN [owner |-> u, order |-> None]
                                                  ELSE RewardsOf[r]]
  BY <1>6 DEF RewardsOf
<1>9. Book!GrantRewards(R, u)
  BY <1>5, <1>7, <1>8 DEF Book!GrantRewards
<1> QED BY <1>0, <1>4, <1>9 DEF Book!Next

LEMMA SaveExpiredExpires ==
  ASSUME TypeOK, NEW p \in Procs, ExpireInv(p), SaveExpired(p)
  PROVE  Book!Next
<1> DEFINE C == mem[p].lapsed
<1>1. C \in SUBSET CouponIds /\ pc[p] = "expire"
  BY DEF TypeOK, Mem, SaveExpired
<1>2. \A c \in C : coupons[c].status = "active"
  BY <1>1 DEF SaveExpired, ExpireInv
<1>3. BookOf' = BookOf /\ RewardsOf' = RewardsOf /\ spent' = spent
  BY DEF SaveExpired, BookOf, RewardsOf
<1>4. \A c \in CouponIds : IF c \in C
        THEN /\ coupons'[c].owner = coupons[c].owner
             /\ coupons'[c].order = coupons[c].order
             /\ coupons'[c].status = "expired"
        ELSE coupons'[c] = coupons[c]
  <2>1. coupons' = ExpireCoupons(C)
    BY DEF SaveExpired
  <2> HIDE DEF C
  <2> QED BY <2>1 DEF ExpireCoupons, TypeOK, Coupon
<1> HIDE DEF C
<1>5. CouponsOf' = [c \in CouponIds |->
        IF c \in C THEN [CouponsOf[c] EXCEPT !.status = "expired"] ELSE CouponsOf[c]]
  BY <1>4 DEF CouponsOf
<1>6. \A c \in C : CouponsOf[c].status = "active"
  BY <1>1, <1>2 DEF CouponsOf
<1>7. Book!ExpireCoupons(C)
  BY <1>3, <1>5, <1>6 DEF Book!ExpireCoupons
<1> QED BY <1>1, <1>7 DEF Book!Next

(***************************************************************************)
(* The refinement.                                                         *)
(***************************************************************************)
(* What the handlers rely on, and what a checkout has judged.              *)
RefinementInv == Inv /\ BenefitInv /\ OwnersInv

(* The tables start as a book with no orders.                              *)
LEMMA InitImplements == Init => Book!Init
<1> SUFFICES ASSUME Init PROVE Book!Init
  OBVIOUS
<1>1. BookOf = [o \in OrderIds |-> Book!Absent]
  BY DEF Init, BookOf, Unread, NoOrder, Book!Absent
<1>2. spent = [u \in Users |-> [o \in OrderIds |-> 0]]
  BY DEF Init, NoBalance
<1>3. \A c \in CouponIds : coupons[c] \in Coupon
  BY InitialAssumption DEF Init
<1>4. \A r \in RewardIds : rewards[r] \in Reward
  BY InitialAssumption DEF Init
<1>5. CouponsOf \in [CouponIds -> {e \in Book!CouponEntry :
                                     e.status \in {"none", "active"} /\ e.order = None}]
  <2> SUFFICES ASSUME NEW c \in CouponIds
               PROVE  [owner |-> coupons[c].owner, order |-> coupons[c].order,
                       status |-> coupons[c].status]
                        \in {e \in Book!CouponEntry :
                               e.status \in {"none", "active"} /\ e.order = None}
    BY DEF CouponsOf
  <2>1. coupons[c].status \in {"none", "active"} /\ coupons[c].order = None
    BY InitialAssumption DEF Init
  <2>2. coupons[c].owner \in Users \cup {None}
    BY <1>3 DEF Coupon
  <2> QED BY <2>1, <2>2 DEF Book!CouponEntry
<1>6. RewardsOf \in [RewardIds -> {e \in Book!RewardEntry : e.order = None}]
  <2> SUFFICES ASSUME NEW r \in RewardIds
               PROVE  [owner |-> rewards[r].owner, order |-> rewards[r].order]
                        \in {e \in Book!RewardEntry : e.order = None}
    BY DEF RewardsOf
  <2>1. rewards[r].order = None
    BY InitialAssumption DEF Init
  <2>2. rewards[r].owner \in Users \cup {None}
    BY <1>4 DEF Reward
  <2> QED BY <2>1, <2>2 DEF Book!RewardEntry
<1> QED BY <1>1, <1>2, <1>5, <1>6 DEF Book!Init

LEMMA NextImplements ==
  RefinementInv /\ [Next]_vars => Book!Next \/ UNCHANGED Book!vars
<1> SUFFICES ASSUME RefinementInv, [Next]_vars
             PROVE  Book!Next \/ UNCHANGED Book!vars
  OBVIOUS
<1>0. /\ Inv /\ TypeOK /\ RewardsOwned
      /\ \A p \in Procs : HandlerInv(p) /\ BenefitsRelied(p) /\ CheckoutOwns(p)
  BY DEF RefinementInv, Inv, BenefitInv, OwnersInv
<1>1. ASSUME UNCHANGED <<orders, spent, coupons, rewards>>
      PROVE  UNCHANGED Book!vars
  BY <1>1 DEF Book!vars, BookOf, CouponsOf, RewardsOf
<1>2. ASSUME NEW p \in Procs, Start(p) \/ Step(p) \/ Fail(p) \/ Crash(p)
      PROVE  Book!Next \/ UNCHANGED Book!vars
  <2>1. CASE Writes(p)
    BY <1>0, <2>1, SaveOrderPlaces, SaveStatusMoves, SaveWhatsappConfirms, SaveLinkLinks
       DEF Writes
  <2>2. CASE InsertCoupon(p)
    <3>1. PICK d \in FreeCoupons :
            coupons' = [coupons EXCEPT ![d] =
                          NewCoupon(mem[p].user, "auto", mem[p].cut, mem[p].basis)]
      BY <2>2 DEF InsertCoupon
    <3>2. mem[p].user \in Users /\ UNCHANGED <<orders, spent, rewards>>
      BY <1>0, <2>2 DEF InsertCoupon, HandlerInv, SubjectKnown, TaskPcs
    <3> QED BY <1>0, <3>1, <3>2, GrantIsGrant
  <2>3. CASE InsertRewards(p)
    BY <1>0, <2>3, InsertRewardsGrants
  <2>4. CASE SaveExpired(p)
    BY <1>0, <2>4, SaveExpiredExpires DEF BenefitsRelied
  <2>5. CASE UNCHANGED <<orders, coupons, rewards>> /\ ~Writes(p)
    <3>1. spent' = spent
      BY <1>2, <2>5, StartReadsOnly, StepWritesOrReads DEF ReadsOnly
    <3> QED BY <1>1, <2>5, <3>1
  <2> QED BY <1>2, <2>1, <2>2, <2>3, <2>4, <2>5, StepKinds DEF Writes
<1>3. CASE GenerateManual
  <2>1. PICK u \in Users, d \in FreeCoupons :
          coupons' = [coupons EXCEPT ![d] = NewCoupon(u, "manual", issued, {})]
    BY <1>3 DEF GenerateManual
  <2>2. UNCHANGED <<orders, spent, rewards>>
    BY <1>3 DEF GenerateManual
  <2> QED BY <1>0, <2>1, <2>2, GrantIsGrant
<1>4. CASE CouponLapses
  <2>1. \A c \in CouponIds : /\ coupons'[c].owner = coupons[c].owner
                             /\ coupons'[c].order = coupons[c].order
                             /\ coupons'[c].status = coupons[c].status
    BY <1>0, <1>4 DEF CouponLapses, TypeOK, Coupon
  <2>2. CouponsOf' = CouponsOf
    BY <2>1 DEF CouponsOf
  <2>3. UNCHANGED <<orders, spent, rewards>>
    BY <1>4 DEF CouponLapses
  <2> QED BY <2>2, <2>3 DEF Book!vars, BookOf, RewardsOf
<1>5. CASE ChangePhone \/ MonthEnds \/ UNCHANGED vars
  BY <1>1, <1>5 DEF ChangePhone, MonthEnds, vars, tables, loyalty
<1> QED BY <1>2, <1>3, <1>4, <1>5 DEF Next, Environment

LEMMA RefinementHolds == Spec => []RefinementInv
<1>1. Init => RefinementInv
  BY InvInit, BenefitInit, OwnersInit DEF RefinementInv
<1>2. RefinementInv /\ [Next]_vars => RefinementInv'
  BY InvNext, BenefitNext, OwnersNext DEF RefinementInv
<1> QED BY <1>1, <1>2, PTL DEF Spec

(* Checkouts, status changes, confirmations, links, loyalty tasks and the  *)
(* daily expiry, interleaved at every statement, behave as if each ran     *)
(* alone at its COMMIT: the handlers implement the order book.             *)
THEOREM OrdersImplementBook == Spec => ImplementsBook
<1>1. RefinementInv /\ [Next]_vars =>
        [UNCHANGED Book!vars \/ Book!Next]_(Book!vars)
  BY NextImplements
<1> QED BY <1>1, InitImplements, RefinementHolds, PTL DEF Spec, ImplementsBook

(* The same of the book's own specification, so that what OrderBook_proofs *)
(* proves of the book holds of the tables.                                 *)
COROLLARY OrdersImplementBookSpec == Spec => Book!Spec
<1>1. RefinementInv /\ [Next]_vars => [Book!Next]_(Book!vars)
  BY NextImplements
<1> QED BY <1>1, InitImplements, RefinementHolds, PTL DEF Spec, Book!Spec

=============================================================================
