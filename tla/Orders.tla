------------------------------- MODULE Orders -------------------------------
(***************************************************************************)
(* orders.service.ts with the parts of coupons.service.ts and              *)
(* rewards.service.ts it calls: request handlers that interleave at every  *)
(* statement of their transactions.                                        *)
(*                                                                         *)
(* A handler p is somewhere in its code (pc[p]) with its local values      *)
(* (mem[p]).  It locks and reads rows one at a time and writes in a last   *)
(* step, which is its COMMIT.  What it writes comes from what it read.     *)
(* After the commit of a delivery or a link it runs its loyalty tasks, each*)
(* a transaction of its own and each best effort.                          *)
(***************************************************************************)
EXTENDS Coupons, Rewards

CONSTANTS
  Phones,            \* normalized customer phones
  InitialPhone,      \* user -> phone (or None) at the start
  Carts,             \* what checkouts ask for
  Requests,          \* bound: the kinds of requests that arrive
  CouponThreshold,   \* auto-coupon threshold, in orders
  SolesPorEstrella   \* one star, in orders

VARIABLES
  orders,    \* the orders table
  spent,     \* users.totalSpent: how often each order's total was added
  phone,     \* users.phone, normalized
  issued,    \* order ids drawn so far (randomUUID never repeats one)
  outbox,    \* dedupe keys <<operation, order>> in order_events
  pc, mem    \* handlers: position and local values

locals == <<pc, mem>>
loyalty == <<coupons, rewards>>
tables == <<orders, spent, phone, issued, outbox, loyalty, month>>
vars == <<tables, holder, locals>>

OrderStatus == {"pendiente", "confirmado", "en_camino", "entregado", "cancelado"}

VALID_TRANSITIONS ==
  [pendiente  |-> {"confirmado", "cancelado"},
   confirmado |-> {"en_camino", "cancelado"},
   en_camino  |-> {"entregado", "cancelado"},
   entregado  |-> {},
   cancelado  |-> {}]

(* An order row.  coupon and rewards are what its total and its free items *)
(* were granted for; totals themselves are not distinguished.              *)
Order == [status         : OrderStatus \cup {"none"},
          userId         : Users \cup {None},
          customerPhone  : Phones \cup {None},
          whatsappSentAt : Procs \cup {None},
          deliveredIn    : 0..MaxMonth,
          coupon         : CouponIds \cup {None},
          rewards        : SUBSET RewardIds]

NoOrder == [status |-> "none", userId |-> None, customerPhone |-> None,
            whatsappSentAt |-> None, deliveredIn |-> 0, coupon |-> None,
            rewards |-> {}]

Cart == [userId : Users \cup {None}, customerPhone : Phones \cup {None},
         coupon : CouponIds \cup {None}, rewards : SUBSET RewardIds]

NoCart == [userId |-> None, customerPhone |-> None, coupon |-> None,
           rewards |-> {}]

ASSUME OrdersAssumption ==
  /\ Carts \subseteq Cart
  /\ InitialPhone \in [Users -> Phones \cup {None}]
  /\ CouponThreshold \in Nat \ {0}
  /\ SolesPorEstrella \in Nat \ {0}
  /\ None \notin Procs \cup Users \cup OrderIds \cup CouponIds \cup RewardIds
                   \cup Phones
  /\ IsFiniteSet(OrderIds)

(* What earlier requests left behind: benefits nobody has used yet.        *)
ASSUME InitialAssumption ==
  /\ InitialCoupons \in [CouponIds -> Coupon]
  /\ InitialRewards \in [RewardIds -> Reward]
  /\ \A c \in CouponIds : /\ InitialCoupons[c].status \in {"none", "active"}
                          /\ InitialCoupons[c].order = None
                          /\ InitialCoupons[c].cut = {}
                          /\ InitialCoupons[c].paid = {}
  /\ \A r \in RewardIds : /\ InitialRewards[r].order = None
                          /\ InitialRewards[r].earned <= 1
  /\ \A r, s \in RewardIds :
       /\ InitialRewards[r].owner # None
       /\ InitialRewards[r].owner = InitialRewards[s].owner
       /\ InitialRewards[r].earned = InitialRewards[s].earned
       /\ InitialRewards[r].milestone = InitialRewards[s].milestone
       => r = s

Exists(o)    == orders[o].status \in OrderStatus
Live(o)      == orders[o].status \in OrderStatus \ {"cancelado"}
Delivered(o) == orders[o].status = "entregado"

(***************************************************************************)
(* Handlers.                                                               *)
(***************************************************************************)
PlacePcs  == {"place_coupon", "place_rewards", "place_save"}
StatusPcs == {"status_order", "cancel_coupon", "cancel_rewards",
              "deliver_user", "status_save"}
LinkPcs   == {"link_select", "link_orders", "link_save"}
TaskPcs   == {"gen_user", "gen_check", "gen_sum", "gen_insert",
              "stars_user", "stars_read", "stars_insert"}
Pcs == {"idle", "whatsapp_order", "whatsapp_save", "expire", "after"}
         \cup PlacePcs \cup StatusPcs \cup LinkPcs \cup TaskPcs

Task == {"coupon", "stars"} \X Users

Mem == [cart    : Cart,                      \* CreateOrderDto
        order   : OrderIds \cup {None},      \* the order a request is about
        to      : OrderStatus,               \* UpdateOrderStatusDto.status
        reason  : BOOLEAN,                   \* a non-blank cancelReason came
        user    : Users \cup {None},         \* the customer a task is about
        ids     : SUBSET OrderIds,           \* LinkAnonymousOrdersDto.orderIds
        phone   : Phones \cup {None},        \* phone read before the link
        todo    : SUBSET OrderIds,           \* rows a link has still to lock
        lapsed  : SUBSET CouponIds,          \* rows the cron's UPDATE targets
        seen    : [OrderIds -> Order],       \* order rows as read when locked
        balance : [OrderIds -> Nat],         \* lockedUser.totalSpent as read
        cut     : SUBSET OrderIds,           \* now() of a generation
        basis   : SUBSET OrderIds,           \* orders its SUM added up
        grants  : SUBSET Milestones,         \* milestones to grant
        backing : 0..MaxMonth,               \* month their stars were counted
        due     : SUBSET Task]               \* loyalty tasks still to run

Unread == [o \in OrderIds |-> NoOrder]
NoBalance == [o \in OrderIds |-> 0]

Blank == [cart |-> NoCart, order |-> None, to |-> "pendiente",
          reason |-> FALSE, user |-> None, ids |-> {}, phone |-> None,
          todo |-> {}, lapsed |-> {}, seen |-> Unread, balance |-> NoBalance,
          cut |-> {}, basis |-> {}, grants |-> {}, backing |-> 0, due |-> {}]

Init ==
  /\ orders = Unread
  /\ spent = [u \in Users |-> NoBalance]
  /\ phone = InitialPhone
  /\ issued = {}
  /\ outbox = {}
  /\ coupons = InitialCoupons
  /\ rewards = InitialRewards
  /\ month = 1
  /\ LocksInit
  /\ pc = [p \in Procs |-> "idle"]
  /\ mem = [p \in Procs |-> Blank]

Goto(p, label) == pc' = [pc EXCEPT ![p] = label]

(* A request of the given kind reaches handler p.                          *)
Arrives(p, kind) == kind \in Requests /\ pc[p] = "idle"

(* The transaction ends (COMMIT or ROLLBACK) and p goes on with tasks.     *)
Finish(p, tasks) ==
  /\ Unlock(p)
  /\ Goto(p, IF tasks = {} THEN "idle" ELSE "after")
  /\ mem' = [mem EXCEPT ![p] = [Blank EXCEPT !.due = tasks]]

(* An exception inside the transaction.                                    *)
Reject(p) ==
  /\ Finish(p, {})
  /\ UNCHANGED tables

(* Mutant: a dedupe key without the new status.                            *)
RecordWithoutStatus(operation, ids) ==
  outbox' = outbox \cup
    ({IF operation \in OrderStatus THEN "pendiente" ELSE operation} \X ids)

(* orderEvents.record: INSERT ... ON CONFLICT (dedupeKey) DO NOTHING.      *)
Record(operation, ids) == outbox' = outbox \cup ({operation} \X ids)

(***************************************************************************)
(* placeOrder.                                                             *)
(***************************************************************************)
PlaceLabel(cart) == IF cart.coupon # None THEN "place_coupon"
                    ELSE IF cart.rewards # {} THEN "place_rewards"
                    ELSE "place_save"

(* The checks before the transaction, then the order's id.                 *)
StartPlace(p) ==
  /\ Arrives(p, "place")
  /\ \E cart \in Carts, o \in OrderIds \ issued :
       /\ cart.userId = None => cart.coupon = None /\ cart.rewards = {}
       /\ issued' = issued \cup {o}
       /\ Goto(p, PlaceLabel(cart))
       /\ mem' = [mem EXCEPT ![p] = [Blank EXCEPT !.cart = cart, !.order = o]]
  /\ UNCHANGED <<orders, spent, phone, outbox, loyalty, month, holder>>

(* Mutant: the coupon is read without FOR UPDATE.                          *)
ApplyToOrderUnlocked(p) ==
  LET cart == mem[p].cart IN
  /\ pc[p] = "place_coupon"
  /\ AssertUsable(cart.coupon, cart.userId)
  /\ Goto(p, IF cart.rewards # {} THEN "place_rewards" ELSE "place_save")
  /\ UNCHANGED <<tables, holder, mem>>

(* couponsService.applyToOrder: lock the coupon, then judge it.            *)
ApplyToOrder(p) ==
  LET cart == mem[p].cart IN
  /\ pc[p] = "place_coupon"
  /\ Lock(p, CouponRow(cart.coupon))
  /\ AssertUsable(cart.coupon, cart.userId)
  /\ Goto(p, IF cart.rewards # {} THEN "place_rewards" ELSE "place_save")
  /\ UNCHANGED <<tables, mem>>

CouponRefused(p) ==
  /\ pc[p] = "place_coupon"
  /\ Grantable(p, CouponRow(mem[p].cart.coupon))
  /\ ~AssertUsable(mem[p].cart.coupon, mem[p].cart.userId)
  /\ Reject(p)

(* Claims of the cart not validated yet, and the next one in UUID order.   *)
ClaimsLeft(p) == {r \in mem[p].cart.rewards : ~Holds(p, RewardRow(r))}
NextClaim(p) == CHOOSE r \in ClaimsLeft(p) : \A s \in ClaimsLeft(p) : r <= s

(* Mutant: claims validated in the order of the cart, not of their UUIDs.  *)
ValidateInCartOrder(p) ==
  /\ pc[p] = "place_rewards"
  /\ \E r \in ClaimsLeft(p) :
       /\ Lock(p, RewardRow(r))
       /\ ValidReward(r, mem[p].cart.userId)
       /\ Goto(p, IF ClaimsLeft(p) = {r} THEN "place_save" ELSE "place_rewards")
  /\ UNCHANGED <<tables, mem>>

(* rewardsService.validateForOrder for the next claim.                     *)
ValidateForOrder(p) ==
  LET r == NextClaim(p) IN
  /\ pc[p] = "place_rewards"
  /\ Lock(p, RewardRow(r))
  /\ ValidReward(r, mem[p].cart.userId)
  /\ Goto(p, IF ClaimsLeft(p) = {r} THEN "place_save" ELSE "place_rewards")
  /\ UNCHANGED <<tables, mem>>

RewardRefused(p) ==
  /\ pc[p] = "place_rewards"
  /\ Grantable(p, RewardRow(NextClaim(p)))
  /\ ~ValidReward(NextClaim(p), mem[p].cart.userId)
  /\ Reject(p)

(* save(Order), markUsed for the coupon and each reward, the event, COMMIT.*)
SaveOrder(p) ==
  LET cart == mem[p].cart
      o == mem[p].order IN
  /\ pc[p] = "place_save"
  /\ cart.userId # None => Shareable(p, UserRow(cart.userId))
  /\ orders' = [orders EXCEPT ![o] =
       [NoOrder EXCEPT !.status = "pendiente", !.userId = cart.userId,
                       !.customerPhone = cart.customerPhone,
                       !.coupon = cart.coupon, !.rewards = cart.rewards]]
  /\ coupons' = IF cart.coupon = None THEN coupons
                ELSE MarkCouponUsed(coupons, cart.coupon, o)
  /\ rewards' = MarkRewardsUsed(cart.rewards, o)
  /\ Record("created", {o})
  /\ Finish(p, {})
  /\ UNCHANGED <<spent, phone, issued, month>>

(***************************************************************************)
(* updateStatus.                                                           *)
(***************************************************************************)
StartStatus(p) ==
  /\ Arrives(p, "status")
  /\ \E o \in OrderIds, to \in OrderStatus, reason \in BOOLEAN :
       mem' = [mem EXCEPT ![p] = [Blank EXCEPT !.order = o, !.to = to,
                                               !.reason = reason]]
  /\ Goto(p, "status_order")
  /\ UNCHANGED <<tables, holder>>

(* The transition table, and the reason a cancellation on the way needs.   *)
TransitionAllowed(o, to, reason) ==
  /\ Exists(o)
  /\ to \in VALID_TRANSITIONS[orders[o].status]
  /\ to = "cancelado" /\ orders[o].status = "en_camino" => reason

StatusLabel(to, userId) ==
  IF to = "cancelado" THEN "cancel_coupon"
  ELSE IF to = "entregado" /\ userId # None THEN "deliver_user"
  ELSE "status_save"

LockOrderForStatus(p) ==
  LET o == mem[p].order IN
  /\ pc[p] = "status_order"
  /\ Lock(p, OrderRow(o))
  /\ TransitionAllowed(o, mem[p].to, mem[p].reason)
  /\ mem' = [mem EXCEPT ![p].seen[o] = orders[o]]
  /\ Goto(p, StatusLabel(mem[p].to, orders[o].userId))
  /\ UNCHANGED tables

StatusRefused(p) ==
  /\ pc[p] = "status_order"
  /\ Exists(mem[p].order) => Grantable(p, OrderRow(mem[p].order))
  /\ ~TransitionAllowed(mem[p].order, mem[p].to, mem[p].reason)
  /\ Reject(p)

(* couponsService.reactivateForCancelledOrder: find and lock the coupon    *)
(* used in the order, if there is one.                                     *)
LockCouponOfCancelled(p) ==
  /\ pc[p] = "cancel_coupon"
  /\ \/ /\ CouponsUsedIn(mem[p].order) = {}
        /\ UNCHANGED holder
     \/ \E c \in CouponsUsedIn(mem[p].order) : Lock(p, CouponRow(c))
  /\ Goto(p, "cancel_rewards")
  /\ UNCHANGED <<tables, mem>>

(* rewardsService.reactivateForCancelledOrder: lock its rewards, ORDER BY  *)
(* id.                                                                     *)
RewardsToLock(p) == {r \in RewardsUsedIn(mem[p].order) : ~Holds(p, RewardRow(r))}

LockRewardOfCancelled(p) ==
  /\ pc[p] = "cancel_rewards"
  /\ \E r \in RewardsToLock(p) :
       /\ \A s \in RewardsToLock(p) : r <= s
       /\ Lock(p, RewardRow(r))
  /\ UNCHANGED <<tables, pc, mem>>

RewardsLocked(p) ==
  /\ pc[p] = "cancel_rewards"
  /\ RewardsToLock(p) = {}
  /\ Goto(p, "status_save")
  /\ UNCHANGED <<tables, holder, mem>>

LockUserOfDelivered(p) ==
  /\ pc[p] = "deliver_user"
  /\ Lock(p, UserRow(mem[p].seen[mem[p].order].userId))
  /\ Goto(p, "status_save")
  /\ UNCHANGED <<tables, mem>>

(* manager.increment adds the total to the value in the row.               *)
AddToSpent(u, o) == [spent EXCEPT ![u][o] = @ + 1]

LoyaltyOf(u) == {"coupon", "stars"} \X {u}

SaveStatus(p) ==
  LET o == mem[p].order
      to == mem[p].to
      u == mem[p].seen[o].userId
      credited == to = "entregado" /\ u # None IN
  /\ pc[p] = "status_save"
  /\ orders' = [orders EXCEPT ![o].status = to,
       ![o].deliveredIn = IF to = "entregado" THEN month ELSE @]
  /\ coupons' = IF to = "cancelado" THEN ReactivateCouponsOf(o) ELSE coupons
  /\ rewards' = IF to = "cancelado" THEN ReactivateRewardsOf(o) ELSE rewards
  /\ spent' = IF credited THEN AddToSpent(u, o) ELSE spent
  /\ Record(to, {o})
  /\ Finish(p, IF credited THEN LoyaltyOf(u) ELSE {})
  /\ UNCHANGED <<phone, issued, month>>

(***************************************************************************)
(* markWhatsappSent.                                                       *)
(***************************************************************************)
StartWhatsapp(p) ==
  /\ Arrives(p, "whatsapp")
  /\ \E o \in OrderIds : mem' = [mem EXCEPT ![p] = [Blank EXCEPT !.order = o]]
  /\ Goto(p, "whatsapp_order")
  /\ UNCHANGED <<tables, holder>>

Confirmable(o) ==
  /\ Exists(o)
  /\ orders[o].status # "cancelado"
  /\ orders[o].whatsappSentAt = None

(* Mutant: the order is read without FOR UPDATE.                           *)
ReadOrderForWhatsapp(p) ==
  /\ pc[p] = "whatsapp_order"
  /\ Confirmable(mem[p].order)
  /\ Goto(p, "whatsapp_save")
  /\ UNCHANGED <<tables, holder, mem>>

LockOrderForWhatsapp(p) ==
  /\ pc[p] = "whatsapp_order"
  /\ Lock(p, OrderRow(mem[p].order))
  /\ Confirmable(mem[p].order)
  /\ Goto(p, "whatsapp_save")
  /\ UNCHANGED <<tables, mem>>

(* 404, 409, or the first confirmation returned as it is.                  *)
WhatsappUnchanged(p) ==
  /\ pc[p] = "whatsapp_order"
  /\ Exists(mem[p].order) => Grantable(p, OrderRow(mem[p].order))
  /\ ~Confirmable(mem[p].order)
  /\ Reject(p)

SaveWhatsapp(p) ==
  /\ pc[p] = "whatsapp_save"
  /\ orders' = [orders EXCEPT ![mem[p].order].whatsappSentAt = p]
  /\ Record("whatsapp", {mem[p].order})
  /\ Finish(p, {})
  /\ UNCHANGED <<spent, phone, issued, loyalty, month>>

(***************************************************************************)
(* linkAnonymousOrders.                                                    *)
(***************************************************************************)
(* findCustomerForLinking, before the transaction.                         *)
StartLink(p) ==
  /\ Arrives(p, "link")
  /\ \E u \in Users, ids \in SUBSET OrderIds \ {{}} :
       /\ phone[u] # None
       /\ mem' = [mem EXCEPT ![p] = [Blank EXCEPT !.user = u, !.ids = ids,
                                                  !.phone = phone[u]]]
  /\ Goto(p, "link_select")
  /\ UNCHANGED <<tables, holder>>

(* SELECT ... WHERE id IN (ids) FOR UPDATE, without ORDER BY: the rows it  *)
(* finds, locked one at a time in any order.                               *)
SelectLinkable(p) ==
  /\ pc[p] = "link_select"
  /\ mem' = [mem EXCEPT ![p].todo = {o \in mem[p].ids : Exists(o)}]
  /\ Goto(p, "link_orders")
  /\ UNCHANGED <<tables, holder>>

(* Mutant: the orders are found without FOR UPDATE.                        *)
FindLinkable(p) ==
  /\ pc[p] = "link_orders"
  /\ \E o \in mem[p].todo :
       mem' = [mem EXCEPT ![p].todo = @ \ {o}, ![p].seen[o] = orders[o]]
  /\ UNCHANGED <<tables, holder, pc>>

LockLinkable(p) ==
  /\ pc[p] = "link_orders"
  /\ \E o \in mem[p].todo :
       /\ Lock(p, OrderRow(o))
       /\ mem' = [mem EXCEPT ![p].todo = @ \ {o}, ![p].seen[o] = orders[o]]
  /\ UNCHANGED <<tables, pc>>

(* Every id was found, is anonymous and carries the customer's phone.      *)
AllLinkable(p) ==
  \A o \in mem[p].ids :
    /\ mem[p].seen[o].status # "none"
    /\ mem[p].seen[o].userId = None
    /\ mem[p].seen[o].customerPhone = mem[p].phone

(* Mutant: instead of giving up, the link looks for its orders again.      *)
LinkRetried(p) ==
  /\ pc[p] = "link_orders"
  /\ mem[p].todo = {}
  /\ ~AllLinkable(p)
  /\ Goto(p, "link_select")
  /\ UNCHANGED <<tables, holder, mem>>

LinkRefused(p) ==
  /\ pc[p] = "link_orders"
  /\ mem[p].todo = {}
  /\ ~AllLinkable(p)
  /\ Reject(p)

(* Mutant: the user is read without FOR UPDATE.                            *)
ReadUserOfLink(p) ==
  /\ pc[p] = "link_orders"
  /\ mem[p].todo = {}
  /\ AllLinkable(p)
  /\ mem' = [mem EXCEPT ![p].balance = spent[mem[p].user]]
  /\ Goto(p, "link_save")
  /\ UNCHANGED <<tables, holder>>

LockUserOfLink(p) ==
  /\ pc[p] = "link_orders"
  /\ mem[p].todo = {}
  /\ AllLinkable(p)
  /\ Lock(p, UserRow(mem[p].user))
  /\ mem' = [mem EXCEPT ![p].balance = spent[mem[p].user]]
  /\ Goto(p, "link_save")
  /\ UNCHANGED tables

(* The delivered totals are added to the balance read, and that sum is     *)
(* written.                                                                *)
SaveLink(p) ==
  LET m == mem[p]
      delivered == {o \in m.ids : m.seen[o].status = "entregado"} IN
  /\ pc[p] = "link_save"
  /\ orders' = [o \in OrderIds |->
       IF o \in m.ids THEN [orders[o] EXCEPT !.userId = m.user] ELSE orders[o]]
  /\ spent' = IF delivered = {} THEN spent
              ELSE [spent EXCEPT ![m.user] =
                      [o \in OrderIds |->
                         m.balance[o] + (IF o \in delivered THEN 1 ELSE 0)]]
  /\ Record("linked", m.ids)
  /\ Finish(p, IF delivered = {} THEN {} ELSE LoyaltyOf(m.user))
  /\ UNCHANGED <<phone, issued, loyalty, month>>

(***************************************************************************)
(* Loyalty tasks: checkAndGenerateForUser and recalculateForUser.          *)
(***************************************************************************)
(* The next task; a customer's stars come after her coupon.  now() of its  *)
(* transaction is fixed here.                                              *)
BeginTask(p) ==
  /\ pc[p] = "after"
  /\ \E t \in mem[p].due :
       /\ t[1] = "stars" => <<"coupon", t[2]>> \notin mem[p].due
       /\ mem' = [mem EXCEPT ![p].user = t[2], ![p].due = @ \ {t},
            ![p].cut = IF t[1] = "coupon" THEN issued ELSE {}]
       /\ Goto(p, IF t[1] = "coupon" THEN "gen_user" ELSE "stars_user")
  /\ UNCHANGED <<tables, holder>>

(* A task ends without writing.                                            *)
TaskDone(p) ==
  /\ Finish(p, mem[p].due)
  /\ UNCHANGED tables

(* Mutant: generations of one customer are not serialized.                 *)
SkipUserLockOfGeneration(p) ==
  /\ pc[p] = "gen_user"
  /\ Goto(p, "gen_check")
  /\ UNCHANGED <<tables, holder, mem>>

LockUserOfGeneration(p) ==
  /\ pc[p] = "gen_user"
  /\ Lock(p, UserRow(mem[p].user))
  /\ Goto(p, "gen_check")
  /\ UNCHANGED <<tables, mem>>

(* hasActive.                                                              *)
CheckActiveCoupon(p) ==
  /\ pc[p] = "gen_check"
  /\ ~HasActiveAutoCoupon(mem[p].user)
  /\ Goto(p, "gen_sum")
  /\ UNCHANGED <<tables, holder, mem>>

ActiveCouponFound(p) ==
  /\ pc[p] = "gen_check"
  /\ HasActiveAutoCoupon(mem[p].user)
  /\ TaskDone(p)

(* lastCoupon and the SUM of the delivered orders created after it.        *)
SpentSinceLastCoupon(u) ==
  {o \in OrderIds : Delivered(o) /\ orders[o].userId = u /\ CreatedSince(u, o)}

SumSinceLastCoupon(p) ==
  /\ pc[p] = "gen_sum"
  /\ Cardinality(SpentSinceLastCoupon(mem[p].user)) >= CouponThreshold
  /\ mem' = [mem EXCEPT ![p].basis = SpentSinceLastCoupon(mem[p].user)]
  /\ Goto(p, "gen_insert")
  /\ UNCHANGED <<tables, holder>>

BelowThreshold(p) ==
  /\ pc[p] = "gen_sum"
  /\ Cardinality(SpentSinceLastCoupon(mem[p].user)) < CouponThreshold
  /\ TaskDone(p)

(* INSERT of the coupon and COMMIT.  Bound: a free row is left.            *)
InsertCoupon(p) ==
  /\ pc[p] = "gen_insert"
  /\ \E c \in FreeCoupons :
       coupons' = [coupons EXCEPT ![c] =
                     NewCoupon(mem[p].user, "auto", mem[p].cut, mem[p].basis)]
  /\ Finish(p, mem[p].due)
  /\ UNCHANGED <<orders, spent, phone, issued, outbox, rewards, month>>

(* Mutant: recalculations of one customer are not serialized.              *)
SkipUserLockOfStars(p) ==
  /\ pc[p] = "stars_user"
  /\ Goto(p, "stars_read")
  /\ UNCHANGED <<tables, holder, mem>>

LockUserOfStars(p) ==
  /\ pc[p] = "stars_user"
  /\ Lock(p, UserRow(mem[p].user))
  /\ Goto(p, "stars_read")
  /\ UNCHANGED <<tables, mem>>

(* monthlyStats: the stars of the orders delivered in month m.             *)
EstrellasDelMes(u, m) ==
  Cardinality({o \in OrderIds : /\ Delivered(o)
                                /\ orders[o].userId = u
                                /\ orders[o].deliveredIn = m})
    \div SolesPorEstrella

(* Milestones reached in month m and not granted in it.                    *)
ToGrant(u, m) ==
  {s \in Milestones : s <= EstrellasDelMes(u, m)} \ GrantedIn(u, m)

ReadStars(p) ==
  /\ pc[p] = "stars_read"
  /\ ToGrant(mem[p].user, month) # {}
  /\ mem' = [mem EXCEPT ![p].grants = ToGrant(mem[p].user, month),
                        ![p].backing = month]
  /\ Goto(p, "stars_insert")
  /\ UNCHANGED <<tables, holder>>

(* Mutant: the recalculation is queued again until it grants something.    *)
NothingToGrantYet(p) ==
  /\ pc[p] = "stars_read"
  /\ ToGrant(mem[p].user, month) = {}
  /\ Finish(p, mem[p].due \cup {<<"stars", mem[p].user>>})
  /\ UNCHANGED tables

NothingToGrant(p) ==
  /\ pc[p] = "stars_read"
  /\ ToGrant(mem[p].user, month) = {}
  /\ TaskDone(p)

(* INSERT of the rewards, with a new reading of the clock, and COMMIT.     *)
(* Bound: enough free rows are left.                                       *)
InsertRewards(p) ==
  /\ pc[p] = "stars_insert"
  /\ \E slot \in [mem[p].grants -> FreeRewards] :
       /\ \A s, t \in mem[p].grants : slot[s] = slot[t] => s = t
       /\ rewards' = GrantRewards(mem[p].user, slot, mem[p].backing)
  /\ Finish(p, mem[p].due)
  /\ UNCHANGED <<orders, spent, phone, issued, outbox, coupons, month>>

(* getProgress recalculates first; the rest of it only reads.              *)
StartProgress(p) ==
  /\ Arrives(p, "progress")
  /\ \E u \in Users : mem' = [mem EXCEPT ![p] =
                                [Blank EXCEPT !.due = {<<"stars", u>>}]]
  /\ Goto(p, "after")
  /\ UNCHANGED <<tables, holder>>

(***************************************************************************)
(* handleDailyMaintenance.                                                 *)
(***************************************************************************)
StartMaintenance(p) ==
  /\ Arrives(p, "maintenance")
  /\ mem' = [mem EXCEPT ![p] =
       [Blank EXCEPT !.lapsed = LapsedCoupons, !.due = {"coupon"} \X Users]]
  /\ Goto(p, "expire")
  /\ UNCHANGED <<tables, holder>>

(* Mutant: the rows to expire are chosen first and updated by id later.    *)
LockLapsedUnchecked(p) ==
  /\ pc[p] = "expire"
  /\ \E c \in mem[p].lapsed :
       /\ ~Holds(p, CouponRow(c))
       /\ Lock(p, CouponRow(c))
  /\ UNCHANGED <<tables, pc, mem>>

(* The UPDATE locks its rows one at a time and drops a row that no longer  *)
(* matches once its lock is granted.                                       *)
LockLapsed(p) ==
  /\ pc[p] = "expire"
  /\ \E c \in mem[p].lapsed :
       /\ ~Holds(p, CouponRow(c))
       /\ Grantable(p, CouponRow(c))
       /\ \/ /\ c \in LapsedCoupons
             /\ Lock(p, CouponRow(c))
             /\ UNCHANGED mem
          \/ /\ c \notin LapsedCoupons
             /\ mem' = [mem EXCEPT ![p].lapsed = @ \ {c}]
             /\ UNCHANGED holder
  /\ UNCHANGED <<tables, pc>>

SaveExpired(p) ==
  /\ pc[p] = "expire"
  /\ \A c \in mem[p].lapsed : Holds(p, CouponRow(c))
  /\ coupons' = ExpireCoupons(mem[p].lapsed)
  /\ Finish(p, mem[p].due)
  /\ UNCHANGED <<orders, spent, phone, issued, outbox, rewards, month>>

(***************************************************************************)
(* Single-statement writes, the clock, and failures.                       *)
(***************************************************************************)
(* generateManual: one INSERT, whose foreign key shares the user's row.    *)
GenerateManual ==
  /\ "grant" \in Requests
  /\ \E u \in Users, c \in FreeCoupons :
       /\ holder[UserRow(u)] = None
       /\ coupons' = [coupons EXCEPT ![c] = NewCoupon(u, "manual", issued, {})]
  /\ UNCHANGED <<orders, spent, phone, issued, outbox, rewards, month, holder,
                 locals>>

(* updateProfile: one UPDATE of the user's row.                            *)
ChangePhone ==
  /\ "profile" \in Requests
  /\ \E u \in Users, ph \in Phones \cup {None} :
       /\ holder[UserRow(u)] = None
       /\ phone' = [phone EXCEPT ![u] = ph]
  /\ UNCHANGED <<orders, spent, issued, outbox, loyalty, month, holder, locals>>

(* A coupon's expiresAt goes by.                                           *)
CouponLapses ==
  /\ "lapse" \in Requests
  /\ \E c \in CouponIds :
       /\ coupons[c].status # "none"
       /\ ~coupons[c].past
       /\ coupons' = [coupons EXCEPT ![c].past = TRUE]
  /\ UNCHANGED <<orders, spent, phone, issued, outbox, rewards, month, holder,
                 locals>>

(* The month ends in Lima.  Bound: MaxMonth.                               *)
MonthEnds ==
  /\ month < MaxMonth
  /\ month' = month + 1
  /\ UNCHANGED <<orders, spent, phone, issued, outbox, loyalty, holder, locals>>

(* A statement fails: the numeric overflow and catalogue checks, a lost    *)
(* connection, or PostgreSQL choosing p as the victim of a deadlock.  The  *)
(* transaction rolls back; a failed task is logged and the next one runs.  *)
Fail(p) ==
  /\ pc[p] \notin {"idle", "after"}
  /\ Finish(p, IF pc[p] \in TaskPcs THEN mem[p].due ELSE {})
  /\ UNCHANGED tables

(* The process dies during its tasks: they are lost with it.               *)
Crash(p) ==
  /\ pc[p] \in TaskPcs \cup {"after"}
  /\ Reject(p)

(***************************************************************************)
(* Behaviours.                                                             *)
(***************************************************************************)
PlaceStep(p) ==
  \/ ApplyToOrder(p) \/ CouponRefused(p)
  \/ ValidateForOrder(p) \/ RewardRefused(p)
  \/ SaveOrder(p)

StatusStep(p) ==
  \/ LockOrderForStatus(p) \/ StatusRefused(p)
  \/ LockCouponOfCancelled(p) \/ LockRewardOfCancelled(p) \/ RewardsLocked(p)
  \/ LockUserOfDelivered(p)
  \/ SaveStatus(p)

WhatsappStep(p) ==
  LockOrderForWhatsapp(p) \/ WhatsappUnchanged(p) \/ SaveWhatsapp(p)

LinkStep(p) ==
  \/ SelectLinkable(p) \/ LockLinkable(p) \/ LinkRefused(p)
  \/ LockUserOfLink(p) \/ SaveLink(p)

TaskStep(p) ==
  \/ BeginTask(p)
  \/ LockUserOfGeneration(p) \/ CheckActiveCoupon(p) \/ ActiveCouponFound(p)
  \/ SumSinceLastCoupon(p) \/ BelowThreshold(p) \/ InsertCoupon(p)
  \/ LockUserOfStars(p) \/ ReadStars(p) \/ NothingToGrant(p) \/ InsertRewards(p)

MaintenanceStep(p) == LockLapsed(p) \/ SaveExpired(p)

(* p's code goes on.                                                       *)
Step(p) ==
  \/ PlaceStep(p) \/ StatusStep(p) \/ WhatsappStep(p) \/ LinkStep(p)
  \/ TaskStep(p) \/ MaintenanceStep(p)

Start(p) ==
  \/ StartPlace(p) \/ StartStatus(p) \/ StartWhatsapp(p) \/ StartLink(p)
  \/ StartProgress(p) \/ StartMaintenance(p)

Environment == GenerateManual \/ ChangePhone \/ CouponLapses \/ MonthEnds

Next ==
  \/ \E p \in Procs : Start(p) \/ Step(p) \/ Fail(p) \/ Crash(p)
  \/ Environment

Spec == Init /\ [][Next]_vars

(***************************************************************************)
(* Waiting.                                                                *)
(***************************************************************************)
(* The rows p asks for next.                                               *)
Wants(p) ==
  CASE pc[p] = "place_coupon"   -> {CouponRow(mem[p].cart.coupon)}
    [] pc[p] = "place_rewards"  -> {RewardRow(NextClaim(p))}
    [] pc[p] = "place_save" /\ mem[p].cart.userId # None
                                -> {UserRow(mem[p].cart.userId)}
    [] pc[p] \in {"status_order", "whatsapp_order"}
                                -> {OrderRow(mem[p].order)}
    [] pc[p] = "cancel_coupon"  -> {CouponRow(c) : c \in CouponsUsedIn(mem[p].order)}
    [] pc[p] = "cancel_rewards" -> {RewardRow(r) : r \in RewardsToLock(p)}
    [] pc[p] = "deliver_user"   -> {UserRow(mem[p].seen[mem[p].order].userId)}
    [] pc[p] = "link_orders"    -> IF mem[p].todo = {} THEN {UserRow(mem[p].user)}
                                   ELSE {OrderRow(o) : o \in mem[p].todo}
    [] pc[p] \in {"gen_user", "stars_user"} -> {UserRow(mem[p].user)}
    [] pc[p] = "expire"         -> {CouponRow(c) : c \in mem[p].lapsed}
    [] OTHER -> {}

(* p waits for a row that q has locked.                                    *)
WaitsFor(p, q) == p # q /\ \E row \in Wants(p) : Holds(q, row)

(* The handlers of S wait for each other in a circle.                      *)
Circle(S) ==
  /\ S # {}
  /\ \A p \in S : /\ \E q \in S : WaitsFor(p, q)
                  /\ \E q \in S : WaitsFor(q, p)

(* PostgreSQL finds the circle and rolls one transaction of it back.       *)
DeadlockVictim(p) ==
  /\ \E S \in SUBSET Procs : p \in S /\ Circle(S)
  /\ Fail(p)

(* A handler whose code can go on does: Node runs every ready continuation *)
(* and PostgreSQL grants a row lock in the order it was asked for, hence   *)
(* strong fairness.  Failures are never owed, except to break a circle.    *)
LiveSpec ==
  /\ Spec
  /\ \A p \in Procs : SF_vars(Step(p)) /\ WF_vars(DeadlockVictim(p))

(***************************************************************************)
(* Properties.                                                             *)
(***************************************************************************)
TypeOK ==
  /\ orders \in [OrderIds -> Order]
  /\ spent \in [Users -> [OrderIds -> Nat]]
  /\ phone \in [Users -> Phones \cup {None}]
  /\ issued \subseteq OrderIds
  /\ outbox \subseteq ({"created", "whatsapp", "linked"} \cup OrderStatus) \X OrderIds
  /\ coupons \in [CouponIds -> Coupon]
  /\ rewards \in [RewardIds -> Reward]
  /\ month \in Months
  /\ holder \in [Rows -> Procs \cup {None}]
  /\ pc \in [Procs -> Pcs]
  /\ mem \in [Procs -> Mem]

(* totalSpent of a customer holds the total of each of her delivered       *)
(* orders exactly once and nothing else, however deliveries, duplicate     *)
(* PATCHes, links of delivered and of undelivered orders and failures      *)
(* interleave (updateStatus increments it, linkAnonymousOrders writes a    *)
(* sum computed in memory).                                                *)
SpentIsDelivered ==
  \A u \in Users, o \in OrderIds :
    spent[u][o] = IF Delivered(o) /\ orders[o].userId = u THEN 1 ELSE 0

(* A coupon or a reward is marked used in an order exactly when that order *)
(* stands (is not cancelled) and was granted it: no benefit pays for two   *)
(* standing orders, none is lost with a cancelled order, and none is free  *)
(* while an order keeps its discount (applyToOrder / markUsed /            *)
(* reactivateForCancelledOrder of both services).                          *)
BenefitPaysOnce ==
  \A o \in OrderIds :
    /\ \A c \in CouponIds :
         /\ coupons[c].order = o <=> Live(o) /\ orders[o].coupon = c
         /\ coupons[c].order = o => coupons[c].status = "used"
    /\ \A r \in RewardIds :
         rewards[r].order = o <=> Live(o) /\ r \in orders[o].rewards

(* A customer gets at most one reward per milestone and month, whatever    *)
(* deliveries, links and progress queries recalculate at once              *)
(* (recalculateForUser).                                                   *)
OneRewardPerMilestone ==
  \A r, s \in RewardIds :
    /\ rewards[r].owner # None
    /\ rewards[r].owner = rewards[s].owner
    /\ rewards[r].earned = rewards[s].earned
    /\ rewards[r].milestone = rewards[s].milestone
    => r = s

(* An order that earned an automatic coupon and was created before it      *)
(* never counts towards another one (the createdAt cut and the user lock   *)
(* of checkAndGenerateForUser, with the direct call, the link and the cron *)
(* all generating).                                                        *)
SpendEarnsOneCoupon ==
  \A c, d \in CouponIds :
    c # d => coupons[c].paid \cap coupons[d].paid \cap coupons[c].cut
                             \cap coupons[d].cut = {}

(* Handlers never wait for each other in a circle, unless two of them lock *)
(* several rows in any order at the same time: two links of orders, or the *)
(* daily expiry on two instances.  Checkout locks coupon then rewards by   *)
(* UUID, cancellation order, coupon, rewards, delivery order then user,    *)
(* and the tasks the user only.                                            *)
OnlyBatchesDeadlock ==
  \A S \in SUBSET Procs :
    Circle(S) => \E batch \in {"link_orders", "expire"}, p, q \in S :
                   p # q /\ pc[p] = batch /\ pc[q] = batch

(* Every committed change of an order puts a dedupe key of that order in   *)
(* the outbox that was not there: ON CONFLICT DO NOTHING never swallows    *)
(* the signal of a real change.                                            *)
EveryChangeIsSignalled ==
  [][\A o \in OrderIds :
       orders'[o] # orders[o] =>
         \E key \in outbox' \ outbox : key[2] = o]_vars

(* Once the first WhatsApp confirmation of an order is stored it is the    *)
(* one returned for good, and a cancelled order never gets one             *)
(* (markWhatsappSent against itself and against updateStatus).             *)
FirstConfirmationKept ==
  [][\A o \in OrderIds :
       orders'[o].whatsappSentAt # orders[o].whatsappSentAt =>
         /\ orders[o].whatsappSentAt = None
         /\ orders[o].status # "cancelado"]_vars

(* A link never takes an order that already has a customer, even when two  *)
(* administrators link it to two customers at once (linkAnonymousOrders).  *)
CustomerNeverReplaced ==
  [][\A o \in OrderIds :
       orders[o].userId # None => orders'[o].userId = orders[o].userId]_vars

(* Every request ends: no handler waits for ever for a row, not even       *)
(* behind two links in a circle, and its loyalty tasks run out.            *)
RequestsEnd == \A p \in Procs : pc[p] # "idle" ~> pc[p] = "idle"

(***************************************************************************)
(* What comments of the code say and its steps do not keep: a run refutes  *)
(* each of these.                                                          *)
(***************************************************************************)
(* "si el usuario ya tiene un cupon automatico active sin usar, no se      *)
(* genera otro" (coupons.service.ts:81-82): a cancellation does not lock   *)
(* the user, so it can give an automatic coupon back between the check and *)
(* the INSERT of a generation.                                             *)
NoSecondAutoCoupon ==
  [][\A c \in CouponIds :
       /\ coupons[c].status = "none"
       /\ coupons'[c].status = "active"
       /\ coupons'[c].origin = "auto"
       => ~HasActiveAutoCoupon(coupons'[c].owner)]_vars

(* "otorga, por cada hito cuyo umbral ya se alcanzo este mes [...] un      *)
(* RewardRedemption nuevo" (rewards.service.ts:206-209): a reward carries  *)
(* the month whose stars reached its milestone.  The clock is read once    *)
(* for the stars and again for earnedAt.                                   *)
RewardBackedByItsMonth ==
  \A r \in RewardIds : rewards[r].earned = rewards[r].backing

=============================================================================
