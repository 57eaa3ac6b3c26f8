------------------------------- MODULE Pricing -------------------------------
(***************************************************************************)
(* What a product costs: findPublicMenu() of menu.service.ts shows it,     *)
(* buildItems() of orders.service.ts charges it, a coupon takes some of it *)
(* off, and the WhatsApp message of the order is made twice, when it is    *)
(* placed and later from what was stored.  Amounts are cents.              *)
(*                                                                         *)
(* One product with one group of options is under study: each group of a   *)
(* product is validated by itself, and prices are added up.                *)
(***************************************************************************)
EXTENDS Naturals, Sequences, FiniteSets, SequencesExt

CONSTANTS
  Options,      \* the options there are
  PriceOf,      \* option -> its price
  BasePrice,    \* of the product
  Discounts,    \* coupons: records percentage, value, minimum
  DeliveryFees,
  MaxMoney,     \* MAX_MONEY_CENTS: 9999999999
  NoValue       \* null, undefined

ASSUME PricingAssumption ==
  /\ IsFiniteSet(Options) /\ PriceOf \in [Options -> Nat]
  /\ MaxMoney \in Nat /\ BasePrice \in 0..MaxMoney
  /\ DeliveryFees \subseteq Nat /\ \A c \in Discounts : c.value \in Nat

VARIABLES
  product,      \* the row of menu_items, with its relations
  menu,         \* what a customer has been shown; None once it has changed
  order,        \* the order that has been placed
  whatsapp      \* what getWhatsappLinks() has answered for it

pricingVars == <<product, menu, order, whatsapp>>

Groups == {"sauces", "beverages", "extraPortions", "friesTypes"}
Priced == {"beverages", "extraPortions"}

(* free: the beverages that list the product in includeFreeTo.  Fries types*)
(* have neither an "active" nor a "without" column.                        *)
ProductRows ==
  {m \in [group: Groups, offered: SUBSET Options, active: SUBSET Options,
          free: SUBSET Options, required: BOOLEAN, allowWithout: BOOLEAN,
          max: {1, NoValue}, available: BOOLEAN, redeemable: BOOLEAN] :
     /\ m.active \subseteq m.offered /\ m.free \subseteq m.offered
     /\ m.group # "beverages" => m.free = {}
     /\ m.group = "friesTypes" => m.active = m.offered /\ ~m.allowWithout
     /\ m.max = NoValue => m.group = "sauces"}

(* Two of an option are two entries of the list: the DTO forbids nothing.  *)
Selections == {NoValue} \cup UNION {[1..n -> Options] : n \in 0..2}

PricingInit ==
  /\ product \in ProductRows
  /\ menu = NoValue /\ order = NoValue /\ whatsapp = NoValue

(***************************************************************************)
(* money.util.ts.                                                          *)
(***************************************************************************)
(* fromCents() refuses what the column cannot hold.                        *)
Fits(cents) == cents <= MaxMoney

SumOf(amounts) == FoldSeq(LAMBDA a, sum : sum + a, 0, amounts)

(* discountedSubtotal(): the value of a percentage is in hundredths of it. *)
DiscountedSubtotal(cents, coupon) ==
  LET share == IF coupon.value < 10000 THEN coupon.value ELSE 10000
      off == IF coupon.percentage THEN (cents * share + 5000) \div 10000
             ELSE coupon.value
  IN cents - IF off < cents THEN off ELSE cents

(***************************************************************************)
(* The menu.                                                               *)
(***************************************************************************)
(* What the app shows of the product: its active options, and what each of *)
(* them costs with it.                                                     *)
PublicMenu(m) ==
  LET shown == m.offered \cap m.active IN
  [available |-> m.available,
   prices |-> [o \in shown |->
                IF m.group \notin Priced \/ o \in m.free THEN 0 ELSE PriceOf[o]],
   required |-> m.required, allowWithout |-> m.allowWithout, max |-> m.max]

FindPublicMenu ==
  /\ order = NoValue
  /\ menu' = PublicMenu(product)
  /\ UNCHANGED <<product, order, whatsapp>>

(* An option is switched on or off, a product becomes unavailable or not.  *)
ChangeProduct ==
  /\ order = NoValue
  /\ \/ \E o \in product.offered :
          /\ product.group # "friesTypes"
          /\ product' = [product EXCEPT !.active =
                           IF o \in @ THEN @ \ {o} ELSE @ \cup {o}]
     \/ product' = [product EXCEPT !.available = ~@]
  /\ menu' = NoValue
  /\ UNCHANGED <<order, whatsapp>>

(***************************************************************************)
(* The order.                                                              *)
(***************************************************************************)
(* Mutant: a beverage that the product includes is charged.                *)
ListPrices(m) == [o \in m.offered |-> PriceOf[o]]

(* resolveBeveragePrices(): 0 for a beverage that the product includes.    *)
OfferedPrices(m) ==
  [o \in m.offered |->
     IF m.group \notin Priced \/ (m.group = "beverages" /\ o \in m.free) THEN 0
     ELSE PriceOf[o]]

(* resolveSelectedSauces, -Priced, -FriesTypes: every id must be offered.  *)
Resolvable(m, selection) ==
  selection = NoValue \/ \A i \in DOMAIN selection : selection[i] \in m.offered

(* validateGroupSelection(): options that are not active are counted too.  *)
ValidSelection(m, selection) ==
  \/ m.offered = {}
  \/ /\ m.required => selection # NoValue /\ (selection = <<>> => m.allowWithout)
     /\ selection # NoValue /\ m.max # NoValue => Len(selection) <= m.max

(* A claim of a reward: one unit of a redeemable product, for nothing, but *)
(* for what is added to it; available or not.                              *)
Orderable(m, item) ==
  /\ IF item.reward THEN m.redeemable /\ item.quantity = 1 ELSE m.available
  /\ Resolvable(m, item.selection)
  /\ ValidSelection(m, item.selection)

Extras(m, item) ==
  IF item.selection = NoValue THEN 0
  ELSE SumOf([i \in DOMAIN item.selection |-> OfferedPrices(m)[item.selection[i]]])

(* The subtotal of an item, and of an order that has no other.             *)
ItemSubtotal(m, item) ==
  ((IF item.reward THEN 0 ELSE BasePrice) + Extras(m, item)) * item.quantity

(* assertMinPurchase(); validateCoupon() and applyToOrder() share it.      *)
MinPurchaseMet(coupon, subtotal) ==
  coupon.minimum = NoValue \/ subtotal >= coupon.minimum

(* The part of the message about money: the coupon only if it took off any.*)
WhatsappMessage(subtotal, discount, fee, total, coupon) ==
  [subtotal |-> subtotal, fee |-> fee, total |-> total, discount |-> discount,
   coupon |-> IF discount > 0 THEN coupon ELSE NoValue]

(* What the menu that the customer has seen promises about an item; no     *)
(* promise where a group that must be chosen from shows nothing to choose. *)
Promised(item) ==
  LET s == item.selection
      chosen == IF s = NoValue THEN <<>> ELSE s
  IN
  IF /\ menu # NoValue /\ menu.available /\ ~item.reward
     /\ ToSet(chosen) \subseteq DOMAIN menu.prices
     /\ DOMAIN menu.prices # {} \/ (s = NoValue /\ ~menu.required)
     /\ menu.required => s # NoValue /\ (s = <<>> => menu.allowWithout)
     /\ menu.max # NoValue => Len(chosen) <= menu.max
  THEN (BasePrice + SumOf([i \in DOMAIN chosen |-> menu.prices[chosen[i]]]))
         * item.quantity
  ELSE NoValue

(* placeOrder().                                                           *)
Charge(item, coupon, fee) ==
  LET subtotal == ItemSubtotal(product, item)
      discounted == IF coupon = NoValue THEN subtotal
                    ELSE DiscountedSubtotal(subtotal, coupon)
      discount == subtotal - discounted
      total == subtotal - discount + fee
  IN
  IF /\ Orderable(product, item)
     /\ Fits(subtotal) /\ Fits(total)
     /\ coupon # NoValue => MinPurchaseMet(coupon, subtotal)
  THEN [placed |-> TRUE, subtotal |-> subtotal, discount |-> discount, fee |-> fee,
        total |-> total, coupon |-> coupon, promised |-> Promised(item),
        message |-> WhatsappMessage(subtotal, discount, fee, total, coupon)]
  ELSE [placed |-> FALSE,
        promised |-> IF /\ coupon = NoValue
                        /\ Resolvable(product, item.selection) => Fits(total)
                     THEN Promised(item) ELSE NoValue]

PlaceOrder(item, coupon, fee) ==
  /\ order = NoValue
  /\ order' = Charge(item, coupon, fee)
  /\ UNCHANGED <<product, menu, whatsapp>>

(* The discount is not stored: it is worked out of the amounts that are.   *)
GetWhatsappLinks ==
  /\ order # NoValue /\ order.placed /\ whatsapp = NoValue
  /\ LET discount == order.subtotal + order.fee - order.total
     IN whatsapp' = WhatsappMessage(order.subtotal, discount, order.fee, order.total,
                                 order.coupon)
  /\ UNCHANGED <<product, menu, order>>

PricingNext ==
  \/ ChangeProduct \/ FindPublicMenu \/ GetWhatsappLinks
  \/ \E selection \in Selections, quantity \in {1, 2}, reward \in BOOLEAN,
        coupon \in Discounts \cup {NoValue}, fee \in DeliveryFees :
       PlaceOrder([selection |-> selection, quantity |-> quantity, reward |-> reward],
                  coupon, fee)

(***************************************************************************)
(* Properties.                                                             *)
(***************************************************************************)
(* orders.service.ts:1370 "lo que se muestra al cliente y lo que se cobra  *)
(* en POST /orders siempre deben coincidir": while the menu has not changed*)
(* an item that it allows is accepted, for what it says.                   *)
ShownIsCharged ==
  order # NoValue /\ order.promised # NoValue => order.placed /\ order.subtotal = order.promised

(* money.util.ts:24: a coupon takes off its value, to the nearest cent and *)
(* never more than the products cost; the rest and the delivery are paid.  *)
DiscountIsItsShare ==
  order # NoValue /\ order.placed =>
    /\ order.total >= order.fee
    /\ order.coupon # NoValue =>
         LET c == order.coupon
             share == IF c.value < 10000 THEN c.value ELSE 10000
         IN IF c.percentage
            THEN /\ 10000 * order.discount <= order.subtotal * share + 5000
                 /\ 10000 * order.discount + 5000 > order.subtotal * share
            ELSE order.discount = IF c.value < order.subtotal THEN c.value ELSE order.subtotal

(* orders.service.ts:1506 "ambos nunca divergen": the message made again of*)
(* what was stored tells the customer the same amounts.                    *)
MessagesAgree == whatsapp # NoValue => whatsapp = order.message

(* orders.service.ts:1145: from the menu to the message, a customer is     *)
(* told and charged the same.                                              *)
EveryoneIsToldOnePrice == ShownIsCharged /\ DiscountIsItsShare /\ MessagesAgree

=============================================================================
