------------------------------ MODULE BackOffice -----------------------------
(***************************************************************************)
(* The components around the orders, side by side.  They share no state,   *)
(* except for what the orders read of them, which Orders models: what one  *)
(* of them does leaves every other as it was, and an interleaving of two is*)
(* no more than the product of their behaviours.  So a behaviour is about  *)
(* one of them, the focus, and the others are as they were left.           *)
(***************************************************************************)
EXTENDS FcmTokens, Accounts, Addresses, Promotions, StarProgress, Delivery,
        Polygon, BusinessHours, Settings, Catalog, Pricing, Reports, Banners,
        Access

VARIABLE focus   \* the component that the behaviour is about

backOfficeVars ==
  <<fcmVars, accountVars, addressVars, promoVars, progressVars, deliveryVars,
    polygonVars, hoursVars, settingVars, catalogVars, pricingVars, reportVars,
    bannerVars, accessVars, focus>>

(***************************************************************************)
(* Components with several initial states, and the one that they have when *)
(* the behaviour is about another.                                         *)
(***************************************************************************)
HoursIdle ==
  /\ schedule = [d \in 0..(Week - 1) |-> [closed |-> TRUE, open |-> 0, close |-> 0]]
  /\ closedByHand = FALSE
  /\ answer = Unasked

CatalogIdle == CatalogInit /\ kind = CHOOSE k \in Kinds : TRUE

PricingIdle ==
  /\ product = NoValue
  /\ menu = NoValue /\ order = NoValue /\ whatsapp = NoValue

AccessIdle ==
  /\ roles = [u \in Requesters |-> "cliente"]
  /\ issued = {}
  /\ request = Free

SettingsIdle == SettingsInit /\ settings = <<>>

Init ==
  /\ focus \in {"fcm", "accounts", "addresses", "promotions", "progress", "delivery",
                "polygon", "hours", "settings", "catalog", "pricing", "reports",
                "banners", "access"}
  /\ FcmInit /\ AccountsInit /\ AddressesInit /\ PromotionsInit /\ ProgressInit
  /\ DeliveryInit /\ PolygonInit /\ ReportsInit /\ BannersInit
  /\ IF focus = "hours" THEN HoursInit ELSE HoursIdle
  /\ IF focus = "settings" THEN SettingsInit ELSE SettingsIdle
  /\ IF focus = "catalog" THEN CatalogInit ELSE CatalogIdle
  /\ IF focus = "pricing" THEN PricingInit ELSE PricingIdle
  /\ IF focus = "access" THEN AccessInit ELSE AccessIdle

(* A step of the component in focus leaves the others as they are.         *)
OthersRest ==
  /\ UNCHANGED focus
  /\ focus # "fcm" => UNCHANGED fcmVars
  /\ focus # "accounts" => UNCHANGED accountVars
  /\ focus # "addresses" => UNCHANGED addressVars
  /\ focus # "promotions" => UNCHANGED promoVars
  /\ focus # "progress" => UNCHANGED progressVars
  /\ focus # "delivery" => UNCHANGED deliveryVars
  /\ focus # "polygon" => UNCHANGED polygonVars
  /\ focus # "hours" => UNCHANGED hoursVars
  /\ focus # "settings" => UNCHANGED settingVars
  /\ focus # "catalog" => UNCHANGED catalogVars
  /\ focus # "pricing" => UNCHANGED pricingVars
  /\ focus # "reports" => UNCHANGED reportVars
  /\ focus # "banners" => UNCHANGED bannerVars
  /\ focus # "access" => UNCHANGED accessVars

Next ==
  \/ focus = "fcm" /\ FcmNext /\ OthersRest
  \/ focus = "accounts" /\ AccountsNext /\ OthersRest
  \/ focus = "addresses" /\ AddressesNext /\ OthersRest
  \/ focus = "promotions" /\ PromotionsNext /\ OthersRest
  \/ focus = "progress" /\ ProgressNext /\ OthersRest
  \/ focus = "delivery" /\ DeliveryNext /\ OthersRest
  \/ focus = "polygon" /\ PolygonNext /\ OthersRest
  \/ focus = "hours" /\ HoursNext /\ OthersRest
  \/ focus = "settings" /\ SettingsNext /\ OthersRest
  \/ focus = "catalog" /\ CatalogNext /\ OthersRest
  \/ focus = "pricing" /\ PricingNext /\ OthersRest
  \/ focus = "reports" /\ ReportsNext /\ OthersRest
  \/ focus = "banners" /\ BannersNext /\ OthersRest
  \/ focus = "access" /\ AccessNext /\ OthersRest

Spec == Init /\ [][Next]_backOfficeVars

=============================================================================
