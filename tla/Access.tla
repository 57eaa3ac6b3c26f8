-------------------------------- MODULE Access -------------------------------
(***************************************************************************)
(* The controllers: which handler a request reaches, and who may use it.   *)
(* Nest tries the routes of a controller in the order of its methods; ":"  *)
(* is a parameter and matches any segment.  A token lives on after its     *)
(* user's role has changed.                                                *)
(***************************************************************************)
EXTENDS Naturals, Sequences, FiniteSets

CONSTANTS
  Requesters,   \* users
  Nobody        \* a request without a token

VARIABLES
  roles,        \* the column role: user -> "admin" or "cliente"
  issued,       \* tokens there are: <<user, the role in the payload>>
  request       \* bound: one request in progress

accessVars == <<roles, issued, request>>

(***************************************************************************)
(* The routes: method, path, and who may use them ("owner" is the owner of *)
(* the order, or an administrator).                                        *)
(***************************************************************************)
Controller(prefix, routes) == [prefix |-> prefix, routes |-> routes]

RouteOf(c, i) ==
  [method |-> c.routes[i][1], path |-> c.prefix \o c.routes[i][2], who |-> c.routes[i][3]]

AuthController == Controller(<<"auth">>, <<
  <<"POST", <<"register">>, "anyone">>, <<"POST", <<"login">>, "anyone">>,
  <<"POST", <<"google">>, "anyone">>, <<"POST", <<"refresh">>, "anyone">>,
  <<"GET", <<"me">>, "user">> >>)

UsersController == Controller(<<"users">>, <<
  <<"GET", <<"me">>, "user">>, <<"PATCH", <<"me">>, "user">>,
  <<"PATCH", <<"me", "fcm-token">>, "user">>,
  <<"DELETE", <<"me", "fcm-token">>, "user">>,
  <<"GET", <<"me", "addresses">>, "user">>, <<"POST", <<"me", "addresses">>, "user">>,
  <<"PATCH", <<"me", "addresses", ":">>, "user">>,
  <<"DELETE", <<"me", "addresses", ":">>, "user">>,
  <<"GET", <<":", "addresses">>, "admin">>, <<"GET", <<>>, "admin">>,
  <<"PATCH", <<":", "role">>, "admin">> >>)

AnonymousOrdersLinkController == Controller(<<"users">>, <<
  <<"GET", <<":", "anonymous-orders">>, "admin">>,
  <<"POST", <<":", "link-anonymous-orders">>, "admin">> >>)

(* Mutant: "orders/:id" before the paths that it matches as well.          *)
OrdersControllerIdFirst == Controller(<<"orders">>, <<
  <<"POST", <<>>, "user">>, <<"GET", <<":">>, "owner">>,
  <<"GET", <<"geocode">>, "user">>, <<"GET", <<"me">>, "user">> >>)

OrdersController == Controller(<<"orders">>, <<
  <<"POST", <<>>, "user">>, <<"POST", <<"admin">>, "admin">>,
  <<"GET", <<"admin", ":", "whatsapp-links">>, "admin">>,
  <<"POST", <<"admin", ":", "whatsapp-sent">>, "admin">>,
  <<"POST", <<"estimate-delivery-fee">>, "user">>,
  <<"GET", <<"geocode">>, "user">>, <<"GET", <<"me">>, "user">>,
  <<"GET", <<>>, "admin">>, <<"GET", <<":">>, "owner">>,
  <<"PATCH", <<":", "status">>, "admin">> >>)

OrderEventsController == Controller(<<"admin", "orders">>, <<
  <<"GET", <<"events">>, "admin">> >>)

DeliveryController == Controller(<<"delivery">>, << <<"GET", <<"estimate">>, "user">> >>)

CouponsController == Controller(<<"coupons">>, <<
  <<"POST", <<"generate">>, "admin">>, <<"POST", <<"generate-bulk">>, "admin">>,
  <<"GET", <<"me">>, "user">>, <<"POST", <<"validate">>, "user">>,
  <<"GET", <<>>, "admin">>, <<"GET", <<"auto-config">>, "admin">>,
  <<"PUT", <<"auto-config">>, "admin">> >>)

RewardsController == Controller(<<"rewards">>, <<
  <<"GET", <<"progress">>, "user">>, <<"GET", <<"catalog">>, "user">> >>)

BannersController == Controller(<<"banners">>, <<
  <<"GET", <<"active">>, "anyone">>, <<"GET", <<>>, "admin">>,
  <<"GET", <<":">>, "admin">>, <<"POST", <<>>, "admin">>,
  <<"PATCH", <<"reorder">>, "admin">>, <<"PATCH", <<":">>, "admin">>,
  <<"DELETE", <<":">>, "admin">>, <<"POST", <<":", "image">>, "admin">> >>)

MenuController == Controller(<<"menu">>, <<
  <<"GET", <<>>, "anyone">>, <<"GET", <<"categories">>, "admin">>,
  <<"POST", <<"categories">>, "admin">>, <<"PATCH", <<"categories", ":">>, "admin">>,
  <<"DELETE", <<"categories", ":">>, "admin">>, <<"GET", <<"items">>, "admin">>,
  <<"POST", <<"items">>, "admin">>, <<"PATCH", <<"items", ":">>, "admin">>,
  <<"DELETE", <<"items", ":">>, "admin">>, <<"POST", <<"items", ":", "image">>, "admin">>,
  <<"POST", <<"categories", ":", "image">>, "admin">> >>)

SettingsController == Controller(<<"settings">>, <<
  <<"GET", <<"public">>, "anyone">>, <<"GET", <<"business-hours">>, "anyone">>,
  <<"GET", <<>>, "admin">>, <<"PATCH", <<>>, "admin">> >>)

AdminController == Controller(<<"admin">>, <<
  <<"GET", <<"dashboard", "summary">>, "admin">>,
  <<"GET", <<"dashboard", "top-products">>, "admin">>,
  <<"GET", <<"dashboard", "metrics">>, "admin">>,
  <<"GET", <<"dashboard", "revenue-trend">>, "admin">>,
  <<"GET", <<"dashboard", "new-customers">>, "admin">> >>)

ReportsController == Controller(<<"admin", "reports">>, <<
  <<"GET", <<"summary">>, "admin">>, <<"GET", <<"comparison">>, "admin">>,
  <<"GET", <<"top-products">>, "admin">>, <<"GET", <<"conversion">>, "admin">>,
  <<"GET", <<"daily-metrics">>, "admin">> >>)

NotificationsController == Controller(<<"notifications">>, <<
  <<"POST", <<"test">>, "admin">>, <<"POST", <<"broadcast">>, "admin">>,
  <<"GET", <<"broadcast-history">>, "admin">> >>)

(* The routes of a table that only the admin manages.                      *)
List == <<"GET", <<>>, "admin">>
One == <<"GET", <<":">>, "admin">>
Insert == <<"POST", <<>>, "admin">>
Change == <<"PATCH", <<":">>, "admin">>
Delete == <<"DELETE", <<":">>, "admin">>

SaucesController == Controller(<<"sauces">>, <<List, Insert, Change, Delete>>)
BeveragesController == Controller(<<"beverages">>, <<List, Insert, Change, Delete>>)
ExtraPortionsController == Controller(<<"extra-portions">>, <<List, Insert, Change, Delete>>)
FriesTypesController == Controller(<<"fries-types">>, <<List, Insert, Change, Delete>>)
DeliveryZonesController ==
  Controller(<<"delivery", "zones">>, <<List, One, Insert, Change, Delete>>)
RewardMilestonesController ==
  Controller(<<"reward-milestones">>, <<List, One, Insert, Change, Delete>>)
StarPromotionsController == Controller(<<"star-promotions">>, <<List, One, Insert, Change>>)

Controllers ==
  {AuthController, UsersController, AnonymousOrdersLinkController, OrdersController,
   OrderEventsController, DeliveryController, CouponsController, RewardsController,
   BannersController, MenuController, SettingsController, AdminController,
   ReportsController, NotificationsController, SaucesController, BeveragesController,
   ExtraPortionsController, FriesTypesController, DeliveryZonesController,
   RewardMilestonesController, StarPromotionsController}

Routes == UNION {{RouteOf(c, i) : i \in DOMAIN c.routes} : c \in Controllers}

Matches(route, method, path) ==
  /\ route.method = method /\ Len(route.path) = Len(path)
  /\ \A i \in DOMAIN path : route.path[i] \in {":", path[i]}

(* The first route of a controller that matches.  Which controller comes   *)
(* first is left to how the modules import each other.                     *)
MatchesAt(c, i, method, path) == Matches(RouteOf(c, i), method, path)

FirstMatch(c, method, path) ==
  CHOOSE i \in DOMAIN c.routes : /\ MatchesAt(c, i, method, path)
                                 /\ \A j \in 1..(i - 1) : ~MatchesAt(c, j, method, path)

Arrived(method, path) ==
  {RouteOf(c, FirstMatch(c, method, path)) :
     c \in {d \in Controllers : \E i \in DOMAIN d.routes : MatchesAt(d, i, method, path)}}

(* A request for a route gives its parameters a value.                     *)
Filled(path) == [i \in DOMAIN path |-> IF path[i] = ":" THEN "uuid" ELSE path[i]]

(***************************************************************************)
(* The guards.                                                             *)
(***************************************************************************)
Free == [step |-> "waiting"]

AccessInit ==
  /\ roles \in [Requesters -> {"admin", "cliente"}]
  /\ issued = {}
  /\ request = Free

(* login(), refresh(): the role is part of the payload.                    *)
Issue(u) ==
  /\ issued' = issued \cup {<<u, roles[u]>>}
  /\ UNCHANGED <<roles, request>>

(* PATCH users/:id/role, by another administrator.                         *)
Reappoint(u) ==
  /\ roles' = [roles EXCEPT ![u] = IF @ = "admin" THEN "cliente" ELSE "admin"]
  /\ request' = IF request # Free /\ request.user = u
                THEN [request EXCEPT !.wasAdmin = @ \/ roles'[u] = "admin"] ELSE request
  /\ UNCHANGED issued

(* own: the order of the path belongs to the user.                         *)
SendRequest(route, token, own) ==
  /\ request = Free
  /\ \E handler \in Arrived(route.method, Filled(route.path)) :
       request' = [step |-> "jwt", asked |-> route, handler |-> handler,
                   user |-> token[1], payload |-> token[2], own |-> own,
                   wasAdmin |-> token[1] # Nobody /\ roles[token[1]] = "admin"]
  /\ UNCHANGED <<roles, issued>>

(* JwtStrategy.validate(): the user is read again at every request.        *)
Validate(r) == roles[r.user]

(* JwtAuthGuard, OrderEventsGuard: a 401 without a token.                  *)
Authenticate ==
  /\ request # Free /\ request.step = "jwt"
  /\ request' = IF request.handler.who = "anyone"
                THEN [request EXCEPT !.step = "roles", !.payload = "none"]
                ELSE IF request.user = Nobody THEN Free
                ELSE [request EXCEPT !.step = "roles", !.payload = Validate(request)]
  /\ UNCHANGED <<roles, issued>>

(* RolesGuard, and findOne() of the orders for its route: a 403, or the    *)
(* handler runs.                                                           *)
Authorize ==
  /\ request # Free /\ request.step = "roles"
  /\ request' = IF \/ request.handler.who \in {"anyone", "user"}
                   \/ request.payload = "admin"
                   \/ request.handler.who = "owner" /\ request.own
                THEN [request EXCEPT !.step = "served"] ELSE Free
  /\ UNCHANGED <<roles, issued>>

Respond ==
  /\ request # Free /\ request.step = "served"
  /\ request' = Free
  /\ UNCHANGED <<roles, issued>>

AccessNext ==
  \/ \E u \in Requesters : Issue(u) \/ Reappoint(u)
  \/ \E route \in Routes, token \in issued \cup {<<Nobody, "none">>}, own \in BOOLEAN :
       /\ own => route.who = "owner" /\ token[1] # Nobody
       /\ SendRequest(route, token, own)
  \/ Authenticate \/ Authorize \/ Respond

(* orders.controller.ts:240, banners.controller.ts:96: a request is served *)
(* by the handler of its route, and by no other whose path matches as      *)
(* well.                                                                   *)
ServedAsAsked == request # Free /\ request.step = "served" => request.handler = request.asked

(* jwt.strategy.ts:41: what only administrators, or the owner of an order, *)
(* may do is done for nobody who was not one since the request came in,    *)
(* however long a token of better days is valid.                           *)
RolesHoldAtOnce ==
  request # Free /\ request.step = "served" =>
    CASE request.handler.who = "admin" -> request.wasAdmin
      [] request.handler.who = "owner" -> request.wasAdmin \/ request.own
      [] request.handler.who = "user" -> request.user # Nobody
      [] OTHER -> TRUE

(* roles.guard.ts:20: what a request does is what its path and its role    *)
(* say.                                                                    *)
RequestsDoWhatTheyMay == ServedAsAsked /\ RolesHoldAtOnce

=============================================================================
