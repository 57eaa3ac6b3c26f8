------------------------------- MODULE Banners -------------------------------
(***************************************************************************)
(* banners.service.ts: the banners of the app.  Reordering is one          *)
(* transaction of many saves; everything else reads a row and saves it.    *)
(* save() reads the row again and updates the columns that differ.         *)
(***************************************************************************)
EXTENDS Handlers

CONSTANTS
  BannerIds,      \* bound: banners ever created
  Positions,      \* values of order
  BannerDtos      \* what a request may give: dates are numbers, null takes one away

ASSUME BannersAssumption == Positions \subseteq Nat /\ IsFiniteSet(Positions)

VARIABLES
  banners,        \* the table: id -> start, end, order
  asked,          \* history: id -> the order that was last saved for it
  raced,          \* history: banners that two requests were about at once
  bannerHandlers

bannerVars == <<banners, asked, raced, bannerHandlers>>

BannersInit ==
  /\ banners = <<>> /\ asked = <<>>
  /\ raced = {}
  /\ bannerHandlers = [p \in Handlers |-> Waiting]

BannerGo(p, to) == bannerHandlers' = Goes(bannerHandlers, p, to)
BannerAt(p, step) == At(bannerHandlers, p, step)
BannerEnd(p) == bannerHandlers' = Ends(bannerHandlers, p)

(* The columns of a row that a DTO gives, or the old ones.                 *)
With(row, dto) ==
  [f \in {"start", "end", "order"} |-> IF f \in DOMAIN dto THEN dto[f] ELSE row[f]]
NewBanner == [start |-> None, end |-> None, order |-> CHOOSE n \in Positions : TRUE]

(* assertValidDates(), of the merged row.                                  *)
ValidDates(row, dto) ==
  LET merged == With(row, dto) IN
  merged.start = None \/ merged.end = None \/ merged.start < merged.end

About(h) ==
  CASE h.step = "waiting" -> {}
    [] h.step \in {"find", "save", "remove"} -> {h.id}
    [] h.step = "reorder" -> h.about

StartBanner(p, request) ==
  /\ BannerAt(p, "waiting")
  /\ BannerGo(p, request)
  /\ raced' = raced \cup (About(request) \cap
                           UNION {About(bannerHandlers[q]) : q \in Handlers \ {p}})
  /\ UNCHANGED <<banners, asked>>

(* The rows that a transaction has updated are locked until it ends.       *)
Updated(p) == IF BannerAt(p, "reorder") THEN DOMAIN bannerHandlers[p].written ELSE {}
LockedFor(p, id) == \A q \in Handlers \ {p} : id \notin Updated(q)

(* findOne, merge() and the validations: a 404 or a 400 ends the request.  *)
FindBanner(p) ==
  LET h == bannerHandlers[p]
      row == IF h.id = None THEN NewBanner ELSE banners[h.id]
  IN
  /\ BannerAt(p, "find")
  /\ IF (h.id = None \/ h.id \in DOMAIN banners) /\ ValidDates(row, h.dto)
     THEN BannerGo(p, [step |-> "save", id |-> h.id, row |-> With(row, h.dto)])
     ELSE BannerEnd(p)
  /\ UNCHANGED <<banners, asked, raced>>

SaveBanner(p) ==
  LET h == bannerHandlers[p] IN
  /\ BannerAt(p, "save") /\ LockedFor(p, h.id)
  /\ \/ \E id \in Saves(h.id, BannerIds, banners) :
          /\ banners' = Put(banners, id, h.row)
          /\ asked' = Put(asked, id, h.row.order)
     \/ h.id = None /\ DOMAIN banners = BannerIds /\ UNCHANGED <<banners, asked>>
  /\ BannerEnd(p)
  /\ UNCHANGED raced

RemoveBanner(p) ==
  /\ BannerAt(p, "remove") /\ LockedFor(p, bannerHandlers[p].id)
  /\ banners' = Without(banners, bannerHandlers[p].id)
  /\ asked' = Without(asked, bannerHandlers[p].id)
  /\ BannerEnd(p)
  /\ UNCHANGED raced

(***************************************************************************)
(* reorder(): the items one by one, in the order of the request.           *)
(***************************************************************************)
(* Mutant: every save is on its own.                                       *)
WriteAtOnce(p, id, order) ==
  banners' = [banners EXCEPT ![id].order = order]

WriteInTransaction(p, id, order) == banners' = banners

ReorderItem(p) ==
  LET h == bannerHandlers[p]
      item == Head(h.items)
  IN
  /\ BannerAt(p, "reorder") /\ h.items # <<>>
  /\ item.id \in DOMAIN banners
  /\ IF banners[item.id].order = item.order /\ item.id \notin DOMAIN h.written
     THEN BannerGo(p, [h EXCEPT !.items = Tail(@)]) /\ UNCHANGED banners
     ELSE /\ LockedFor(p, item.id)
          /\ WriteInTransaction(p, item.id, item.order)
          /\ BannerGo(p, [h EXCEPT !.items = Tail(@),
                                   !.written = Put(@, item.id, item.order)])
  /\ UNCHANGED <<asked, raced>>

(* A banner that does not exist, or the victim of a deadlock: a rollback.  *)
ReorderFails(p) ==
  LET h == bannerHandlers[p] IN
  /\ BannerAt(p, "reorder") /\ h.items # <<>>
  /\ \/ Head(h.items).id \notin DOMAIN banners
     \/ \E q \in Handlers \ {p} : /\ Head(h.items).id \in Updated(q)
                                  /\ bannerHandlers[q].items # <<>>
                                  /\ Head(bannerHandlers[q].items).id \in Updated(p)
  /\ BannerEnd(p)
  /\ UNCHANGED <<banners, asked, raced>>

CommitReorder(p) ==
  LET h == bannerHandlers[p] IN
  /\ BannerAt(p, "reorder") /\ h.items = <<>>
  /\ banners' = [b \in DOMAIN banners |->
       IF b \in DOMAIN h.written THEN [banners[b] EXCEPT !.order = h.written[b]]
       ELSE banners[b]]
  /\ asked' = [b \in DOMAIN asked |-> IF b \in DOMAIN h.written THEN h.written[b] ELSE asked[b]]
  /\ BannerEnd(p)
  /\ UNCHANGED raced

BannersNext ==
  \E p \in Handlers :
    \/ \E id \in BannerIds \cup {None}, dto \in BannerDtos :
         StartBanner(p, [step |-> "find", id |-> id, dto |-> dto])
    \/ \E id \in DOMAIN banners : StartBanner(p, [step |-> "remove", id |-> id])
    \/ \E a, b \in BannerIds, m, n \in Positions :
         /\ a # b
         /\ StartBanner(p, [step |-> "reorder", about |-> {a, b}, written |-> <<>>,
                            items |-> <<[id |-> a, order |-> m], [id |-> b, order |-> n]>>])
    \/ FindBanner(p) \/ SaveBanner(p) \/ RemoveBanner(p)
    \/ ReorderItem(p) \/ ReorderFails(p) \/ CommitReorder(p)

(***************************************************************************)
(* Properties: of the banners that no two requests were about at once.     *)
(***************************************************************************)
(* banners.service.ts:131: a banner that has both dates begins before it   *)
(* ends, also if they came in two requests.                                *)
BannersBeginBeforeTheyEnd ==
  \A b \in DOMAIN banners \ raced :
    \/ banners[b].start = None \/ banners[b].end = None
    \/ banners[b].start < banners[b].end

(* banners.service.ts:111: a batch shows as a whole or not at all, and one *)
(* that fails half-way has reordered nothing.                              *)
ReorderingIsAllOrNothing ==
  \A b \in DOMAIN banners \ raced : banners[b].order = asked[b]

(* banners.service.ts:85: of two requests about different banners neither  *)
(* spoils the other's dates or order.                                      *)
BannersAreInOrder == BannersBeginBeforeTheyEnd /\ ReorderingIsAllOrNothing

=============================================================================
