----------------------------- MODULE Promotions ------------------------------
(***************************************************************************)
(* star-promotions.service.ts: the promotions that multiply the stars of   *)
(* the orders of some dates.                                               *)
(***************************************************************************)
EXTENDS Handlers

CONSTANTS
  Promos        \* bound: promotions ever created

ASSUME PromotionsAssumption == None \notin Promos

VARIABLES
  promotions,     \* the table star_promotions
  promotionsLock, \* holder of the advisory lock (731942, 2)
  promoHandlers

promoVars == <<promotions, promotionsLock, promoHandlers>>

PromotionsInit ==
  /\ promotions = <<>>
  /\ promotionsLock = None
  /\ promoHandlers = [p \in Handlers |-> Waiting]

PromoGo(p, to) == promoHandlers' = Goes(promoHandlers, p, to)
PromoAt(p, step) == At(promoHandlers, p, step)
PromoEnd(p) == promoHandlers' = Ends(promoHandlers, p)

Or(field, old) == IF field = None THEN old ELSE field

(* The DTO of a creation (id is None) is complete but for active.          *)
StartPromotion(p, id, start, end, active) ==
  /\ PromoAt(p, "waiting")
  /\ id = None => start # None /\ end # None
  /\ PromoGo(p, [step |-> "catalog", id |-> id, start |-> start, end |-> end,
                 active |-> active])
  /\ UNCHANGED <<promotions, promotionsLock>>

(* Mutant: no advisory lock.                                               *)
SkipCatalogLock(p) ==
  /\ PromoAt(p, "catalog")
  /\ PromoGo(p, [promoHandlers[p] EXCEPT !.step = "overlap"])
  /\ UNCHANGED <<promotions, promotionsLock>>

LockPromotions(p) ==
  /\ PromoAt(p, "catalog")
  /\ promotionsLock = None
  /\ promotionsLock' = p
  /\ PromoGo(p, [promoHandlers[p] EXCEPT !.step = "overlap"])
  /\ UNCHANGED promotions

(* The row to be saved: the stored one with the fields of the DTO.         *)
Merged(h) ==
  LET old == IF h.id = None THEN [start |-> h.start, end |-> h.end, active |-> TRUE]
             ELSE promotions[h.id]
  IN [start |-> Or(h.start, old.start), end |-> Or(h.end, old.end),
      active |-> Or(h.active, old.active)]

Overlaps(r, s) == r.start <= s.end /\ r.end >= s.start

(* findOne, assertValidDates, assertNoOverlap.                             *)
Acceptable(h) ==
  LET row == Merged(h) IN
  /\ IF h.id = None THEN DOMAIN promotions # Promos ELSE h.id \in DOMAIN promotions
  /\ row.start <= row.end
  /\ row.active => \A i \in DOMAIN promotions \ {h.id} :
                     promotions[i].active => ~Overlaps(promotions[i], row)

CheckPromotion(p) ==
  LET h == promoHandlers[p] IN
  /\ PromoAt(p, "overlap")
  /\ IF Acceptable(h)
     THEN /\ PromoGo(p, [step |-> "save", id |-> h.id, row |-> Merged(h)])
          /\ UNCHANGED promotionsLock
     ELSE PromoEnd(p) /\ promotionsLock' = None
  /\ UNCHANGED promotions

SavePromotion(p) ==
  LET h == promoHandlers[p] IN
  /\ PromoAt(p, "save")
  /\ \E id \in Saves(h.id, Promos, promotions) : promotions' = Put(promotions, id, h.row)
  /\ promotionsLock' = None
  /\ PromoEnd(p)

PromotionsNext ==
  \E p \in Handlers :
    \/ \E id \in Promos \cup {None}, start, end \in Days \cup {None},
          active \in {TRUE, FALSE, None} : StartPromotion(p, id, start, end, active)
    \/ LockPromotions(p) \/ CheckPromotion(p) \/ SavePromotion(p)

(***************************************************************************)
(* Property.                                                               *)
(***************************************************************************)
Active(day) ==
  {i \in DOMAIN promotions : /\ promotions[i].active
                             /\ day \in promotions[i].start..promotions[i].end}

(* star-promotions.service.ts:96: no date has two active promotions, which *)
(* multiplierForDate() would choose between by the order of the rows.      *)
OnePromotionPerDay == \A day \in Days : Cardinality(Active(day)) <= 1

=============================================================================
