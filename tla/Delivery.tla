------------------------------ MODULE Delivery -------------------------------
(***************************************************************************)
(* delivery-zones.service.ts, delivery_mode of settings.service.ts and the *)
(* delivery of orders.service.ts: what an order pays for its delivery.     *)
(* A polygon is the set of the spots inside it (module Polygon has the     *)
(* geometry).  A write of the catalog reads and writes under one advisory  *)
(* lock; an order reads without it.                                        *)
(***************************************************************************)
EXTENDS Handlers

CONSTANTS
  Zones,        \* bound: zones ever created
  Spots,        \* places an address may be at
  Areas,        \* sets of spots: the polygons
  Fees,
  DistanceOf,   \* spot -> metres to the store
  TierTables    \* values of the setting delivery_fee_tiers: valid tables

VARIABLES
  zones,        \* the table delivery_zones: id -> area, fee, active
  mode,         \* the setting delivery_mode
  tiers,        \* the setting delivery_fee_tiers
  store,        \* the setting store_location has been filled in
  zonesLock,    \* holder of the advisory lock (731942, 1)
  placed,       \* the delivery of the last order
  deliveryHandlers

deliverySettings == <<tiers, store>>
deliveryVars == <<zones, mode, deliverySettings, zonesLock, placed,
                  deliveryHandlers>>

ASSUME DeliveryAssumption ==
  /\ None \notin Zones
  /\ \A a \in Areas : a # {} /\ a \subseteq Spots
  /\ \A table \in TierTables :
       /\ Len(table) > 0
       /\ \A i \in 1..Len(table) : (table[i].maxMeters = None) <=> (i = Len(table))

ByDistance(fee) == [mode |-> "DISTANCE", zone |-> None, covered |-> TRUE, fee |-> fee]

DeliveryInit ==
  /\ zones = <<>> /\ mode = "DISTANCE"
  /\ tiers \in TierTables /\ store = FALSE
  /\ zonesLock = None
  /\ placed = ByDistance(0)
  /\ deliveryHandlers = [p \in Handlers |-> Waiting]

DeliveryGo(p, to) == deliveryHandlers' = Goes(deliveryHandlers, p, to)
DeliveryAt(p, step) == At(deliveryHandlers, p, step)
DeliveryEnd(p) == deliveryHandlers' = Ends(deliveryHandlers, p)

ActiveZones == {z \in DOMAIN zones : zones[z].active}

(***************************************************************************)
(* Writes of the catalog: create, update, remove; and PATCH delivery_mode. *)
(***************************************************************************)
(* A field left out of the DTO of an update is None.                       *)
StartZone(p, kind, z, dto) ==
  /\ DeliveryAt(p, "waiting")
  /\ kind = "create" <=> z = None
  /\ kind = "create" => None \notin {dto.area, dto.active}
  /\ DeliveryGo(p, [step |-> "lock", kind |-> kind, zone |-> z, dto |-> dto])
  /\ UNCHANGED <<zones, mode, deliverySettings, zonesLock, placed>>

StartMode(p, value) ==
  /\ DeliveryAt(p, "waiting")
  /\ DeliveryGo(p, [step |-> "lock", kind |-> "mode", value |-> value])
  /\ UNCHANGED <<zones, mode, deliverySettings, zonesLock, placed>>

(* Mutant: the catalog is not locked.                                      *)
SkipDeliveryLock(p) ==
  /\ DeliveryAt(p, "lock")
  /\ DeliveryGo(p, [deliveryHandlers[p] EXCEPT !.step = "check"])
  /\ UNCHANGED <<zones, mode, deliverySettings, zonesLock, placed>>

LockDeliveryCatalog(p) ==
  /\ DeliveryAt(p, "lock")
  /\ zonesLock = None
  /\ zonesLock' = p
  /\ DeliveryGo(p, [deliveryHandlers[p] EXCEPT !.step = "check"])
  /\ UNCHANGED <<zones, mode, deliverySettings, placed>>

(* The row that merge() makes of the stored one and the DTO.               *)
ZoneWith(old, dto) ==
  [f \in {"area", "fee", "active"} |-> IF dto[f] = None THEN old[f] ELSE dto[f]]

EnsureActiveZoneRemains(z) == mode = "ZONES" => ActiveZones \ {z} # {}

(* Overlaps are forbidden with inactive zones as well.                     *)
EnsureGeometry(z, area) ==
  \A y \in DOMAIN zones \ {z} : zones[y].area \cap area = {}

Permitted(h) ==
  CASE h.kind = "create" -> /\ EnsureGeometry(None, h.dto.area)
                            /\ DOMAIN zones # Zones
    [] h.kind = "update" ->
         /\ h.zone \in DOMAIN zones
         /\ zones[h.zone].active /\ h.dto.active = FALSE => EnsureActiveZoneRemains(h.zone)
         /\ EnsureGeometry(h.zone, ZoneWith(zones[h.zone], h.dto).area)
    [] h.kind = "remove" ->
         /\ h.zone \in DOMAIN zones
         /\ zones[h.zone].active => EnsureActiveZoneRemains(h.zone)
    [] h.kind = "mode" -> h.value = "ZONES" => ActiveZones # {}

(* All the reads of the transaction; a 404, 400 or 409 rolls it back.      *)
CheckDelivery(p) ==
  /\ DeliveryAt(p, "check")
  /\ IF Permitted(deliveryHandlers[p])
     THEN /\ DeliveryGo(p, [deliveryHandlers[p] EXCEPT !.step = "write"])
          /\ UNCHANGED zonesLock
     ELSE DeliveryEnd(p) /\ zonesLock' = None
  /\ UNCHANGED <<zones, mode, deliverySettings, placed>>

WriteZone(p) ==
  LET h == deliveryHandlers[p] IN
  /\ DeliveryAt(p, "write")
  /\ \/ /\ h.kind = "create"
        /\ \E z \in Zones \ DOMAIN zones : zones' = Put(zones, z, h.dto)
     \/ h.kind = "update" /\ zones' = [zones EXCEPT ![h.zone] = ZoneWith(@, h.dto)]
     \/ h.kind = "remove" /\ zones' = Without(zones, h.zone)
  /\ zonesLock' = None
  /\ DeliveryEnd(p)
  /\ UNCHANGED <<mode, deliverySettings, placed>>

WriteMode(p) ==
  /\ DeliveryAt(p, "write") /\ deliveryHandlers[p].kind = "mode"
  /\ mode' = deliveryHandlers[p].value
  /\ zonesLock' = None
  /\ DeliveryEnd(p)
  /\ UNCHANGED <<zones, deliverySettings, placed>>

(* PATCH of store_location and of delivery_fee_tiers, validated.           *)
SetStore ==
  /\ ~store
  /\ store' = TRUE
  /\ UNCHANGED <<zones, mode, tiers, zonesLock, placed, deliveryHandlers>>

SetTiers(table) ==
  /\ tiers' = table
  /\ UNCHANGED <<zones, mode, store, zonesLock, placed, deliveryHandlers>>

(***************************************************************************)
(* The delivery of an order: computeDelivery(), read by read.              *)
(***************************************************************************)
(* The address of the order has a spot, or no coordinates: None.           *)
ReadDeliveryMode(p, spot) ==
  /\ DeliveryAt(p, "waiting")
  /\ DeliveryGo(p, [step |-> IF mode = "DISTANCE" THEN "distance" ELSE "zones",
                    spot |-> spot])
  /\ UNCHANGED <<zones, mode, deliverySettings, zonesLock, placed>>

(* The first tier that the distance fits in.                               *)
FeeForDistance(metres) ==
  LET fits == {i \in 1..Len(tiers) :
                 tiers[i].maxMeters = None \/ metres <= tiers[i].maxMeters}
  IN tiers[CHOOSE i \in fits : \A j \in fits : i <= j].fee

Resolve(spot) == {z \in ActiveZones : spot \in zones[z].area}

(* Without coordinates distance is free, and no zone covers them.          *)
ComputeDelivery(way, spot) ==
  IF way = "distance"
  THEN {ByDistance(IF spot = None THEN 0 ELSE FeeForDistance(DistanceOf[spot]))}
  ELSE IF Resolve(spot) = {}
  THEN {[mode |-> "ZONES", zone |-> None, covered |-> FALSE, fee |-> 0]}
  ELSE {[mode |-> "ZONES", zone |-> z, covered |-> TRUE, fee |-> zones[z].fee] :
          z \in Resolve(spot)}

(* The rest of computeDelivery(), which needs the store if there are       *)
(* coordinates; the order is placed, or refused with a 400 or a 404.       *)
PlaceDelivery(p) ==
  LET h == deliveryHandlers[p] IN
  /\ h.step \in {"distance", "zones"}
  /\ \E delivery \in ComputeDelivery(h.step, h.spot) :
       placed' = IF delivery.covered /\ (h.spot # None => store) THEN delivery ELSE placed
  /\ DeliveryEnd(p)
  /\ UNCHANGED <<zones, mode, deliverySettings, zonesLock>>

(* None is a field that is left out; no check is about the fee, so to leave*)
(* it out is to give it the value it has.                                  *)
DeliveryDtos == [area : Areas \cup {None}, fee : Fees, active : {TRUE, FALSE, None}]

DeliveryNext ==
  \/ SetStore
  \/ \E table \in TierTables : SetTiers(table)
  \/ \E p \in Handlers :
       \/ \E kind \in {"create", "update"}, z \in Zones \cup {None}, dto \in DeliveryDtos :
            StartZone(p, kind, z, dto)
       \/ \E z \in Zones : StartZone(p, "remove", z, None)
       \/ \E value \in {"DISTANCE", "ZONES"} : StartMode(p, value)
       \/ LockDeliveryCatalog(p) \/ CheckDelivery(p) \/ WriteZone(p) \/ WriteMode(p)
       \/ \E spot \in Spots \cup {None} : ReadDeliveryMode(p, spot)
       \/ PlaceDelivery(p)

(***************************************************************************)
(* Properties.                                                             *)
(***************************************************************************)
(* delivery-zones.service.ts:108: while zones decide, there is an active   *)
(* one, whichever deactivations, removals and changes of mode overlap.     *)
ZonesModeHasAZone == mode = "ZONES" => ActiveZones # {}

(* delivery-zones.service.ts:125: zones written at the same time do not    *)
(* overlap, so that no spot has two fees to choose between.                *)
OneZonePerSpot == \A s \in Spots : Cardinality({z \in DOMAIN zones : s \in zones[z].area}) <= 1

(* orders.service.ts:979: though the mode is read before the zones, no     *)
(* order is delivered for the 0 of a spot that no zone covers.             *)
UncoveredIsNotAQuotation ==
  placed.mode = "ZONES" => placed.zone \in Zones /\ placed.fee \in Fees

(* delivery-zones.service.ts:102: while zones decide, there is a zone to   *)
(* order to, and no address has two fees to choose between, or a fee of    *)
(* nothing.                                                                *)
OneFeePerSpot == ZonesModeHasAZone /\ OneZonePerSpot /\ UncoveredIsNotAQuotation

=============================================================================
