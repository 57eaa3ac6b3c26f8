------------------------------- MODULE Catalog -------------------------------
(***************************************************************************)
(* menu.service.ts and the catalogs of options of a product: fries types,  *)
(* sauces, beverages and extra portions, four services of one pattern.  No *)
(* request locks anything: it reads rows and saves them, statement by      *)
(* statement.  save() writes the whole row that was read, also columns that*)
(* another request has changed meanwhile, and inserts it again if it is    *)
(* gone.  A name that is taken is a 409 at any save, and left to chance.   *)
(***************************************************************************)
EXTENDS Handlers

CONSTANTS
  OptionIds,    \* bound: options ever created, by kind
  ItemIds       \* bound: products ever created

VARIABLES
  kind,         \* which of the four services: they have nothing in common
  options,      \* its table: id -> isDefault
  category,     \* the category of the products exists
  items,        \* the table menu_items: ids
  links,        \* menu_item_<options>: <<item, option>>
  assigned,     \* history: the links that the admin has asked for
  stale,        \* history: a default that was not one any more was saved
  crowded,      \* history: requests have been in progress at the same time
  catalogHandlers

catalogTables == <<options, category, items, links, assigned>>
catalogVars == <<kind, catalogTables, stale, crowded, catalogHandlers>>

Kinds == {"friesTypes", "sauces", "beverages", "extraPortions"}

CatalogInit ==
  /\ kind \in Kinds
  /\ options = <<>> /\ category = TRUE
  /\ items = {} /\ links = {} /\ assigned = {}
  /\ stale = FALSE /\ crowded = FALSE
  /\ catalogHandlers = [p \in Handlers |-> Waiting]

CatalogGo(p, to) == catalogHandlers' = Goes(catalogHandlers, p, to)
CatalogAt(p, step) == At(catalogHandlers, p, step)
CatalogEnd(p) == catalogHandlers' = Ends(catalogHandlers, p)

StartRequest(p, request) ==
  /\ CatalogAt(p, "waiting")
  /\ CatalogGo(p, request)
  /\ crowded' = (crowded \/ \E q \in Handlers \ {p} : ~CatalogAt(q, "waiting"))
  /\ UNCHANGED <<kind, catalogTables, stale>>

(* A 404, 409 or 500, at this step.                                        *)
Refuse(p) == CatalogEnd(p) /\ UNCHANGED <<kind, catalogTables, stale, crowded>>

LinksOf(item) == {l[2] : l \in {k \in links : k[1] = item}}

(***************************************************************************)
(* The options.                                                            *)
(***************************************************************************)
StartOption(p, op, id, isDefault) ==
  /\ op = "create" <=> id = None
  /\ isDefault # None => op # "remove" /\ (isDefault => kind = "friesTypes")
  /\ StartRequest(p, [step |-> "findOption", op |-> op, id |-> id, isDefault |-> isDefault])

(* findOne and merge(): the row to be saved.                               *)
FindOption(p) ==
  LET h == catalogHandlers[p] IN
  /\ CatalogAt(p, "findOption")
  /\ IF h.op = "create" \/ h.id \in DOMAIN options
     THEN CatalogGo(p,
            IF h.op = "remove" THEN [step |-> "unlink", id |-> h.id]
            ELSE [step |-> "saveOption", id |-> h.id, asked |-> h.isDefault = TRUE,
                  row |-> IF h.isDefault # None THEN h.isDefault
                          ELSE h.id # None /\ options[h.id]])
     ELSE CatalogEnd(p)
  /\ UNCHANGED <<kind, catalogTables, stale, crowded>>

(* Mutant: the other defaults are cleared before the option is saved.      *)
ClearedBefore(h, id) == Waiting

AfterSave(h, id) == IF h.asked THEN [step |-> "clear", id |-> id] ELSE Waiting

SaveOption(p) ==
  LET h == catalogHandlers[p] IN
  /\ CatalogAt(p, "saveOption")
  /\ \E id \in Saves(h.id, OptionIds[kind], options) :
       /\ options' = Put(options, id, h.row)
       /\ CatalogGo(p, AfterSave(h, id))
       /\ stale' = (stale \/ (h.row /\ ~h.asked /\ ~(id \in DOMAIN options /\ options[id])))
  /\ UNCHANGED <<kind, category, items, links, assigned, crowded>>

ClearOtherDefaults(p) ==
  /\ CatalogAt(p, "clear")
  /\ options' = [o \in DOMAIN options |-> options[o] /\ o = catalogHandlers[p].id]
  /\ CatalogEnd(p)
  /\ UNCHANGED <<kind, category, items, links, assigned, stale, crowded>>

(* The links first, or the foreign key would refuse the removal ...        *)
UnlinkOption(p) ==
  LET id == catalogHandlers[p].id IN
  /\ CatalogAt(p, "unlink")
  /\ links' = {l \in links : l[2] # id}
  /\ CatalogGo(p, [step |-> "deleteOption", id |-> id])
  /\ UNCHANGED <<kind, options, category, items, assigned, stale, crowded>>

(* ... as it does if a product has taken the option in between.            *)
DeleteOption(p) ==
  LET id == catalogHandlers[p].id IN
  /\ CatalogAt(p, "deleteOption")
  /\ IF \E l \in links : l[2] = id
     THEN UNCHANGED <<options, assigned>>
     ELSE /\ options' = Without(options, id)
          /\ assigned' = {l \in assigned : l[2] # id}
  /\ CatalogEnd(p)
  /\ UNCHANGED <<kind, category, items, links, stale, crowded>>

OptionNext(p) ==
  \/ \E op \in {"create", "update", "remove"}, id \in OptionIds[kind] \cup {None},
        isDefault \in {TRUE, FALSE, None} : StartOption(p, op, id, isDefault)
  \/ FindOption(p) \/ SaveOption(p) \/ UnlinkOption(p) \/ DeleteOption(p)
  \/ catalogHandlers[p].step \in {"findOption", "saveOption"} /\ Refuse(p)

(* The four services: only fries types have a default.                     *)
FriesTypesService(p) ==
  kind = "friesTypes" /\ (OptionNext(p) \/ ClearOtherDefaults(p))
SaucesService(p) == kind = "sauces" /\ OptionNext(p)
BeveragesService(p) == kind = "beverages" /\ OptionNext(p)
ExtraPortionsService(p) == kind = "extraPortions" /\ OptionNext(p)

(***************************************************************************)
(* The products and their category.                                        *)
(***************************************************************************)
(* The DTO of a PATCH may leave the options out: None.  That of a POST that*)
(* does is one with none of them.                                          *)
StartItem(p, op, item, ids) ==
  /\ op = "create" <=> item = None
  /\ ids # None => op \in {"create", "update"}
  /\ op = "create" => ids # None
  /\ StartRequest(p, [step |-> "findItem", op |-> op, item |-> item, ids |-> ids])

(* findOne with its relations; an image needs none, and links none.        *)
FindItem(p) ==
  LET h == catalogHandlers[p] IN
  /\ CatalogAt(p, "findItem")
  /\ IF (h.op = "create" /\ category) \/ h.item \in items
     THEN CatalogGo(p,
            [step |-> IF h.op \in {"create", "update"} THEN "findByIds" ELSE h.op,
             item |-> h.item, ids |-> h.ids,
             loaded |-> IF h.op = "update" THEN LinksOf(h.item) ELSE {}])
     ELSE CatalogEnd(p)
  /\ UNCHANGED <<kind, catalogTables, stale, crowded>>

(* Mutant: options that a PATCH leaves out are taken away.                 *)
OnlyAsked(h) == IF h.ids = None THEN {} ELSE h.ids

Related(h) == IF h.ids = None THEN h.loaded ELSE h.ids

FindByIds(p) ==
  LET h == catalogHandlers[p] IN
  /\ CatalogAt(p, "findByIds")
  /\ IF h.ids = None \/ h.ids \subseteq DOMAIN options
     THEN CatalogGo(p, [step |-> "saveItem", item |-> h.item, ids |-> h.ids,
                        related |-> Related(h)])
     ELSE CatalogEnd(p)
  /\ UNCHANGED <<kind, catalogTables, stale, crowded>>

(* The row and its links; an option or a category that is gone is a 500.   *)
SaveItem(p) ==
  LET h == catalogHandlers[p] IN
  /\ CatalogAt(p, "saveItem")
  /\ \/ /\ category
        /\ h.related \subseteq DOMAIN options
        /\ \E item \in (IF h.item = None THEN ItemIds \ items ELSE {h.item}) :
             LET kept == {l \in links : l[1] # item}
                 new == {<<item, o>> : o \in h.related} IN
             /\ items' = items \cup {item}
             /\ links' = kept \cup new
             /\ assigned' = IF h.ids = None THEN assigned
                            ELSE {l \in assigned : l[1] # item} \cup new
     \/ /\ ~(category /\ h.related \subseteq DOMAIN options) \/ ItemIds \subseteq items
        /\ UNCHANGED <<items, links, assigned>>
  /\ CatalogEnd(p)
  /\ UNCHANGED <<kind, options, category, stale, crowded>>

(* save() of the row alone: a product removed meanwhile is back.           *)
UpdateItemImage(p) ==
  /\ CatalogAt(p, "image")
  /\ items' = IF category THEN items \cup {catalogHandlers[p].item} ELSE items
  /\ CatalogEnd(p)
  /\ UNCHANGED <<kind, options, category, links, assigned, stale, crowded>>

(* The links of a product go with it.                                      *)
RemoveItem(p) ==
  LET item == catalogHandlers[p].item IN
  /\ CatalogAt(p, "remove")
  /\ items' = items \ {item}
  /\ links' = {l \in links : l[1] # item}
  /\ assigned' = {l \in assigned : l[1] # item}
  /\ CatalogEnd(p)
  /\ UNCHANGED <<kind, options, category, stale, crowded>>

StartCategory(p, op) ==
  /\ op = "removeCategory" => category /\ items = {}
  /\ op = "createCategory" => ~category
  /\ op = "updateCategory" => category
  /\ StartRequest(p, [step |-> op])

(* Also by the save() of one that was read before it was removed.          *)
SaveCategory(p) ==
  /\ CatalogAt(p, "createCategory") \/ CatalogAt(p, "updateCategory")
  /\ category' = TRUE
  /\ CatalogEnd(p)
  /\ UNCHANGED <<kind, options, items, links, assigned, stale, crowded>>

(* onDelete RESTRICT: a product created meanwhile keeps its category.      *)
RemoveCategory(p) ==
  /\ CatalogAt(p, "removeCategory")
  /\ category' = (items # {})
  /\ CatalogEnd(p)
  /\ UNCHANGED <<kind, options, items, links, assigned, stale, crowded>>

MenuService(p) ==
  \/ \E op \in {"create", "update", "image", "remove"}, item \in ItemIds \cup {None},
        ids \in (SUBSET OptionIds[kind]) \cup {None} : StartItem(p, op, item, ids)
  \/ FindItem(p) \/ FindByIds(p) \/ SaveItem(p) \/ UpdateItemImage(p) \/ RemoveItem(p)
  \/ \E op \in {"createCategory", "updateCategory", "removeCategory"} : StartCategory(p, op)
  \/ SaveCategory(p) \/ RemoveCategory(p)
  \/ catalogHandlers[p].step \in {"saveItem", "createCategory", "updateCategory"}
       /\ Refuse(p)

CatalogNext ==
  \E p \in Handlers :
    \/ FriesTypesService(p) \/ SaucesService(p) \/ BeveragesService(p)
    \/ ExtraPortionsService(p)
    \/ MenuService(p)

(***************************************************************************)
(* Properties.                                                             *)
(***************************************************************************)
(* fries-types.service.ts:118: when no other default is being cleared there*)
(* is at most one, however many requests make one; but for a request about *)
(* something else that saves a default it has read and that is none now.   *)
OneDefaultUnlessStale ==
  \/ stale
  \/ \E p \in Handlers : CatalogAt(p, "clear")
  \/ Cardinality({o \in DOMAIN options : options[o]}) <= 1

(* menu.service.ts:329: requests that do not overlap leave a product with  *)
(* the options last assigned to it, less those that have been removed.     *)
LinksAreThoseAssigned ==
  (\A p \in Handlers : CatalogAt(p, "waiting")) /\ ~crowded => links = assigned

=============================================================================
