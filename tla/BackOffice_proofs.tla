-------------------------- MODULE BackOffice_proofs --------------------------
(***************************************************************************)
(* What the locks of the small components are worth, for any number of     *)
(* requests, users, addresses, promotions and devices.  In each of them a  *)
(* handler reads, decides, and writes some statements later: the inductive *)
(* invariant says what it may rely on at each of its places, and that it   *)
(* still may is shown from the lock that it holds in between.              *)
(***************************************************************************)
EXTENDS BackOffice, FiniteSetTheorems, TLAPS

(* A set whose members are all the same has at most one.                   *)
LEMMA AtMostOne ==
  ASSUME NEW S, \A a, b \in S : a = b
  PROVE  Cardinality(S) <= 1
<1>1. CASE S = {}
  BY <1>1, FS_EmptySet
<1>2. CASE S # {}
  <2>1. PICK a : a \in S
    BY <1>2
  <2>2. S = {a}
    BY <2>1
  <2> QED BY <2>2, FS_Singleton
<1> QED BY <1>1, <1>2

(***************************************************************************)
(* Addresses.  A request that makes its address the default writes what it *)
(* has read a statement earlier, under the lock of the owner.              *)
(***************************************************************************)
AddressRow == [owner : Owners, isDefault : BOOLEAN]
AddressRequest(steps) ==
  [step : steps, user : Owners, kind : {"create", "update", "remove"},
   address : Places, isDefault : BOOLEAN \cup {None}]
AddressWrite ==
  [step : {"write"}, user : Owners, kind : {"create", "update", "remove"},
   address : Places, isDefault : BOOLEAN \cup {None}, unset : SUBSET Places]

AddressesTyped ==
  /\ DOMAIN addresses \subseteq Places
  /\ addresses \in [DOMAIN addresses -> AddressRow]
  /\ ownerLock \in [Owners -> Handlers \cup {None}]
  /\ addressHandlers \in
       [Handlers -> {Waiting} \cup AddressRequest({"lock", "read"}) \cup AddressWrite]

(* A creation says whether it is the default; past its first statement the *)
(* owner is locked; and what is about to be written is about the defaults  *)
(* that there are, and an address of the owner.                            *)
AddressReliable(p) ==
  LET h == addressHandlers[p] IN
  /\ h.step # "waiting" /\ h.kind = "create" => h.isDefault # None
  /\ h.step \in {"read", "write"} => ownerLock[h.user] = p
  /\ h.step = "write" =>
       /\ h.unset = IF h.isDefault = TRUE THEN Defaults(h.user) ELSE {}
       /\ h.kind # "create" => /\ h.address \in Known
                               /\ addresses[h.address].owner = h.user

OneDefault(u) == \A a, b \in Defaults(u) : a = b

AddressInv ==
  /\ AddressesTyped
  /\ \A p \in Handlers : AddressReliable(p)
  /\ \A u \in Owners : OneDefault(u)

(* In the beginning nobody has an address.                                 *)
LEMMA AddressesBegin == AddressesInit => AddressInv
  BY DEF AddressesInit, AddressInv, AddressesTyped, AddressReliable, OneDefault,
         Defaults, Known, Waiting

(* The addresses of all owners but u are as they were.                     *)
Spared(u) ==
  /\ \A a \in DOMAIN addresses : addresses[a].owner # u =>
       a \in DOMAIN addresses' /\ addresses'[a] = addresses[a]
  /\ \A a \in DOMAIN addresses' : addresses'[a].owner # u =>
       a \in DOMAIN addresses /\ addresses'[a] = addresses[a]

(* A step of p about u, whom no other handler has locked, leaves the others*)
(* what they rely on.                                                      *)
LEMMA OtherAddressesRely ==
  ASSUME AddressInv, NEW p \in Handlers, NEW u \in Owners, NEW to,
         addressHandlers' = [addressHandlers EXCEPT ![p] = to],
         ownerLock[u] \in {p, None},
         \A v \in Owners \ {u} : ownerLock'[v] = ownerLock[v],
         Spared(u)
  PROVE  /\ \A q \in Handlers \ {p} : AddressReliable(q)'
         /\ \A v \in Owners \ {u} : Defaults(v)' = Defaults(v)
<1>1. ASSUME NEW v \in Owners \ {u} PROVE Defaults(v)' = Defaults(v)
  BY DEF Defaults, Known, Spared
<1>2. ASSUME NEW q \in Handlers \ {p} PROVE AddressReliable(q)'
  <2>1. addressHandlers'[q] = addressHandlers[q]
    BY DEF AddressInv, AddressesTyped
  <2>2. /\ AddressReliable(q)
        /\ addressHandlers[q] \in
             {Waiting} \cup AddressRequest({"lock", "read"}) \cup AddressWrite
    BY DEF AddressInv, AddressesTyped
  <2>3. CASE addressHandlers[q].step \in {"read", "write"}
    <3>1. addressHandlers[q].user \in Owners
      BY <2>2, <2>3 DEF Waiting, AddressRequest, AddressWrite
    <3>2. addressHandlers[q].user # u
      BY <2>2, <2>3, HandlersAssumption DEF AddressReliable
    <3>3. Defaults(addressHandlers[q].user)' = Defaults(addressHandlers[q].user)
      BY <1>1, <3>1, <3>2
    <3> QED BY <2>1, <2>2, <2>3, <3>1, <3>2, <3>3 DEF AddressReliable, Spared, Known
  <2>4. CASE addressHandlers[q].step \notin {"read", "write"}
    BY <2>1, <2>2, <2>4 DEF AddressReliable
  <2> QED BY <2>3, <2>4
<1> QED BY <1>1, <1>2

(* Having ended, a request relies on nothing.                              *)
LEMMA FinishKeeps ==
  ASSUME AddressInv, NEW p \in Handlers, NEW u \in Owners,
         ownerLock[u] = p, addressHandlers[p].user = u, Finish(p), Spared(u),
         DOMAIN addresses' \subseteq Places,
         addresses' \in [DOMAIN addresses' -> AddressRow], OneDefault(u)'
  PROVE  AddressInv'
<1>1. addressHandlers' = [addressHandlers EXCEPT ![p] = Waiting]
  BY DEF Finish, Ends, Goes
<1>2. \A v \in Owners \ {u} : ownerLock'[v] = ownerLock[v]
  BY DEF Finish, AddressInv, AddressesTyped
<1>3. /\ \A q \in Handlers \ {p} : AddressReliable(q)'
      /\ \A v \in Owners \ {u} : Defaults(v)' = Defaults(v)
  BY <1>1, <1>2, OtherAddressesRely
<1>4. AddressReliable(p)'
  BY <1>1 DEF AddressReliable, Waiting, AddressInv, AddressesTyped
<1>5. AddressesTyped'
  BY <1>1 DEF AddressInv, AddressesTyped, Finish
<1>6. \A v \in Owners : OneDefault(v)'
  BY <1>3 DEF OneDefault, AddressInv
<1> QED BY <1>3, <1>4, <1>5, <1>6 DEF AddressInv

(* A request that writes has locked its owner, and knows the defaults.     *)
LEMMA WriterKnows ==
  ASSUME AddressInv, NEW p \in Handlers, AddressAt(p, "write")
  PROVE  /\ addressHandlers[p] \in AddressWrite
         /\ ownerLock[addressHandlers[p].user] = p
         /\ AddressReliable(p)
  BY DEF AddressInv, AddressesTyped, AddressAt, At, AddressReliable, Waiting,
         AddressRequest, AddressWrite

LEMMA CreateKeeps ==
  ASSUME AddressInv, NEW p \in Handlers, CreateAddress(p)
  PROVE  AddressInv'
<1>0. PICK h, u : h = addressHandlers[p] /\ u = h.user
  OBVIOUS
<1>1. /\ h \in AddressWrite /\ h.kind = "create" /\ ownerLock[u] = p
      /\ AddressReliable(p) /\ h.step = "write"
  BY <1>0, WriterKnows DEF CreateAddress, AddressAt, At
<1>2. u \in Owners /\ h.isDefault \in BOOLEAN
  BY <1>0, <1>1 DEF AddressWrite, AddressReliable
<1>3. PICK a \in Places \ Known :
        addresses' = [b \in Known \cup {a} |->
          IF b = a THEN [owner |-> u, isDefault |-> h.isDefault]
                   ELSE Unset(addresses, h.unset)[b]]
  BY <1>0 DEF CreateAddress
<1>4. h.unset = IF h.isDefault = TRUE THEN Defaults(u) ELSE {}
  BY <1>0, <1>1 DEF AddressReliable
<1>5. addresses \in [Known -> AddressRow] /\ Known \subseteq Places
  BY DEF AddressInv, AddressesTyped, Known
<1>6. /\ DOMAIN addresses' = Known \cup {a}
      /\ addresses'[a] = [owner |-> u, isDefault |-> h.isDefault]
      /\ \A b \in Known : addresses'[b] = IF b \in h.unset
           THEN [addresses[b] EXCEPT !.isDefault = FALSE] ELSE addresses[b]
  BY <1>3, <1>5 DEF Unset, Known
<1>7. addresses' \in [DOMAIN addresses' -> AddressRow] /\ DOMAIN addresses' \subseteq Places
  <2>1. ASSUME NEW b \in Known PROVE addresses'[b] \in AddressRow
    BY <1>5, <1>6 DEF AddressRow
  <2>2. addresses'[a] \in AddressRow
    BY <1>2, <1>6 DEF AddressRow
  <2> QED BY <1>3, <1>5, <1>6, <2>1, <2>2
<1>8. Spared(u)
  BY <1>4, <1>5, <1>6 DEF Spared, Known, Defaults, AddressRow
<1>9. OneDefault(u)'
  BY <1>2, <1>4, <1>5, <1>6 DEF OneDefault, Defaults, Known, AddressRow, AddressInv
<1> QED BY <1>0, <1>1, <1>2, <1>7, <1>8, <1>9, FinishKeeps DEF CreateAddress

LEMMA UpdateKeeps ==
  ASSUME AddressInv, NEW p \in Handlers, UpdateAddress(p)
  PROVE  AddressInv'
<1>0. PICK h, u : h = addressHandlers[p] /\ u = h.user
  OBVIOUS
<1>1. /\ h \in AddressWrite /\ h.kind = "update" /\ ownerLock[u] = p
      /\ AddressReliable(p) /\ h.step = "write"
  BY <1>0, WriterKnows DEF UpdateAddress, AddressAt, At
<1>2. u \in Owners /\ h.isDefault \in BOOLEAN \cup {None}
  BY <1>0, <1>1 DEF AddressWrite
<1>3. /\ h.unset = IF h.isDefault = TRUE THEN Defaults(u) ELSE {}
      /\ h.address \in Known /\ addresses[h.address].owner = u
  BY <1>0, <1>1 DEF AddressReliable
<1>4. addresses \in [Known -> AddressRow] /\ Known \subseteq Places
  BY DEF AddressInv, AddressesTyped, Known
<1>5. /\ addresses' = [a \in Known |-> addresses'[a]]
      /\ DOMAIN addresses' = Known
      /\ \A a \in Known : addresses'[a] =
           IF a = h.address /\ h.isDefault # None
           THEN [addresses[a] EXCEPT !.isDefault = h.isDefault]
           ELSE IF a \in h.unset THEN [addresses[a] EXCEPT !.isDefault = FALSE]
           ELSE addresses[a]
  BY <1>0, <1>4 DEF UpdateAddress, Unset, Known
<1>6. addresses' \in [DOMAIN addresses' -> AddressRow] /\ DOMAIN addresses' \subseteq Places
  <2>1. ASSUME NEW a \in Known PROVE addresses'[a] \in AddressRow
    <3>1. addresses[a] \in AddressRow
      BY <1>4
    <3>2. [addresses[a] EXCEPT !.isDefault = FALSE] \in AddressRow
      BY <3>1 DEF AddressRow
    <3>3. h.isDefault # None => [addresses[a] EXCEPT !.isDefault = h.isDefault] \in AddressRow
      BY <1>2, <3>1 DEF AddressRow
    <3> QED BY <1>5, <3>1, <3>2, <3>3
  <2> QED BY <1>4, <1>5, <2>1
<1>7. Spared(u)
  BY <1>3, <1>4, <1>5 DEF Spared, Known, Defaults, AddressRow
<1>8. OneDefault(u)'
  BY <1>2, <1>3, <1>4, <1>5 DEF OneDefault, Defaults, Known, AddressRow, AddressInv
<1> QED BY <1>0, <1>1, <1>2, <1>6, <1>7, <1>8, FinishKeeps DEF UpdateAddress

LEMMA RemoveKeeps ==
  ASSUME AddressInv, NEW p \in Handlers, RemoveAddress(p)
  PROVE  AddressInv'
<1>0. PICK h, u : h = addressHandlers[p] /\ u = h.user
  OBVIOUS
<1>1. /\ h \in AddressWrite /\ h.kind = "remove" /\ ownerLock[u] = p
      /\ AddressReliable(p) /\ h.step = "write"
  BY <1>0, WriterKnows DEF RemoveAddress, AddressAt, At
<1>2. u \in Owners /\ h.address \in Known /\ addresses[h.address].owner = u
  BY <1>0, <1>1 DEF AddressWrite, AddressReliable
<1>3. addresses \in [Known -> AddressRow] /\ Known \subseteq Places
  BY DEF AddressInv, AddressesTyped, Known
<1>4. addresses' = [a \in Known \ {h.address} |-> addresses[a]]
  BY <1>0 DEF RemoveAddress, Without, Known
<1>5. addresses' \in [DOMAIN addresses' -> AddressRow] /\ DOMAIN addresses' \subseteq Places
  BY <1>3, <1>4
<1>6. Spared(u)
  BY <1>2, <1>3, <1>4 DEF Spared, Known
<1>7. OneDefault(u)'
  BY <1>2, <1>4 DEF OneDefault, Defaults, Known, AddressInv
<1> QED BY <1>0, <1>1, <1>2, <1>5, <1>6, <1>7, FinishKeeps DEF RemoveAddress

(* Steps that write no address.                                            *)
LEMMA StartWriteKeeps ==
  ASSUME AddressInv, NEW p \in Handlers, NEW u \in Owners,
         NEW k \in {"create", "update", "remove"}, NEW a \in Places,
         NEW isDefault \in {TRUE, FALSE, None}, StartWrite(p, u, k, a, isDefault)
  PROVE  AddressInv'
<1> DEFINE to == [step |-> "lock", user |-> u, kind |-> k, address |-> a,
                  isDefault |-> isDefault]
<1>1. /\ addressHandlers' = [addressHandlers EXCEPT ![p] = to]
      /\ UNCHANGED <<addresses, ownerLock>>
  BY DEF StartWrite, AddressGo, Goes
<1>2. to \in AddressRequest({"lock", "read"})
  BY DEF AddressRequest
<1>3. AddressesTyped'
  BY <1>1, <1>2 DEF AddressInv, AddressesTyped
<1>4. ASSUME NEW q \in Handlers PROVE AddressReliable(q)'
  <2>1. CASE q = p
    <3>1. addressHandlers'[p] = to
      BY <1>1 DEF AddressInv, AddressesTyped
    <3> QED BY <2>1, <3>1 DEF AddressReliable, StartWrite
  <2>2. CASE q # p
    BY <1>1, <2>2 DEF AddressReliable, AddressInv, AddressesTyped, Defaults, Known
  <2> QED BY <2>1, <2>2
<1>5. \A v \in Owners : OneDefault(v)'
  BY <1>1 DEF OneDefault, Defaults, Known, AddressInv
<1> QED BY <1>3, <1>4, <1>5 DEF AddressInv

LEMMA LockOwnerKeeps ==
  ASSUME AddressInv, NEW p \in Handlers, LockOwner(p)
  PROVE  AddressInv'
<1>0. PICK h, u : h = addressHandlers[p] /\ u = h.user
  OBVIOUS
<1> DEFINE to == [h EXCEPT !.step = "read"]
<1>1. h \in AddressRequest({"lock", "read"}) /\ h.step = "lock" /\ AddressReliable(p)
  BY <1>0 DEF LockOwner, AddressAt, At, AddressInv, AddressesTyped, Waiting, AddressWrite
<1>2. /\ u \in Owners /\ to \in AddressRequest({"lock", "read"})
      /\ to.step = "read" /\ to.user = u /\ to.kind = h.kind
      /\ to.isDefault = h.isDefault
  BY <1>0, <1>1 DEF AddressRequest
<1>3. /\ addressHandlers' = [addressHandlers EXCEPT ![p] = to]
      /\ ownerLock[u] = None
      /\ ownerLock' = [ownerLock EXCEPT ![u] = p]
      /\ addresses' = addresses
  BY <1>0 DEF LockOwner, AddressGo, Goes
<1> HIDE DEF to
<1>4. AddressesTyped'
  BY <1>2, <1>3 DEF AddressInv, AddressesTyped
<1>5. addressHandlers'[p] = to /\ ownerLock'[u] = p
  BY <1>2, <1>3 DEF AddressInv, AddressesTyped
<1>6. AddressReliable(p)'
  BY <1>0, <1>1, <1>2, <1>5 DEF AddressReliable
<1>7. \A q \in Handlers \ {p} : AddressReliable(q)'
  <2>1. Spared(u)
    BY <1>3 DEF Spared
  <2>2. \A v \in Owners \ {u} : ownerLock'[v] = ownerLock[v]
    BY <1>3 DEF AddressInv, AddressesTyped
  <2> QED BY <1>2, <1>3, <2>1, <2>2, OtherAddressesRely
<1>8. \A v \in Owners : OneDefault(v)'
  BY <1>3 DEF OneDefault, Defaults, Known, AddressInv
<1> QED BY <1>4, <1>6, <1>7, <1>8 DEF AddressInv

LEMMA ReadAddressesKeeps ==
  ASSUME AddressInv, NEW p \in Handlers, ReadAddresses(p)
  PROVE  AddressInv'
<1>0. PICK h, u : h = addressHandlers[p] /\ u = h.user
  OBVIOUS
<1> DEFINE found == h.kind = "create" \/ (h.address \in Known /\ addresses[h.address].owner = u)
           unset == IF h.isDefault = TRUE THEN Defaults(u) ELSE {}
           to == [step |-> "write", user |-> u, kind |-> h.kind, address |-> h.address,
                  isDefault |-> h.isDefault, unset |-> unset]
<1>1. h \in AddressRequest({"lock", "read"}) /\ h.step = "read" /\ AddressReliable(p)
  BY <1>0 DEF ReadAddresses, AddressAt, At, AddressInv, AddressesTyped, Waiting,
              AddressWrite
<1>2. u \in Owners /\ ownerLock[u] = p
  BY <1>0, <1>1 DEF AddressRequest, AddressReliable
<1>3. addresses' = addresses
  BY DEF ReadAddresses
<1>4. Spared(u)
  BY <1>3 DEF Spared
<1>5. CASE ~found
  <2>1. Finish(p)
    BY <1>0, <1>5 DEF ReadAddresses
  <2>2. /\ DOMAIN addresses' \subseteq Places
        /\ addresses' \in [DOMAIN addresses' -> AddressRow]
    BY <1>3 DEF AddressInv, AddressesTyped
  <2>3. OneDefault(u)'
    BY <1>2, <1>3 DEF OneDefault, Defaults, Known, AddressInv
  <2> QED BY <1>0, <1>2, <1>4, <2>1, <2>2, <2>3, FinishKeeps
<1>6. CASE found
  <2>1. /\ addressHandlers' = [addressHandlers EXCEPT ![p] = to]
        /\ ownerLock' = ownerLock
    BY <1>0, <1>6 DEF ReadAddresses, AddressGo, Goes
  <2>2. unset \subseteq Places
    BY DEF Defaults, Known, AddressInv, AddressesTyped
  <2>3. to \in AddressWrite
    BY <1>0, <1>1, <2>2 DEF AddressWrite, AddressRequest
  <2>4. AddressesTyped'
    BY <1>3, <2>1, <2>3 DEF AddressInv, AddressesTyped
  <2>5. addressHandlers'[p] = to
    BY <2>1 DEF AddressInv, AddressesTyped
  <2>6. AddressReliable(p)'
    BY <1>0, <1>1, <1>2, <1>3, <1>6, <2>1, <2>5 DEF AddressReliable, Defaults, Known
  <2>7. \A q \in Handlers \ {p} : AddressReliable(q)'
    BY <1>2, <1>4, <2>1, OtherAddressesRely
  <2>8. \A v \in Owners : OneDefault(v)'
    BY <1>3 DEF OneDefault, Defaults, Known, AddressInv
  <2> QED BY <2>4, <2>6, <2>7, <2>8 DEF AddressInv
<1> QED BY <1>5, <1>6

LEMMA AddressesStep == AddressInv /\ [AddressesNext]_addressVars => AddressInv'
<1> SUFFICES ASSUME AddressInv, [AddressesNext]_addressVars PROVE AddressInv'
  OBVIOUS
<1>1. CASE UNCHANGED addressVars
  BY <1>1 DEF addressVars, AddressInv, AddressesTyped, AddressReliable, OneDefault,
              Defaults, Known
<1>2. CASE AddressesNext
  BY <1>2, StartWriteKeeps, LockOwnerKeeps, ReadAddressesKeeps, CreateKeeps,
     UpdateKeeps, RemoveKeeps DEF AddressesNext
<1> QED BY <1>1, <1>2

(* addresses.service.ts:60: of any number of users, with any number of     *)
(* requests at a time, nobody ever has more than one default address.      *)
THEOREM DefaultsStaySingle == Spec => []OneDefaultAddress
<1>1. Init => AddressInv
  BY AddressesBegin DEF Init
<1>2. AddressInv /\ [Next]_backOfficeVars => AddressInv'
  <2>1. [Next]_backOfficeVars => [AddressesNext]_addressVars
    BY DEF Next, OthersRest, backOfficeVars
  <2> QED BY <2>1, AddressesStep
<1>3. AddressInv => OneDefaultAddress
  <2> SUFFICES ASSUME AddressInv, NEW u \in Owners PROVE Cardinality(Defaults(u)) <= 1
    BY DEF OneDefaultAddress
  <2> QED BY AtMostOne DEF AddressInv, OneDefault
<1> QED BY <1>1, <1>2, <1>3, PTL DEF Spec

(***************************************************************************)
(* Promotions.  The advisory lock makes the check for overlaps and the save*)
(* one: what has been found not to overlap still does not when it is saved.*)
(***************************************************************************)
PromotionRow == [start : Days, end : Days, active : BOOLEAN]
PromotionRequest(steps) ==
  [step : steps, id : Promos \cup {None}, start : Days \cup {None},
   end : Days \cup {None}, active : BOOLEAN \cup {None}]
PromotionSave == [step : {"save"}, id : Promos \cup {None}, row : PromotionRow]

PromotionsTyped ==
  /\ DOMAIN promotions \subseteq Promos
  /\ promotions \in [DOMAIN promotions -> PromotionRow]
  /\ promoHandlers \in
       [Handlers -> {Waiting} \cup PromotionRequest({"catalog", "overlap"})
                      \cup PromotionSave]

(* Beside the rows other than id, row would be a second one for no date.   *)
FitsBeside(row, id) ==
  row.active => \A i \in DOMAIN promotions \ {id} :
                  promotions[i].active => ~Overlaps(promotions[i], row)

PromotionReliable(p) ==
  LET h == promoHandlers[p] IN
  /\ h.step \in {"catalog", "overlap"} /\ h.id = None => h.start # None /\ h.end # None
  /\ h.step \in {"overlap", "save"} => promotionsLock = p
  /\ h.step = "save" => FitsBeside(h.row, h.id)

PromotionInv ==
  /\ PromotionsTyped
  /\ \A p \in Handlers : PromotionReliable(p)
  /\ \A i \in DOMAIN promotions : FitsBeside(promotions[i], i)

LEMMA PromotionsBegin == PromotionsInit => PromotionInv
  BY DEF PromotionsInit, PromotionInv, PromotionsTyped, PromotionReliable, FitsBeside, Waiting

(* The row to be saved has its dates: those of a creation are given.       *)
LEMMA MergedIsARow ==
  ASSUME PromotionInv, NEW h \in PromotionRequest({"catalog", "overlap"}),
         h.id = None => h.start # None /\ h.end # None, Acceptable(h)
  PROVE  Merged(h) \in PromotionRow
<1>1. CASE h.id = None
  BY <1>1 DEF PromotionRequest, Merged, Or, PromotionRow
<1>2. CASE h.id # None
  <2>1. promotions[h.id] \in PromotionRow
    BY <1>2 DEF Acceptable, PromotionInv, PromotionsTyped
  <2> QED BY <1>2, <2>1 DEF PromotionRequest, Merged, Or, PromotionRow
<1> QED BY <1>1, <1>2

(* A step that saves nothing, of a handler that ends up reliable.          *)
LEMMA PromotionsKept ==
  ASSUME PromotionInv, NEW p \in Handlers,
         NEW to \in {Waiting} \cup PromotionRequest({"catalog", "overlap"}) \cup PromotionSave,
         promoHandlers' = [promoHandlers EXCEPT ![p] = to], promotions' = promotions,
         promotionsLock' = promotionsLock \/ promotionsLock \in {p, None},
         PromotionReliable(p)'
  PROVE  PromotionInv'
<1>1. PromotionsTyped'
  BY DEF PromotionInv, PromotionsTyped
<1>2. ASSUME NEW q \in Handlers \ {p} PROVE PromotionReliable(q)'
  <2>1. promoHandlers'[q] = promoHandlers[q] /\ PromotionReliable(q)
    BY DEF PromotionInv, PromotionsTyped
  <2> QED BY <2>1, HandlersAssumption DEF PromotionReliable, FitsBeside
<1>3. \A i \in DOMAIN promotions' : FitsBeside(promotions[i], i)'
  BY DEF PromotionInv, FitsBeside
<1> QED BY <1>1, <1>2, <1>3 DEF PromotionInv

LEMMA StartPromotionKeeps ==
  ASSUME PromotionInv, NEW p \in Handlers, NEW id \in Promos \cup {None},
         NEW start \in Days \cup {None}, NEW end \in Days \cup {None},
         NEW active \in {TRUE, FALSE, None}, StartPromotion(p, id, start, end, active)
  PROVE  PromotionInv'
<1> DEFINE to == [step |-> "catalog", id |-> id, start |-> start, end |-> end,
                  active |-> active]
<1>1. /\ promoHandlers' = [promoHandlers EXCEPT ![p] = to]
      /\ promotions' = promotions /\ promotionsLock' = promotionsLock
  BY DEF StartPromotion, PromoGo, Goes
<1>2. to \in PromotionRequest({"catalog", "overlap"})
  BY DEF PromotionRequest
<1>3. promoHandlers'[p] = to
  BY <1>1 DEF PromotionInv, PromotionsTyped
<1>4. PromotionReliable(p)'
  BY <1>3 DEF PromotionReliable, StartPromotion
<1> QED BY <1>1, <1>2, <1>4, PromotionsKept

LEMMA LockPromotionsKeeps ==
  ASSUME PromotionInv, NEW p \in Handlers, LockPromotions(p)
  PROVE  PromotionInv'
<1>0. PICK h : h = promoHandlers[p]
  OBVIOUS
<1> DEFINE to == [h EXCEPT !.step = "overlap"]
<1>1. /\ h \in PromotionRequest({"catalog", "overlap"}) /\ h.step = "catalog"
      /\ PromotionReliable(p)
  BY <1>0 DEF LockPromotions, PromoAt, At, PromotionInv, PromotionsTyped, Waiting,
              PromotionSave
<1>2. /\ to \in PromotionRequest({"catalog", "overlap"}) /\ to.step = "overlap"
      /\ to.id = h.id /\ to.start = h.start /\ to.end = h.end
  BY <1>1 DEF PromotionRequest
<1>3. /\ promoHandlers' = [promoHandlers EXCEPT ![p] = to]
      /\ promotions' = promotions /\ promotionsLock = None /\ promotionsLock' = p
  BY <1>0 DEF LockPromotions, PromoGo, Goes
<1> HIDE DEF to
<1>4. promoHandlers'[p] = to
  BY <1>3 DEF PromotionInv, PromotionsTyped
<1>5. PromotionReliable(p)'
  BY <1>0, <1>1, <1>2, <1>3, <1>4 DEF PromotionReliable
<1> QED BY <1>2, <1>3, <1>5, PromotionsKept

LEMMA CheckPromotionKeeps ==
  ASSUME PromotionInv, NEW p \in Handlers, CheckPromotion(p)
  PROVE  PromotionInv'
<1>0. PICK h : h = promoHandlers[p]
  OBVIOUS
<1>1. /\ h \in PromotionRequest({"catalog", "overlap"}) /\ h.step = "overlap"
      /\ PromotionReliable(p) /\ promotionsLock = p
  BY <1>0 DEF CheckPromotion, PromoAt, At, PromotionInv, PromotionsTyped, Waiting,
              PromotionSave, PromotionReliable
<1>2. promotions' = promotions
  BY DEF CheckPromotion
<1>3. CASE Acceptable(h)
  <2>1. PICK row : row = Merged(h)
    OBVIOUS
  <2> DEFINE to == [step |-> "save", id |-> h.id, row |-> row]
  <2>2. /\ promoHandlers' = [promoHandlers EXCEPT ![p] = to]
        /\ promotionsLock' = promotionsLock
    BY <1>0, <1>3, <2>1 DEF CheckPromotion, PromoGo, Goes
  <2>3. row \in PromotionRow
    BY <1>0, <1>1, <1>3, <2>1, MergedIsARow DEF PromotionReliable
  <2>4. to \in PromotionSave
    BY <1>1, <2>3 DEF PromotionSave, PromotionRequest
  <2>5. promoHandlers'[p] = to
    BY <2>2 DEF PromotionInv, PromotionsTyped
  <2>6. FitsBeside(row, h.id)
    BY <1>3, <2>1 DEF Acceptable, FitsBeside
  <2>7. PromotionReliable(p)'
    BY <1>1, <1>2, <2>2, <2>5, <2>6 DEF PromotionReliable, FitsBeside
  <2> QED BY <1>2, <2>2, <2>4, <2>7, PromotionsKept
<1>4. CASE ~Acceptable(h)
  <2>1. /\ promoHandlers' = [promoHandlers EXCEPT ![p] = Waiting]
        /\ promotionsLock \in {p, None}
    BY <1>0, <1>1, <1>4 DEF CheckPromotion, PromoEnd, Ends, Goes
  <2>2. PromotionReliable(p)'
    BY <2>1 DEF PromotionReliable, Waiting, PromotionInv, PromotionsTyped
  <2> QED BY <1>2, <2>1, <2>2, PromotionsKept
<1> QED BY <1>3, <1>4

LEMMA SavePromotionKeeps ==
  ASSUME PromotionInv, NEW p \in Handlers, SavePromotion(p)
  PROVE  PromotionInv'
<1>0. PICK h : h = promoHandlers[p]
  OBVIOUS
<1>1. h \in PromotionSave /\ promotionsLock = p /\ FitsBeside(h.row, h.id)
  BY <1>0 DEF SavePromotion, PromoAt, At, PromotionInv, PromotionsTyped, Waiting,
              PromotionRequest, PromotionReliable
<1>2. h.row \in PromotionRow
  BY <1>1 DEF PromotionSave
<1>3. /\ promoHandlers' = [promoHandlers EXCEPT ![p] = Waiting]
      /\ promotionsLock' = None
  BY DEF SavePromotion, PromoEnd, Ends, Goes
<1>4. PICK id \in Saves(h.id, Promos, promotions) : promotions' = Put(promotions, id, h.row)
  BY <1>0 DEF SavePromotion
<1>5. /\ DOMAIN promotions' = DOMAIN promotions \cup {id}
      /\ promotions'[id] = h.row
      /\ \A i \in DOMAIN promotions \ {id} : promotions'[i] = promotions[i]
  BY <1>4 DEF Put
<1>6. FitsBeside(h.row, id) /\ id \in Promos
  BY <1>1, <1>4, PromotionsAssumption
     DEF FitsBeside, Saves, PromotionSave, PromotionInv, PromotionsTyped
<1>7. PromotionsTyped'
  <2>1. promotions' \in [DOMAIN promotions' -> PromotionRow]
    <3>1. promotions' = [i \in DOMAIN promotions' |-> promotions'[i]]
      BY <1>4 DEF Put
    <3> QED BY <1>2, <1>5, <3>1 DEF PromotionInv, PromotionsTyped
  <2> QED BY <1>3, <1>5, <1>6, <2>1 DEF PromotionInv, PromotionsTyped
<1>8. ASSUME NEW q \in Handlers PROVE PromotionReliable(q)'
  <2>1. CASE q = p
    BY <1>3, <2>1 DEF PromotionReliable, Waiting, PromotionInv, PromotionsTyped
  <2>2. CASE q # p
    <3>1. promoHandlers'[q] = promoHandlers[q] /\ PromotionReliable(q)
      BY <1>3, <2>2 DEF PromotionInv, PromotionsTyped
    <3> QED BY <1>1, <2>2, <3>1 DEF PromotionReliable
  <2> QED BY <2>1, <2>2
<1>9. ASSUME NEW i \in DOMAIN promotions' PROVE FitsBeside(promotions[i], i)'
  <2> SUFFICES ASSUME promotions'[i].active, NEW j \in DOMAIN promotions' \ {i},
                      promotions'[j].active
               PROVE  ~Overlaps(promotions'[j], promotions'[i])
    BY DEF FitsBeside
  <2>1. CASE i = id
    BY <1>5, <1>6, <2>1 DEF FitsBeside
  <2>2. CASE i # id /\ j = id
    <3>1. ~Overlaps(promotions[i], h.row)
      BY <1>5, <1>6, <2>2 DEF FitsBeside
    <3>2. promotions[i] \in PromotionRow
      BY <1>5, <2>2 DEF PromotionInv, PromotionsTyped
    <3> QED BY <1>2, <1>5, <2>2, <3>1, <3>2, HandlersAssumption DEF Overlaps, PromotionRow
  <2>3. CASE i # id /\ j # id
    BY <1>5, <2>3 DEF FitsBeside, PromotionInv
  <2> QED BY <2>1, <2>2, <2>3
<1> QED BY <1>7, <1>8, <1>9 DEF PromotionInv

LEMMA PromotionsStep == PromotionInv /\ [PromotionsNext]_promoVars => PromotionInv'
<1> SUFFICES ASSUME PromotionInv, [PromotionsNext]_promoVars PROVE PromotionInv'
  OBVIOUS
<1>1. CASE UNCHANGED promoVars
  BY <1>1 DEF promoVars, PromotionInv, PromotionsTyped, PromotionReliable, FitsBeside
<1>2. CASE PromotionsNext
  BY <1>2, StartPromotionKeeps, LockPromotionsKeeps, CheckPromotionKeeps,
     SavePromotionKeeps DEF PromotionsNext
<1> QED BY <1>1, <1>2

(* star-promotions.service.ts:96: of any number of promotions that are     *)
(* written at the same time, no two are active on one date.                *)
THEOREM PromotionsStayApart == Spec => []OnePromotionPerDay
<1>1. Init => PromotionInv
  BY PromotionsBegin DEF Init
<1>2. PromotionInv /\ [Next]_backOfficeVars => PromotionInv'
  <2>1. [Next]_backOfficeVars => [PromotionsNext]_promoVars
    BY DEF Next, OthersRest, backOfficeVars
  <2> QED BY <2>1, PromotionsStep
<1>3. PromotionInv => OnePromotionPerDay
  <2> SUFFICES ASSUME PromotionInv, NEW day \in Days PROVE Cardinality(Active(day)) <= 1
    BY DEF OnePromotionPerDay
  <2>1. ASSUME NEW i \in Active(day), NEW j \in Active(day) PROVE i = j
    <3>1. promotions[i] \in PromotionRow /\ promotions[j] \in PromotionRow
      BY DEF Active, PromotionInv, PromotionsTyped
    <3>2. /\ promotions[i].start \in Nat /\ promotions[i].end \in Nat
          /\ promotions[j].start \in Nat /\ promotions[j].end \in Nat
          /\ day \in Nat
      BY <3>1, HandlersAssumption DEF PromotionRow
    <3>3. /\ promotions[i].start <= day /\ day <= promotions[i].end
          /\ promotions[j].start <= day /\ day <= promotions[j].end
      BY <3>2 DEF Active
    <3>4. Overlaps(promotions[i], promotions[j])
      BY <3>2, <3>3 DEF Overlaps
    <3> QED BY <3>4 DEF Active, PromotionInv, FitsBeside
  <2> QED BY <2>1, AtMostOne
<1> QED BY <1>1, <1>2, <1>3, PTL DEF Spec

(***************************************************************************)
(* FCM generations.  What a PATCH has found of its generation is true until*)
(* it writes, since only the holder of the customer's lock can revoke it;  *)
(* and a token that has been unregistered is so for good.                  *)
(***************************************************************************)
FcmRequest ==
  [step : {"lock", "insert", "refused", "write"}, user : Customers,
   generation : Generations, token : Devices \cup {None}, revoke : BOOLEAN]
FcmRow == [token : Devices \cup {None}, generation : Generations \cup {None}]

FcmTyped ==
  /\ fcm \in [Customers -> FcmRow]
  /\ generations \in [Customers -> [Generations -> {"absent", "live", "revoked"}]]
  /\ locked \in [Customers -> Handlers \cup {None}]
  /\ fcmHandlers = [p \in Handlers |-> fcmHandlers[p]]

FcmReliable(p) ==
  LET h == fcmHandlers[p] IN
  /\ h.step \in {"lock", "insert", "refused", "write"} => h \in FcmRequest
  /\ h.step \in {"insert", "refused", "write"} => locked[h.user] = p
  /\ h.step = "write" /\ ~h.revoke => generations[h.user][h.generation] # "revoked"
  /\ h.step = "cleanup" => \A e \in h.stale : e[2] \in unregistered

FcmInv ==
  /\ FcmTyped
  /\ \A p \in Handlers : FcmReliable(p)
  /\ RegistrationsHold

LEMMA FcmBegins == FcmInit => FcmInv
  BY FcmAssumption
  DEF FcmInit, FcmInv, FcmTyped, FcmRow, NoToken, FcmReliable, Waiting,
      RegistrationsHold, RevokedStaysOff, TokenBelongsToItsGeneration

(* The generations of other customers than u are as they were, and nobody  *)
(* gets or loses their locks; tokens are not registered again.             *)
OthersUntouched(u) ==
  /\ \A v \in Customers \ {u} : generations'[v] = generations[v] /\ locked'[v] = locked[v]
  /\ unregistered \subseteq unregistered'

LEMMA OtherFcmRely ==
  ASSUME FcmInv, NEW p \in Handlers, NEW u \in Customers, NEW to,
         fcmHandlers' = [fcmHandlers EXCEPT ![p] = to],
         locked[u] \in {p, None}, OthersUntouched(u)
  PROVE  \A q \in Handlers \ {p} : FcmReliable(q)'
<1> SUFFICES ASSUME NEW q \in Handlers \ {p} PROVE FcmReliable(q)'
  OBVIOUS
<1>1. fcmHandlers'[q] = fcmHandlers[q] /\ FcmReliable(q)
  BY DEF FcmInv, FcmTyped
<1>2. CASE fcmHandlers[q].step \in {"insert", "refused", "write"}
  <2>1. fcmHandlers[q].user \in Customers \ {u}
    BY <1>1, <1>2, HandlersAssumption DEF FcmReliable, FcmRequest
  <2> QED BY <1>1, <1>2, <2>1 DEF FcmReliable, OthersUntouched
<1>3. CASE fcmHandlers[q].step \notin {"insert", "refused", "write"}
  BY <1>1, <1>3 DEF FcmReliable, OthersUntouched
<1> QED BY <1>2, <1>3

(* A step that changes neither generations nor locks leaves all but its    *)
(* handler what they rely on.                                              *)
LEMMA FcmKept ==
  ASSUME FcmInv, NEW p \in Handlers, NEW to,
         fcmHandlers' = [fcmHandlers EXCEPT ![p] = to],
         UNCHANGED <<generations, locked, registered>>, unregistered' = unregistered,
         fcm' \in [Customers -> FcmRow],
         \A u \in Customers : /\ fcm'[u].generation = fcm[u].generation
                              /\ fcm'[u].token \in {fcm[u].token, None},
         FcmReliable(p)'
  PROVE  FcmInv'
<1>1. FcmTyped'
  BY DEF FcmInv, FcmTyped
<1>2. ASSUME NEW q \in Handlers \ {p} PROVE FcmReliable(q)'
  <2>1. fcmHandlers'[q] = fcmHandlers[q] /\ FcmReliable(q)
    BY DEF FcmInv, FcmTyped
  <2> QED BY <2>1 DEF FcmReliable
<1>3. RegistrationsHold'
  BY DEF FcmInv, RegistrationsHold, RevokedStaysOff, TokenBelongsToItsGeneration
<1> QED BY <1>1, <1>2, <1>3 DEF FcmInv

(* Clients without generations, and phones that Firebase forgets.          *)
LEMMA LegacyKeeps ==
  ASSUME FcmInv, UNCHANGED <<generations, locked, registered, fcmHandlers>>,
         unregistered \subseteq unregistered', fcm' \in [Customers -> FcmRow],
         \A u \in Customers : \/ fcm'[u].generation = None
                              \/ /\ fcm'[u].generation = fcm[u].generation
                                 /\ fcm'[u].token \in {fcm[u].token, None}
  PROVE  FcmInv'
<1>1. FcmTyped'
  BY DEF FcmInv, FcmTyped
<1>2. \A q \in Handlers : FcmReliable(q)'
  BY DEF FcmInv, FcmReliable
<1>3. RegistrationsHold'
  BY FcmAssumption
     DEF FcmInv, RegistrationsHold, RevokedStaysOff, TokenBelongsToItsGeneration
<1> QED BY <1>1, <1>2, <1>3 DEF FcmInv

LEMMA LegacyPatchKeeps ==
  ASSUME FcmInv, NEW u \in Customers, NEW t \in Devices, LegacyPatch(u, t)
  PROVE  FcmInv'
<1>1. fcm' = [fcm EXCEPT ![u] = [token |-> t, generation |-> None]]
  BY DEF LegacyPatch
<1>2. [token |-> t, generation |-> None] \in FcmRow
  BY DEF FcmRow
<1>3. fcm' \in [Customers -> FcmRow]
  BY <1>1, <1>2 DEF FcmInv, FcmTyped
<1>4. \A v \in Customers : fcm'[v].generation = None \/ fcm'[v] = fcm[v]
  BY <1>1 DEF FcmInv, FcmTyped
<1> QED BY <1>3, <1>4, LegacyKeeps DEF LegacyPatch

LEMMA LegacyClearKeeps ==
  ASSUME FcmInv, NEW u \in Customers, NEW t, LegacyClear(u, t)
  PROVE  FcmInv'
<1>1. PICK row : row = [fcm[u] EXCEPT !.token = None]
  OBVIOUS
<1>2. row \in FcmRow /\ row.generation = fcm[u].generation /\ row.token = None
  BY <1>1 DEF FcmRow, FcmInv, FcmTyped
<1>3. fcm' = [fcm EXCEPT ![u] = row]
  BY <1>1 DEF LegacyClear
<1>4. fcm' \in [Customers -> FcmRow]
  BY <1>2, <1>3 DEF FcmInv, FcmTyped
<1>5. \A v \in Customers : /\ fcm'[v].generation = fcm[v].generation
                           /\ fcm'[v].token \in {fcm[v].token, None}
  BY <1>2, <1>3 DEF FcmInv, FcmTyped
<1> QED BY <1>4, <1>5, LegacyKeeps DEF LegacyClear

LEMMA UninstallKeeps ==
  ASSUME FcmInv, NEW t, Uninstall(t)
  PROVE  FcmInv'
<1>1. fcm' = fcm /\ fcm \in [Customers -> FcmRow]
  BY DEF Uninstall, FcmInv, FcmTyped
<1> QED BY <1>1, LegacyKeeps DEF Uninstall

(* Steps of a request that change nothing but its place and its lock.      *)
LEMMA StartGenerationKeeps ==
  ASSUME FcmInv, NEW p \in Handlers, NEW u \in Customers, NEW g \in Generations,
         NEW t \in Devices \cup {None}, NEW revoke \in BOOLEAN,
         StartGeneration(p, u, g, t, revoke)
  PROVE  FcmInv'
<1> DEFINE to == [step |-> "lock", user |-> u, generation |-> g, token |-> t,
                  revoke |-> revoke]
<1>1. /\ fcmHandlers' = [fcmHandlers EXCEPT ![p] = to]
      /\ UNCHANGED <<fcm, generations, locked, unregistered, registered>>
  BY DEF StartGeneration, FcmGo, Goes, fcmTables
<1>2. fcmHandlers'[p] = to
  BY <1>1 DEF FcmInv, FcmTyped
<1>3. to \in FcmRequest
  BY DEF FcmRequest
<1>4. FcmReliable(p)'
  BY <1>2, <1>3 DEF FcmReliable
<1>5. fcm \in [Customers -> FcmRow]
  BY DEF FcmInv, FcmTyped
<1> QED BY <1>1, <1>4, <1>5, FcmKept

LEMMA LockCustomerKeeps ==
  ASSUME FcmInv, NEW p \in Handlers, LockCustomer(p)
  PROVE  FcmInv'
<1>0. PICK h, u : h = fcmHandlers[p] /\ u = h.user
  OBVIOUS
<1> DEFINE to == [h EXCEPT !.step = "insert"]
<1>1. h \in FcmRequest
  BY <1>0 DEF LockCustomer, FcmAt, At, FcmInv, FcmReliable
<1>2. u \in Customers /\ to \in FcmRequest /\ to.step = "insert" /\ to.user = u
  BY <1>0, <1>1 DEF FcmRequest
<1>3. /\ fcmHandlers' = [fcmHandlers EXCEPT ![p] = to]
      /\ locked[u] = None /\ locked' = [locked EXCEPT ![u] = p]
      /\ UNCHANGED <<fcm, generations, unregistered, registered>>
  BY <1>0 DEF LockCustomer, FcmGo, Goes, fcmTables
<1> HIDE DEF to
<1>4. fcmHandlers'[p] = to /\ locked'[u] = p
  BY <1>2, <1>3 DEF FcmInv, FcmTyped
<1>5. FcmReliable(p)'
  BY <1>2, <1>4 DEF FcmReliable
<1>6. OthersUntouched(u)
  BY <1>3 DEF OthersUntouched, FcmInv, FcmTyped
<1>7. \A q \in Handlers \ {p} : FcmReliable(q)'
  BY <1>2, <1>3, <1>6, OtherFcmRely
<1>8. FcmTyped'
  BY <1>3 DEF FcmInv, FcmTyped
<1>9. RegistrationsHold'
  BY <1>3 DEF FcmInv, RegistrationsHold, RevokedStaysOff, TokenBelongsToItsGeneration
<1> QED BY <1>5, <1>7, <1>8, <1>9 DEF FcmInv

LEMMA ReadGenerationKeeps ==
  ASSUME FcmInv, NEW p \in Handlers, ReadGeneration(p)
  PROVE  FcmInv'
<1>0. PICK h, step : /\ h = fcmHandlers[p]
                     /\ step = IF ~h.revoke /\ generations[h.user][h.generation] = "revoked"
                               THEN "refused" ELSE "write"
  OBVIOUS
<1> DEFINE to == [h EXCEPT !.step = step]
<1>1. h \in FcmRequest /\ locked[h.user] = p
  BY <1>0 DEF ReadGeneration, FcmAt, At, FcmInv, FcmReliable
<1>2. /\ to \in FcmRequest /\ to.step = step /\ to.user = h.user
      /\ to.generation = h.generation /\ to.revoke = h.revoke
  BY <1>0, <1>1 DEF FcmRequest
<1>3. /\ fcmHandlers' = [fcmHandlers EXCEPT ![p] = to]
      /\ UNCHANGED <<fcm, generations, locked, unregistered, registered>>
  BY <1>0 DEF ReadGeneration, FcmGo, Goes, fcmTables
<1> HIDE DEF to
<1>4. fcmHandlers'[p] = to
  BY <1>3 DEF FcmInv, FcmTyped
<1>5. FcmReliable(p)'
  BY <1>0, <1>1, <1>2, <1>3, <1>4 DEF FcmReliable
<1>6. fcm \in [Customers -> FcmRow]
  BY DEF FcmInv, FcmTyped
<1> QED BY <1>3, <1>5, <1>6, FcmKept

(* The end of a request that has locked u, whatever it has written.        *)
LEMMA CommitFcmKeeps ==
  ASSUME FcmInv, NEW p \in Handlers, NEW u \in Customers, locked[u] = p,
         CommitFcm(p, u), unregistered' = unregistered,
         fcm' \in [Customers -> FcmRow],
         generations' \in [Customers -> [Generations -> {"absent", "live", "revoked"}]],
         \A v \in Customers \ {u} : fcm'[v] = fcm[v] /\ generations'[v] = generations[v],
         registered \subseteq registered',
         \A g \in Generations : generations'[u][g] = "revoked" => fcm'[u].generation # g,
         fcm'[u].token # None /\ fcm'[u].generation # None
           => <<u, fcm'[u].generation, fcm'[u].token>> \in registered'
  PROVE  FcmInv'
<1>1. /\ fcmHandlers' = [fcmHandlers EXCEPT ![p] = Waiting]
      /\ locked' = [locked EXCEPT ![u] = None]
  BY DEF CommitFcm, Ends, Goes
<1>2. FcmTyped'
  BY <1>1 DEF FcmInv, FcmTyped
<1>3. fcmHandlers'[p] = Waiting
  BY <1>1 DEF FcmInv, FcmTyped
<1>4. FcmReliable(p)'
  BY <1>3 DEF FcmReliable, Waiting
<1>5. OthersUntouched(u)
  BY <1>1 DEF OthersUntouched, FcmInv, FcmTyped
<1>6. \A q \in Handlers \ {p} : FcmReliable(q)'
  BY <1>1, <1>5, OtherFcmRely
<1>7. RegistrationsHold'
  <2>1. ASSUME NEW v \in Customers, NEW g \in Generations, generations'[v][g] = "revoked"
        PROVE  fcm'[v].generation # g
    BY <2>1 DEF FcmInv, RegistrationsHold, RevokedStaysOff
  <2>2. ASSUME NEW v \in Customers, fcm'[v].token # None, fcm'[v].generation # None
        PROVE  <<v, fcm'[v].generation, fcm'[v].token>> \in registered'
    BY <2>2 DEF FcmInv, RegistrationsHold, TokenBelongsToItsGeneration
  <2> QED BY <2>1, <2>2 DEF RegistrationsHold, RevokedStaysOff, TokenBelongsToItsGeneration
<1> QED BY <1>2, <1>4, <1>6, <1>7 DEF FcmInv

LEMMA RefuseGenerationKeeps ==
  ASSUME FcmInv, NEW p \in Handlers, RefuseGeneration(p)
  PROVE  FcmInv'
<1>0. PICK u : u = fcmHandlers[p].user
  OBVIOUS
<1>1. u \in Customers /\ locked[u] = p
  BY <1>0 DEF RefuseGeneration, FcmAt, At, FcmInv, FcmReliable, FcmRequest
<1>2. CommitFcm(p, u) /\ UNCHANGED <<fcm, generations, unregistered, registered>>
  BY <1>0 DEF RefuseGeneration, fcmTables
<1> QED BY <1>1, <1>2, CommitFcmKeeps
        DEF FcmInv, FcmTyped, RegistrationsHold, RevokedStaysOff,
            TokenBelongsToItsGeneration

LEMMA AcceptGenerationKeeps ==
  ASSUME FcmInv, NEW p \in Handlers, AcceptGeneration(p)
  PROVE  FcmInv'
<1>0. PICK h, u, g, t : /\ h = fcmHandlers[p] /\ u = h.user
                        /\ g = h.generation /\ t = h.token
  OBVIOUS
<1>1. /\ h \in FcmRequest /\ locked[u] = p /\ generations[u][g] # "revoked"
  BY <1>0 DEF AcceptGeneration, FcmAt, At, FcmInv, FcmReliable
<1>2. u \in Customers /\ g \in Generations /\ t \in Devices \cup {None}
  BY <1>0, <1>1 DEF FcmRequest
<1>3. PICK row : row = [token |-> t, generation |-> g]
  OBVIOUS
<1>4. row \in FcmRow /\ row.token = t /\ row.generation = g
  BY <1>2, <1>3 DEF FcmRow
<1>5. /\ fcm' = [fcm EXCEPT ![u] = row]
      /\ generations' = [generations EXCEPT ![u][g] = IF @ = "absent" THEN "live" ELSE @]
      /\ registered' = registered \cup {<<u, g, t>>}
      /\ CommitFcm(p, u) /\ unregistered' = unregistered
  BY <1>0, <1>3 DEF AcceptGeneration
<1>6. fcm' \in [Customers -> FcmRow] /\ fcm'[u] = row
      /\ \A v \in Customers \ {u} : fcm'[v] = fcm[v]
  BY <1>2, <1>4, <1>5 DEF FcmInv, FcmTyped
<1>7. /\ generations' \in [Customers -> [Generations -> {"absent", "live", "revoked"}]]
      /\ generations'[u][g] # "revoked"
      /\ \A v \in Customers \ {u} : generations'[v] = generations[v]
  BY <1>1, <1>2, <1>5 DEF FcmInv, FcmTyped
<1> QED BY <1>1, <1>2, <1>4, <1>5, <1>6, <1>7, CommitFcmKeeps

LEMMA RevokeGenerationKeeps ==
  ASSUME FcmInv, NEW p \in Handlers, RevokeGeneration(p)
  PROVE  FcmInv'
<1>0. PICK h, u, g : h = fcmHandlers[p] /\ u = h.user /\ g = h.generation
  OBVIOUS
<1>1. h \in FcmRequest /\ locked[u] = p
  BY <1>0 DEF RevokeGeneration, FcmAt, At, FcmInv, FcmReliable
<1>2. u \in Customers /\ g \in Generations
  BY <1>0, <1>1 DEF FcmRequest
<1>3. PICK row : /\ row \in {fcm[u], NoToken}
                 /\ fcm' = [fcm EXCEPT ![u] = row]
                 /\ fcm[u].generation = g => row = NoToken
  BY <1>0 DEF RevokeGeneration
<1>4. /\ generations' = [generations EXCEPT ![u][g] = "revoked"]
      /\ registered' = registered /\ unregistered' = unregistered /\ CommitFcm(p, u)
  BY <1>0 DEF RevokeGeneration
<1>5. /\ NoToken \in FcmRow /\ NoToken.generation = None /\ NoToken.token = None
      /\ fcm[u] \in FcmRow
  BY <1>2 DEF NoToken, FcmRow, FcmInv, FcmTyped
<1>6. /\ fcm' \in [Customers -> FcmRow] /\ fcm'[u] = row
      /\ \A v \in Customers \ {u} : fcm'[v] = fcm[v]
  BY <1>2, <1>3, <1>5 DEF FcmInv, FcmTyped
<1>7. /\ generations' \in [Customers -> [Generations -> {"absent", "live", "revoked"}]]
      /\ \A v \in Customers \ {u} : generations'[v] = generations[v]
      /\ \A k \in Generations \ {g} : generations'[u][k] = generations[u][k]
  BY <1>2, <1>4 DEF FcmInv, FcmTyped
<1>8. \A k \in Generations : generations'[u][k] = "revoked" => row.generation # k
  BY <1>2, <1>3, <1>5, <1>7, FcmAssumption DEF FcmInv, RegistrationsHold, RevokedStaysOff
<1>9. row.token # None /\ row.generation # None
        => <<u, row.generation, row.token>> \in registered'
  BY <1>2, <1>3, <1>4, <1>5 DEF FcmInv, RegistrationsHold, TokenBelongsToItsGeneration
<1> QED BY <1>1, <1>2, <1>4, <1>6, <1>7, <1>8, <1>9, CommitFcmKeeps

(* Pushes.                                                                 *)
LEMMA PushKeeps ==
  ASSUME FcmInv, NEW p \in Handlers, NEW to,
         fcmHandlers' = [fcmHandlers EXCEPT ![p] = to],
         UNCHANGED <<fcm, generations, locked, unregistered, registered>>,
         \/ to.step \in {"waiting", "sending"}
         \/ to.step = "cleanup" /\ \A e \in to.stale : e[2] \in unregistered
  PROVE  FcmInv'
<1>1. fcmHandlers'[p] = to
  BY DEF FcmInv, FcmTyped
<1>2. FcmReliable(p)'
  BY <1>1 DEF FcmReliable
<1>3. fcm \in [Customers -> FcmRow]
  BY DEF FcmInv, FcmTyped
<1> QED BY <1>2, <1>3, FcmKept

LEMMA PushAnsweredKeeps ==
  ASSUME FcmInv, NEW p \in Handlers, PushAnswered(p)
  PROVE  FcmInv'
<1>1. PICK dead : dead = {e \in fcmHandlers[p].sent : e[2] \in unregistered}
  OBVIOUS
<1>2. UNCHANGED <<fcm, generations, locked, unregistered, registered>>
  BY DEF PushAnswered, fcmTables
<1>3. PICK to \in {Waiting, [step |-> "cleanup", stale |-> dead]} :
        fcmHandlers' = [fcmHandlers EXCEPT ![p] = to]
  BY <1>1 DEF PushAnswered, FcmGo, Goes, Ends
<1>4. \/ to.step \in {"waiting", "sending"}
      \/ to.step = "cleanup" /\ \A e \in to.stale : e[2] \in unregistered
  BY <1>1, <1>3 DEF Waiting
<1> QED BY <1>2, <1>3, <1>4, PushKeeps

LEMMA CleanupTokensKeeps ==
  ASSUME FcmInv, NEW p \in Handlers, CleanupTokens(p)
  PROVE  FcmInv'
<1>1. PICK dead : fcm' = [u \in Customers |-> IF u \in dead
                             THEN [fcm[u] EXCEPT !.token = None] ELSE fcm[u]]
  BY DEF CleanupTokens
<1>2. /\ fcmHandlers' = [fcmHandlers EXCEPT ![p] = Waiting]
      /\ UNCHANGED <<generations, locked, unregistered, registered>>
  BY DEF CleanupTokens, Ends, Goes
<1>3. ASSUME NEW u \in Customers
      PROVE  /\ fcm'[u] \in FcmRow /\ fcm'[u].generation = fcm[u].generation
             /\ fcm'[u].token \in {fcm[u].token, None}
  <2>1. fcm[u] \in FcmRow
    BY DEF FcmInv, FcmTyped
  <2> QED BY <1>1, <2>1 DEF FcmRow
<1>4. fcm' \in [Customers -> FcmRow]
  BY <1>1, <1>3
<1>5. FcmReliable(p)'
  BY <1>2 DEF FcmReliable, Waiting, FcmInv, FcmTyped
<1> QED BY <1>2, <1>3, <1>4, <1>5, FcmKept

LEMMA FcmStep == FcmInv /\ [FcmNext]_fcmVars => FcmInv'
<1> SUFFICES ASSUME FcmInv, [FcmNext]_fcmVars PROVE FcmInv'
  OBVIOUS
<1>1. CASE UNCHANGED fcmVars
  BY <1>1 DEF fcmVars, FcmInv, FcmTyped, FcmReliable, RegistrationsHold,
              RevokedStaysOff, TokenBelongsToItsGeneration
<1>2. ASSUME NEW p \in Handlers, NEW users, StartPush(p, users) PROVE FcmInv'
  <2>1. PICK to : /\ to.step = "sending"
                  /\ fcmHandlers' = [fcmHandlers EXCEPT ![p] = to]
    BY <1>2 DEF StartPush, FcmGo, Goes
  <2> QED BY <1>2, <2>1, PushKeeps DEF StartPush, fcmTables
<1>3. ASSUME NEW p \in Handlers, CleanupFails(p) PROVE FcmInv'
  <2>1. fcmHandlers' = [fcmHandlers EXCEPT ![p] = Waiting] /\ Waiting.step = "waiting"
    BY <1>3 DEF CleanupFails, Ends, Goes, Waiting
  <2> QED BY <1>3, <2>1, PushKeeps DEF CleanupFails, fcmTables
<1>4. CASE FcmNext
  BY <1>2, <1>3, <1>4, LegacyPatchKeeps, LegacyClearKeeps, UninstallKeeps,
     StartGenerationKeeps, LockCustomerKeeps, ReadGenerationKeeps,
     RefuseGenerationKeeps, AcceptGenerationKeeps, RevokeGenerationKeeps,
     PushAnsweredKeeps, CleanupTokensKeeps DEF FcmNext
<1> QED BY <1>1, <1>4

LEMMA FcmAlways == Spec => []FcmInv
<1>1. Init => FcmInv
  BY FcmBegins DEF Init
<1>2. FcmInv /\ [Next]_backOfficeVars => FcmInv'
  <2>1. [Next]_backOfficeVars => [FcmNext]_fcmVars
    BY DEF Next, OthersRest, backOfficeVars
  <2> QED BY <2>1, FcmStep
<1> QED BY <1>1, <1>2, PTL DEF Spec

(* users.service.ts:212: whatever the order in which its PATCHes, DELETEs  *)
(* and those of other registrations arrive, a registration is bound to its *)
(* own token until it is revoked, and to none afterwards.                  *)
THEOREM RegistrationsAreKept == Spec => []RegistrationsHold
<1>1. FcmInv => RegistrationsHold
  BY DEF FcmInv
<1> QED BY <1>1, FcmAlways, PTL

(* Whose place changes has taken the step; only a clean-up takes tokens    *)
(* when it ends, and those that it takes were among the dead ones.         *)
LEMMA CleanupIsPrecise ==
  ASSUME FcmInv, [FcmNext]_fcmVars, NEW p \in Handlers,
         FcmAt(p, "cleanup"), ~At(fcmHandlers', p, "cleanup"),
         NEW u \in Customers, fcm'[u] # fcm[u]
  PROVE  fcm[u].token \in unregistered
<1>1. fcmHandlers'[p] # fcmHandlers[p]
  BY DEF FcmAt, At
<1>2. ASSUME NEW q, NEW to, fcmHandlers' = [fcmHandlers EXCEPT ![q] = to] PROVE q = p
  BY <1>1, <1>2 DEF FcmInv, FcmTyped
<1>3. CASE CleanupTokens(p)
  <2>1. PICK h : h = fcmHandlers[p]
    OBVIOUS
  <2>2. <<u, fcm[u].token>> \in h.stale
    BY <1>3, <2>1 DEF CleanupTokens
  <2>3. \A e \in h.stale : e[2] \in unregistered
    BY <2>1 DEF FcmAt, At, FcmInv, FcmReliable
  <2> QED BY <2>2, <2>3
<1>4. CASE ~CleanupTokens(p)
  <2>1. FcmNext /\ fcmHandlers' # fcmHandlers
    BY <1>1 DEF fcmVars
  <2>2. PICK q \in Handlers :
          \/ \E v \in Customers, g \in Generations, t \in Devices \cup {None},
                revoke \in BOOLEAN : StartGeneration(q, v, g, t, revoke)
          \/ LockCustomer(q) \/ ReadGeneration(q) \/ RefuseGeneration(q)
          \/ AcceptGeneration(q) \/ RevokeGeneration(q)
          \/ \E users \in SUBSET Customers : StartPush(q, users)
          \/ PushAnswered(q) \/ CleanupTokens(q) \/ CleanupFails(q)
    BY <2>1 DEF FcmNext, LegacyPatch, LegacyClear, Uninstall
  <2>3. \E to : fcmHandlers' = [fcmHandlers EXCEPT ![q] = to]
    BY <2>2 DEF StartGeneration, LockCustomer, ReadGeneration, RefuseGeneration,
                AcceptGeneration, RevokeGeneration, StartPush, PushAnswered,
                CleanupTokens, CleanupFails, CommitFcm, FcmGo, Goes, Ends
  <2>4. q = p
    BY <1>2, <2>3
  <2>5. CleanupFails(p)
    BY <1>4, <2>2, <2>4
       DEF StartGeneration, LockCustomer, ReadGeneration, RefuseGeneration,
           AcceptGeneration, RevokeGeneration, StartPush, PushAnswered, FcmAt, At
  <2> QED BY <2>5 DEF CleanupFails, fcmTables
<1> QED BY <1>3, <1>4

(* notifications.service.ts:133: however long a push has been on its way,  *)
(* and whatever the users have registered meanwhile, its clean-up takes no *)
(* token that Firebase has not dropped.                                    *)
THEOREM CleanupsSpareTheLiving == Spec => CleansOnlyDeadTokens
<1> DEFINE Spares ==
      \A p \in Handlers : FcmAt(p, "cleanup") /\ ~At(fcmHandlers', p, "cleanup") =>
        \A u \in Customers : fcm'[u] # fcm[u] => fcm[u].token \in unregistered
<1>1. FcmInv /\ [Next]_backOfficeVars => [Spares]_fcmVars
  <2>1. [Next]_backOfficeVars => [FcmNext]_fcmVars
    BY DEF Next, OthersRest, backOfficeVars
  <2> QED BY <2>1, CleanupIsPrecise
<1>2. CleansOnlyDeadTokens <=> [][Spares]_fcmVars
  BY DEF CleansOnlyDeadTokens
<1> QED BY <1>1, <1>2, FcmAlways, PTL DEF Spec

(***************************************************************************)
(* Accounts.  Registrations find an email or a Google identity free and    *)
(* insert it later; the UNIQUE columns judge again.  A change of roles     *)
(* finds its actor an administrator and writes later; what holds in between*)
(* holds only while no other change of roles is in progress.               *)
(***************************************************************************)
Secrets == Passwords \cup GoogleIds
AccountRow == [email : Emails \cup {None}, provider : {"local", "google"},
               secret : Secrets \cup {None}, role : {"cliente", "admin"}]
NewAccountRequest == [step : {"email", "create"}, email : Emails,
                      provider : {"local", "google"}, secret : Secrets]
RoleRequest == [step : RoleSteps, target : AccountIds, role : {"cliente", "admin"}]

(* A handler that is about to write a role has found its account.          *)
AccountsTyped ==
  /\ Users \subseteq AccountIds
  /\ accounts \in [Users -> AccountRow]
  /\ tokens \subseteq AccountIds \X (Secrets \cup {None})
  /\ together \in BOOLEAN
  /\ accountHandlers \in [Handlers -> {Waiting} \cup NewAccountRequest \cup RoleRequest]
  /\ \A p \in Handlers : AccountAt(p, "update") => accountHandlers[p].target \in Users

(* Emails and Google identities are of one account each, and whoever has   *)
(* tokens of an account has known its secret.                              *)
Unmerged ==
  /\ \A e \in Emails : \A a, b \in ByEmail(e) : a = b
  /\ \A g \in GoogleIds : \A a, b \in ByGoogleId(g) : a = b
  /\ \A a \in AccountIds, s \in Secrets \cup {None} : <<a, s>> \in tokens =>
       a \in Users /\ accounts[a].secret = s

ChangesRole(p) == accountHandlers[p].step \in RoleSteps

(* Changes of roles that have not overlapped: one is in progress at most,  *)
(* and it leaves an administrator.                                         *)
OneChangeAtATime ==
  /\ Admins # {}
  /\ \A p, q \in Handlers : ChangesRole(p) /\ ChangesRole(q) => p = q
  /\ \A p \in Handlers : ChangesRole(p) =>
       \/ accountHandlers[p].role = "admin"
       \/ \E a \in Admins : a # accountHandlers[p].target

AccountInv ==
  /\ AccountsTyped
  /\ Unmerged
  /\ ~together => OneChangeAtATime

LEMMA AccountsBegin == AccountsInit => AccountInv
<1> SUFFICES ASSUME AccountsInit PROVE AccountInv
  OBVIOUS
<1>1. /\ Users = FirstAdmins
      /\ \A a \in FirstAdmins : accounts[a] = [email |-> None, provider |-> "local",
                                               secret |-> None, role |-> "admin"]
      /\ tokens = {} /\ together = FALSE
      /\ \A p \in Handlers : accountHandlers[p] = Waiting
  BY DEF AccountsInit, Users
<1>2. AccountsTyped
  BY <1>1, AccountsAssumption
     DEF AccountsInit, AccountsTyped, AccountRow, AccountAt, At, Waiting
<1>3. Unmerged
  BY <1>1, AccountsAssumption DEF Unmerged, ByEmail, ByGoogleId
<1>4. OneChangeAtATime
  BY <1>1, AccountsAssumption
     DEF OneChangeAtATime, Admins, ChangesRole, RoleSteps, Waiting
<1> QED BY <1>2, <1>3, <1>4 DEF AccountInv

(* What p goes on with, and what the others stay with.                     *)
LEMMA AccountMoves ==
  ASSUME AccountsTyped, NEW p \in Handlers, NEW to, AccountGo(p, to)
  PROVE  /\ accountHandlers' = [accountHandlers EXCEPT ![p] = to]
         /\ accountHandlers'[p] = to
         /\ \A q \in Handlers \ {p} : accountHandlers'[q] = accountHandlers[q]
  BY DEF AccountsTyped, AccountGo, Goes

(* A step outside the changes of roles that writes no account.             *)
LEMMA AccountsReadKeeps ==
  ASSUME AccountInv, NEW p \in Handlers,
         NEW to \in {Waiting} \cup NewAccountRequest,
         accountHandlers' = [accountHandlers EXCEPT ![p] = to],
         UNCHANGED <<accounts, tokens, together>>
  PROVE  AccountInv'
<1>1. /\ accountHandlers'[p] = to
      /\ \A q \in Handlers \ {p} : accountHandlers'[q] = accountHandlers[q]
      /\ to.step \notin RoleSteps
  BY DEF AccountInv, AccountsTyped, NewAccountRequest, Waiting, RoleSteps
<1>2. AccountsTyped'
  BY <1>1 DEF AccountInv, AccountsTyped, Users, AccountAt, At, RoleSteps
<1>3. Unmerged'
  BY DEF AccountInv, Unmerged, ByEmail, ByGoogleId, Users
<1>4. ~together' => OneChangeAtATime'
  <2> SUFFICES ASSUME OneChangeAtATime PROVE OneChangeAtATime'
    BY DEF AccountInv
  <2>1. \A q \in Handlers : ChangesRole(q)' => q # p /\ ChangesRole(q)
    BY <1>1 DEF ChangesRole
  <2>2. Admins' = Admins
    BY DEF Admins, Users
  <2> QED BY <1>1, <2>1, <2>2 DEF OneChangeAtATime
<1> QED BY <1>2, <1>3, <1>4 DEF AccountInv

LEMMA StartRegisterKeeps ==
  ASSUME AccountInv, NEW p \in Handlers, NEW e \in Emails, NEW w \in Passwords,
         StartRegister(p, e, w)
  PROVE  AccountInv'
<1> DEFINE to == [step |-> "create", email |-> e, provider |-> "local", secret |-> w]
<1>1. to \in NewAccountRequest
  BY DEF NewAccountRequest, Secrets
<1>2. /\ accountHandlers' = [accountHandlers EXCEPT ![p] = to]
      /\ UNCHANGED <<accounts, tokens, together>>
  BY DEF StartRegister, AccountGo, Goes
<1> QED BY <1>1, <1>2, AccountsReadKeeps

(* Tokens go to who has just shown the account's secret.                   *)
LEMMA TokensKeep ==
  ASSUME AccountInv, NEW a \in Users, NEW s \in Secrets, accounts[a].secret = s,
         GenerateTokens(a, s), UNCHANGED <<accounts, together, accountHandlers>>
  PROVE  AccountInv'
<1>1. AccountsTyped'
  BY DEF AccountInv, AccountsTyped, GenerateTokens, Users, AccountAt, At
<1>2. Unmerged'
  BY DEF AccountInv, Unmerged, GenerateTokens, ByEmail, ByGoogleId, Users
<1>3. ~together' => OneChangeAtATime'
  BY DEF AccountInv, OneChangeAtATime, Admins, Users, ChangesRole
<1> QED BY <1>1, <1>2, <1>3 DEF AccountInv

LEMMA GoogleLoginKeeps ==
  ASSUME AccountInv, NEW p \in Handlers, NEW e \in Emails, NEW g \in GoogleIds,
         GoogleLogin(p, e, g)
  PROVE  AccountInv'
<1> DEFINE to == [step |-> "email", email |-> e, provider |-> "google", secret |-> g]
<1>1. to \in NewAccountRequest
  BY DEF NewAccountRequest, Secrets
<1>2. CASE AccountGo(p, to) /\ UNCHANGED tokens
  BY <1>1, <1>2, AccountsReadKeeps DEF GoogleLogin, AccountGo, Goes
<1>3. CASE (\E a \in ByGoogleId(g) : GenerateTokens(a, g)) /\ UNCHANGED accountHandlers
  <2>1. PICK a \in ByGoogleId(g) : GenerateTokens(a, g)
    BY <1>3
  <2>2. a \in Users /\ accounts[a].secret = g /\ g \in Secrets
    BY DEF ByGoogleId, Secrets
  <2>3. UNCHANGED <<accounts, together>>
    BY DEF GoogleLogin
  <2> QED BY <1>3, <2>1, <2>2, <2>3, TokensKeep
<1> QED BY <1>2, <1>3 DEF GoogleLogin

LEMMA LoginKeeps ==
  ASSUME AccountInv, NEW e \in Emails, NEW w \in Passwords, Login(e, w)
  PROVE  AccountInv'
<1>1. PICK a \in ByEmail(e) : accounts[a].secret = w /\ GenerateTokens(a, w)
  BY DEF Login
<1>2. a \in Users /\ w \in Secrets /\ UNCHANGED <<accounts, together, accountHandlers>>
  BY DEF Login, ByEmail, Secrets
<1> QED BY <1>1, <1>2, TokensKeep

LEMMA GoogleEmailKeeps ==
  ASSUME AccountInv, NEW p \in Handlers, GoogleEmail(p)
  PROVE  AccountInv'
<1> DEFINE to == [accountHandlers[p] EXCEPT !.step = "create"]
<1>1. accountHandlers[p] \in NewAccountRequest
  BY DEF AccountInv, AccountsTyped, GoogleEmail, AccountAt, At, Waiting,
         RoleRequest, RoleSteps
<1>2. to \in NewAccountRequest
  BY <1>1 DEF NewAccountRequest
<1>3. /\ \/ accountHandlers' = [accountHandlers EXCEPT ![p] = to]
         \/ accountHandlers' = [accountHandlers EXCEPT ![p] = Waiting]
      /\ UNCHANGED <<accounts, tokens, together>>
  BY DEF GoogleEmail, AccountGo, AccountEnd, Goes, Ends
<1> HIDE DEF to
<1> QED BY <1>2, <1>3, AccountsReadKeeps

(* The UNIQUE columns let no second account of an email or of a Google     *)
(* identity in, whatever the handler has found before.                     *)
LEMMA CreateAccountKeeps ==
  ASSUME AccountInv, NEW p \in Handlers, Create(p)
  PROVE  AccountInv'
<1> DEFINE h == accountHandlers[p]
<1>1. h \in NewAccountRequest
  BY DEF AccountInv, AccountsTyped, Create, AccountAt, At, Waiting,
         RoleRequest, RoleSteps
<1>2. accountHandlers' = [accountHandlers EXCEPT ![p] = Waiting] /\ together' = together
  BY DEF Create, AccountEnd, Ends, Goes
<1>3. CASE UNCHANGED <<accounts, tokens>>
  BY <1>2, <1>3, AccountsReadKeeps
<1>4. CASE /\ ByEmail(h.email) = {}
           /\ h.provider = "google" => ByGoogleId(h.secret) = {}
           /\ \E a \in AccountIds \ Users :
                /\ Add(a, Account(h.email, h.provider, h.secret))
                /\ GenerateTokens(a, h.secret)
  <2> DEFINE row == Account(h.email, h.provider, h.secret)
  <2>1. PICK a \in AccountIds \ Users : Add(a, row) /\ GenerateTokens(a, h.secret)
    BY <1>4
  <2>2. /\ row \in AccountRow
        /\ row.email = h.email /\ row.provider = h.provider /\ row.secret = h.secret
        /\ row.role = "cliente"
        /\ h.email \in Emails /\ h.secret \in Secrets
    BY <1>1 DEF Account, AccountRow, NewAccountRequest
  <2>3. /\ Users' = Users \cup {a}
        /\ accounts' = [b \in Users \cup {a} |-> IF b = a THEN row ELSE accounts[b]]
        /\ accounts'[a] = row
        /\ \A b \in Users : accounts'[b] = accounts[b]
    BY <2>1 DEF Add, Users
  <2>4. tokens' = tokens \cup {<<a, h.secret>>}
    BY <2>1 DEF GenerateTokens
  <2>5. /\ accountHandlers'[p] = Waiting
        /\ \A q \in Handlers \ {p} : accountHandlers'[q] = accountHandlers[q]
    BY <1>2 DEF AccountInv, AccountsTyped
  <2> HIDE DEF row, h
  <2>6. AccountsTyped'
    <3>1. accounts' \in [Users' -> AccountRow] /\ Users' \subseteq AccountIds
      BY <2>2, <2>3 DEF AccountInv, AccountsTyped
    <3>2. tokens' \subseteq AccountIds \X (Secrets \cup {None})
      BY <2>2, <2>4 DEF AccountInv, AccountsTyped
    <3>3. \A q \in Handlers : AccountAt(q, "update")' => accountHandlers'[q].target \in Users'
      BY <2>3, <2>5 DEF AccountInv, AccountsTyped, AccountAt, At, Waiting
    <3> QED BY <1>2, <3>1, <3>2, <3>3 DEF AccountInv, AccountsTyped
  <2>7. Unmerged'
    <3>1. \A e \in Emails : \A b, c \in ByEmail(e)' : b = c
      BY <1>4, <2>2, <2>3 DEF AccountInv, Unmerged, ByEmail
    <3>2. \A g \in GoogleIds : \A b, c \in ByGoogleId(g)' : b = c
      BY <1>4, <2>2, <2>3 DEF AccountInv, Unmerged, ByGoogleId
    <3>3. \A b \in AccountIds, s \in Secrets \cup {None} : <<b, s>> \in tokens' =>
            b \in Users' /\ accounts'[b].secret = s
      BY <2>1, <2>2, <2>3, <2>4 DEF AccountInv, Unmerged
    <3> QED BY <3>1, <3>2, <3>3 DEF Unmerged
  <2>8. ~together' => OneChangeAtATime'
    <3> SUFFICES ASSUME OneChangeAtATime PROVE OneChangeAtATime'
      BY <1>2 DEF AccountInv
    <3>1. Admins' = Admins
      BY <2>1, <2>2, <2>3 DEF Admins
    <3>2. \A q \in Handlers : ChangesRole(q)' => q # p /\ ChangesRole(q)
      BY <2>5 DEF ChangesRole, Waiting, RoleSteps
    <3> QED BY <2>5, <3>1, <3>2 DEF OneChangeAtATime
  <2> QED BY <2>6, <2>7, <2>8 DEF AccountInv
<1> QED BY <1>3, <1>4 DEF Create

(* A change of roles that finds no other in progress leaves its actor, or  *)
(* makes an administrator.                                                 *)
LEMMA StartUpdateRoleKeeps ==
  ASSUME AccountInv, NEW p \in Handlers, NEW actor \in AccountIds,
         NEW target \in AccountIds, NEW role \in {"cliente", "admin"},
         StartUpdateRole(p, actor, target, role)
  PROVE  AccountInv'
<1> DEFINE to == [step |-> "find", target |-> target, role |-> role]
<1>1. accountHandlers' = [accountHandlers EXCEPT ![p] = to]
  BY DEF StartUpdateRole, AccountGo, Goes
<1>2. /\ accountHandlers'[p] = to
      /\ \A q \in Handlers \ {p} : accountHandlers'[q] = accountHandlers[q]
  BY <1>1 DEF AccountInv, AccountsTyped
<1>3. /\ UNCHANGED <<accounts, tokens>>
      /\ actor \in Admins
      /\ ~(actor = target /\ role # "admin")
      /\ together' = (together \/ \E q \in Handlers : accountHandlers[q].step \in RoleSteps)
  BY DEF StartUpdateRole
<1>4. AccountsTyped'
  <2>1. to \in RoleRequest
    BY DEF RoleRequest, RoleSteps
  <2>2. together' \in BOOLEAN
    BY <1>3
  <2> QED BY <1>1, <1>2, <1>3, <2>1, <2>2 DEF AccountInv, AccountsTyped, Users, AccountAt, At
<1>5. Unmerged'
  BY <1>3 DEF AccountInv, Unmerged, ByEmail, ByGoogleId, Users
<1>6. ~together' => OneChangeAtATime'
  <2> SUFFICES ASSUME ~together' PROVE OneChangeAtATime'
    OBVIOUS
  <2>1. ~together /\ \A q \in Handlers : ~ChangesRole(q)
    BY <1>3 DEF ChangesRole
  <2>2. \A q \in Handlers : ChangesRole(q)' => q = p
    BY <1>2, <2>1 DEF ChangesRole
  <2>3. Admins' = Admins
    BY <1>3 DEF Admins, Users
  <2> QED BY <1>2, <1>3, <2>1, <2>2, <2>3 DEF OneChangeAtATime
<1> QED BY <1>4, <1>5, <1>6 DEF AccountInv

LEMMA FindTargetKeeps ==
  ASSUME AccountInv, NEW p \in Handlers, FindTarget(p)
  PROVE  AccountInv'
<1> DEFINE h == accountHandlers[p]
           to == [h EXCEPT !.step = "update"]
<1>1. h \in RoleRequest /\ h.step = "find" /\ UNCHANGED <<accounts, tokens, together>>
  BY DEF AccountInv, AccountsTyped, FindTarget, AccountAt, At, Waiting, NewAccountRequest
<1>2. CASE h.target \in Users
  <2>1. accountHandlers' = [accountHandlers EXCEPT ![p] = to]
    BY <1>2 DEF FindTarget, AccountGo, Goes
  <2>2. /\ accountHandlers'[p] = to
        /\ \A q \in Handlers \ {p} : accountHandlers'[q] = accountHandlers[q]
    BY <2>1 DEF AccountInv, AccountsTyped
  <2>3. to \in RoleRequest /\ to.target = h.target /\ to.role = h.role
    BY <1>1 DEF RoleRequest, RoleSteps
  <2> HIDE DEF to, h
  <2>4. AccountsTyped'
    BY <1>1, <1>2, <2>1, <2>2, <2>3 DEF AccountInv, AccountsTyped, Users, AccountAt, At
  <2>5. Unmerged'
    BY <1>1 DEF AccountInv, Unmerged, ByEmail, ByGoogleId, Users
  <2>6. ~together' => OneChangeAtATime'
    <3> SUFFICES ASSUME OneChangeAtATime PROVE OneChangeAtATime'
      BY <1>1 DEF AccountInv
    <3>1. ChangesRole(p)
      BY <1>1 DEF ChangesRole, RoleSteps, h
    <3>2. \A q \in Handlers : ChangesRole(q)' => ChangesRole(q)
      BY <2>2, <3>1 DEF ChangesRole
    <3>3. Admins' = Admins
      BY <1>1 DEF Admins, Users
    <3> QED BY <2>2, <2>3, <3>1, <3>2, <3>3 DEF OneChangeAtATime, h
  <2> QED BY <2>4, <2>5, <2>6 DEF AccountInv
<1>3. CASE h.target \notin Users
  BY <1>1, <1>3, AccountsReadKeeps DEF FindTarget, AccountEnd, Ends, Goes
<1> QED BY <1>2, <1>3

(* The role is written: of another than some administrator, or to make one.*)
LEMMA UpdateRoleKeeps ==
  ASSUME AccountInv, NEW p \in Handlers, UpdateRole(p)
  PROVE  AccountInv'
<1> DEFINE h == accountHandlers[p]
<1>1. h \in RoleRequest /\ h.step = "update" /\ h.target \in Users
  BY DEF AccountInv, AccountsTyped, UpdateRole, AccountAt, At, Waiting, NewAccountRequest
<1>2. /\ accounts' = [accounts EXCEPT ![h.target].role = h.role]
      /\ accountHandlers' = [accountHandlers EXCEPT ![p] = Waiting]
      /\ UNCHANGED <<tokens, together>>
  BY DEF UpdateRole, AccountEnd, Ends, Goes
<1>3. /\ accountHandlers'[p] = Waiting
      /\ \A q \in Handlers \ {p} : accountHandlers'[q] = accountHandlers[q]
  BY <1>2 DEF AccountInv, AccountsTyped
<1>4. h.role \in {"cliente", "admin"}
  BY <1>1 DEF RoleRequest
<1>5. /\ Users' = Users
      /\ \A a \in Users :
           /\ accounts'[a] \in AccountRow
           /\ accounts'[a].email = accounts[a].email
           /\ accounts'[a].provider = accounts[a].provider
           /\ accounts'[a].secret = accounts[a].secret
           /\ accounts'[a].role = IF a = h.target THEN h.role ELSE accounts[a].role
  <2>1. accounts \in [Users -> AccountRow]
    BY DEF AccountInv, AccountsTyped
  <2> HIDE DEF h
  <2> QED BY <1>1, <1>2, <1>4, <2>1 DEF AccountRow, Users
<1> HIDE DEF h
<1>6. AccountsTyped'
  <2>1. accounts' \in [Users' -> AccountRow]
    BY <1>2, <1>5 DEF AccountInv, AccountsTyped, Users
  <2>2. \A q \in Handlers : AccountAt(q, "update")' => accountHandlers'[q].target \in Users'
    BY <1>3, <1>5 DEF AccountInv, AccountsTyped, AccountAt, At, Waiting
  <2> QED BY <1>2, <1>5, <2>1, <2>2 DEF AccountInv, AccountsTyped
<1>7. Unmerged'
  <2>1. \A e \in Emails : ByEmail(e)' = ByEmail(e)
    BY <1>5 DEF ByEmail
  <2>2. \A g \in GoogleIds : ByGoogleId(g)' = ByGoogleId(g)
    BY <1>5 DEF ByGoogleId
  <2> QED BY <1>2, <1>5, <2>1, <2>2 DEF AccountInv, Unmerged
<1>8. ~together' => OneChangeAtATime'
  <2> SUFFICES ASSUME OneChangeAtATime PROVE OneChangeAtATime'
    BY <1>2 DEF AccountInv
  <2>1. ChangesRole(p)
    BY <1>1 DEF ChangesRole, RoleSteps, h
  <2>2. \A q \in Handlers : ~ChangesRole(q)'
    BY <1>3, <2>1 DEF OneChangeAtATime, ChangesRole, Waiting, RoleSteps
  <2>3. Admins' # {}
    <3>1. CASE h.role = "admin"
      BY <1>1, <1>5, <3>1 DEF Admins
    <3>2. CASE h.role # "admin"
      <4>1. PICK a \in Admins : a # h.target
        BY <2>1, <3>2 DEF OneChangeAtATime, h
      <4> QED BY <1>5, <4>1 DEF Admins
    <3> QED BY <3>1, <3>2
  <2> QED BY <2>2, <2>3 DEF OneChangeAtATime
<1> QED BY <1>6, <1>7, <1>8 DEF AccountInv

LEMMA AccountsStep == AccountInv /\ [AccountsNext]_accountVars => AccountInv'
<1> SUFFICES ASSUME AccountInv, [AccountsNext]_accountVars PROVE AccountInv'
  OBVIOUS
<1>1. CASE UNCHANGED accountVars
  <2>1. AccountsTyped' /\ Unmerged'
    BY <1>1 DEF accountVars, AccountInv, AccountsTyped, Unmerged, ByEmail, ByGoogleId,
                Users, AccountAt, At
  <2>2. ~together' => OneChangeAtATime'
    BY <1>1 DEF accountVars, AccountInv, OneChangeAtATime, Admins, Users, ChangesRole
  <2> QED BY <2>1, <2>2 DEF AccountInv
<1>2. CASE AccountsNext
  BY <1>2, StartRegisterKeeps, GoogleLoginKeeps, GoogleEmailKeeps, CreateAccountKeeps,
     LoginKeeps, StartUpdateRoleKeeps, FindTargetKeeps, UpdateRoleKeeps DEF AccountsNext
<1> QED BY <1>1, <1>2

LEMMA AccountsAlways == Spec => []AccountInv
<1>1. Init => AccountInv
  BY AccountsBegin DEF Init
<1>2. AccountInv /\ [Next]_backOfficeVars => AccountInv'
  <2>1. [Next]_backOfficeVars => [AccountsNext]_accountVars
    BY DEF Next, OthersRest, backOfficeVars
  <2> QED BY <2>1, AccountsStep
<1> QED BY <1>1, <1>2, PTL DEF Spec

(* auth.service.ts:34,90,97: of any number of registrations and logins at a*)
(* time, none makes a second account of an email or a Google identity, or  *)
(* gets into an account of another secret.                                 *)
THEOREM AccountsStayApart == Spec => []AccountsAreNotMerged
<1>1. AccountInv => AccountsAreNotMerged
  <2> SUFFICES ASSUME AccountInv PROVE AccountsAreNotMerged
    OBVIOUS
  <2>1. \A e \in Emails : Cardinality(ByEmail(e)) <= 1
    BY AtMostOne DEF AccountInv, Unmerged
  <2>2. \A g \in GoogleIds : Cardinality(ByGoogleId(g)) <= 1
    BY AtMostOne DEF AccountInv, Unmerged
  <2>3. \A t \in tokens : accounts[t[1]].secret = t[2]
    BY DEF AccountInv, AccountsTyped, Unmerged
  <2> QED BY <2>1, <2>2, <2>3 DEF AccountsAreNotMerged
<1> QED BY <1>1, AccountsAlways, PTL

(* users.service.ts:298: however many administrators there are, changes of *)
(* roles that do not overlap never leave the system without one.           *)
THEOREM AdminsAreKeptOneByOne == Spec => []AdminsAreLostOnlyTogether
<1>1. AccountInv => AdminsAreLostOnlyTogether
  BY DEF AccountInv, OneChangeAtATime, AdminsAreLostOnlyTogether
<1> QED BY <1>1, AccountsAlways, PTL

(***************************************************************************)
(* StarProgress.  getProgress() grants what the stars have reached and then*)
(* reads the milestones, the stars and the rewards one after another: what *)
(* it has read so far is still so, unless something has disturbed it.      *)
(***************************************************************************)
ProgressReliable(p) ==
  LET h == progressHandlers[p] IN
  /\ h.step \in {"milestones", "stats"} => Reached(MonthlyStars) \subseteq granted
  /\ h.step = "stats" => h.milestones = milestones
  /\ h.step = "rewards" => h.reached \subseteq granted

ProgressInv ==
  /\ progressHandlers = [p \in Handlers |-> progressHandlers[p]]
  /\ \A p \in Handlers : p \notin disturbed => ProgressReliable(p)
  /\ ProgressIsAligned

(* The stars are those of the orders delivered and the dates promoted.     *)
LEMMA StarsKept ==
  ASSUME UNCHANGED <<promoted, milestones, delivered>>
  PROVE  /\ MonthlyStars' = MonthlyStars
         /\ Reached(MonthlyStars)' = Reached(MonthlyStars)
<1>1. \A day : MultiplierForDate(day)' = MultiplierForDate(day)
  BY DEF MultiplierForDate
<1>2. MonthlyStars' = MonthlyStars
  BY <1>1, Zenon DEF MonthlyStars
<1> QED BY <1>2 DEF Reached

(* A step of p that changes neither the tables nor the stars, and takes no *)
(* reward away, leaves the others what they have read.                     *)
LEMMA OtherProgressRelies ==
  ASSUME ProgressInv, NEW p \in Handlers, NEW to,
         progressHandlers' = [progressHandlers EXCEPT ![p] = to],
         UNCHANGED <<promoted, milestones, delivered>>,
         granted \subseteq granted', disturbed \subseteq disturbed' \cup {p}
  PROVE  /\ progressHandlers' = [q \in Handlers |-> progressHandlers'[q]]
         /\ progressHandlers'[p] = to
         /\ \A q \in Handlers \ {p} : q \notin disturbed' => ProgressReliable(q)'
<1>1. /\ progressHandlers' = [q \in Handlers |-> progressHandlers'[q]]
      /\ progressHandlers'[p] = to
      /\ \A q \in Handlers \ {p} : progressHandlers'[q] = progressHandlers[q]
  BY DEF ProgressInv
<1>2. ASSUME NEW q \in Handlers \ {p}, q \notin disturbed' PROVE ProgressReliable(q)'
  <2>1. ProgressReliable(q)
    BY <1>2 DEF ProgressInv
  <2> QED BY <1>1, <2>1, StarsKept DEF ProgressReliable
<1> QED BY <1>1, <1>2

(* Whatever disturbs everybody leaves nothing to rely on.                  *)
LEMMA DisturbKeeps ==
  ASSUME ProgressInv, Disturb, shown' = shown,
         \/ progressHandlers' = progressHandlers
         \/ \E p \in Handlers : ProgressEnd(p)
  PROVE  ProgressInv'
  BY DEF ProgressInv, Disturb, ProgressEnd, Ends, Goes, ProgressIsAligned

LEMMA ProgressStep == ProgressInv /\ [ProgressNext]_progressVars => ProgressInv'
<1> SUFFICES ASSUME ProgressInv, [ProgressNext]_progressVars PROVE ProgressInv'
  OBVIOUS
<1>1. CASE UNCHANGED progressVars
  BY <1>1, StarsKept DEF progressVars, progressTables, ProgressInv, ProgressReliable,
                         ProgressIsAligned
<1>2. ASSUME NEW p \in Handlers, NEW id, NEW stars,
             NEW k \in {"create", "update", "remove"},
             StartMilestone(p, id, k, stars)
      PROVE  ProgressInv'
  <2> DEFINE to == [step |-> k, id |-> id, stars |-> stars]
  <2>1. /\ progressHandlers' = [progressHandlers EXCEPT ![p] = to]
        /\ UNCHANGED <<progressTables, disturbed, shown>>
    BY <1>2 DEF StartMilestone, ProgressGo, Goes
  <2>2. to.step \notin {"milestones", "stats", "rewards"}
    OBVIOUS
  <2> HIDE DEF to
  <2> QED BY <2>1, <2>2, OtherProgressRelies
          DEF ProgressInv, ProgressReliable, ProgressIsAligned, progressTables
<1>3. ASSUME NEW p \in Handlers, SaveMilestone(p) \/ RemoveMilestone(p)
      PROVE  ProgressInv'
  BY <1>3, DisturbKeeps DEF SaveMilestone, RemoveMilestone
<1>4. ASSUME NEW day \in Days, Deliver(day) \/ Promote(day) PROVE ProgressInv'
  BY <1>4, DisturbKeeps DEF Deliver, Promote
<1>5. ASSUME NEW p \in Handlers, Recalculate(p) PROVE ProgressInv'
  <2>1. /\ progressHandlers' = [progressHandlers EXCEPT ![p] = [step |-> "milestones"]]
        /\ granted' = granted \cup Reached(MonthlyStars)
        /\ disturbed' = disturbed \ {p}
        /\ UNCHANGED <<promoted, milestones, delivered, shown>>
    BY <1>5 DEF Recalculate, ProgressGo, Goes
  <2>2. /\ progressHandlers' = [q \in Handlers |-> progressHandlers'[q]]
        /\ progressHandlers'[p] = [step |-> "milestones"]
        /\ \A q \in Handlers \ {p} : q \notin disturbed' => ProgressReliable(q)'
    BY <2>1, OtherProgressRelies
  <2>3. ProgressReliable(p)'
    BY <2>1, <2>2, StarsKept DEF ProgressReliable
  <2> QED BY <2>1, <2>2, <2>3 DEF ProgressInv, ProgressIsAligned
<1>6. ASSUME NEW p \in Handlers, ReadMilestones(p) PROVE ProgressInv'
  <2> DEFINE to == [step |-> "stats", milestones |-> milestones]
  <2>1. /\ progressHandlers' = [progressHandlers EXCEPT ![p] = to]
        /\ UNCHANGED <<progressTables, disturbed, shown>>
        /\ progressHandlers[p].step = "milestones"
    BY <1>6 DEF ReadMilestones, ProgressGo, Goes, ProgressAt, At
  <2>2. to.step = "stats" /\ to.milestones = milestones
    OBVIOUS
  <2> HIDE DEF to
  <2>3. p \notin disturbed' => ProgressReliable(p)'
    BY <2>1, <2>2, OtherProgressRelies, StarsKept
       DEF ProgressInv, ProgressReliable, progressTables
  <2> QED BY <2>1, <2>3, OtherProgressRelies
          DEF ProgressInv, ProgressIsAligned, progressTables
<1>7. ASSUME NEW p \in Handlers, ReadStats(p) PROVE ProgressInv'
  <2> DEFINE hitos == progressHandlers[p].milestones
             reached == {hitos[i] : i \in {j \in DOMAIN hitos : hitos[j] <= MonthlyStars}}
             to == [step |-> "rewards", reached |-> reached]
  <2>1. /\ progressHandlers' = [progressHandlers EXCEPT ![p] = to]
        /\ UNCHANGED <<progressTables, disturbed, shown>>
        /\ progressHandlers[p].step = "stats"
    BY <1>7 DEF ReadStats, ProgressGo, Goes, ProgressAt, At
  <2>2. p \notin disturbed => reached \subseteq granted
    <3> SUFFICES ASSUME p \notin disturbed PROVE reached \subseteq granted
      OBVIOUS
    <3>1. hitos = milestones /\ Reached(MonthlyStars) \subseteq granted
      BY <2>1 DEF ProgressInv, ProgressReliable
    <3>2. reached = Reached(MonthlyStars)
      BY <3>1 DEF Reached
    <3> QED BY <3>1, <3>2
  <2>3. to.step = "rewards" /\ to.reached = reached
    OBVIOUS
  <2> HIDE DEF to, reached
  <2>4. p \notin disturbed' => ProgressReliable(p)'
    BY <2>1, <2>2, <2>3, OtherProgressRelies DEF ProgressReliable, progressTables
  <2> QED BY <2>1, <2>4, OtherProgressRelies
          DEF ProgressInv, ProgressIsAligned, progressTables
<1>8. ASSUME NEW p \in Handlers, ShowProgress(p) PROVE ProgressInv'
  <2>1. /\ progressHandlers' = [progressHandlers EXCEPT ![p] = Waiting]
        /\ UNCHANGED <<progressTables, disturbed>>
        /\ progressHandlers[p].step = "rewards"
        /\ shown'.reached = progressHandlers[p].reached
        /\ shown'.rewards = granted /\ shown'.sound = (p \notin disturbed)
    BY <1>8 DEF ShowProgress, ProgressEnd, Ends, Goes, ProgressAt, At
  <2>2. /\ progressHandlers' = [q \in Handlers |-> progressHandlers'[q]]
        /\ progressHandlers'[p] = Waiting
        /\ \A q \in Handlers \ {p} : q \notin disturbed' => ProgressReliable(q)'
    BY <2>1, OtherProgressRelies DEF progressTables
  <2>3. ProgressReliable(p)'
    BY <2>2 DEF ProgressReliable, Waiting
  <2>4. ProgressIsAligned'
    BY <2>1 DEF ProgressIsAligned, ProgressInv, ProgressReliable
  <2> QED BY <2>2, <2>3, <2>4 DEF ProgressInv
<1> QED BY <1>1, <1>2, <1>3, <1>4, <1>5, <1>6, <1>7, <1>8 DEF ProgressNext

(* rewards.service.ts:94: a customer whose progress is read while nothing  *)
(* changes is shown the reward of every milestone shown as reached, with   *)
(* any number of other requests, milestones and orders.                    *)
THEOREM ProgressAgreesWithRewards == Spec => []ProgressIsAligned
<1>1. Init => ProgressInv
  BY DEF Init, ProgressInit, ProgressInv, ProgressReliable, ProgressIsAligned, Waiting
<1>2. ProgressInv /\ [Next]_backOfficeVars => ProgressInv'
  <2>1. [Next]_backOfficeVars => [ProgressNext]_progressVars
    BY DEF Next, OthersRest, backOfficeVars
  <2> QED BY <2>1, ProgressStep
<1>3. ProgressInv => ProgressIsAligned
  BY DEF ProgressInv
<1> QED BY <1>1, <1>2, <1>3, PTL DEF Spec

(***************************************************************************)
(* Delivery.  A write of the catalog decides on what it has read: under the*)
(* advisory lock, what it has found permitted still is when it writes.     *)
(***************************************************************************)
ZoneRow == [area : Areas, fee : Fees, active : BOOLEAN]
WriteSteps == {"lock", "check", "write"}
CatalogRequest ==
  [step : WriteSteps, kind : {"create", "update"}, zone : Zones \cup {None},
   dto : DeliveryDtos]
  \cup [step : WriteSteps, kind : {"remove"}, zone : Zones, dto : {None}]
  \cup [step : WriteSteps, kind : {"mode"}, value : {"DISTANCE", "ZONES"}]
Quotation == [step : {"distance", "zones"}, spot : Spots \cup {None}]

DeliveryTyped ==
  /\ DOMAIN zones \subseteq Zones
  /\ zones \in [DOMAIN zones -> ZoneRow]
  /\ deliveryHandlers \in [Handlers -> {Waiting} \cup CatalogRequest \cup Quotation]

ZoneReliable(p) ==
  LET h == deliveryHandlers[p] IN
  /\ h.step \in WriteSteps /\ h.kind = "create" => None \notin {h.dto.area, h.dto.active}
  /\ h.step \in {"check", "write"} => zonesLock = p
  /\ h.step = "write" => Permitted(h)

ZonesApart == \A y, z \in DOMAIN zones : y # z => zones[y].area \cap zones[z].area = {}

DeliveryInv ==
  /\ DeliveryTyped
  /\ \A p \in Handlers : ZoneReliable(p)
  /\ ZonesApart
  /\ ZonesModeHasAZone
  /\ UncoveredIsNotAQuotation

(* Nobody else relies on the catalog while p has its lock, or nobody has.  *)
LEMMA OtherZonesRely ==
  ASSUME DeliveryInv, NEW p \in Handlers, NEW to,
         deliveryHandlers' = [deliveryHandlers EXCEPT ![p] = to],
         UNCHANGED <<zones, mode, zonesLock>> \/ zonesLock \in {p, None}
  PROVE  /\ deliveryHandlers'[p] = to
         /\ \A q \in Handlers \ {p} : ZoneReliable(q)'
<1>1. /\ deliveryHandlers'[p] = to
      /\ \A q \in Handlers \ {p} : deliveryHandlers'[q] = deliveryHandlers[q]
  BY DEF DeliveryInv, DeliveryTyped
<1>2. ASSUME NEW q \in Handlers \ {p} PROVE ZoneReliable(q)'
  <2>1. ZoneReliable(q) /\ deliveryHandlers'[q] = deliveryHandlers[q]
    BY <1>1 DEF DeliveryInv
  <2>2. CASE UNCHANGED <<zones, mode, zonesLock>>
    <3>1. Permitted(deliveryHandlers[q])' = Permitted(deliveryHandlers[q])
      BY <2>1, <2>2 DEF Permitted, EnsureGeometry, EnsureActiveZoneRemains, ActiveZones,
                        ZoneWith
    <3> QED BY <2>1, <2>2, <3>1 DEF ZoneReliable
  <2>3. CASE zonesLock \in {p, None}
    <3>1. deliveryHandlers[q].step \notin {"check", "write"}
      BY <2>1, <2>3, HandlersAssumption DEF ZoneReliable
    <3> QED BY <2>1, <3>1 DEF ZoneReliable
  <2> QED BY <2>2, <2>3
<1> QED BY <1>1, <1>2

(* A step that writes neither the catalog nor the mode.                    *)
LEMMA CatalogKept ==
  ASSUME DeliveryInv, NEW p \in Handlers,
         NEW to \in {Waiting} \cup CatalogRequest \cup Quotation,
         deliveryHandlers' = [deliveryHandlers EXCEPT ![p] = to],
         UNCHANGED <<zones, mode>>,
         UNCHANGED zonesLock \/ zonesLock \in {p, None},
         ZoneReliable(p)', UncoveredIsNotAQuotation'
  PROVE  DeliveryInv'
<1>1. \A q \in Handlers : ZoneReliable(q)'
  BY OtherZonesRely
<1>2. DeliveryTyped'
  BY DEF DeliveryInv, DeliveryTyped
<1>3. ZonesApart' /\ ZonesModeHasAZone'
  BY DEF DeliveryInv, ZonesApart, ZonesModeHasAZone, ActiveZones
<1> QED BY <1>1, <1>2, <1>3 DEF DeliveryInv

LEMMA PlacedKept ==
  ASSUME UncoveredIsNotAQuotation, UNCHANGED placed
  PROVE  UncoveredIsNotAQuotation'
  BY DEF UncoveredIsNotAQuotation

LEMMA EndedRelies ==
  ASSUME DeliveryInv, NEW p \in Handlers,
         deliveryHandlers' = [deliveryHandlers EXCEPT ![p] = Waiting]
  PROVE  ZoneReliable(p)'
<1>1. deliveryHandlers'[p].step = "waiting"
  BY DEF DeliveryInv, DeliveryTyped, Waiting
<1> QED BY <1>1 DEF ZoneReliable, WriteSteps

(* A request of the catalog, whether it waits, holds the lock or writes.   *)
LEMMA WriterIsTyped ==
  ASSUME DeliveryInv, NEW p \in Handlers, NEW s \in WriteSteps, DeliveryAt(p, s)
  PROVE  /\ deliveryHandlers[p] \in CatalogRequest
         /\ deliveryHandlers[p].step = s
         /\ ZoneReliable(p)
  BY DEF DeliveryInv, DeliveryTyped, DeliveryAt, At, Waiting, Quotation, WriteSteps

LEMMA CatalogRequestMoves ==
  ASSUME NEW h \in CatalogRequest, NEW s \in WriteSteps
  PROVE  /\ [h EXCEPT !.step = s] \in CatalogRequest
         /\ [h EXCEPT !.step = s].step = s
         /\ [h EXCEPT !.step = s].kind = h.kind
         /\ h.kind \in {"create", "update", "remove", "mode"}
         /\ h.kind # "mode" => /\ [h EXCEPT !.step = s].zone = h.zone
                               /\ [h EXCEPT !.step = s].dto = h.dto
         /\ h.kind = "mode" => [h EXCEPT !.step = s].value = h.value
  BY DEF CatalogRequest

LEMMA PermittedMoves ==
  ASSUME NEW h \in CatalogRequest, NEW s \in WriteSteps
  PROVE  Permitted([h EXCEPT !.step = s]) = Permitted(h)
<1> DEFINE to == [h EXCEPT !.step = s]
<1>1. /\ to.kind = h.kind /\ h.kind \in {"create", "update", "remove", "mode"}
      /\ h.kind # "mode" => to.zone = h.zone /\ to.dto = h.dto
      /\ h.kind = "mode" => to.value = h.value
  BY CatalogRequestMoves
<1> HIDE DEF to
<1>2. Permitted(to) = Permitted(h)
  BY <1>1 DEF Permitted
<1> QED BY <1>2 DEF to

LEMMA StartZoneKeeps ==
  ASSUME DeliveryInv, NEW p \in Handlers, NEW k \in {"create", "update", "remove"},
         NEW z \in Zones \cup {None}, NEW dto,
         k # "remove" => dto \in DeliveryDtos, k = "remove" => dto = None,
         StartZone(p, k, z, dto)
  PROVE  DeliveryInv'
<1> DEFINE to == [step |-> "lock", kind |-> k, zone |-> z, dto |-> dto]
<1>1. /\ deliveryHandlers' = [deliveryHandlers EXCEPT ![p] = to]
      /\ UNCHANGED <<zones, mode, zonesLock, placed>>
      /\ k = "create" <=> z = None
      /\ k = "create" => None \notin {dto.area, dto.active}
  BY DEF StartZone, DeliveryGo, Goes
<1>2. to \in CatalogRequest
  BY <1>1 DEF CatalogRequest, WriteSteps
<1>3. to.step = "lock" /\ to.kind = k /\ to.dto = dto
  OBVIOUS
<1> HIDE DEF to
<1>4. ZoneReliable(p)'
  BY <1>1, <1>3, OtherZonesRely DEF ZoneReliable
<1> QED BY <1>1, <1>2, <1>4, PlacedKept, CatalogKept DEF DeliveryInv

LEMMA StartModeKeeps ==
  ASSUME DeliveryInv, NEW p \in Handlers, NEW value \in {"DISTANCE", "ZONES"},
         StartMode(p, value)
  PROVE  DeliveryInv'
<1> DEFINE to == [step |-> "lock", kind |-> "mode", value |-> value]
<1>1. /\ deliveryHandlers' = [deliveryHandlers EXCEPT ![p] = to]
      /\ UNCHANGED <<zones, mode, zonesLock, placed>>
  BY DEF StartMode, DeliveryGo, Goes
<1>2. to \in CatalogRequest
  BY DEF CatalogRequest, WriteSteps
<1>3. to.step = "lock" /\ to.kind = "mode"
  OBVIOUS
<1> HIDE DEF to
<1>4. ZoneReliable(p)'
  BY <1>1, <1>3, OtherZonesRely DEF ZoneReliable
<1> QED BY <1>1, <1>2, <1>4, PlacedKept, CatalogKept DEF DeliveryInv

LEMMA LockDeliveryKeeps ==
  ASSUME DeliveryInv, NEW p \in Handlers, LockDeliveryCatalog(p)
  PROVE  DeliveryInv'
<1> DEFINE h == deliveryHandlers[p]
           to == [h EXCEPT !.step = "check"]
<1>1. h \in CatalogRequest /\ h.step = "lock" /\ ZoneReliable(p)
  BY WriterIsTyped DEF LockDeliveryCatalog, WriteSteps
<1>2. /\ deliveryHandlers' = [deliveryHandlers EXCEPT ![p] = to]
      /\ zonesLock = None /\ zonesLock' = p
      /\ UNCHANGED <<zones, mode, placed>>
  BY DEF LockDeliveryCatalog, DeliveryGo, Goes
<1>3. /\ to \in CatalogRequest /\ to.step = "check" /\ to.kind = h.kind
      /\ h.kind # "mode" => to.dto = h.dto
  BY <1>1, CatalogRequestMoves DEF WriteSteps
<1> HIDE DEF to
<1>4. deliveryHandlers'[p] = to
  BY <1>2, OtherZonesRely
<1>5. ZoneReliable(p)'
  BY <1>1, <1>2, <1>3, <1>4 DEF ZoneReliable, WriteSteps
<1> QED BY <1>2, <1>3, <1>5, PlacedKept, CatalogKept DEF DeliveryInv

LEMMA CheckDeliveryKeeps ==
  ASSUME DeliveryInv, NEW p \in Handlers, CheckDelivery(p)
  PROVE  DeliveryInv'
<1>0. PICK h : h = deliveryHandlers[p]
  OBVIOUS
<1> DEFINE to == [h EXCEPT !.step = "write"]
<1>1. /\ h \in CatalogRequest /\ h.step = "check" /\ ZoneReliable(p)
      /\ zonesLock = p
  BY <1>0, WriterIsTyped DEF CheckDelivery, WriteSteps, ZoneReliable
<1>2. UNCHANGED <<zones, mode, placed>>
  BY DEF CheckDelivery
<1>3. CASE Permitted(h)
  <2>1. /\ deliveryHandlers' = [deliveryHandlers EXCEPT ![p] = to]
        /\ UNCHANGED zonesLock
    BY <1>0, <1>3 DEF CheckDelivery, DeliveryGo, Goes
  <2>2. /\ to \in CatalogRequest /\ to.step = "write" /\ to.kind = h.kind
        /\ h.kind # "mode" => to.dto = h.dto
    BY <1>1, CatalogRequestMoves DEF WriteSteps
  <2>3. Permitted(to)
    BY <1>1, <1>3, PermittedMoves DEF WriteSteps
  <2> HIDE DEF to
  <2>4. deliveryHandlers'[p] = to
    BY <2>1, OtherZonesRely, <1>1
  <2>5. Permitted(to)'
    BY <1>2, <2>3 DEF Permitted, EnsureGeometry, EnsureActiveZoneRemains, ActiveZones, ZoneWith
  <2>6. ZoneReliable(p)'
    BY <1>0, <1>1, <2>1, <2>2, <2>4, <2>5 DEF ZoneReliable, WriteSteps
  <2> QED BY <1>1, <1>2, <2>1, <2>2, <2>6, PlacedKept, CatalogKept DEF DeliveryInv
<1>4. CASE ~Permitted(h)
  <2>1. deliveryHandlers' = [deliveryHandlers EXCEPT ![p] = Waiting]
    BY <1>0, <1>4 DEF CheckDelivery, DeliveryEnd, Ends, Goes
  <2>2. ZoneReliable(p)'
    BY <1>1, <2>1, EndedRelies
  <2> QED BY <1>1, <1>2, <2>1, <2>2, PlacedKept, CatalogKept DEF DeliveryInv
<1> QED BY <1>3, <1>4

(* The end of a write, whatever it has written of the catalog or the mode. *)
LEMMA WriteEnds ==
  ASSUME DeliveryInv, NEW p \in Handlers, zonesLock = p, DeliveryEnd(p),
         UNCHANGED placed, DOMAIN zones' \subseteq Zones,
         zones' \in [DOMAIN zones' -> ZoneRow], ZonesApart', ZonesModeHasAZone'
  PROVE  DeliveryInv'
<1>1. deliveryHandlers' = [deliveryHandlers EXCEPT ![p] = Waiting]
  BY DEF DeliveryEnd, Ends, Goes
<1>2. ZoneReliable(p)'
  BY <1>1, EndedRelies
<1>3. \A q \in Handlers : ZoneReliable(q)'
  BY <1>1, <1>2, OtherZonesRely
<1>4. DeliveryTyped'
  BY <1>1 DEF DeliveryInv, DeliveryTyped
<1> QED BY <1>3, <1>4, PlacedKept DEF DeliveryInv

LEMMA CreateZoneKeeps ==
  ASSUME DeliveryInv, NEW p \in Handlers, WriteZone(p),
         deliveryHandlers[p].kind = "create"
  PROVE  DeliveryInv'
<1> DEFINE dto == deliveryHandlers[p].dto
<1>1. /\ deliveryHandlers[p] \in CatalogRequest /\ zonesLock = p
      /\ EnsureGeometry(None, dto.area) /\ None \notin {dto.area, dto.active}
  BY WriterIsTyped DEF WriteZone, WriteSteps, ZoneReliable, Permitted
<1>2. dto \in ZoneRow
  <2>1. dto \in DeliveryDtos
    BY <1>1 DEF CatalogRequest
  <2> HIDE DEF dto
  <2> QED BY <1>1, <2>1 DEF DeliveryDtos, ZoneRow
<1>3. PICK z \in Zones \ DOMAIN zones : zones' = Put(zones, z, dto)
  BY DEF WriteZone
<1> HIDE DEF dto
<1>4. /\ DOMAIN zones' = DOMAIN zones \cup {z} /\ zones'[z] = dto
      /\ \A y \in DOMAIN zones : zones'[y] = zones[y]
  BY <1>3 DEF Put
<1>5. DOMAIN zones' \subseteq Zones /\ zones' \in [DOMAIN zones' -> ZoneRow]
  BY <1>2, <1>3, <1>4 DEF Put, DeliveryInv, DeliveryTyped
<1>6. ZonesApart'
  <2>1. \A y \in DOMAIN zones : zones[y].area \cap dto.area = {}
    BY <1>1, DeliveryAssumption DEF EnsureGeometry, DeliveryInv, DeliveryTyped
  <2> QED BY <1>4, <2>1 DEF ZonesApart, DeliveryInv
<1>7. ZonesModeHasAZone'
  BY <1>4 DEF WriteZone, ZonesModeHasAZone, ActiveZones, DeliveryInv
<1> QED BY <1>1, <1>5, <1>6, <1>7, WriteEnds DEF WriteZone

LEMMA UpdateZoneKeeps ==
  ASSUME DeliveryInv, NEW p \in Handlers, WriteZone(p),
         deliveryHandlers[p].kind = "update"
  PROVE  DeliveryInv'
<1> DEFINE dto == deliveryHandlers[p].dto
           z == deliveryHandlers[p].zone
           row == ZoneWith(zones[z], dto)
<1>1. /\ deliveryHandlers[p] \in CatalogRequest /\ zonesLock = p
      /\ z \in DOMAIN zones
      /\ zones[z].active /\ dto.active = FALSE => EnsureActiveZoneRemains(z)
      /\ EnsureGeometry(z, row.area)
  BY WriterIsTyped DEF WriteZone, WriteSteps, ZoneReliable, Permitted
<1>2. dto \in DeliveryDtos
  BY <1>1 DEF CatalogRequest
<1>3. /\ zones' = [zones EXCEPT ![z] = row]
      /\ UNCHANGED mode
  BY DEF WriteZone
<1>4. zones[z] \in ZoneRow
  BY <1>1 DEF DeliveryInv, DeliveryTyped
<1> HIDE DEF dto, z
<1>5. /\ row \in ZoneRow
      /\ row.active = IF dto.active = None THEN zones[z].active ELSE dto.active
  <2>1. /\ row = [area |-> row.area, fee |-> row.fee, active |-> row.active]
        /\ row.area = IF dto.area = None THEN zones[z].area ELSE dto.area
        /\ row.fee = IF dto.fee = None THEN zones[z].fee ELSE dto.fee
        /\ row.active = IF dto.active = None THEN zones[z].active ELSE dto.active
    BY DEF ZoneWith
  <2> HIDE DEF row
  <2>2. row.area \in Areas /\ row.fee \in Fees /\ row.active \in BOOLEAN
    BY <1>2, <1>4, <2>1 DEF DeliveryDtos, ZoneRow
  <2> QED BY <2>1, <2>2 DEF ZoneRow
<1> HIDE DEF row
<1>6. /\ DOMAIN zones' = DOMAIN zones /\ zones'[z] = row
      /\ \A y \in DOMAIN zones \ {z} : zones'[y] = zones[y]
  BY <1>1, <1>3 DEF DeliveryInv, DeliveryTyped
<1>7. DOMAIN zones' \subseteq Zones /\ zones' \in [DOMAIN zones' -> ZoneRow]
  BY <1>3, <1>5, <1>6 DEF DeliveryInv, DeliveryTyped
<1>8. ZonesApart'
  BY <1>1, <1>6 DEF ZonesApart, EnsureGeometry, DeliveryInv
<1>9. ZonesModeHasAZone'
  <2> SUFFICES ASSUME mode = "ZONES" PROVE ActiveZones' # {}
    BY <1>3 DEF ZonesModeHasAZone
  <2>1. CASE zones[z].active /\ dto.active = FALSE
    BY <1>1, <1>6, <2>1 DEF EnsureActiveZoneRemains, ActiveZones
  <2>2. CASE ~(zones[z].active /\ dto.active = FALSE)
    <3>1. PICK y \in DOMAIN zones : zones[y].active
      BY DEF DeliveryInv, ZonesModeHasAZone, ActiveZones
    <3>2. CASE y # z
      BY <1>6, <3>1, <3>2 DEF ActiveZones
    <3>3. CASE y = z
      <4>1. dto.active = TRUE \/ dto.active = None
        BY <1>2, <2>2, <3>1, <3>3 DEF DeliveryDtos
      <4>2. row.active
        BY <1>5, <3>1, <3>3, <4>1
      <4> QED BY <1>1, <1>6, <4>2 DEF ActiveZones
    <3> QED BY <3>2, <3>3
  <2> QED BY <2>1, <2>2
<1> QED BY <1>1, <1>7, <1>8, <1>9, WriteEnds DEF WriteZone

LEMMA RemoveZoneKeeps ==
  ASSUME DeliveryInv, NEW p \in Handlers, WriteZone(p),
         deliveryHandlers[p].kind = "remove"
  PROVE  DeliveryInv'
<1> DEFINE z == deliveryHandlers[p].zone
<1>1. /\ zonesLock = p /\ z \in DOMAIN zones
      /\ zones[z].active => EnsureActiveZoneRemains(z)
  BY WriterIsTyped DEF WriteZone, WriteSteps, ZoneReliable, Permitted
<1>2. zones' = [y \in DOMAIN zones \ {z} |-> zones[y]] /\ UNCHANGED mode
  BY DEF WriteZone, Without
<1> HIDE DEF z
<1>3. DOMAIN zones' \subseteq Zones /\ zones' \in [DOMAIN zones' -> ZoneRow]
  BY <1>2 DEF DeliveryInv, DeliveryTyped
<1>4. ZonesApart'
  BY <1>2 DEF ZonesApart, DeliveryInv
<1>5. ZonesModeHasAZone'
  <2>1. ActiveZones' = ActiveZones \ {z}
    BY <1>2 DEF ActiveZones
  <2>2. mode = "ZONES" => ActiveZones \ {z} # {}
    BY <1>1 DEF ActiveZones, EnsureActiveZoneRemains, DeliveryInv, ZonesModeHasAZone
  <2> QED BY <1>2, <2>1, <2>2 DEF ZonesModeHasAZone
<1> QED BY <1>1, <1>3, <1>4, <1>5, WriteEnds DEF WriteZone

LEMMA WriteZoneKeeps ==
  ASSUME DeliveryInv, NEW p \in Handlers, WriteZone(p)
  PROVE  DeliveryInv'
  BY CreateZoneKeeps, UpdateZoneKeeps, RemoveZoneKeeps DEF WriteZone

LEMMA WriteModeKeeps ==
  ASSUME DeliveryInv, NEW p \in Handlers, WriteMode(p)
  PROVE  DeliveryInv'
<1>1. /\ zonesLock = p
      /\ deliveryHandlers[p].value = "ZONES" => ActiveZones # {}
  BY WriterIsTyped DEF WriteMode, WriteSteps, ZoneReliable, Permitted
<1>2. ZonesModeHasAZone'
  BY <1>1 DEF WriteMode, ZonesModeHasAZone, ActiveZones
<1>3. /\ DOMAIN zones' \subseteq Zones /\ zones' \in [DOMAIN zones' -> ZoneRow]
      /\ ZonesApart'
  BY DEF WriteMode, DeliveryInv, DeliveryTyped, ZonesApart
<1> QED BY <1>1, <1>2, <1>3, WriteEnds DEF WriteMode

LEMMA ReadModeKeeps ==
  ASSUME DeliveryInv, NEW p \in Handlers, NEW spot \in Spots \cup {None},
         ReadDeliveryMode(p, spot)
  PROVE  DeliveryInv'
<1> DEFINE to == [step |-> IF mode = "DISTANCE" THEN "distance" ELSE "zones", spot |-> spot]
<1>1. /\ deliveryHandlers' = [deliveryHandlers EXCEPT ![p] = to]
      /\ UNCHANGED <<zones, mode, zonesLock, placed>>
  BY DEF ReadDeliveryMode, DeliveryGo, Goes
<1>2. to \in Quotation /\ to.step \in {"distance", "zones"}
  BY DEF Quotation
<1> HIDE DEF to
<1>3. ZoneReliable(p)'
  BY <1>1, <1>2, OtherZonesRely DEF ZoneReliable, WriteSteps
<1> QED BY <1>1, <1>2, <1>3, PlacedKept, CatalogKept DEF DeliveryInv

(* An order by zones is placed with the fee of a zone, or not at all.      *)
LEMMA PlaceDeliveryKeeps ==
  ASSUME DeliveryInv, NEW p \in Handlers, PlaceDelivery(p)
  PROVE  DeliveryInv'
<1> DEFINE h == deliveryHandlers[p]
<1>1. /\ deliveryHandlers' = [deliveryHandlers EXCEPT ![p] = Waiting]
      /\ UNCHANGED <<zones, mode, zonesLock>>
  BY DEF PlaceDelivery, DeliveryEnd, Ends, Goes
<1>2. ZoneReliable(p)'
  BY <1>1, EndedRelies
<1>3. PICK delivery \in ComputeDelivery(h.step, h.spot) :
        placed' = IF delivery.covered /\ (h.spot # None => store) THEN delivery ELSE placed
  BY DEF PlaceDelivery
<1> HIDE DEF h
<1>4. UncoveredIsNotAQuotation'
  <2>1. CASE ~(delivery.covered /\ (h.spot # None => store))
    BY <1>3, <2>1, PlacedKept DEF DeliveryInv
  <2>2. CASE delivery.covered /\ (h.spot # None => store)
    <3>1. placed' = delivery
      BY <1>3, <2>2
    <3>2. CASE h.step = "distance"
      <4>1. delivery.mode = "DISTANCE"
        BY <3>2 DEF ComputeDelivery, ByDistance
      <4> QED BY <3>1, <4>1 DEF UncoveredIsNotAQuotation
    <3>3. CASE h.step # "distance"
      <4>1. Resolve(h.spot) # {}
        BY <2>2, <3>3 DEF ComputeDelivery
      <4>2. PICK z \in Resolve(h.spot) :
              delivery = [mode |-> "ZONES", zone |-> z, covered |-> TRUE, fee |-> zones[z].fee]
        BY <3>3, <4>1 DEF ComputeDelivery
      <4>3. z \in Zones /\ zones[z].fee \in Fees
        BY DEF Resolve, ActiveZones, DeliveryInv, DeliveryTyped, ZoneRow
      <4> QED BY <3>1, <4>2, <4>3 DEF UncoveredIsNotAQuotation
    <3> QED BY <3>2, <3>3
  <2> QED BY <2>1, <2>2
<1> QED BY <1>1, <1>2, <1>4, CatalogKept

LEMMA DeliveryStep == DeliveryInv /\ [DeliveryNext]_deliveryVars => DeliveryInv'
<1> SUFFICES ASSUME DeliveryInv, [DeliveryNext]_deliveryVars PROVE DeliveryInv'
  OBVIOUS
<1>1. CASE UNCHANGED <<zones, mode, zonesLock, placed, deliveryHandlers>>
  <2>1. \A p \in Handlers : Permitted(deliveryHandlers[p])' = Permitted(deliveryHandlers[p])
    BY <1>1 DEF Permitted, EnsureGeometry, EnsureActiveZoneRemains, ActiveZones, ZoneWith
  <2>2. \A p \in Handlers : ZoneReliable(p)'
    BY <1>1, <2>1 DEF ZoneReliable, DeliveryInv
  <2> QED BY <1>1, <2>2 DEF DeliveryInv, DeliveryTyped, ZonesApart, ZonesModeHasAZone,
                            ActiveZones, UncoveredIsNotAQuotation
<1>2. CASE UNCHANGED deliveryVars
  BY <1>1, <1>2 DEF deliveryVars
<1>3. CASE SetStore \/ \E table \in TierTables : SetTiers(table)
  BY <1>1, <1>3 DEF SetStore, SetTiers
<1>4. ASSUME NEW p \in Handlers, NEW z \in Zones \cup {None}, NEW dto \in DeliveryDtos,
             NEW k \in {"create", "update"}, StartZone(p, k, z, dto)
      PROVE  DeliveryInv'
  BY <1>4, StartZoneKeeps
<1>5. ASSUME NEW p \in Handlers, NEW z \in Zones, StartZone(p, "remove", z, None)
      PROVE  DeliveryInv'
  BY <1>5, StartZoneKeeps
<1> QED BY <1>2, <1>3, <1>4, <1>5, StartModeKeeps, LockDeliveryKeeps, CheckDeliveryKeeps,
           WriteZoneKeeps, WriteModeKeeps, ReadModeKeeps, PlaceDeliveryKeeps DEF DeliveryNext

(* delivery-zones.service.ts:102: with any number of writes of the catalog,*)
(* changes of mode and orders in progress, there is a zone to order to when*)
(* zones decide, and no spot with two fees or the fee of nothing.          *)
THEOREM DeliveryHasOneFee == Spec => []OneFeePerSpot
<1>1. Init => DeliveryInv
  BY DEF Init, DeliveryInit, DeliveryInv, DeliveryTyped, ZoneReliable, ZonesApart,
         ZonesModeHasAZone, UncoveredIsNotAQuotation, ByDistance, Waiting, WriteSteps
<1>2. DeliveryInv /\ [Next]_backOfficeVars => DeliveryInv'
  <2>1. [Next]_backOfficeVars => [DeliveryNext]_deliveryVars
    BY DEF Next, OthersRest, backOfficeVars
  <2> QED BY <2>1, DeliveryStep
<1>3. DeliveryInv => OneFeePerSpot
  <2> SUFFICES ASSUME DeliveryInv PROVE OneFeePerSpot
    OBVIOUS
  <2>1. ASSUME NEW s \in Spots
        PROVE  Cardinality({z \in DOMAIN zones : s \in zones[z].area}) <= 1
    BY AtMostOne DEF DeliveryInv, ZonesApart
  <2> QED BY <2>1 DEF OneFeePerSpot, OneZonePerSpot, DeliveryInv
<1> QED BY <1>1, <1>2, <1>3, PTL DEF Spec

(***************************************************************************)
(* Settings.  The push about a closing is decided on the value found before*)
(* the save: what a closing relies on at each of its steps, while no other *)
(* overlaps it, though instances start and coupons are configured meanwhile.*)
(***************************************************************************)
ManualClosed == "business_manual_closed"
AutoSteps == {"type", "value", "commit", "update_type", "update_value"}

(* The keys that a configuration of the coupons has written are its own.   *)
AutoTyped(h) ==
  /\ DOMAIN h.written \subseteq ProtectedKeys
  /\ \/ h = [step |-> h.step, config |-> h.config, written |-> h.written]
     \/ h = [step |-> h.step, config |-> h.config, written |-> h.written,
             inserts |-> h.inserts]

IsClosing(p) == settingHandlers[p].step \in ClosingSteps

ClosingReliable(p) ==
  LET h == settingHandlers[p] IN
  /\ h.step \in {"find", "save"} => Closing \in {None, told}
  /\ h.step = "save" => h.previous \in {None, Closing}
  /\ h.step = "tell" => Closing = h.value

ClosingsApart ==
  /\ \A p, q \in Handlers : IsClosing(p) /\ IsClosing(q) => p = q
  /\ \A p \in Handlers : ClosingReliable(p)
  /\ (\A p \in Handlers : ~IsClosing(p)) => Closing \in {None, told}

(* The row of the closing is never deleted, and nobody is told of it before*)
(* there is one.                                                           *)
SettingsInv ==
  /\ settingHandlers = [p \in Handlers |-> settingHandlers[p]]
  /\ \A p \in Handlers : /\ settingHandlers[p].step \in AutoSteps => AutoTyped(settingHandlers[p])
                         /\ settingHandlers[p].step = "tell" => ManualClosed \in DOMAIN settings
  /\ ManualClosed \notin DOMAIN settings => told = FALSE
  /\ ~excused => ClosingsApart

SameClosing ==
  /\ ManualClosed \in DOMAIN settings' <=> ManualClosed \in DOMAIN settings
  /\ Closing' = Closing
ClosingSeeded ==
  /\ ManualClosed \notin DOMAIN settings /\ ManualClosed \in DOMAIN settings'
  /\ Closing' = FALSE

(* A step of p outside a closing, which leaves the closing as it is, or    *)
(* adds its default.                                                       *)
LEMMA ClosingKept ==
  ASSUME SettingsInv, NEW p \in Handlers, NEW to,
         settingHandlers' = [settingHandlers EXCEPT ![p] = to],
         ~IsClosing(p), to.step \notin ClosingSteps,
         to.step \in AutoSteps => AutoTyped(to),
         SameClosing \/ ClosingSeeded,
         UNCHANGED <<told, excused>>
  PROVE  SettingsInv'
<1>1. /\ settingHandlers' = [q \in Handlers |-> settingHandlers'[q]]
      /\ settingHandlers'[p] = to
      /\ \A q \in Handlers \ {p} : settingHandlers'[q] = settingHandlers[q]
  BY DEF SettingsInv
<1>2. /\ \A q \in Handlers : IsClosing(q)' = IsClosing(q)
      /\ \A q \in Handlers : IsClosing(q) => settingHandlers'[q] = settingHandlers[q]
  BY <1>1 DEF IsClosing
<1>3. \A q \in Handlers :
        /\ settingHandlers'[q].step \in AutoSteps => AutoTyped(settingHandlers'[q])
        /\ settingHandlers'[q].step = "tell" => ManualClosed \in DOMAIN settings'
  BY <1>1 DEF SettingsInv, ClosingSteps, SameClosing, ClosingSeeded
<1>4. ManualClosed \notin DOMAIN settings' => told' = FALSE
  BY DEF SettingsInv, SameClosing, ClosingSeeded
<1>5. ASSUME ClosingsApart PROVE ClosingsApart'
  <2>1. \/ Closing' = Closing
        \/ Closing = None /\ Closing' = told /\ ManualClosed \notin DOMAIN settings
    BY DEF Closing, ManualClosed, SettingsInv, SameClosing, ClosingSeeded
  <2>2. Closing \in {None, told} => Closing' \in {None, told}
    BY <2>1
  <2>3. ASSUME NEW q \in Handlers PROVE ClosingReliable(q)'
    <3>1. CASE IsClosing(q)
      <4>1. ClosingReliable(q) /\ settingHandlers'[q] = settingHandlers[q]
        BY <1>2, <1>5, <3>1 DEF ClosingsApart
      <4>2. settingHandlers[q].step = "tell" => Closing' = Closing
        BY <2>1 DEF SettingsInv
      <4> QED BY <2>1, <2>2, <4>1, <4>2 DEF ClosingReliable
    <3>2. CASE ~IsClosing(q)
      BY <1>2, <3>2 DEF IsClosing, ClosingReliable, ClosingSteps
    <3> QED BY <3>1, <3>2
  <2> QED BY <1>2, <1>5, <2>2, <2>3 DEF ClosingsApart
<1> QED BY <1>1, <1>3, <1>4, <1>5 DEF SettingsInv

LEMMA SeedsKeep ==
  ASSUME SettingsInv, NEW p \in Handlers,
         StartSeeds(p) \/ SeedIfMissing(p) \/ InsertSeed(p)
  PROVE  SettingsInv'
<1> DEFINE n == settingHandlers[p].n
           key == SettingKeys[n]
<1>1. ~IsClosing(p)
  BY DEF StartSeeds, SeedIfMissing, InsertSeed, SettingAt, At, IsClosing, ClosingSteps
<1>2. PICK to : /\ settingHandlers' = [settingHandlers EXCEPT ![p] = to]
                /\ to.step \in {"waiting", "seed", "insert"}
  <2>1. \/ settingHandlers' = [settingHandlers EXCEPT ![p] = Waiting]
        \/ settingHandlers' = [settingHandlers EXCEPT ![p] = [step |-> "seed", n |-> 1]]
        \/ settingHandlers' = [settingHandlers EXCEPT ![p] = [step |-> "seed", n |-> n + 1]]
        \/ settingHandlers' = [settingHandlers EXCEPT ![p] = [step |-> "insert", n |-> n]]
    BY DEF StartSeeds, SeedIfMissing, InsertSeed, NextSeed, SettingGo, SettingEnd, Ends, Goes
  <2>2. Waiting.step = "waiting"
    BY DEF Waiting
  <2> QED BY <2>1, <2>2
<1>3. to.step \notin ClosingSteps /\ to.step \notin AutoSteps
  BY <1>2 DEF ClosingSteps, AutoSteps
<1>4. UNCHANGED <<told, excused>>
  BY DEF StartSeeds, SeedIfMissing, InsertSeed, SettingRows
<1>5. \/ UNCHANGED settings
      \/ key \notin DOMAIN settings /\ settings' = Put(settings, key, DefaultValue[key])
  BY DEF StartSeeds, SeedIfMissing, InsertSeed, SettingRows
<1> HIDE DEF n, key
<1>6. CASE UNCHANGED settings
  BY <1>1, <1>2, <1>3, <1>4, <1>6, ClosingKept DEF SameClosing, Closing
<1>7. CASE key \notin DOMAIN settings /\ settings' = Put(settings, key, DefaultValue[key])
  <2>1. CASE key = ManualClosed
    <3>1. ClosingSeeded
      BY <1>7, <2>1 DEF Put, DefaultValue, ManualClosed, Closing, ClosingSeeded
    <3> QED BY <1>1, <1>2, <1>3, <1>4, <3>1, ClosingKept
  <2>2. CASE key # ManualClosed
    <3>1. SameClosing
      BY <1>7, <2>2 DEF Put, ManualClosed, Closing, SameClosing
    <3> QED BY <1>1, <1>2, <1>3, <1>4, <3>1, ClosingKept
  <2> QED BY <2>1, <2>2
<1> QED BY <1>5, <1>6, <1>7

(* The configuration of the coupons writes no row but its own.             *)
LEMMA AutoConfigKeeps ==
  ASSUME SettingsInv, NEW p \in Handlers,
         \/ \E config \in AutoConfigs : StartAutoConfig(p, config)
         \/ ReadAutoKey(p) \/ WriteAutoKey(p) \/ CommitAutoConfig(p)
  PROVE  SettingsInv'
<1> DEFINE h == settingHandlers[p]
<1>1. ASSUME NEW config, StartAutoConfig(p, config) PROVE SettingsInv'
  <2> DEFINE to == [step |-> "type", config |-> config, written |-> <<>>]
  <2>1. /\ settingHandlers' = [settingHandlers EXCEPT ![p] = to]
        /\ UNCHANGED <<settings, told, excused>>
        /\ ~IsClosing(p)
    BY <1>1 DEF StartAutoConfig, SettingGo, Goes, SettingAt, At, SettingRows, IsClosing,
                ClosingSteps
  <2>2. AutoTyped(to) /\ to.step \notin ClosingSteps
    BY DEF AutoTyped, ClosingSteps
  <2> HIDE DEF to
  <2> QED BY <2>1, <2>2, ClosingKept DEF SameClosing, Closing
<1>2. ASSUME ReadAutoKey(p) \/ WriteAutoKey(p) \/ CommitAutoConfig(p)
      PROVE  /\ h.step \in AutoSteps /\ ~IsClosing(p) /\ AutoTyped(h)
             /\ AutoKey(h) \in ProtectedKeys
             /\ AfterKey(h) \in {"value", "commit"}
             /\ UNCHANGED <<told, excused>>
  BY <1>2 DEF ReadAutoKey, WriteAutoKey, CommitAutoConfig, SettingAt, At, IsClosing,
              ClosingSteps, AutoSteps, SettingsInv, AutoKey, AfterKey, ProtectedKeys,
              SettingRows
<1>3. ASSUME ReadAutoKey(p) PROVE SettingsInv'
  <2>1. PICK to : /\ settingHandlers' = [settingHandlers EXCEPT ![p] = to]
                  /\ \/ to = [h EXCEPT !.step = AfterKey(h)]
                     \/ \E s \in {"update_type", "update_value"}, i \in BOOLEAN :
                          to = [step |-> s, config |-> h.config, written |-> h.written,
                                inserts |-> i]
    BY <1>3 DEF ReadAutoKey, SettingGo, Goes
  <2>2. AutoTyped(to) /\ to.step \in {"value", "commit", "update_type", "update_value"}
    <3> DEFINE after == AfterKey(h)
    <3>1. AutoTyped(h) /\ after \in {"value", "commit"}
      BY <1>2, <1>3
    <3> HIDE DEF after, h
    <3>2. CASE to = [h EXCEPT !.step = after]
      BY <3>1, <3>2 DEF AutoTyped
    <3>3. ASSUME NEW s \in {"update_type", "update_value"}, NEW i,
                 to = [step |-> s, config |-> h.config, written |-> h.written, inserts |-> i]
          PROVE  AutoTyped(to) /\ to.step \in {"value", "commit", "update_type", "update_value"}
      BY <3>1, <3>3 DEF AutoTyped
    <3> QED BY <2>1, <3>2, <3>3 DEF after
  <2>3. to.step \notin ClosingSteps
    BY <2>2 DEF ClosingSteps
  <2>4. SameClosing
    BY <1>3 DEF ReadAutoKey, SettingRows, SameClosing, Closing
  <2> QED BY <1>2, <1>3, <2>1, <2>2, <2>3, <2>4, ClosingKept
<1>4. ASSUME WriteAutoKey(p) PROVE SettingsInv'
  <2>1. PICK to : /\ settingHandlers' = [settingHandlers EXCEPT ![p] = to]
                  /\ \/ to = Waiting
                     \/ to = [step |-> AfterKey(h), config |-> h.config,
                              written |-> Put(h.written, AutoKey(h), Wanted(h))]
    BY <1>4 DEF WriteAutoKey, SettingGo, SettingEnd, Ends, Goes
  <2>2. /\ to.step \in {"waiting", "value", "commit"}
        /\ to.step # "waiting" => AutoTyped(to)
    <3>1. CASE to = Waiting
      BY <3>1 DEF Waiting
    <3>2. CASE to # Waiting
      <4>1. /\ to.step = AfterKey(h) /\ to.written = Put(h.written, AutoKey(h), Wanted(h))
            /\ to = [step |-> to.step, config |-> to.config, written |-> to.written]
        BY <2>1, <3>2
      <4>2. DOMAIN to.written \subseteq ProtectedKeys
        BY <1>2, <1>4, <4>1 DEF Put, AutoTyped
      <4> QED BY <1>2, <1>4, <4>1, <4>2 DEF AutoTyped
    <3> QED BY <3>1, <3>2
  <2>3. to.step \notin ClosingSteps /\ (to.step \in AutoSteps => AutoTyped(to))
    BY <2>2 DEF ClosingSteps, AutoSteps
  <2>4. SameClosing
    BY <1>4 DEF WriteAutoKey, SameClosing, Closing
  <2> QED BY <1>2, <1>4, <2>1, <2>3, <2>4, ClosingKept
<1>5. ASSUME CommitAutoConfig(p) PROVE SettingsInv'
  <2>1. /\ settingHandlers' = [settingHandlers EXCEPT ![p] = Waiting]
        /\ settings' = [k \in DOMAIN settings \cup DOMAIN h.written |->
                          IF k \in DOMAIN h.written THEN h.written[k] ELSE settings[k]]
    BY <1>5 DEF CommitAutoConfig, SettingEnd, Ends, Goes
  <2>2. ManualClosed \notin DOMAIN h.written
    BY <1>2, <1>5 DEF AutoTyped, ProtectedKeys, ManualClosed
  <2> HIDE DEF h
  <2>3. SameClosing
    BY <2>1, <2>2 DEF SameClosing, Closing, ManualClosed
  <2>4. Waiting.step \notin ClosingSteps /\ Waiting.step \notin AutoSteps
    BY DEF Waiting, ClosingSteps, AutoSteps
  <2> QED BY <1>2, <1>5, <2>1, <2>3, <2>4, ClosingKept
<1> QED BY <1>1, <1>3, <1>4, <1>5

(* The steps of a closing, alone unless it is excused.                     *)
LEMMA ClosingsKeep ==
  ASSUME SettingsInv, NEW p \in Handlers, NEW to,
         settingHandlers' = [settingHandlers EXCEPT ![p] = to],
         to.step \notin AutoSteps,
         to.step = "tell" => ManualClosed \in DOMAIN settings',
         ManualClosed \in DOMAIN settings => ManualClosed \in DOMAIN settings',
         ManualClosed \notin DOMAIN settings' => told' = FALSE,
         excused => excused',
         ~excused' =>
           /\ \A q \in Handlers \ {p} : ~IsClosing(q)
           /\ to.step \in {"find", "save"} => Closing' \in {None, told'}
           /\ to.step = "save" => to.previous \in {None, Closing'}
           /\ to.step = "tell" => Closing' = to.value
           /\ to.step \notin ClosingSteps => Closing' \in {None, told'}
  PROVE  SettingsInv'
<1>1. /\ settingHandlers' = [q \in Handlers |-> settingHandlers'[q]]
      /\ settingHandlers'[p] = to
      /\ \A q \in Handlers \ {p} : settingHandlers'[q] = settingHandlers[q]
  BY DEF SettingsInv
<1>2. \A q \in Handlers :
        /\ settingHandlers'[q].step \in AutoSteps => AutoTyped(settingHandlers'[q])
        /\ settingHandlers'[q].step = "tell" => ManualClosed \in DOMAIN settings'
  BY <1>1 DEF SettingsInv
<1>3. ASSUME ~excused' PROVE ClosingsApart'
  <2>1. \A q \in Handlers \ {p} : ~IsClosing(q)'
    BY <1>1, <1>3 DEF IsClosing
  <2>2. \A q \in Handlers \ {p} : ClosingReliable(q)'
    BY <2>1 DEF IsClosing, ClosingReliable, ClosingSteps
  <2>3. ClosingReliable(p)'
    BY <1>1, <1>3 DEF ClosingReliable
  <2>4. ~IsClosing(p)' => Closing' \in {None, told'}
    BY <1>1, <1>3 DEF IsClosing
  <2> QED BY <2>1, <2>2, <2>3, <2>4 DEF ClosingsApart
<1> QED BY <1>1, <1>2, <1>3 DEF SettingsInv

LEMMA ClosingIsAlone ==
  ASSUME SettingsInv, NEW p \in Handlers, IsClosing(p), ~excused
  PROVE  /\ ClosingReliable(p)
         /\ \A q \in Handlers \ {p} : ~IsClosing(q)
  BY DEF SettingsInv, ClosingsApart

LEMMA StartClosingKeeps ==
  ASSUME SettingsInv, NEW p \in Handlers, NEW value \in BOOLEAN, StartClosing(p, value)
  PROVE  SettingsInv'
<1> DEFINE to == [step |-> "find", value |-> value]
<1>1. /\ settingHandlers' = [settingHandlers EXCEPT ![p] = to]
      /\ UNCHANGED <<settings, told>>
      /\ excused' = (excused \/ \E q \in Handlers : IsClosing(q))
  BY DEF StartClosing, SettingGo, Goes, IsClosing
<1>2. to.step = "find" /\ to.step \notin AutoSteps /\ to.step \in ClosingSteps
  BY DEF AutoSteps, ClosingSteps
<1> HIDE DEF to
<1>3. ~excused' => /\ ~excused
                   /\ \A q \in Handlers : ~IsClosing(q)
                   /\ Closing' \in {None, told'}
  BY <1>1 DEF SettingsInv, ClosingsApart, Closing
<1> QED BY <1>1, <1>2, <1>3, ClosingsKeep DEF SettingsInv

LEMMA FindClosingKeeps ==
  ASSUME SettingsInv, NEW p \in Handlers, FindClosing(p)
  PROVE  SettingsInv'
<1> DEFINE to == [step |-> "save", value |-> settingHandlers[p].value, previous |-> Closing]
<1>1. /\ settingHandlers' = [settingHandlers EXCEPT ![p] = to]
      /\ UNCHANGED <<settings, told, excused>>
      /\ settingHandlers[p].step = "find" /\ IsClosing(p)
  BY DEF FindClosing, SettingGo, Goes, SettingRows, SettingAt, At, IsClosing, ClosingSteps
<1>2. /\ to.step = "save" /\ to.step \notin AutoSteps /\ to.step \in ClosingSteps
      /\ to.previous = Closing
  BY DEF AutoSteps, ClosingSteps
<1> HIDE DEF to
<1>3. Closing' = Closing
  BY <1>1 DEF Closing
<1>4. ~excused => /\ \A q \in Handlers \ {p} : ~IsClosing(q)
                  /\ Closing \in {None, told}
  BY <1>1, ClosingIsAlone DEF ClosingReliable
<1> QED BY <1>1, <1>2, <1>3, <1>4, ClosingsKeep DEF SettingsInv

(* An INSERT is refused, a value that was there already is told to nobody. *)
LEMMA SaveClosingKeeps ==
  ASSUME SettingsInv, NEW p \in Handlers, SaveClosing(p)
  PROVE  SettingsInv'
<1>0. PICK h : h = settingHandlers[p]
  OBVIOUS
<1>1. /\ h.step = "save" /\ IsClosing(p)
      /\ UNCHANGED <<told, excused>>
  BY <1>0 DEF SaveClosing, SettingAt, At, IsClosing, ClosingSteps
<1>2. ~excused => /\ \A q \in Handlers \ {p} : ~IsClosing(q)
                  /\ Closing \in {None, told}
                  /\ h.previous \in {None, Closing}
  BY <1>0, <1>1, ClosingIsAlone DEF ClosingReliable
<1>3. Waiting.step \notin AutoSteps /\ Waiting.step \notin {"find", "save", "tell"}
  BY DEF Waiting, AutoSteps
<1>4. CASE SettingEnd(p) /\ UNCHANGED settings
  <2>1. settingHandlers' = [settingHandlers EXCEPT ![p] = Waiting] /\ Closing' = Closing
    BY <1>4 DEF SettingEnd, Ends, Goes, Closing
  <2> QED BY <1>1, <1>2, <1>3, <1>4, <2>1, ClosingsKeep DEF SettingsInv
<1>5. ASSUME h.previous # None \/ Closing = None,
             settings' = Put(settings, ManualClosed, h.value),
             IF h.previous = h.value THEN SettingEnd(p)
             ELSE SettingGo(p, [step |-> "tell", value |-> h.value])
      PROVE  SettingsInv'
  <2>1. /\ ManualClosed \in DOMAIN settings'
        /\ Closing' = h.value
    BY <1>5 DEF Put, Closing, ManualClosed
  <2>2. CASE h.previous = h.value
    <3>1. settingHandlers' = [settingHandlers EXCEPT ![p] = Waiting]
      BY <1>5, <2>2 DEF SettingEnd, Ends, Goes
    <3>2. ~excused => Closing' \in {None, told'}
      BY <1>1, <1>2, <1>5, <2>1, <2>2
    <3> QED BY <1>1, <1>2, <1>3, <2>1, <3>1, <3>2, ClosingsKeep
  <2>3. CASE h.previous # h.value
    <3> DEFINE to == [step |-> "tell", value |-> h.value]
    <3>1. settingHandlers' = [settingHandlers EXCEPT ![p] = to]
      BY <1>5, <2>3 DEF SettingGo, Goes
    <3>2. /\ to.step = "tell" /\ to.step \notin AutoSteps /\ to.step \in ClosingSteps
          /\ to.value = h.value
      BY DEF AutoSteps, ClosingSteps
    <3> HIDE DEF to
    <3> QED BY <1>1, <1>2, <2>1, <3>1, <3>2, ClosingsKeep
  <2> QED BY <2>2, <2>3
<1> QED BY <1>0, <1>4, <1>5 DEF SaveClosing, ManualClosed

LEMMA TellKeeps ==
  ASSUME SettingsInv, NEW p \in Handlers, NotifyBusinessHoursChange(p)
  PROVE  SettingsInv'
<1>1. /\ settingHandlers[p].step = "tell" /\ IsClosing(p)
      /\ settingHandlers' = [settingHandlers EXCEPT ![p] = Waiting]
      /\ UNCHANGED settings
      /\ \/ told' = settingHandlers[p].value /\ UNCHANGED excused
         \/ excused' = TRUE
  BY DEF NotifyBusinessHoursChange, SettingAt, At, SettingEnd, Ends, Goes, IsClosing,
         ClosingSteps
<1>2. ManualClosed \in DOMAIN settings /\ Closing' = Closing
  BY <1>1 DEF SettingsInv, Closing
<1>3. ~excused' => /\ ~excused
                   /\ \A q \in Handlers \ {p} : ~IsClosing(q)
                   /\ Closing' \in {None, told'}
  BY <1>1, <1>2, ClosingIsAlone DEF ClosingReliable
<1>4. Waiting.step \notin AutoSteps /\ Waiting.step \notin {"find", "save", "tell"}
  BY DEF Waiting, AutoSteps
<1> QED BY <1>1, <1>2, <1>3, <1>4, ClosingsKeep

LEMMA SettingsStep == SettingsInv /\ [SettingsNext]_settingVars => SettingsInv'
<1> SUFFICES ASSUME SettingsInv, [SettingsNext]_settingVars PROVE SettingsInv'
  OBVIOUS
<1>1. CASE UNCHANGED settingVars
  BY <1>1 DEF settingVars, SettingsInv, ClosingsApart, ClosingReliable, IsClosing, Closing
<1>2. CASE SettingsNext
  BY <1>2, SeedsKeep, StartClosingKeeps, FindClosingKeeps, SaveClosingKeeps, TellKeeps,
     AutoConfigKeeps DEF SettingsNext
<1> QED BY <1>1, <1>2

(* settings.service.ts:350: with any number of instances that start and of *)
(* writes of settings, the customers have been told of the last closing    *)
(* when none is in progress, unless two overlapped or a push was lost.     *)
THEOREM ClosingsAreTold == Spec => []CustomersHearTheLastClosing
<1>1. Init => SettingsInv
  <2> SUFFICES ASSUME Init PROVE SettingsInv
    OBVIOUS
  <2>1. /\ settingHandlers = [p \in Handlers |-> Waiting]
        /\ told = FALSE
        /\ ManualClosed \in DOMAIN settings => settings[ManualClosed] = FALSE
    BY DEF Init, SettingsInit, SettingsIdle, DefaultValue, ManualClosed
  <2>2. \A p \in Handlers : settingHandlers[p].step \notin AutoSteps \cup ClosingSteps
    BY <2>1 DEF Waiting, AutoSteps, ClosingSteps
  <2>3. Closing \in {None, told}
    BY <2>1 DEF Closing, ManualClosed
  <2> QED BY <2>1, <2>2, <2>3 DEF SettingsInv, ClosingsApart, ClosingReliable, IsClosing,
                                  ClosingSteps
<1>2. SettingsInv /\ [Next]_backOfficeVars => SettingsInv'
  <2>1. [Next]_backOfficeVars => [SettingsNext]_settingVars
    BY DEF Next, OthersRest, backOfficeVars
  <2> QED BY <2>1, SettingsStep
<1>3. SettingsInv => CustomersHearTheLastClosing
  BY DEF SettingsInv, ClosingsApart, CustomersHearTheLastClosing, IsClosing
<1> QED BY <1>1, <1>2, <1>3, PTL DEF Spec

(***************************************************************************)
(* Catalog.  Defaults: a request that makes one clears the others before it*)
(* ends, so that the last to clear leaves one.                             *)
(***************************************************************************)
DefaultOptions == {o \in DOMAIN options : options[o]}

DefaultsInv ==
  /\ catalogHandlers = [p \in Handlers |-> catalogHandlers[p]]
  /\ \/ stale
     \/ \E p \in Handlers : CatalogAt(p, "clear")
     \/ \A a, b \in DefaultOptions : a = b

(* A step of p that adds no default, and does not end a clearing.          *)
LEMMA DefaultsKept ==
  ASSUME DefaultsInv, NEW p \in Handlers, NEW to,
         catalogHandlers' = [catalogHandlers EXCEPT ![p] = to],
         ~CatalogAt(p, "clear"), DefaultOptions' \subseteq DefaultOptions,
         UNCHANGED stale
  PROVE  DefaultsInv'
<1>1. /\ catalogHandlers' = [q \in Handlers |-> catalogHandlers'[q]]
      /\ \A q \in Handlers \ {p} : catalogHandlers'[q] = catalogHandlers[q]
  BY DEF DefaultsInv
<1>2. \A q \in Handlers : CatalogAt(q, "clear") => CatalogAt(q, "clear")'
  BY <1>1 DEF CatalogAt, At
<1> QED BY <1>1, <1>2 DEF DefaultsInv

(* Steps that leave the options as they are, or remove one of them.        *)
NoNewDefault(p) ==
  \/ \E op, id, isDefault : StartOption(p, op, id, isDefault)
  \/ \E op, item, ids : StartItem(p, op, item, ids)
  \/ \E op : op # "clear" /\ StartCategory(p, op)
  \/ catalogHandlers[p].step # "clear" /\ Refuse(p)
  \/ FindOption(p) \/ UnlinkOption(p) \/ DeleteOption(p)
  \/ FindItem(p) \/ FindByIds(p) \/ SaveItem(p) \/ UpdateItemImage(p) \/ RemoveItem(p)
  \/ SaveCategory(p) \/ RemoveCategory(p)

LEMMA NoNewDefaultKeeps ==
  ASSUME DefaultsInv, NEW p \in Handlers, NoNewDefault(p)
  PROVE  DefaultsInv'
<1>1. ~CatalogAt(p, "clear") /\ UNCHANGED stale
  BY DEF NoNewDefault, StartOption, StartItem, StartCategory, StartRequest, Refuse, FindOption,
         UnlinkOption, DeleteOption, FindItem, FindByIds, SaveItem, UpdateItemImage,
         RemoveItem, SaveCategory, RemoveCategory, CatalogAt, At
<1>2. \E to : catalogHandlers' = [catalogHandlers EXCEPT ![p] = to]
  BY DEF NoNewDefault, StartOption, StartItem, StartCategory, StartRequest, Refuse, FindOption,
         UnlinkOption, DeleteOption, FindItem, FindByIds, SaveItem, UpdateItemImage,
         RemoveItem, SaveCategory, RemoveCategory, CatalogGo, CatalogEnd, Ends, Goes
<1>3. UNCHANGED options \/ \E id : options' = Without(options, id)
  BY DEF NoNewDefault, StartOption, StartItem, StartCategory, StartRequest, Refuse, FindOption,
         UnlinkOption, DeleteOption, FindItem, FindByIds, SaveItem, UpdateItemImage,
         RemoveItem, SaveCategory, RemoveCategory, catalogTables
<1>4. DefaultOptions' \subseteq DefaultOptions
  BY <1>3 DEF DefaultOptions, Without
<1> QED BY <1>1, <1>2, <1>4, DefaultsKept

(* A default that is saved is cleared of the others, was one already, or is*)
(* stale.                                                                  *)
LEMMA SaveOptionKeeps ==
  ASSUME DefaultsInv, NEW p \in Handlers, SaveOption(p)
  PROVE  DefaultsInv'
<1> DEFINE h == catalogHandlers[p]
<1>1. PICK id : /\ options' = Put(options, id, h.row)
                /\ catalogHandlers' = [catalogHandlers EXCEPT ![p] = AfterSave(h, id)]
                /\ stale' = (stale \/ (h.row /\ ~h.asked
                                         /\ ~(id \in DOMAIN options /\ options[id])))
  BY DEF SaveOption, CatalogGo, Goes
<1>2. ~CatalogAt(p, "clear")
  BY DEF SaveOption, CatalogAt, At
<1>3. /\ catalogHandlers' = [q \in Handlers |-> catalogHandlers'[q]]
      /\ catalogHandlers'[p] = AfterSave(h, id)
      /\ \A q \in Handlers \ {p} : catalogHandlers'[q] = catalogHandlers[q]
  BY <1>1 DEF DefaultsInv
<1>4. CASE h.asked
  <2>1. CatalogAt(p, "clear")'
    BY <1>3, <1>4 DEF AfterSave, CatalogAt, At
  <2> QED BY <1>3, <2>1 DEF DefaultsInv
<1>5. CASE ~h.asked /\ stale'
  BY <1>3, <1>5 DEF DefaultsInv
<1>6. CASE ~h.asked /\ ~stale'
  <2>1. DefaultOptions' \subseteq DefaultOptions
    <3>1. ~stale /\ (h.row => id \in DOMAIN options /\ options[id])
      BY <1>1, <1>6
    <3>2. \A o \in DOMAIN options' : o = id \/ (o \in DOMAIN options /\ options'[o] = options[o])
      BY <1>1 DEF Put
    <3>3. options'[id] = h.row
      BY <1>1 DEF Put
    <3> QED BY <3>1, <3>2, <3>3 DEF DefaultOptions
  <2>2. ~stale
    BY <1>1, <1>6
  <2>3. \A q \in Handlers : CatalogAt(q, "clear") => CatalogAt(q, "clear")'
    BY <1>2, <1>3 DEF CatalogAt, At
  <2> QED BY <1>3, <2>1, <2>2, <2>3 DEF DefaultsInv
<1> QED BY <1>4, <1>5, <1>6

LEMMA ClearKeeps ==
  ASSUME DefaultsInv, NEW p \in Handlers, ClearOtherDefaults(p)
  PROVE  DefaultsInv'
<1>1. /\ catalogHandlers' = [catalogHandlers EXCEPT ![p] = Waiting]
      /\ options' = [o \in DOMAIN options |-> options[o] /\ o = catalogHandlers[p].id]
  BY DEF ClearOtherDefaults, CatalogEnd, Ends, Goes
<1>2. \A a, b \in DefaultOptions' : a = b
  BY <1>1 DEF DefaultOptions
<1> QED BY <1>1, <1>2 DEF DefaultsInv

LEMMA DefaultsStep == DefaultsInv /\ [CatalogNext]_catalogVars => DefaultsInv'
<1> SUFFICES ASSUME DefaultsInv, [CatalogNext]_catalogVars PROVE DefaultsInv'
  OBVIOUS
<1>1. CASE UNCHANGED catalogVars
  BY <1>1 DEF catalogVars, catalogTables, DefaultsInv, DefaultOptions, CatalogAt, At
<1>2. ASSUME NEW p \in Handlers, MenuService(p) PROVE DefaultsInv'
  <2>1. NoNewDefault(p)
    BY <1>2 DEF MenuService, NoNewDefault
  <2> QED BY <2>1, NoNewDefaultKeeps
<1>3. ASSUME NEW p \in Handlers, OptionNext(p) PROVE DefaultsInv'
  <2>1. NoNewDefault(p) \/ SaveOption(p)
    BY <1>3 DEF OptionNext, NoNewDefault
  <2> QED BY <2>1, NoNewDefaultKeeps, SaveOptionKeeps
<1> QED BY <1>1, <1>2, <1>3, ClearKeeps
        DEF CatalogNext, FriesTypesService, SaucesService, BeveragesService,
            ExtraPortionsService

(* fries-types.service.ts:118: however many requests make a default at a   *)
(* time, there is at most one when the last of them has cleared the others.*)
THEOREM LastDefaultStays == Spec => []OneDefaultUnlessStale
<1>1. Init => DefaultsInv
  BY DEF Init, CatalogInit, CatalogIdle, DefaultsInv, DefaultOptions
<1>2. DefaultsInv /\ [Next]_backOfficeVars => DefaultsInv'
  <2>1. [Next]_backOfficeVars => [CatalogNext]_catalogVars
    BY DEF Next, OthersRest, backOfficeVars
  <2> QED BY <2>1, DefaultsStep
<1>3. DefaultsInv => OneDefaultUnlessStale
  BY AtMostOne DEF DefaultsInv, DefaultOptions, OneDefaultUnlessStale
<1> QED BY <1>1, <1>2, <1>3, PTL DEF Spec

(***************************************************************************)
(* Links: what a request alone in the catalog has loaded is still so when  *)
(* it saves, and what it unlinks it goes on to delete.                     *)
(***************************************************************************)
Busy(p) == ~CatalogAt(p, "waiting")
Pairs(s) == \A l \in s : l = <<l[1], l[2]>>

(* A PATCH without options comes with those of its product.                *)
RequestReliable(h) ==
  /\ h.step = "findItem" => /\ h.op = "create" <=> h.item = None
                            /\ h.op = "create" => h.ids # None
                            /\ h.ids # None => h.op \in {"create", "update"}
                            /\ h.op \in {"create", "update", "image", "remove"}
  /\ h.step = "findByIds" => (h.ids = None => h.item # None /\ h.loaded = LinksOf(h.item))
  /\ h.step = "saveItem" => (h.ids = None => h.item # None /\ h.related = LinksOf(h.item))
  /\ h.step = "deleteOption" => links = {l \in assigned : l[2] # h.id}
  /\ h.step # "deleteOption" => links = assigned

LinksAlone ==
  /\ \A p, q \in Handlers : Busy(p) /\ Busy(q) => p = q
  /\ \A p \in Handlers : Busy(p) => RequestReliable(catalogHandlers[p])
  /\ (\A p \in Handlers : ~Busy(p)) => links = assigned

LinksInv ==
  /\ catalogHandlers = [p \in Handlers |-> catalogHandlers[p]]
  /\ Pairs(links)
  /\ ~crowded => LinksAlone

(* The step of a request that is alone, unless the catalog is crowded.     *)
LEMMA AloneKeeps ==
  ASSUME LinksInv, NEW p \in Handlers, NEW to,
         catalogHandlers' = [catalogHandlers EXCEPT ![p] = to],
         Pairs(links'),
         ~crowded' =>
           /\ ~crowded /\ \A q \in Handlers \ {p} : ~Busy(q)
           /\ to.step = "waiting" => links' = assigned'
           /\ to.step # "waiting" => RequestReliable(to)'
  PROVE  LinksInv'
<1>1. /\ catalogHandlers' = [q \in Handlers |-> catalogHandlers'[q]]
      /\ catalogHandlers'[p] = to
      /\ \A q \in Handlers \ {p} : catalogHandlers'[q] = catalogHandlers[q]
  BY DEF LinksInv
<1>2. ASSUME ~crowded' PROVE LinksAlone'
  <2>1. \A q \in Handlers \ {p} : ~Busy(q)'
    BY <1>1, <1>2 DEF Busy, CatalogAt, At
  <2>2. Busy(p)' <=> to.step # "waiting"
    BY <1>1 DEF Busy, CatalogAt, At
  <2>3. Busy(p)' => RequestReliable(catalogHandlers[p])'
    BY <1>1, <1>2, <2>2 DEF RequestReliable, LinksOf
  <2>4. ~Busy(p)' => links' = assigned'
    BY <1>2, <2>2
  <2> QED BY <2>1, <2>3, <2>4 DEF LinksAlone
<1> QED BY <1>1, <1>2 DEF LinksInv

LEMMA RequestIsAlone ==
  ASSUME LinksInv, NEW p \in Handlers, Busy(p), ~crowded
  PROVE  /\ \A q \in Handlers \ {p} : ~Busy(q)
         /\ RequestReliable(catalogHandlers[p])
  BY DEF LinksInv, LinksAlone

(* A request that starts with nobody else there.                           *)
LEMMA StartRequestKeeps ==
  ASSUME LinksInv, NEW p \in Handlers, NEW h, StartRequest(p, h),
         h.step \notin {"waiting", "findByIds", "saveItem", "deleteOption"},
         h.step = "findItem" => /\ h.op = "create" <=> h.item = None
                                /\ h.op = "create" => h.ids # None
                                /\ h.ids # None => h.op \in {"create", "update"}
                                /\ h.op \in {"create", "update", "image", "remove"}
  PROVE  LinksInv'
<1>1. /\ catalogHandlers' = [catalogHandlers EXCEPT ![p] = h]
      /\ UNCHANGED <<links, assigned>>
      /\ ~Busy(p)
      /\ crowded' = (crowded \/ \E q \in Handlers \ {p} : Busy(q))
  BY DEF StartRequest, CatalogGo, Goes, catalogTables, Busy
<1>2. ~crowded' => /\ ~crowded
                   /\ \A q \in Handlers \ {p} : ~Busy(q)
                   /\ links = assigned
  BY <1>1 DEF LinksInv, LinksAlone
<1>3. ~crowded' => RequestReliable(h)'
  BY <1>1, <1>2 DEF RequestReliable
<1> QED BY <1>1, <1>2, <1>3, AloneKeeps DEF LinksInv

LEMMA StartsKeep ==
  ASSUME LinksInv, NEW p \in Handlers,
         \/ \E op, id, isDefault : StartOption(p, op, id, isDefault)
         \/ \E op \in {"create", "update", "image", "remove"} :
              \E item, ids : StartItem(p, op, item, ids)
         \/ \E op \in {"createCategory", "updateCategory", "removeCategory"} :
              StartCategory(p, op)
  PROVE  LinksInv'
<1>1. ASSUME NEW op, NEW id, NEW isDefault, StartOption(p, op, id, isDefault)
      PROVE  LinksInv'
  <2> DEFINE h == [step |-> "findOption", op |-> op, id |-> id, isDefault |-> isDefault]
  <2>1. StartRequest(p, h)
    BY <1>1 DEF StartOption
  <2>2. h.step = "findOption"
    OBVIOUS
  <2> HIDE DEF h
  <2> QED BY <2>1, <2>2, StartRequestKeeps
<1>2. ASSUME NEW op \in {"create", "update", "image", "remove"}, NEW item, NEW ids,
             StartItem(p, op, item, ids)
      PROVE  LinksInv'
  <2> DEFINE h == [step |-> "findItem", op |-> op, item |-> item, ids |-> ids]
  <2>1. /\ StartRequest(p, h)
        /\ op = "create" <=> item = None
        /\ op = "create" => ids # None
        /\ ids # None => op \in {"create", "update"}
    BY <1>2 DEF StartItem
  <2>2. h.step = "findItem" /\ h.op = op /\ h.item = item /\ h.ids = ids
    OBVIOUS
  <2> HIDE DEF h
  <2> QED BY <2>1, <2>2, StartRequestKeeps
<1>3. ASSUME NEW op \in {"createCategory", "updateCategory", "removeCategory"},
             StartCategory(p, op)
      PROVE  LinksInv'
  <2> DEFINE h == [step |-> op]
  <2>1. StartRequest(p, h)
    BY <1>3 DEF StartCategory
  <2>2. h.step = op
    OBVIOUS
  <2> HIDE DEF h
  <2> QED BY <2>1, <2>2, StartRequestKeeps
<1> QED BY <1>1, <1>2, <1>3

(* A step that leaves the links, of a request with nothing to delete.      *)
LEMMA LinksKept ==
  ASSUME LinksInv, NEW p \in Handlers, NEW to,
         catalogHandlers' = [catalogHandlers EXCEPT ![p] = to],
         Busy(p), ~CatalogAt(p, "deleteOption"),
         UNCHANGED <<links, assigned, crowded>>,
         to.step \notin {"findItem", "deleteOption"},
         ~crowded /\ to.step # "waiting" => RequestReliable(to)
  PROVE  LinksInv'
<1>1. ~crowded => /\ links = assigned
                  /\ \A q \in Handlers \ {p} : ~Busy(q)
  BY RequestIsAlone DEF RequestReliable, CatalogAt, At
<1>2. ~crowded /\ to.step # "waiting" => RequestReliable(to)'
  BY DEF RequestReliable, LinksOf
<1> QED BY <1>1, <1>2, AloneKeeps DEF LinksInv

LEMMA EndsKeep ==
  ASSUME LinksInv, NEW p \in Handlers, CatalogEnd(p),
         Busy(p), ~CatalogAt(p, "deleteOption"),
         UNCHANGED <<links, assigned, crowded>>
  PROVE  LinksInv'
<1>1. catalogHandlers' = [catalogHandlers EXCEPT ![p] = Waiting] /\ Waiting.step = "waiting"
  BY DEF CatalogEnd, Ends, Goes, Waiting
<1> QED BY <1>1, LinksKept

LEMMA RefusalsKeep ==
  ASSUME LinksInv, NEW p \in Handlers,
         \/ /\ catalogHandlers[p].step \in {"findOption", "saveOption", "saveItem",
                                             "createCategory", "updateCategory"}
            /\ Refuse(p)
         \/ SaveCategory(p) \/ RemoveCategory(p) \/ UpdateItemImage(p)
         \/ ClearOtherDefaults(p)
  PROVE  LinksInv'
<1>1. /\ CatalogEnd(p) /\ Busy(p) /\ ~CatalogAt(p, "deleteOption")
      /\ UNCHANGED <<links, assigned, crowded>>
  BY DEF Refuse, SaveCategory, RemoveCategory, UpdateItemImage, ClearOtherDefaults, Busy,
         CatalogAt, At, catalogTables
<1> QED BY <1>1, EndsKeep

LEMMA OptionStepsKeep ==
  ASSUME LinksInv, NEW p \in Handlers, FindOption(p) \/ SaveOption(p)
  PROVE  LinksInv'
<1>1. /\ Busy(p) /\ ~CatalogAt(p, "deleteOption")
      /\ UNCHANGED <<links, assigned, crowded>>
  BY DEF FindOption, SaveOption, Busy, CatalogAt, At, catalogTables
<1>2. PICK to : /\ catalogHandlers' = [catalogHandlers EXCEPT ![p] = to]
                /\ to.step \in {"waiting", "unlink", "saveOption", "clear"}
  <2> DEFINE h == catalogHandlers[p]
             row == IF h.isDefault # None THEN h.isDefault ELSE h.id # None /\ options[h.id]
             save == [step |-> "saveOption", id |-> h.id, asked |-> h.isDefault = TRUE, row |-> row]
  <2>1. \/ catalogHandlers' = [catalogHandlers EXCEPT ![p] = Waiting]
        \/ catalogHandlers' = [catalogHandlers EXCEPT ![p] = save]
        \/ \E id, s : /\ s \in {"unlink", "clear"}
                      /\ catalogHandlers' = [catalogHandlers EXCEPT ![p] = [step |-> s, id |-> id]]
    BY DEF FindOption, SaveOption, AfterSave, CatalogGo, CatalogEnd, Ends, Goes
  <2>2. Waiting.step = "waiting" /\ save.step = "saveOption"
    BY DEF Waiting
  <2> HIDE DEF save
  <2> QED BY <2>1, <2>2
<1>3. ~crowded /\ to.step # "waiting" => RequestReliable(to)
  BY <1>1, <1>2, RequestIsAlone DEF RequestReliable, CatalogAt, At
<1> QED BY <1>1, <1>2, <1>3, LinksKept

LEMMA UnlinkOptionKeeps ==
  ASSUME LinksInv, NEW p \in Handlers, UnlinkOption(p)
  PROVE  LinksInv'
<1>0. PICK id : id = catalogHandlers[p].id
  OBVIOUS
<1> DEFINE to == [step |-> "deleteOption", id |-> id]
<1>1. /\ catalogHandlers' = [catalogHandlers EXCEPT ![p] = to]
      /\ links' = {l \in links : l[2] # id}
      /\ UNCHANGED <<assigned, crowded>>
      /\ catalogHandlers[p].step = "unlink" /\ Busy(p)
  BY <1>0 DEF UnlinkOption, CatalogGo, Goes, CatalogAt, At, Busy
<1>2. to.step = "deleteOption" /\ to.id = id
  OBVIOUS
<1> HIDE DEF to
<1>3. ~crowded => /\ links = assigned
                  /\ \A q \in Handlers \ {p} : ~Busy(q)
  BY <1>1, RequestIsAlone DEF RequestReliable
<1>4. ~crowded => RequestReliable(to)'
  BY <1>1, <1>2, <1>3 DEF RequestReliable
<1>5. Pairs(links')
  BY <1>1 DEF Pairs, LinksInv
<1> QED BY <1>1, <1>2, <1>3, <1>4, <1>5, AloneKeeps

LEMMA DeleteOptionKeeps ==
  ASSUME LinksInv, NEW p \in Handlers, DeleteOption(p)
  PROVE  LinksInv'
<1>0. PICK id : id = catalogHandlers[p].id
  OBVIOUS
<1>1. /\ catalogHandlers' = [catalogHandlers EXCEPT ![p] = Waiting]
      /\ UNCHANGED <<links, crowded>>
      /\ catalogHandlers[p].step = "deleteOption" /\ Busy(p)
      /\ IF \E l \in links : l[2] = id THEN UNCHANGED assigned
         ELSE assigned' = {l \in assigned : l[2] # id}
  BY <1>0 DEF DeleteOption, CatalogEnd, Ends, Goes, CatalogAt, At, Busy
<1>2. Waiting.step = "waiting"
  BY DEF Waiting
<1>3. ~crowded => /\ links = {l \in assigned : l[2] # id}
                  /\ \A q \in Handlers \ {p} : ~Busy(q)
  BY <1>0, <1>1, RequestIsAlone DEF RequestReliable
<1>4. ~crowded => links' = assigned'
  BY <1>1, <1>3
<1> QED BY <1>1, <1>2, <1>3, <1>4, AloneKeeps DEF LinksInv

LEMMA FindItemKeeps ==
  ASSUME LinksInv, NEW p \in Handlers, FindItem(p)
  PROVE  LinksInv'
<1> DEFINE h == catalogHandlers[p]
           next == IF h.op \in {"create", "update"} THEN "findByIds" ELSE h.op
           loaded == IF h.op = "update" THEN LinksOf(h.item) ELSE {}
           to == [step |-> next, item |-> h.item, ids |-> h.ids, loaded |-> loaded]
<1>1. /\ h.step = "findItem" /\ Busy(p) /\ ~CatalogAt(p, "deleteOption")
      /\ UNCHANGED <<links, assigned, crowded>>
  BY DEF FindItem, CatalogAt, At, Busy, catalogTables
<1>2. CASE CatalogEnd(p)
  BY <1>1, <1>2, EndsKeep
<1>3. CASE CatalogGo(p, to)
  <2>1. catalogHandlers' = [catalogHandlers EXCEPT ![p] = to]
    BY <1>3 DEF CatalogGo, Goes
  <2>2. to.step = next /\ to.item = h.item /\ to.ids = h.ids /\ to.loaded = loaded
    OBVIOUS
  <2> HIDE DEF to
  <2>3. CASE crowded
    <3>1. Pairs(links') /\ crowded'
      BY <1>1, <2>3 DEF LinksInv
    <3> QED BY <2>1, <3>1, AloneKeeps
  <2>4. CASE ~crowded
    <3>1. RequestReliable(h)
      BY <1>1, <2>4, RequestIsAlone
    <3>2. next \in {"findByIds", "image", "remove"}
      BY <1>1, <3>1 DEF RequestReliable
    <3>3. RequestReliable(to)
      BY <1>1, <2>2, <3>1, <3>2 DEF RequestReliable
    <3> QED BY <1>1, <2>1, <2>2, <3>2, <3>3, LinksKept
  <2> QED BY <2>3, <2>4
<1> QED BY <1>2, <1>3 DEF FindItem

LEMMA FindByIdsKeeps ==
  ASSUME LinksInv, NEW p \in Handlers, FindByIds(p)
  PROVE  LinksInv'
<1> DEFINE h == catalogHandlers[p]
           to == [step |-> "saveItem", item |-> h.item, ids |-> h.ids, related |-> Related(h)]
<1>1. /\ h.step = "findByIds" /\ Busy(p) /\ ~CatalogAt(p, "deleteOption")
      /\ UNCHANGED <<links, assigned, crowded>>
  BY DEF FindByIds, CatalogAt, At, Busy, catalogTables
<1>2. CASE CatalogEnd(p)
  BY <1>1, <1>2, EndsKeep
<1>3. CASE CatalogGo(p, to)
  <2>1. catalogHandlers' = [catalogHandlers EXCEPT ![p] = to]
    BY <1>3 DEF CatalogGo, Goes
  <2>2. to.step = "saveItem" /\ to.item = h.item /\ to.ids = h.ids /\ to.related = Related(h)
    OBVIOUS
  <2> HIDE DEF to
  <2>3. ~crowded => RequestReliable(to)
    BY <1>1, <2>2, RequestIsAlone DEF RequestReliable, Related
  <2> QED BY <1>1, <2>1, <2>2, <2>3, LinksKept
<1> QED BY <1>2, <1>3 DEF FindByIds

(* The links of an item are replaced by those related to it.               *)
LEMMA SaveItemKeeps ==
  ASSUME LinksInv, NEW p \in Handlers, SaveItem(p)
  PROVE  LinksInv'
<1>0. PICK h : h = catalogHandlers[p]
  OBVIOUS
<1>1. /\ h.step = "saveItem" /\ Busy(p) /\ ~CatalogAt(p, "deleteOption")
      /\ UNCHANGED crowded /\ CatalogEnd(p)
  BY <1>0 DEF SaveItem, CatalogAt, At, Busy
<1>2. CASE UNCHANGED <<links, assigned>>
  BY <1>1, <1>2, EndsKeep
<1>3. ASSUME NEW item, h.item # None => item = h.item,
             links' = {l \in links : l[1] # item} \cup {<<item, o>> : o \in h.related},
             assigned' = IF h.ids = None THEN assigned
                         ELSE {l \in assigned : l[1] # item}
                                \cup {<<item, o>> : o \in h.related}
      PROVE  LinksInv'
  <2>1. catalogHandlers' = [catalogHandlers EXCEPT ![p] = Waiting] /\ Waiting.step = "waiting"
    BY <1>1 DEF CatalogEnd, Ends, Goes, Waiting
  <2>2. Pairs(links')
    BY <1>3 DEF Pairs, LinksInv
  <2>3. ~crowded => /\ RequestReliable(h)
                    /\ \A q \in Handlers \ {p} : ~Busy(q)
    BY <1>0, <1>1, RequestIsAlone
  <2>4. ASSUME ~crowded PROVE links' = assigned'
    <3>1. links = assigned
      BY <1>1, <2>3, <2>4 DEF RequestReliable
    <3>2. CASE h.ids # None
      BY <1>3, <3>1, <3>2
    <3>3. CASE h.ids = None
      <4>1. item = h.item /\ h.related = LinksOf(item)
        BY <1>1, <1>3, <2>3, <2>4, <3>3 DEF RequestReliable
      <4>2. {<<item, o>> : o \in LinksOf(item)} = {l \in links : l[1] = item}
        BY DEF LinksOf, LinksInv, Pairs
      <4>3. links' = links
        BY <1>3, <4>1, <4>2
      <4> QED BY <1>3, <3>1, <3>3, <4>3
    <3> QED BY <3>2, <3>3
  <2> QED BY <1>1, <2>1, <2>2, <2>3, <2>4, AloneKeeps
<1> QED BY <1>0, <1>2, <1>3 DEF SaveItem

LEMMA RemoveItemKeeps ==
  ASSUME LinksInv, NEW p \in Handlers, RemoveItem(p)
  PROVE  LinksInv'
<1>0. PICK item : item = catalogHandlers[p].item
  OBVIOUS
<1>1. /\ catalogHandlers' = [catalogHandlers EXCEPT ![p] = Waiting]
      /\ links' = {l \in links : l[1] # item}
      /\ assigned' = {l \in assigned : l[1] # item}
      /\ UNCHANGED crowded
      /\ catalogHandlers[p].step = "remove" /\ Busy(p)
  BY <1>0 DEF RemoveItem, CatalogEnd, Ends, Goes, CatalogAt, At, Busy
<1>2. Waiting.step = "waiting"
  BY DEF Waiting
<1>3. ~crowded => /\ links = assigned
                  /\ \A q \in Handlers \ {p} : ~Busy(q)
  BY <1>1, RequestIsAlone DEF RequestReliable
<1>4. Pairs(links')
  BY <1>1 DEF Pairs, LinksInv
<1> QED BY <1>1, <1>2, <1>3, <1>4, AloneKeeps

LEMMA LinksStep == LinksInv /\ [CatalogNext]_catalogVars => LinksInv'
<1> SUFFICES ASSUME LinksInv, [CatalogNext]_catalogVars PROVE LinksInv'
  OBVIOUS
<1>1. CASE UNCHANGED catalogVars
  BY <1>1 DEF catalogVars, catalogTables, LinksInv, LinksAlone, RequestReliable, Busy,
              CatalogAt, At, LinksOf
<1>2. ASSUME NEW p \in Handlers, MenuService(p) PROVE LinksInv'
  BY <1>2, StartsKeep, RefusalsKeep, FindItemKeeps, FindByIdsKeeps, SaveItemKeeps,
     RemoveItemKeeps DEF MenuService
<1>3. ASSUME NEW p \in Handlers, OptionNext(p) PROVE LinksInv'
  BY <1>3, StartsKeep, RefusalsKeep, OptionStepsKeep, UnlinkOptionKeeps, DeleteOptionKeeps
     DEF OptionNext
<1> QED BY <1>1, <1>2, <1>3, RefusalsKeep
        DEF CatalogNext, FriesTypesService, SaucesService, BeveragesService,
            ExtraPortionsService

(* menu.service.ts:329: of any number of products and options, requests    *)
(* that do not overlap leave the links that the admin has asked for.       *)
THEOREM LinksFollowTheAdmin == Spec => []LinksAreThoseAssigned
<1>1. Init => LinksInv
  <2> SUFFICES ASSUME Init PROVE LinksInv
    OBVIOUS
  <2>1. /\ links = {} /\ assigned = {}
        /\ catalogHandlers = [p \in Handlers |-> Waiting]
    BY DEF Init, CatalogInit, CatalogIdle
  <2>2. \A p \in Handlers : ~Busy(p)
    BY <2>1 DEF Busy, CatalogAt, At, Waiting
  <2> QED BY <2>1, <2>2 DEF LinksInv, LinksAlone, Pairs
<1>2. LinksInv /\ [Next]_backOfficeVars => LinksInv'
  <2>1. [Next]_backOfficeVars => [CatalogNext]_catalogVars
    BY DEF Next, OthersRest, backOfficeVars
  <2> QED BY <2>1, LinksStep
<1>3. LinksInv => LinksAreThoseAssigned
  BY DEF LinksInv, LinksAlone, Busy, LinksAreThoseAssigned
<1> QED BY <1>1, <1>2, <1>3, PTL DEF Spec

(***************************************************************************)
(* Banners.  A row is saved as it was validated; a batch is written at its *)
(* COMMIT.  What the model saves in one step is the whole row that was     *)
(* read, so this holds of every banner, also of those that were raced.     *)
(***************************************************************************)
BannerRow(row) == row = [f \in {"start", "end", "order"} |-> row[f]]
DatesInOrder(row) == row.start = None \/ row.end = None \/ row.start < row.end

BannersInv ==
  /\ bannerHandlers = [p \in Handlers |-> bannerHandlers[p]]
  /\ DOMAIN asked = DOMAIN banners
  /\ \A b \in DOMAIN banners : /\ BannerRow(banners[b]) /\ DatesInOrder(banners[b])
                               /\ banners[b].order = asked[b]
  /\ \A p \in Handlers : bannerHandlers[p].step = "save" =>
       BannerRow(bannerHandlers[p].row) /\ DatesInOrder(bannerHandlers[p].row)

(* A step that writes nothing, and a handler with nothing to save.         *)
LEMMA BannersKept ==
  ASSUME BannersInv, NEW p \in Handlers, NEW to,
         bannerHandlers' = [bannerHandlers EXCEPT ![p] = to],
         to.step = "save" => BannerRow(to.row) /\ DatesInOrder(to.row),
         UNCHANGED <<banners, asked>>
  PROVE  BannersInv'
  BY DEF BannersInv, BannerRow, DatesInOrder

LEMMA BannerEndKeeps ==
  ASSUME BannersInv, NEW p \in Handlers, BannerEnd(p),
         DOMAIN asked' = DOMAIN banners',
         \A b \in DOMAIN banners' : /\ BannerRow(banners'[b]) /\ DatesInOrder(banners'[b])
                                    /\ banners'[b].order = asked'[b]
  PROVE  BannersInv'
<1>1. bannerHandlers' = [bannerHandlers EXCEPT ![p] = Waiting]
  BY DEF BannerEnd, Ends, Goes
<1>2. Waiting.step # "save"
  BY DEF Waiting
<1>3. /\ bannerHandlers' = [q \in Handlers |-> bannerHandlers'[q]]
      /\ \A q \in Handlers : bannerHandlers'[q] = IF q = p THEN Waiting ELSE bannerHandlers[q]
  BY <1>1 DEF BannersInv
<1>4. \A q \in Handlers : bannerHandlers'[q].step = "save" =>
        BannerRow(bannerHandlers'[q].row) /\ DatesInOrder(bannerHandlers'[q].row)
  BY <1>2, <1>3 DEF BannersInv
<1> QED BY <1>3, <1>4 DEF BannersInv, BannerRow, DatesInOrder

(* The merged row is one with valid dates.                                 *)
LEMMA FindBannerKeeps ==
  ASSUME BannersInv, NEW p \in Handlers, FindBanner(p)
  PROVE  BannersInv'
<1> DEFINE h == bannerHandlers[p]
           row == IF h.id = None THEN NewBanner ELSE banners[h.id]
           merged == With(row, h.dto)
           to == [step |-> "save", id |-> h.id, row |-> merged]
<1>1. UNCHANGED <<banners, asked>>
  BY DEF FindBanner
<1>2. CASE BannerEnd(p)
  BY <1>1, <1>2, BannerEndKeeps DEF BannersInv
<1>3. CASE ValidDates(row, h.dto) /\ BannerGo(p, to)
  <2>1. bannerHandlers' = [bannerHandlers EXCEPT ![p] = to]
    BY <1>3 DEF BannerGo, Goes
  <2>2. BannerRow(merged)
    <3> HIDE DEF row, h
    <3> QED BY DEF With, BannerRow
  <2>3. DatesInOrder(merged)
    BY <1>3 DEF ValidDates, DatesInOrder
  <2>4. to.row = merged
    OBVIOUS
  <2> HIDE DEF to, merged
  <2> QED BY <1>1, <2>1, <2>2, <2>3, <2>4, BannersKept
<1> QED BY <1>2, <1>3 DEF FindBanner

LEMMA SaveBannerKeeps ==
  ASSUME BannersInv, NEW p \in Handlers, SaveBanner(p)
  PROVE  BannersInv'
<1> DEFINE row == bannerHandlers[p].row
<1>1. BannerEnd(p) /\ BannerRow(row) /\ DatesInOrder(row)
  BY DEF SaveBanner, BannerAt, At, BannersInv
<1> HIDE DEF row
<1>2. CASE UNCHANGED <<banners, asked>>
  BY <1>1, <1>2, BannerEndKeeps DEF BannersInv
<1>3. ASSUME NEW id, banners' = Put(banners, id, row), asked' = Put(asked, id, row.order)
      PROVE  BannersInv'
  <2>1. /\ DOMAIN banners' = DOMAIN banners \cup {id} /\ DOMAIN asked' = DOMAIN asked \cup {id}
        /\ \A b \in DOMAIN banners' : banners'[b] = IF b = id THEN row ELSE banners[b]
        /\ \A b \in DOMAIN asked' : asked'[b] = IF b = id THEN row.order ELSE asked[b]
    BY <1>3 DEF Put
  <2>2. DOMAIN asked' = DOMAIN banners'
    BY <2>1 DEF BannersInv
  <2>3. ASSUME NEW b \in DOMAIN banners'
        PROVE  /\ BannerRow(banners'[b]) /\ DatesInOrder(banners'[b])
               /\ banners'[b].order = asked'[b]
    <3>1. CASE b = id
      <4>1. banners'[b] = row /\ asked'[b] = row.order
        BY <2>1, <2>2, <3>1
      <4> QED BY <1>1, <4>1
    <3>2. CASE b # id
      <4>1. banners'[b] = banners[b] /\ asked'[b] = asked[b] /\ b \in DOMAIN banners
        BY <2>1, <2>2, <3>2
      <4>2. /\ BannerRow(banners[b]) /\ DatesInOrder(banners[b])
            /\ banners[b].order = asked[b]
        BY <4>1 DEF BannersInv
      <4> QED BY <4>1, <4>2
    <3> QED BY <3>1, <3>2
  <2> QED BY <1>1, <2>2, <2>3, BannerEndKeeps
<1> QED BY <1>2, <1>3 DEF SaveBanner, row

LEMMA RemoveBannerKeeps ==
  ASSUME BannersInv, NEW p \in Handlers, RemoveBanner(p)
  PROVE  BannersInv'
<1> DEFINE id == bannerHandlers[p].id
<1>1. /\ BannerEnd(p)
      /\ banners' = [b \in DOMAIN banners \ {id} |-> banners[b]]
      /\ asked' = [b \in DOMAIN asked \ {id} |-> asked[b]]
  BY DEF RemoveBanner, Without
<1> HIDE DEF id
<1>2. DOMAIN asked' = DOMAIN banners'
  BY <1>1 DEF BannersInv
<1>3. ASSUME NEW b \in DOMAIN banners'
      PROVE  /\ BannerRow(banners'[b]) /\ DatesInOrder(banners'[b])
             /\ banners'[b].order = asked'[b]
  <2>1. b \in DOMAIN banners /\ banners'[b] = banners[b] /\ asked'[b] = asked[b]
    BY <1>1, <1>2
  <2>2. BannerRow(banners[b]) /\ DatesInOrder(banners[b]) /\ banners[b].order = asked[b]
    BY <2>1 DEF BannersInv
  <2> QED BY <2>1, <2>2
<1> QED BY <1>1, <1>2, <1>3, BannerEndKeeps

(* Until its COMMIT a batch has written nothing that anybody sees.         *)
LEMMA ReorderItemKeeps ==
  ASSUME BannersInv, NEW p \in Handlers, ReorderItem(p)
  PROVE  BannersInv'
<1> DEFINE h == bannerHandlers[p]
           done == [h EXCEPT !.items = Tail(@)]
           written == [h EXCEPT !.items = Tail(@),
                                !.written = Put(@, Head(h.items).id, Head(h.items).order)]
<1>1. /\ h.step = "reorder"
      /\ UNCHANGED <<banners, asked>>
  BY DEF ReorderItem, BannerAt, At, WriteInTransaction
<1>2. \/ bannerHandlers' = [bannerHandlers EXCEPT ![p] = done]
      \/ bannerHandlers' = [bannerHandlers EXCEPT ![p] = written]
  BY DEF ReorderItem, BannerGo, Goes
<1>3. done.step = h.step /\ written.step = h.step
  OBVIOUS
<1> HIDE DEF done, written
<1> QED BY <1>1, <1>2, <1>3, BannersKept

LEMMA CommitReorderKeeps ==
  ASSUME BannersInv, NEW p \in Handlers, CommitReorder(p)
  PROVE  BannersInv'
<1> DEFINE w == bannerHandlers[p].written
<1>1. /\ BannerEnd(p)
      /\ banners' = [b \in DOMAIN banners |->
           IF b \in DOMAIN w THEN [banners[b] EXCEPT !.order = w[b]] ELSE banners[b]]
      /\ asked' = [b \in DOMAIN asked |-> IF b \in DOMAIN w THEN w[b] ELSE asked[b]]
  BY DEF CommitReorder
<1> HIDE DEF w
<1>2. DOMAIN banners' = DOMAIN banners /\ DOMAIN asked' = DOMAIN banners'
  BY <1>1 DEF BannersInv
<1>3. ASSUME NEW b \in DOMAIN banners'
      PROVE  /\ BannerRow(banners'[b]) /\ DatesInOrder(banners'[b])
             /\ banners'[b].order = asked'[b]
  <2>1. BannerRow(banners[b]) /\ DatesInOrder(banners[b]) /\ banners[b].order = asked[b]
    BY <1>2 DEF BannersInv
  <2>2. CASE b \in DOMAIN w
    <3>1. banners'[b] = [banners[b] EXCEPT !.order = w[b]] /\ asked'[b] = w[b]
      BY <1>1, <1>2, <2>2
    <3>2. /\ banners'[b] = [f \in {"start", "end", "order"} |-> banners'[b][f]]
          /\ banners'[b].order = w[b]
          /\ banners'[b].start = banners[b].start /\ banners'[b].end = banners[b].end
      BY <2>1, <3>1 DEF BannerRow
    <3> QED BY <2>1, <3>1, <3>2 DEF BannerRow, DatesInOrder
  <2>3. CASE b \notin DOMAIN w
    BY <1>1, <1>2, <2>1, <2>3
  <2> QED BY <2>2, <2>3
<1> QED BY <1>1, <1>2, <1>3, BannerEndKeeps

LEMMA BannersStep == BannersInv /\ [BannersNext]_bannerVars => BannersInv'
<1> SUFFICES ASSUME BannersInv, [BannersNext]_bannerVars PROVE BannersInv'
  OBVIOUS
<1>1. CASE UNCHANGED bannerVars
  BY <1>1 DEF bannerVars, BannersInv
<1>2. ASSUME NEW p \in Handlers, NEW h, StartBanner(p, h), h.step # "save"
      PROVE  BannersInv'
  BY <1>2, BannersKept DEF StartBanner, BannerGo, Goes
<1>3. ASSUME NEW p \in Handlers, ReorderFails(p) PROVE BannersInv'
  BY <1>3, BannerEndKeeps DEF ReorderFails, BannersInv
<1> QED BY <1>1, <1>2, <1>3, FindBannerKeeps, SaveBannerKeeps, RemoveBannerKeeps,
           ReorderItemKeeps, CommitReorderKeeps DEF BannersNext

(* banners.service.ts:85: of any number of banners and requests, each begins*)
(* before it ends and has the order it was last given, by a save or by a   *)
(* batch as a whole.                                                       *)
THEOREM BannersStayInOrder == Spec => []BannersAreInOrder
<1>1. Init => BannersInv
  BY DEF Init, BannersInit, BannersInv, Waiting
<1>2. BannersInv /\ [Next]_backOfficeVars => BannersInv'
  <2>1. [Next]_backOfficeVars => [BannersNext]_bannerVars
    BY DEF Next, OthersRest, backOfficeVars
  <2> QED BY <2>1, BannersStep
<1>3. BannersInv => BannersAreInOrder
  BY DEF BannersInv, DatesInOrder, BannersAreInOrder, BannersBeginBeforeTheyEnd,
         ReorderingIsAllOrNothing
<1> QED BY <1>1, <1>2, <1>3, PTL DEF Spec

(***************************************************************************)
(* The automatic coupons.  Two configurations may be written over one      *)
(* another, key by key: each key is still one that somebody configured.    *)
(***************************************************************************)
ValidFor(key, value) ==
  /\ key = "discount_type" => value \in {"percentage", "fixed_amount"}
  /\ key = "discount_value" => value \in Amounts

WellConfigured(h) ==
  /\ AutoTyped(h) /\ h.config \in AutoConfigs
  /\ \A k \in DOMAIN h.written : ValidFor(k, h.written[k])

CouponConfigInv ==
  /\ settingHandlers = [p \in Handlers |-> settingHandlers[p]]
  /\ \A p \in Handlers :
       settingHandlers[p].step \in AutoSteps => WellConfigured(settingHandlers[p])
  /\ \A k \in DOMAIN settings : ValidFor(k, settings[k])

LEMMA ConfigKept ==
  ASSUME CouponConfigInv, NEW p \in Handlers, NEW to,
         settingHandlers' = [settingHandlers EXCEPT ![p] = to],
         to.step \in AutoSteps => WellConfigured(to),
         \A k \in DOMAIN settings' : ValidFor(k, settings'[k])
  PROVE  CouponConfigInv'
<1>1. /\ settingHandlers' = [q \in Handlers |-> settingHandlers'[q]]
      /\ settingHandlers'[p] = to
      /\ \A q \in Handlers \ {p} : settingHandlers'[q] = settingHandlers[q]
  BY DEF CouponConfigInv
<1>2. \A q \in Handlers :
        settingHandlers'[q].step \in AutoSteps => WellConfigured(settingHandlers'[q])
  BY <1>1 DEF CouponConfigInv
<1> QED BY <1>1, <1>2 DEF CouponConfigInv

(* A seed has its default, and a closing writes a row of its own.          *)
LEMMA ConfigUntouched ==
  ASSUME CouponConfigInv, NEW p \in Handlers,
         \/ StartSeeds(p) \/ SeedIfMissing(p) \/ InsertSeed(p)
         \/ \E value \in BOOLEAN : StartClosing(p, value)
         \/ FindClosing(p) \/ SaveClosing(p) \/ NotifyBusinessHoursChange(p)
  PROVE  CouponConfigInv'
<1>1. PICK to : /\ settingHandlers' = [settingHandlers EXCEPT ![p] = to]
                /\ to.step \in {"seed", "waiting", "insert"} \cup ClosingSteps
  <2> DEFINE Elsewhere(to) == to.step \in {"seed", "waiting", "insert"} \cup ClosingSteps
             goes == \E to : settingHandlers' = [settingHandlers EXCEPT ![p] = to] /\ Elsewhere(to)
  <2>1. \A to : SettingGo(p, to) /\ Elsewhere(to) => goes
    BY DEF SettingGo, Goes
  <2>2. SettingEnd(p) => goes
    <3>1. Elsewhere(Waiting)
      BY DEF Waiting
    <3> QED BY <3>1 DEF SettingEnd, Ends, Goes
  <2>3. \A n : NextSeed(p, n) => goes
    <3>1. \A n : Elsewhere([step |-> "seed", n |-> n + 1])
      OBVIOUS
    <3> QED BY <2>1, <2>2, <3>1 DEF NextSeed
  <2>4. StartSeeds(p) \/ SeedIfMissing(p) \/ InsertSeed(p) => goes
    <3>1. \A n : Elsewhere([step |-> "seed", n |-> n]) /\ Elsewhere([step |-> "insert", n |-> n])
      OBVIOUS
    <3> HIDE DEF Elsewhere, goes
    <3> QED BY <2>1, <2>2, <2>3, <3>1 DEF StartSeeds, SeedIfMissing, InsertSeed
  <2>5. (\E value \in BOOLEAN : StartClosing(p, value)) \/ FindClosing(p) => goes
    <3>1. \A v, w : /\ Elsewhere([step |-> "find", value |-> v])
                   /\ Elsewhere([step |-> "save", value |-> v, previous |-> w])
      BY DEF ClosingSteps
    <3> HIDE DEF Elsewhere, goes
    <3> QED BY <2>1, <3>1 DEF StartClosing, FindClosing
  <2>6. SaveClosing(p) \/ NotifyBusinessHoursChange(p) => goes
    <3>1. \A v : Elsewhere([step |-> "tell", value |-> v])
      BY DEF ClosingSteps
    <3> HIDE DEF Elsewhere, goes
    <3> QED BY <2>1, <2>2, <3>1 DEF SaveClosing, NotifyBusinessHoursChange
  <2> QED BY <2>4, <2>5, <2>6
<1>2. to.step \notin AutoSteps
  BY <1>1 DEF AutoSteps, ClosingSteps
<1>3. \/ UNCHANGED settings
      \/ \E key : settings' = Put(settings, key, DefaultValue[key])
      \/ \E value : settings' = Put(settings, "business_manual_closed", value)
  BY DEF StartSeeds, SeedIfMissing, InsertSeed, StartClosing, FindClosing, SaveClosing,
         NotifyBusinessHoursChange, SettingRows
<1>4. ASSUME NEW key PROVE ValidFor(key, DefaultValue[key])
  BY SettingsAssumption DEF ValidFor, DefaultValue
<1>5. ASSUME NEW value PROVE ValidFor("business_manual_closed", value)
  BY DEF ValidFor
<1>6. ASSUME NEW key, NEW value, settings' = Put(settings, key, value), ValidFor(key, value)
      PROVE  \A k \in DOMAIN settings' : ValidFor(k, settings'[k])
  BY <1>6 DEF Put, CouponConfigInv
<1>7. \A k \in DOMAIN settings' : ValidFor(k, settings'[k])
  <2>1. CASE UNCHANGED settings
    BY <2>1 DEF CouponConfigInv
  <2> QED BY <1>3, <1>4, <1>5, <1>6, <2>1
<1> QED BY <1>1, <1>2, <1>7, ConfigKept

LEMMA ConfigWritten ==
  ASSUME CouponConfigInv, NEW p \in Handlers,
         \/ \E config \in AutoConfigs : StartAutoConfig(p, config)
         \/ ReadAutoKey(p) \/ WriteAutoKey(p) \/ CommitAutoConfig(p)
  PROVE  CouponConfigInv'
<1> DEFINE h == settingHandlers[p]
<1>1. ASSUME NEW config \in AutoConfigs, StartAutoConfig(p, config) PROVE CouponConfigInv'
  <2> DEFINE to == [step |-> "type", config |-> config, written |-> <<>>]
  <2>1. /\ settingHandlers' = [settingHandlers EXCEPT ![p] = to]
        /\ UNCHANGED settings
    BY <1>1 DEF StartAutoConfig, SettingGo, Goes, SettingRows
  <2>2. WellConfigured(to)
    BY DEF WellConfigured, AutoTyped
  <2> HIDE DEF to
  <2>3. \A k \in DOMAIN settings' : ValidFor(k, settings'[k])
    BY <2>1 DEF CouponConfigInv
  <2> QED BY <2>1, <2>2, <2>3, ConfigKept
<1>2. ASSUME ReadAutoKey(p) \/ WriteAutoKey(p) \/ CommitAutoConfig(p)
      PROVE  /\ WellConfigured(h)
             /\ AutoKey(h) \in ProtectedKeys /\ ValidFor(AutoKey(h), Wanted(h))
             /\ AfterKey(h) \in {"value", "commit"}
  <2>1. h.step \in AutoSteps /\ WellConfigured(h)
    BY <1>2 DEF ReadAutoKey, WriteAutoKey, CommitAutoConfig, SettingAt, At, AutoSteps,
                CouponConfigInv
  <2>2. h.config.type \in {"percentage", "fixed_amount"} /\ h.config.amount \in Amounts
    BY <2>1 DEF WellConfigured, AutoConfigs
  <2> HIDE DEF h
  <2> QED BY <2>1, <2>2 DEF AutoKey, AfterKey, ProtectedKeys, ValidFor, Wanted
<1>3. ASSUME ReadAutoKey(p) PROVE CouponConfigInv'
  <2>1. PICK to : /\ settingHandlers' = [settingHandlers EXCEPT ![p] = to]
                  /\ \/ to = [h EXCEPT !.step = AfterKey(h)]
                     \/ \E s \in {"update_type", "update_value"}, i \in BOOLEAN :
                          to = [step |-> s, config |-> h.config, written |-> h.written,
                                inserts |-> i]
    BY <1>3 DEF ReadAutoKey, SettingGo, Goes
  <2>2. WellConfigured(to)
    <3> DEFINE after == AfterKey(h)
    <3>1. WellConfigured(h)
      BY <1>2, <1>3
    <3> HIDE DEF after, h
    <3>2. CASE to = [h EXCEPT !.step = after]
      BY <3>1, <3>2 DEF WellConfigured, AutoTyped
    <3>3. ASSUME NEW s \in {"update_type", "update_value"}, NEW i,
                 to = [step |-> s, config |-> h.config, written |-> h.written, inserts |-> i]
          PROVE  WellConfigured(to)
      BY <3>1, <3>3 DEF WellConfigured, AutoTyped
    <3> QED BY <2>1, <3>2, <3>3 DEF after
  <2>3. \A k \in DOMAIN settings' : ValidFor(k, settings'[k])
    BY <1>3 DEF ReadAutoKey, SettingRows, CouponConfigInv
  <2> QED BY <2>1, <2>2, <2>3, ConfigKept
<1>4. ASSUME WriteAutoKey(p) PROVE CouponConfigInv'
  <2>1. PICK to : /\ settingHandlers' = [settingHandlers EXCEPT ![p] = to]
                  /\ \/ to = Waiting
                     \/ to = [step |-> AfterKey(h), config |-> h.config,
                              written |-> Put(h.written, AutoKey(h), Wanted(h))]
    BY <1>4 DEF WriteAutoKey, SettingGo, SettingEnd, Ends, Goes
  <2>2. to.step \in AutoSteps => WellConfigured(to)
    <3>1. CASE to = Waiting
      BY <3>1 DEF Waiting, AutoSteps
    <3>2. CASE to # Waiting
      <4>1. /\ to.step = AfterKey(h) /\ to.config = h.config
            /\ to.written = Put(h.written, AutoKey(h), Wanted(h))
            /\ to = [step |-> to.step, config |-> to.config, written |-> to.written]
        BY <2>1, <3>2
      <4>2. DOMAIN to.written \subseteq ProtectedKeys
        BY <1>2, <1>4, <4>1 DEF Put, WellConfigured, AutoTyped
      <4>3. \A k \in DOMAIN to.written : ValidFor(k, to.written[k])
        BY <1>2, <1>4, <4>1 DEF Put, WellConfigured
      <4>4. to.config \in AutoConfigs
        BY <1>2, <1>4, <4>1 DEF WellConfigured
      <4> QED BY <4>1, <4>2, <4>3, <4>4 DEF WellConfigured, AutoTyped
    <3> QED BY <3>1, <3>2
  <2>3. \A k \in DOMAIN settings' : ValidFor(k, settings'[k])
    BY <1>4 DEF WriteAutoKey, CouponConfigInv
  <2> QED BY <2>1, <2>2, <2>3, ConfigKept
<1>5. ASSUME CommitAutoConfig(p) PROVE CouponConfigInv'
  <2>1. /\ settingHandlers' = [settingHandlers EXCEPT ![p] = Waiting]
        /\ settings' = [k \in DOMAIN settings \cup DOMAIN h.written |->
                          IF k \in DOMAIN h.written THEN h.written[k] ELSE settings[k]]
    BY <1>5 DEF CommitAutoConfig, SettingEnd, Ends, Goes
  <2>2. \A k \in DOMAIN h.written : ValidFor(k, h.written[k])
    BY <1>2, <1>5 DEF WellConfigured
  <2> HIDE DEF h
  <2>3. \A k \in DOMAIN settings' : ValidFor(k, settings'[k])
    BY <2>1, <2>2 DEF CouponConfigInv
  <2>4. Waiting.step \notin AutoSteps
    BY DEF Waiting, AutoSteps
  <2> QED BY <2>1, <2>3, <2>4, ConfigKept
<1> QED BY <1>1, <1>3, <1>4, <1>5

(* settings.service.ts:570: whatever starts, closings and configurations   *)
(* overlap, what getAutoCouponConfig() answers is a configuration that the *)
(* panel would have accepted as it is: never a percentage above 100, and   *)
(* never a type or an amount that nobody may configure.                    *)
THEOREM GeneratedCouponsAreConfigurable ==
  Spec => [](GeneratedCouponsAreSound /\ GetAutoCouponConfig \in AutoConfigs)
<1>1. Init => CouponConfigInv
  <2>1. SettingsInit => CouponConfigInv
    <3> SUFFICES ASSUME SettingsInit PROVE CouponConfigInv
      OBVIOUS
    <3>1. settingHandlers = [p \in Handlers |-> Waiting]
      BY DEF SettingsInit
    <3>2. \A k \in DOMAIN settings : ValidFor(k, settings[k])
      <4>1. CASE settings = <<>>
        BY <4>1
      <4>2. ASSUME NEW c \in AutoConfigs,
                   settings = [DefaultValue EXCEPT !["discount_type"] = c.type,
                                                   !["discount_value"] = c.amount]
            PROVE  \A k \in DOMAIN settings : ValidFor(k, settings[k])
        BY <4>2 DEF DefaultValue, ValidFor, AutoConfigs
      <4> QED BY <4>1, <4>2 DEF SettingsInit
    <3> QED BY <3>1, <3>2 DEF CouponConfigInv, Waiting, AutoSteps
  <2> QED BY <2>1 DEF Init, SettingsIdle
<1>2. CouponConfigInv /\ [Next]_backOfficeVars => CouponConfigInv'
  <2> SUFFICES ASSUME CouponConfigInv, [Next]_backOfficeVars PROVE CouponConfigInv'
    OBVIOUS
  <2>1. [SettingsNext]_settingVars
    BY DEF Next, OthersRest, backOfficeVars
  <2>2. CASE UNCHANGED settingVars
    BY <2>2 DEF CouponConfigInv, settingVars
  <2> QED BY <2>1, <2>2, ConfigUntouched, ConfigWritten DEF SettingsNext
<1>3. CouponConfigInv => GeneratedCouponsAreSound /\ GetAutoCouponConfig \in AutoConfigs
  <2> SUFFICES ASSUME CouponConfigInv
               PROVE  GetAutoCouponConfig \in AutoConfigs
    BY DEF AutoConfigs, GeneratedCouponsAreSound
  <2>1. [type |-> "percentage", amount |-> DefaultAmount] \in AutoConfigs
    BY SettingsAssumption DEF AutoConfigs
  <2>2. ASSUME ProtectedKeys \subseteq DOMAIN settings,
               PairIsValid(settings["discount_type"], settings["discount_value"])
        PROVE  [type |-> settings["discount_type"], amount |-> settings["discount_value"]]
                 \in AutoConfigs
    <3>1. /\ settings["discount_type"] \in {"percentage", "fixed_amount"}
          /\ settings["discount_value"] \in Amounts
      BY <2>2 DEF CouponConfigInv, ValidFor, ProtectedKeys
    <3> QED BY <2>2, <3>1 DEF AutoConfigs, PairIsValid
  <2> QED BY <2>1, <2>2 DEF GetAutoCouponConfig
<1> QED BY <1>1, <1>2, <1>3, PTL DEF Spec

=============================================================================
