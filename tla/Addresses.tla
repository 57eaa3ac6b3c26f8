------------------------------ MODULE Addresses ------------------------------
(***************************************************************************)
(* addresses.service.ts: the addresses of each user, one of which may be   *)
(* the default.  A write is a transaction of several statements, of which  *)
(* other requests see nothing before its COMMIT.                           *)
(***************************************************************************)
EXTENDS Handlers

CONSTANTS
  Owners,
  Places      \* bound: addresses ever created

VARIABLES
  addresses,  \* the table: address -> its owner and isDefault
  ownerLock,  \* owner -> the handler that has locked the user's row
  addressHandlers

addressVars == <<addresses, ownerLock, addressHandlers>>

AddressesInit ==
  /\ addresses = <<>>
  /\ ownerLock = [u \in Owners |-> None]
  /\ addressHandlers = [p \in Handlers |-> Waiting]

AddressGo(p, to) == addressHandlers' = Goes(addressHandlers, p, to)
AddressAt(p, step) == At(addressHandlers, p, step)

Known == DOMAIN addresses
Defaults(u) == {a \in Known : addresses[a].owner = u /\ addresses[a].isDefault}

(* isDefault may be left out of the DTO of an update.                      *)
StartWrite(p, u, kind, a, isDefault) ==
  /\ AddressAt(p, "waiting")
  /\ kind = "create" => isDefault # None
  /\ AddressGo(p, [step |-> "lock", user |-> u, kind |-> kind, address |-> a,
                   isDefault |-> isDefault])
  /\ UNCHANGED <<addresses, ownerLock>>

(* Mutant: the owner is not locked.                                        *)
FindOwner(p) ==
  /\ AddressAt(p, "lock")
  /\ AddressGo(p, [addressHandlers[p] EXCEPT !.step = "read"])
  /\ UNCHANGED <<addresses, ownerLock>>

LockOwner(p) ==
  LET h == addressHandlers[p] IN
  /\ AddressAt(p, "lock")
  /\ ownerLock[h.user] = None
  /\ ownerLock' = [ownerLock EXCEPT ![h.user] = p]
  /\ AddressGo(p, [h EXCEPT !.step = "read"])
  /\ UNCHANGED addresses

Finish(p) ==
  /\ ownerLock' = [ownerLock EXCEPT ![addressHandlers[p].user] = None]
  /\ addressHandlers' = Ends(addressHandlers, p)

(* getOwned(), and the rows that unsetDefault() finds.                     *)
ReadAddresses(p) ==
  LET h == addressHandlers[p] IN
  /\ AddressAt(p, "read")
  /\ IF h.kind = "create" \/ (h.address \in Known /\ addresses[h.address].owner = h.user)
     THEN /\ AddressGo(p, [step |-> "write", user |-> h.user, kind |-> h.kind,
                           address |-> h.address, isDefault |-> h.isDefault,
                           unset |-> IF h.isDefault = TRUE THEN Defaults(h.user)
                                     ELSE {}])
          /\ UNCHANGED ownerLock
     ELSE Finish(p)
  /\ UNCHANGED addresses

Unset(table, rows) ==
  [a \in DOMAIN table |->
     IF a \in rows THEN [table[a] EXCEPT !.isDefault = FALSE] ELSE table[a]]

CreateAddress(p) ==
  LET h == addressHandlers[p] IN
  /\ AddressAt(p, "write") /\ h.kind = "create"
  /\ \E a \in Places \ Known :
       addresses' = [b \in Known \cup {a} |->
         IF b = a THEN [owner |-> h.user, isDefault |-> h.isDefault]
                  ELSE Unset(addresses, h.unset)[b]]
  /\ Finish(p)

(* merge() and save() of the address read before unsetDefault().           *)
UpdateAddress(p) ==
  LET h == addressHandlers[p] IN
  /\ AddressAt(p, "write") /\ h.kind = "update"
  /\ addresses' = [a \in Known |->
       IF a = h.address /\ h.isDefault # None
       THEN [addresses[a] EXCEPT !.isDefault = h.isDefault]
       ELSE Unset(addresses, h.unset)[a]]
  /\ Finish(p)

RemoveAddress(p) ==
  LET h == addressHandlers[p] IN
  /\ AddressAt(p, "write") /\ h.kind = "remove"
  /\ addresses' = Without(addresses, h.address)
  /\ Finish(p)

AddressesNext ==
  \E p \in Handlers :
    \/ \E u \in Owners, kind \in {"create", "update", "remove"}, a \in Places,
          isDefault \in {TRUE, FALSE, None} : StartWrite(p, u, kind, a, isDefault)
    \/ LockOwner(p) \/ ReadAddresses(p)
    \/ CreateAddress(p) \/ UpdateAddress(p) \/ RemoveAddress(p)

(***************************************************************************)
(* Property.                                                               *)
(***************************************************************************)
(* addresses.service.ts:60: however many requests of a user overlap, never *)
(* more than one of the user's addresses is the default.                   *)
OneDefaultAddress == \A u \in Owners : Cardinality(Defaults(u)) <= 1

=============================================================================
