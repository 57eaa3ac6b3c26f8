------------------------------ MODULE FcmTokens ------------------------------
(***************************************************************************)
(* users.service.ts and notifications.service.ts: the FCM token of each    *)
(* user, the generations of docs/fcm-generations.md, and the clean-up of   *)
(* tokens that Firebase calls UNREGISTERED.                                *)
(***************************************************************************)
EXTENDS Handlers

CONSTANTS
  Customers,
  Devices,       \* FCM tokens
  Generations    \* UUIDs of registrations

ASSUME FcmAssumption == None \notin Generations

VARIABLES
  fcm,           \* user -> fcmToken and fcmGeneration
  generations,   \* user -> generation -> "absent", "live" or "revoked"
  locked,        \* user -> the handler that has locked its row
  unregistered,  \* external: tokens Firebase has dropped for good
  registered,    \* history: <<user, generation, token>> of accepted PATCHes
  fcmHandlers

fcmVars == <<fcm, generations, locked, unregistered, registered, fcmHandlers>>
fcmTables == <<fcm, generations, unregistered, registered>>

NoToken == [token |-> None, generation |-> None]

FcmInit ==
  /\ fcm = [u \in Customers |-> NoToken]
  /\ generations = [u \in Customers |-> [g \in Generations |-> "absent"]]
  /\ locked = [u \in Customers |-> None]
  /\ unregistered = {} /\ registered = {}
  /\ fcmHandlers = [p \in Handlers |-> Waiting]

FcmGo(p, to) == fcmHandlers' = Goes(fcmHandlers, p, to)
FcmAt(p, step) == At(fcmHandlers, p, step)

(***************************************************************************)
(* Clients without generations: one conditional UPDATE each.               *)
(***************************************************************************)
LegacyPatch(u, t) ==
  /\ locked[u] = None
  /\ fcm' = [fcm EXCEPT ![u] = [token |-> t, generation |-> None]]
  /\ UNCHANGED <<generations, locked, unregistered, registered, fcmHandlers>>

LegacyClear(u, t) ==
  /\ locked[u] = None
  /\ t \in {None, fcm[u].token}
  /\ fcm' = [fcm EXCEPT ![u].token = None]
  /\ UNCHANGED <<generations, locked, unregistered, registered, fcmHandlers>>

(***************************************************************************)
(* changeFcmGeneration(), under the lock of the user.                      *)
(***************************************************************************)
StartGeneration(p, u, g, t, revoke) ==
  /\ FcmAt(p, "waiting")
  /\ revoke \/ t # None
  /\ FcmGo(p, [step |-> "lock", user |-> u, generation |-> g, token |-> t,
               revoke |-> revoke])
  /\ UNCHANGED <<fcmTables, locked>>

(* Mutant: SELECT without FOR UPDATE.                                      *)
ReadCustomer(p) ==
  /\ FcmAt(p, "lock")
  /\ FcmGo(p, [fcmHandlers[p] EXCEPT !.step = "insert"])
  /\ UNCHANGED <<fcmTables, locked>>

LockCustomer(p) ==
  LET u == fcmHandlers[p].user IN
  /\ FcmAt(p, "lock")
  /\ locked[u] = None
  /\ locked' = [locked EXCEPT ![u] = p]
  /\ FcmGo(p, [fcmHandlers[p] EXCEPT !.step = "insert"])
  /\ UNCHANGED fcmTables

(* INSERT ... ON CONFLICT DO NOTHING, and for a PATCH SELECT "revokedAt".  *)
ReadGeneration(p) ==
  LET h == fcmHandlers[p] IN
  /\ FcmAt(p, "insert")
  /\ FcmGo(p, [h EXCEPT !.step =
       IF ~h.revoke /\ generations[h.user][h.generation] = "revoked"
       THEN "refused" ELSE "write"])
  /\ UNCHANGED <<fcmTables, locked>>

CommitFcm(p, u) ==
  /\ locked' = [locked EXCEPT ![u] = None]
  /\ fcmHandlers' = Ends(fcmHandlers, p)

(* 409: the registration was revoked.                                      *)
RefuseGeneration(p) ==
  /\ FcmAt(p, "refused")
  /\ CommitFcm(p, fcmHandlers[p].user)
  /\ UNCHANGED fcmTables

AcceptGeneration(p) ==
  LET h == fcmHandlers[p] IN
  /\ FcmAt(p, "write") /\ ~h.revoke
  /\ fcm' = [fcm EXCEPT ![h.user] = [token |-> h.token, generation |-> h.generation]]
  /\ generations' = [generations EXCEPT ![h.user][h.generation] =
                       IF @ = "absent" THEN "live" ELSE @]
  /\ registered' = registered \cup {<<h.user, h.generation, h.token>>}
  /\ CommitFcm(p, h.user)
  /\ UNCHANGED unregistered

(* A token without generation is cleared only when the caller names it.    *)
RevokeGeneration(p) ==
  LET h == fcmHandlers[p]
      row == fcm[h.user] IN
  /\ FcmAt(p, "write") /\ h.revoke
  /\ generations' = [generations EXCEPT ![h.user][h.generation] = "revoked"]
  /\ fcm' = [fcm EXCEPT ![h.user] =
               IF \/ row.generation = h.generation
                  \/ h.token # None /\ row = [token |-> h.token, generation |-> None]
               THEN NoToken ELSE row]
  /\ CommitFcm(p, h.user)
  /\ UNCHANGED <<unregistered, registered>>

(***************************************************************************)
(* Push notifications, to one user or to everybody with a token.           *)
(***************************************************************************)
Uninstall(t) ==
  /\ t \notin unregistered
  /\ unregistered' = unregistered \cup {t}
  /\ UNCHANGED <<fcm, generations, locked, registered, fcmHandlers>>

TokensOf(users) == {<<u, fcm[u].token>> : u \in {v \in users : fcm[v].token # None}}

StartPush(p, users) ==
  /\ FcmAt(p, "waiting")
  /\ TokensOf(users) # {}
  /\ FcmGo(p, [step |-> "sending", sent |-> TokensOf(users)])
  /\ UNCHANGED <<fcmTables, locked>>

(* Firebase answers for every token; other errors may be transient.        *)
PushAnswered(p) ==
  LET dead == {e \in fcmHandlers[p].sent : e[2] \in unregistered} IN
  /\ FcmAt(p, "sending")
  /\ \/ dead # {} /\ FcmGo(p, [step |-> "cleanup", stale |-> dead])
     \/ fcmHandlers' = Ends(fcmHandlers, p)
  /\ UNCHANGED <<fcmTables, locked>>

(* Mutant: the clean-up finds its rows by user only.                       *)
CleanupUsers(p) ==
  LET users == {e[1] : e \in fcmHandlers[p].stale} IN
  /\ FcmAt(p, "cleanup")
  /\ \A u \in users : locked[u] = None
  /\ fcm' = [u \in Customers |-> IF u \in users
                                 THEN [fcm[u] EXCEPT !.token = None] ELSE fcm[u]]
  /\ fcmHandlers' = Ends(fcmHandlers, p)
  /\ UNCHANGED <<generations, locked, unregistered, registered>>

(* UPDATE ... WHERE id and fcmToken are those that failed.                 *)
CleanupTokens(p) ==
  LET stale == {u \in Customers : <<u, fcm[u].token>> \in fcmHandlers[p].stale} IN
  /\ FcmAt(p, "cleanup")
  /\ \A u \in stale : locked[u] = None
  /\ fcm' = [u \in Customers |-> IF u \in stale
                                 THEN [fcm[u] EXCEPT !.token = None] ELSE fcm[u]]
  /\ fcmHandlers' = Ends(fcmHandlers, p)
  /\ UNCHANGED <<generations, locked, unregistered, registered>>

(* The clean-up fails; it is never retried, nor does anybody hear of it.   *)
CleanupFails(p) ==
  /\ FcmAt(p, "cleanup")
  /\ fcmHandlers' = Ends(fcmHandlers, p)
  /\ UNCHANGED <<fcmTables, locked>>

FcmNext ==
  \/ \E u \in Customers, t \in Devices : LegacyPatch(u, t)
  \/ \E u \in Customers, t \in Devices \cup {None} : LegacyClear(u, t)
  \/ \E t \in Devices : Uninstall(t)
  \/ \E p \in Handlers :
       \/ \E u \in Customers, g \in Generations, t \in Devices \cup {None},
             revoke \in BOOLEAN : StartGeneration(p, u, g, t, revoke)
       \/ LockCustomer(p) \/ ReadGeneration(p) \/ RefuseGeneration(p)
       \/ AcceptGeneration(p) \/ RevokeGeneration(p)
       \/ \E users \in SUBSET Customers : StartPush(p, users)
       \/ PushAnswered(p) \/ CleanupTokens(p) \/ CleanupFails(p)

(***************************************************************************)
(* Properties.                                                             *)
(***************************************************************************)
(* users.service.ts:221: a registration that has been revoked gets no more *)
(* pushes, whichever of its PATCHes and DELETEs arrives first.             *)
RevokedStaysOff ==
  \A u \in Customers, g \in Generations :
    generations[u][g] = "revoked" => fcm[u].generation # g

(* users.service.ts:179: a token that is bound to a registration is one it *)
(* has registered, so that revoking it cannot take another device's token. *)
TokenBelongsToItsGeneration ==
  \A u \in Customers :
    LET row == fcm[u] IN
    row.token # None /\ row.generation # None
      => <<u, row.generation, row.token>> \in registered

(* notifications.service.ts:133: while a push is on its way the user may   *)
(* register another device: only tokens that Firebase has dropped are      *)
(* cleaned up.                                                             *)
CleansOnlyDeadTokens ==
  [][\A p \in Handlers : FcmAt(p, "cleanup") /\ ~At(fcmHandlers', p, "cleanup") =>
       \A u \in Customers : fcm'[u] # fcm[u] => fcm[u].token \in unregistered
    ]_fcmVars

(* users.service.ts:212: a registration is bound to its own token until it *)
(* is revoked, and to none afterwards.                                     *)
RegistrationsHold == RevokedStaysOff /\ TokenBelongsToItsGeneration

=============================================================================
