------------------------------ MODULE Settings -------------------------------
(***************************************************************************)
(* settings.service.ts: the key-value table, its seeds, the generic PATCH  *)
(* with its push to the customers, and the configuration of the automatic  *)
(* coupons, which is written by a transaction of its own.                  *)
(***************************************************************************)
EXTENDS Handlers

CONSTANTS
  Amounts,       \* values of a discount
  DefaultAmount  \* of DEFAULT_AUTO_COUPON_CONFIG, a percentage

ASSUME SettingsAssumption ==
  Amounts \subseteq Nat \ {0} /\ DefaultAmount \in Amounts /\ DefaultAmount <= 100

VARIABLES
  settings,      \* the table: key -> value
  rowLock,       \* key -> the transaction that has written its row
  told,          \* what the customers have last been told of the closing
  excused,       \* history: two closings overlapped, or a push was lost
  settingHandlers

settingVars == <<settings, rowLock, told, excused, settingHandlers>>

(* The keys that matter here, in the order of onModuleInit(); the threshold*)
(* and the days of the coupons are written like the amount.                *)
SettingKeys == <<"business_manual_closed", "discount_type", "discount_value">>
DefaultValue == [business_manual_closed |-> FALSE, discount_type |-> "percentage",
                 discount_value |-> DefaultAmount]
ProtectedKeys == {"discount_type", "discount_value"}

(* UpdateAutoCouponConfigDto: no percentage above 100.                     *)
AutoConfigs == {c \in [type : {"percentage", "fixed_amount"}, amount : Amounts] :
                  c.type = "percentage" => c.amount <= 100}

(* The first start of all, or that of an installation with its settings.   *)
SettingsInit ==
  /\ settings \in {<<>>} \cup
       {[DefaultValue EXCEPT !["discount_type"] = c.type, !["discount_value"] = c.amount] :
          c \in AutoConfigs}
  /\ rowLock = [k \in ProtectedKeys |-> None]
  /\ told = FALSE /\ excused = FALSE
  /\ settingHandlers = [p \in Handlers |-> Waiting]

SettingGo(p, to) == settingHandlers' = Goes(settingHandlers, p, to)
SettingAt(p, step) == At(settingHandlers, p, step)
SettingEnd(p) == settingHandlers' = Ends(settingHandlers, p)
SettingRows == <<settings, rowLock, told, excused>>

(***************************************************************************)
(* onModuleInit(): an instance starts, maybe while another one does.       *)
(***************************************************************************)
StartSeeds(p) ==
  /\ SettingAt(p, "waiting")
  /\ SettingGo(p, [step |-> "seed", n |-> 1])
  /\ UNCHANGED SettingRows

NextSeed(p, n) ==
  IF n = Len(SettingKeys) THEN SettingEnd(p) ELSE SettingGo(p, [step |-> "seed", n |-> n + 1])

SeedIfMissing(p) ==
  LET n == settingHandlers[p].n IN
  /\ SettingAt(p, "seed")
  /\ IF SettingKeys[n] \in DOMAIN settings THEN NextSeed(p, n)
     ELSE SettingGo(p, [step |-> "insert", n |-> n])
  /\ UNCHANGED SettingRows

(* The key is UNIQUE: an instance that loses the race does not start.      *)
InsertSeed(p) ==
  LET n == settingHandlers[p].n  key == SettingKeys[n] IN
  /\ SettingAt(p, "insert")
  /\ \/ /\ key \in DOMAIN settings
        /\ SettingEnd(p) /\ UNCHANGED settings
     \/ /\ key \notin DOMAIN settings
        /\ settings' = Put(settings, key, DefaultValue[key])
        /\ NextSeed(p, n)
  /\ UNCHANGED <<rowLock, told, excused>>

(***************************************************************************)
(* upsert() of business_manual_closed.                                     *)
(***************************************************************************)
ClosingSteps == {"find", "save", "tell"}

StartClosing(p, value) ==
  /\ SettingAt(p, "waiting")
  /\ SettingGo(p, [step |-> "find", value |-> value])
  /\ excused' = (excused \/ \E q \in Handlers : settingHandlers[q].step \in ClosingSteps)
  /\ UNCHANGED <<settings, rowLock, told>>

Closing == IF "business_manual_closed" \in DOMAIN settings
           THEN settings["business_manual_closed"] ELSE None

FindClosing(p) ==
  /\ SettingAt(p, "find")
  /\ SettingGo(p, [step |-> "save", value |-> settingHandlers[p].value, previous |-> Closing])
  /\ UNCHANGED SettingRows

(* Mutant: the value is compared after it has been saved.                  *)
SaveClosingFirst(p) ==
  LET h == settingHandlers[p] IN
  /\ SettingAt(p, "save")
  /\ settings' = Put(settings, "business_manual_closed", h.value)
  /\ SettingEnd(p)
  /\ UNCHANGED <<rowLock, told, excused>>

(* A row that has been seeded meanwhile refuses the INSERT.                *)
SaveClosing(p) ==
  LET h == settingHandlers[p] IN
  /\ SettingAt(p, "save")
  /\ \/ /\ h.previous = None /\ Closing # None
        /\ SettingEnd(p) /\ UNCHANGED settings
     \/ /\ h.previous # None \/ Closing = None
        /\ settings' = Put(settings, "business_manual_closed", h.value)
        /\ IF h.previous = h.value THEN SettingEnd(p)
           ELSE SettingGo(p, [step |-> "tell", value |-> h.value])
  /\ UNCHANGED <<rowLock, told, excused>>

(* The push, or its loss: the answer to the PATCH is the same.             *)
NotifyBusinessHoursChange(p) ==
  /\ SettingAt(p, "tell")
  /\ \/ told' = settingHandlers[p].value /\ UNCHANGED excused
     \/ excused' = TRUE /\ UNCHANGED told
  /\ SettingEnd(p)
  /\ UNCHANGED <<settings, rowLock>>

(***************************************************************************)
(* updateAutoCouponConfig(): key by key, and nothing is seen before COMMIT.*)
(* save() writes a row only if it is not what it should be.                *)
(***************************************************************************)
StartAutoConfig(p, config) ==
  /\ SettingAt(p, "waiting")
  /\ SettingGo(p, [step |-> "type", config |-> config, written |-> <<>>])
  /\ UNCHANGED SettingRows

Wanted(h) == IF h.step \in {"type", "update_type"} THEN h.config.type ELSE h.config.amount
AutoKey(h) == IF h.step \in {"type", "update_type"} THEN "discount_type" ELSE "discount_value"
AfterKey(h) == IF h.step \in {"type", "update_type"} THEN "value" ELSE "commit"

ReadAutoKey(p) ==
  LET h == settingHandlers[p]  key == AutoKey(h) IN
  /\ h.step \in {"type", "value"}
  /\ IF key \in DOMAIN settings /\ settings[key] = Wanted(h)
     THEN SettingGo(p, [h EXCEPT !.step = AfterKey(h)])
     ELSE SettingGo(p, [step |-> IF h.step = "type" THEN "update_type" ELSE "update_value",
                        config |-> h.config, written |-> h.written,
                        inserts |-> key \notin DOMAIN settings])
  /\ UNCHANGED SettingRows

ReleaseAutoKeys(p) ==
  rowLock' = [k \in ProtectedKeys |-> IF rowLock[k] = p THEN None ELSE rowLock[k]]

(* Another's write is waited for; its INSERT makes this one a ROLLBACK.    *)
WriteAutoKey(p) ==
  LET h == settingHandlers[p]  key == AutoKey(h) IN
  /\ h.step \in {"update_type", "update_value"}
  /\ rowLock[key] = None
  /\ \/ /\ h.inserts /\ key \in DOMAIN settings
        /\ ReleaseAutoKeys(p)
        /\ SettingEnd(p)
     \/ /\ ~h.inserts \/ key \notin DOMAIN settings
        /\ rowLock' = [rowLock EXCEPT ![key] = p]
        /\ SettingGo(p, [step |-> AfterKey(h), config |-> h.config,
                         written |-> Put(h.written, key, Wanted(h))])
  /\ UNCHANGED <<settings, told, excused>>

CommitAutoConfig(p) ==
  LET written == settingHandlers[p].written IN
  /\ SettingAt(p, "commit")
  /\ settings' = [k \in DOMAIN settings \cup DOMAIN written |->
                    IF k \in DOMAIN written THEN written[k] ELSE settings[k]]
  /\ ReleaseAutoKeys(p)
  /\ SettingEnd(p)
  /\ UNCHANGED <<told, excused>>

(* Mutant: type and amount are looked at one by one.                       *)
EachIsValid(type, amount) == TRUE

PairIsValid(type, amount) == type = "percentage" => amount <= 100

(* getAutoCouponConfig(): one query; what is not valid has its default.    *)
GetAutoCouponConfig ==
  IF /\ ProtectedKeys \subseteq DOMAIN settings
     /\ PairIsValid(settings["discount_type"], settings["discount_value"])
  THEN [type |-> settings["discount_type"], amount |-> settings["discount_value"]]
  ELSE [type |-> "percentage", amount |-> DefaultAmount]

SettingsNext ==
  \E p \in Handlers :
    \/ StartSeeds(p) \/ SeedIfMissing(p) \/ InsertSeed(p)
    \/ \E value \in BOOLEAN : StartClosing(p, value)
    \/ FindClosing(p) \/ SaveClosing(p) \/ NotifyBusinessHoursChange(p)
    \/ \E config \in AutoConfigs : StartAutoConfig(p, config)
    \/ ReadAutoKey(p) \/ WriteAutoKey(p) \/ CommitAutoConfig(p)

(***************************************************************************)
(* Properties.                                                             *)
(***************************************************************************)
(* settings.service.ts:570: two transactions that overlap may leave the    *)
(* type of one and the amount of the other; no coupon is ever generated    *)
(* from a percentage above 100 for that.                                   *)
GeneratedCouponsAreSound ==
  GetAutoCouponConfig.type = "percentage" => GetAutoCouponConfig.amount <= 100

(* settings.service.ts:350: when no closing is in progress the customers   *)
(* have been told of the last one, unless two overlapped or a push is lost.*)
CustomersHearTheLastClosing ==
  \/ excused
  \/ \E p \in Handlers : settingHandlers[p].step \in ClosingSteps
  \/ Closing \in {None, told}

=============================================================================
