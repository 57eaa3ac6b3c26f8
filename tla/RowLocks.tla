------------------------------ MODULE RowLocks ------------------------------
(***************************************************************************)
(* External: the row locks of PostgreSQL, as the services use them through *)
(* TypeORM (lock: { mode: 'pessimistic_write' }, i.e. SELECT ... FOR       *)
(* UPDATE).  A row has at most one FOR UPDATE holder; a lock is kept until *)
(* the transaction commits or rolls back.                                  *)
(*                                                                         *)
(* Transactions run at READ COMMITTED and nothing they write is visible    *)
(* before they commit, so a transaction is a sequence of lock-and-read     *)
(* steps and one last step that applies all its writes and lets its locks  *)
(* go.  The FOR KEY SHARE lock a foreign key takes on the referenced user  *)
(* conflicts with FOR UPDATE; the statement that takes it is the last one  *)
(* of its transaction that may wait, so it is a condition of the last step *)
(* (Shareable) and is never held across a step.                            *)
(***************************************************************************)
EXTENDS FiniteSets

CONSTANTS
  Procs,          \* concurrent request handlers, each with its own connection
  Users,          \* registered customers
  OrderIds,       \* ids randomUUID() can hand out to orders
  CouponIds,      \* rows the coupons table can get
  RewardIds,      \* rows of reward_redemptions, as numbers: UUID order is <
  None            \* null

VARIABLE holder   \* row -> the handler whose transaction holds it, or None

OrderRow(o)  == <<"order", o>>
CouponRow(c) == <<"coupon", c>>
RewardRow(r) == <<"reward", r>>
UserRow(u)   == <<"user", u>>

Rows == ({"order"} \X OrderIds) \cup ({"coupon"} \X CouponIds)
          \cup ({"reward"} \X RewardIds) \cup ({"user"} \X Users)

LocksInit == holder = [row \in Rows |-> None]

Holds(p, row) == holder[row] = p

(* SELECT ... FOR UPDATE on one row: p waits while another transaction has *)
(* it.                                                                     *)
Grantable(p, row) == holder[row] \in {None, p}

Lock(p, row) ==
  /\ Grantable(p, row)
  /\ holder' = [holder EXCEPT ![row] = p]

(* The KEY SHARE lock of a foreign key on row.                             *)
Shareable(p, row) == Grantable(p, row)

(* COMMIT or ROLLBACK.                                                     *)
Unlock(p) ==
  holder' = [row \in Rows |-> IF holder[row] = p THEN None ELSE holder[row]]

=============================================================================
