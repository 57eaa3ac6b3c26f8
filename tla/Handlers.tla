------------------------------ MODULE Handlers -------------------------------
(***************************************************************************)
(* What the small components of the back office have in common: requests   *)
(* in progress, each at an await of its handler, and writes of PostgreSQL. *)
(***************************************************************************)
EXTENDS Naturals, FiniteSets, Sequences

CONSTANTS
  Handlers,   \* bound: requests in progress at a time
  None,       \* NULL, undefined
  Days        \* dates: consecutive numbers

ASSUME HandlersAssumption ==
  IsFiniteSet(Handlers) /\ None \notin Handlers /\ Days \subseteq Nat

(* A handler that waits for its next request.                              *)
Waiting == [step |-> "waiting"]

(* The handlers after p has got as far as the record given.                *)
Goes(handlers, p, to) == [handlers EXCEPT ![p] = to]
Ends(handlers, p) == Goes(handlers, p, Waiting)

(* A table with the row of id, inserted or replaced.                       *)
Put(table, id, row) ==
  [i \in DOMAIN table \cup {id} |-> IF i = id THEN row ELSE table[i]]
Without(table, id) == [i \in DOMAIN table \ {id} |-> table[i]]

(* The rows that a save() may write: a new one if the entity has no id.    *)
Saves(id, Ids, table) == IF id = None THEN Ids \ DOMAIN table ELSE {id}

At(handlers, p, step) == handlers[p].step = step

=============================================================================
