----------------------------- MODULE OrderEvents -----------------------------
(***************************************************************************)
(* order-events.service.ts: the outbox of order events, its publication in *)
(* batches, replay and retention, and the LISTEN connection over which     *)
(* each process of the backend learns that the log has grown.              *)
(***************************************************************************)
EXTENDS Naturals, FiniteSets, FiniteSetsExt

CONSTANTS
  MaxEvents,    \* bound: rows ever recorded, numbered by their occurredAt
  OrderOf,      \* event -> the order it is about
  Instances,    \* processes of the backend, all of which publish
  Listeners,    \* bound: those whose LISTEN connection is followed
  None,
  BatchLimit,   \* LIMIT 100 of a publication
  ReplayLimit,  \* most events of a replay (100)
  PurgeLimit,   \* LIMIT 1000 of a purge
  MaxFaults     \* bound: failed queries, lost connections and restarts

ASSUME OrderEventsAssumption ==
  /\ None \notin Instances /\ Listeners \subseteq Instances
  /\ MaxEvents \in Nat
  /\ {BatchLimit, ReplayLimit, PurgeLimit} \subseteq Nat \ {0}
  /\ MaxFaults \in Nat

Events == 1..MaxEvents

VARIABLES
  written,     \* events 1..written have been inserted, committed or not
  committed,   \* events whose transaction has committed
  cursor,      \* event -> its cursor, 0 while it is pending (NULL)
  stored,      \* rows of order_events
  head, floor, \* order_event_state
  publisher,   \* holder of the advisory lock (731942, 101)
  publication, \* instance -> "none", "asked" or "chosen"
  chosen,      \* instance -> the events its publication has selected
  listener,    \* instance -> "down", "listening", "read" or "up"
  headRead,    \* instance -> the head a connecting listener has read
  notified,    \* instance -> a NOTIFY is on its way
  position,    \* instance -> this.position
  distributing,\* instance -> "idle", "asked" or "answered"
  asked,       \* instance -> position its replay asked for
  answer,      \* instance -> what its replay has found
  dirty,       \* instance -> this.dirty
  heard,       \* instance -> first cursor of its last callback, 0 for null
  faults

outbox == <<written, committed, cursor, stored>>
state == <<head, floor>>
publishing == <<publisher, publication, chosen>>
listening == <<listener, headRead, notified>>
distribution == <<position, distributing, asked, answer, dirty, heard>>
eventVars == <<outbox, state, publishing, listening, distribution, faults>>

Ready(i) == listener[i] = "up"
Fault == faults < MaxFaults /\ faults' = faults + 1

NoAnswer == [head |-> 0, first |-> 0, reset |-> FALSE]

Init ==
  /\ written = 0 /\ committed = {} /\ stored = {}
  /\ cursor = [e \in Events |-> 0]
  /\ head = 0 /\ floor = 0 /\ faults = 0
  /\ publisher = None
  /\ publication = [i \in Instances |-> "none"]
  /\ chosen = [i \in Instances |-> {}]
  /\ listener = [i \in Instances |-> "down"]
  /\ headRead = [i \in Instances |-> 0]
  /\ notified = [i \in Instances |-> FALSE]
  /\ position = [i \in Instances |-> 0]
  /\ distributing = [i \in Instances |-> "idle"]
  /\ asked = [i \in Instances |-> 0]
  /\ answer = [i \in Instances |-> NoAnswer]
  /\ dirty = [i \in Instances |-> FALSE]
  /\ heard = [i \in Instances |-> 0]

(***************************************************************************)
(* Recording, by the business transactions of orders.service.ts.           *)
(***************************************************************************)
(* INSERT under the row lock of the order: no other transaction that has   *)
(* recorded an event of this order is open.                                *)
RecordEvent(e) ==
  /\ e = written + 1
  /\ \A d \in 1..written : OrderOf[d] = OrderOf[e] => d \in committed
  /\ written' = e
  /\ UNCHANGED <<committed, cursor, stored, state, publishing, listening,
                 distribution, faults>>

(* wake(): a publication that is under way absorbs it.                     *)
Wake(i) ==
  publication' = [publication EXCEPT ![i] = IF @ = "none" THEN "asked" ELSE @]

(* COMMIT, and wake() after it unless the process dies in between.         *)
CommitEvent(e, i) ==
  /\ e \in 1..written \ committed
  /\ committed' = committed \cup {e}
  /\ stored' = stored \cup {e}
  /\ \/ Wake(i) /\ UNCHANGED faults
     \/ Fault /\ UNCHANGED publication
  /\ UNCHANGED <<written, cursor, state, publisher, chosen, listening,
                 distribution>>

(***************************************************************************)
(* Publication.                                                            *)
(***************************************************************************)
Pending == {e \in stored : cursor[e] = 0}

(* The place of a row in ORDER BY "occurredAt".                            *)
Rank(e, rows) == Cardinality({d \in rows : d <= e})

(* Mutant: ORDER BY "eventId" only.                                        *)
BatchUnordered ==
  {e \in Pending : Cardinality({d \in Pending : d >= e}) <= BatchLimit}

Batch == {e \in Pending : Rank(e, Pending) <= BatchLimit}

(* pg_try_advisory_xact_lock, then the oldest pending rows, FOR UPDATE.    *)
SelectBatch(i) ==
  /\ publication[i] = "asked"
  /\ IF publisher = None
     THEN /\ publisher' = i
          /\ chosen' = [chosen EXCEPT ![i] = Batch]
          /\ publication' = [publication EXCEPT ![i] = "chosen"]
     ELSE /\ publication' = [publication EXCEPT ![i] = "none"]
          /\ UNCHANGED <<publisher, chosen>>
  /\ UNCHANGED <<outbox, state, listening, distribution, faults>>

EndPublication(i) ==
  /\ publisher' = None
  /\ publication' = [publication EXCEPT ![i] = "none"]
  /\ chosen' = [chosen EXCEPT ![i] = {}]

(* Mutant: the head is advanced after its use.                             *)
NumberedFromHead(batch) ==
  [e \in Events |-> IF e \in batch THEN head - 1 + Rank(e, batch) ELSE cursor[e]]

Numbered(batch) ==
  [e \in Events |-> IF e \in batch THEN head + Rank(e, batch) ELSE cursor[e]]

(* Cursors up to which rows may be purged: nobody knows which published   *)
(* rows are 48 hours old, but those of this batch are not.                 *)
Expired == floor..Min({head, floor + PurgeLimit})

(* Everything the transaction writes, at its COMMIT: cursors, the head,    *)
(* NOTIFY, the purge.                                                      *)
Publish(i) ==
  /\ publication[i] = "chosen"
  /\ cursor' = Numbered(chosen[i])
  /\ head' = head + Cardinality(chosen[i])
  /\ notified' = [j \in Instances |->
                    notified[j] \/ (chosen[i] # {} /\ listener[j] # "down")]
  /\ floor' \in Expired
  /\ stored' = {e \in stored : cursor[e] = 0 \/ cursor[e] > floor'}
  /\ EndPublication(i)
  /\ UNCHANGED <<written, committed, listener, headRead, distribution,
                 faults>>

(* A statement times out or the connection is lost: ROLLBACK.              *)
PublicationFails(i) ==
  /\ publication[i] = "chosen"
  /\ Fault
  /\ EndPublication(i)
  /\ UNCHANGED <<outbox, state, listening, distribution>>

(***************************************************************************)
(* The LISTEN connection of a process.                                     *)
(***************************************************************************)
(* distribute(): one distribution at a time, another one is remembered.    *)
Distribute(i) ==
  IF distributing[i] = "idle"
  THEN /\ distributing' = [distributing EXCEPT ![i] = "asked"]
       /\ asked' = [asked EXCEPT ![i] = position'[i]]
       /\ dirty' = [dirty EXCEPT ![i] = FALSE]
  ELSE /\ dirty' = [dirty EXCEPT ![i] = TRUE]
       /\ UNCHANGED <<distributing, asked>>

Listen(i) ==
  /\ listener[i] = "down"
  /\ listener' = [listener EXCEPT ![i] = "listening"]
  /\ notified' = [notified EXCEPT ![i] = FALSE]
  /\ UNCHANGED <<outbox, state, publishing, headRead, distribution, faults>>

ReadHead(i) ==
  /\ listener[i] = "listening"
  /\ listener' = [listener EXCEPT ![i] = "read"]
  /\ headRead' = [headRead EXCEPT ![i] = head]
  /\ UNCHANGED <<outbox, state, publishing, notified, distribution, faults>>

(* position = state.head; ready = true; distribute().                      *)
BecomeReady(i) ==
  /\ listener[i] = "read"
  /\ listener' = [listener EXCEPT ![i] = "up"]
  /\ position' = [position EXCEPT ![i] = headRead[i]]
  /\ headRead' = [headRead EXCEPT ![i] = 0]
  /\ Distribute(i)
  /\ UNCHANGED <<outbox, state, publishing, notified, answer, heard, faults>>

(* lost(): not ready, callbacks with null.  Not after onModuleDestroy.     *)
LoseConnection(i) ==
  /\ listener[i] # "down"
  /\ Fault
  /\ listener' = [listener EXCEPT ![i] = "down"]
  /\ notified' = [notified EXCEPT ![i] = FALSE]
  /\ headRead' = [headRead EXCEPT ![i] = 0]
  /\ heard' = [heard EXCEPT ![i] = 0]
  /\ UNCHANGED <<outbox, state, publishing, position,
                 distributing, asked, answer, dirty>>

(* 'notification': ignored unless ready.                                   *)
Notification(i) ==
  /\ notified[i]
  /\ notified' = [notified EXCEPT ![i] = FALSE]
  /\ UNCHANGED position
  /\ IF Ready(i) THEN Distribute(i) ELSE UNCHANGED <<distributing, asked, dirty>>
  /\ UNCHANGED <<outbox, state, publishing, listener, headRead, answer,
                 heard, faults>>

(* Mutant: no wake() in the timer.                                       *)
TimerOfStreams(i) ==
  /\ UNCHANGED <<publication, position>>
  /\ IF Ready(i) THEN Distribute(i) ELSE UNCHANGED <<distributing, asked, dirty>>
  /\ UNCHANGED <<outbox, state, publisher, chosen, listening, answer, heard,
                 faults>>

(* Every 30 seconds, and once when the module starts: wake(), distribute() *)
Timer(i) ==
  /\ Wake(i)
  /\ UNCHANGED position
  /\ IF Ready(i) THEN Distribute(i) ELSE UNCHANGED <<distributing, asked, dirty>>
  /\ UNCHANGED <<outbox, state, publisher, chosen, listening, answer, heard,
                 faults>>

(***************************************************************************)
(* Distribution of what has been published since position.                 *)
(***************************************************************************)
(* replay(asked), in one REPEATABLE READ snapshot.                         *)
(* Mutant: the floor is not checked.                                     *)
ReplayableFromFuture(from) ==
  /\ from <= head
  /\ Cardinality({e \in stored : cursor[e] > from}) <= ReplayLimit

Replayable(from) ==
  /\ from \in floor..head
  /\ Cardinality({e \in stored : cursor[e] > from}) <= ReplayLimit

Replay(i) ==
  /\ distributing[i] = "asked"
  /\ distributing' = [distributing EXCEPT ![i] = "answered"]
  /\ answer' = [answer EXCEPT ![i] =
                  [head |-> head, first |-> Max({asked[i], floor}) + 1,
                   reset |-> ~Replayable(asked[i])]]
  /\ UNCHANGED <<outbox, state, publishing, listening, position, asked,
                 dirty, heard, faults>>

(* The loop goes round again if somebody asked meanwhile and it is ready.  *)
NextRound(i) ==
  IF dirty[i] /\ Ready(i)
  THEN /\ distributing' = [distributing EXCEPT ![i] = "asked"]
       /\ asked' = [asked EXCEPT ![i] = position'[i]]
       /\ dirty' = [dirty EXCEPT ![i] = FALSE]
  ELSE /\ distributing' = [distributing EXCEPT ![i] = "idle"]
       /\ asked' = [asked EXCEPT ![i] = 0]
       /\ UNCHANGED dirty

CallBack(i) ==
  /\ distributing[i] = "answered"
  /\ heard' = [heard EXCEPT ![i] =
                 CASE answer[i].reset -> 0
                   [] ~answer[i].reset /\ answer[i].first <= answer[i].head ->
                        answer[i].first
                   [] OTHER -> @]
  /\ position' = [position EXCEPT ![i] = answer[i].head]
  /\ answer' = [answer EXCEPT ![i] = NoAnswer]
  /\ NextRound(i)
  /\ UNCHANGED <<outbox, state, publishing, listening, faults>>

(* Mutant: no finally after the catch.                                   *)
DistributionSticks(i) ==
  /\ distributing[i] = "asked"
  /\ Fault
  /\ heard' = [heard EXCEPT ![i] = 0]
  /\ distributing' = [distributing EXCEPT ![i] = "thrown"]
  /\ UNCHANGED <<outbox, state, publishing, listening, position, asked, answer,
                 dirty>>

(* replay() throws: callbacks with null, and a remembered one is forgotten.*)
DistributionFails(i) ==
  /\ distributing[i] = "asked"
  /\ Fault
  /\ heard' = [heard EXCEPT ![i] = 0]
  /\ distributing' = [distributing EXCEPT ![i] = "idle"]
  /\ asked' = [asked EXCEPT ![i] = 0]
  /\ UNCHANGED <<outbox, state, publishing, listening, position, answer, dirty>>

(* The process stops and starts again, with its streams.                   *)
Restart(i) ==
  /\ Fault
  /\ IF publisher = i
     THEN EndPublication(i)
     ELSE /\ publication' = [publication EXCEPT ![i] = "none"]
          /\ UNCHANGED <<publisher, chosen>>
  /\ listener' = [listener EXCEPT ![i] = "down"]
  /\ notified' = [notified EXCEPT ![i] = FALSE]
  /\ position' = [position EXCEPT ![i] = 0]
  /\ distributing' = [distributing EXCEPT ![i] = "idle"]
  /\ dirty' = [dirty EXCEPT ![i] = FALSE]
  /\ heard' = [heard EXCEPT ![i] = 0]
  /\ headRead' = [headRead EXCEPT ![i] = 0]
  /\ asked' = [asked EXCEPT ![i] = 0]
  /\ answer' = [answer EXCEPT ![i] = NoAnswer]
  /\ UNCHANGED <<outbox, state>>

Publisher(i) ==
  SelectBatch(i) \/ Publish(i) \/ PublicationFails(i) \/ Timer(i) \/ Restart(i)

Listener(i) ==
  \/ Listen(i) \/ ReadHead(i) \/ BecomeReady(i) \/ LoseConnection(i)
  \/ Notification(i)
  \/ Replay(i) \/ CallBack(i) \/ DistributionFails(i)

Next ==
  \/ \E e \in Events : RecordEvent(e)
  \/ \E e \in Events, i \in Instances : CommitEvent(e, i)
  \/ \E i \in Instances : Publisher(i)
  \/ \E i \in Listeners : Listener(i)

Spec == Init /\ [][Next]_eventVars

(* Queries get answered and timers fire.  Nothing is owed by the customers,*)
(* the network or the clock of retention.                                  *)
LiveSpec ==
  /\ Spec
  /\ \A i \in Instances :
       /\ WF_eventVars(SelectBatch(i)) /\ WF_eventVars(Publish(i))
       /\ WF_eventVars(Timer(i))
  /\ \A i \in Listeners : WF_eventVars(Replay(i)) /\ WF_eventVars(CallBack(i))

(***************************************************************************)
(* Properties.                                                             *)
(***************************************************************************)
Published(e) == cursor[e] > 0

(* order-events.service.ts:209: the published rows that are kept are one   *)
(* contiguous piece of the log, floor+1..head, one row per cursor, however *)
(* many processes publish at once and whatever a purge deletes.            *)
LogHasNoHoles ==
  /\ {cursor[e] : e \in {d \in stored : Published(d)}} = (floor + 1)..head
  /\ \A d, e \in Events : Published(d) /\ cursor[d] = cursor[e] => d = e
  /\ committed \ stored \subseteq {e \in Events : Published(e)}

(* order-events.service.ts:210: the events of one order are numbered in    *)
(* the order in which they happened to it.                                 *)
OrdersAreToldInOrder ==
  \A d, e \in Events :
    d < e /\ OrderOf[d] = OrderOf[e] /\ Published(e)
    => Published(d) /\ cursor[d] < cursor[e]

(* order-events.service.ts:273: what a process tells its streams is the    *)
(* log without gaps, or a reset (EventFeed).                               *)
Feed(i) == INSTANCE EventFeed
             WITH MaxHead <- MaxEvents, position <- position[i],
                  ready <- Ready(i), heard <- heard[i]
TellsTheLog ==
  /\ \A i \in Instances : Feed(i)!FeedInit
  /\ [][\A i \in Instances : [Feed(i)!FeedNext]_(Feed(i)!feed)]_eventVars

(* order-events.service.ts:83: an event whose transaction has committed is *)
(* published, although wake-ups are absorbed, lost with their process, or  *)
(* end in a rollback.                                                      *)
EveryEventIsPublished ==
  \A e \in Events : (e \in committed) ~> Published(e)

(* order-events.service.ts:282: a process whose connection stands catches  *)
(* up with the log, although notifications are ignored or lost.            *)
StreamsCatchUp ==
  \A i \in Instances : []<>(position[i] = head \/ ~Ready(i))

=============================================================================
