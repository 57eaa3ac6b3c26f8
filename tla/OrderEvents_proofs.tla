-------------------------- MODULE OrderEvents_proofs --------------------------
(***************************************************************************)
(* The log of published order events, for any number of events, orders and *)
(* processes, any batch and any number of faults: it has no holes, each    *)
(* order is told in order, and what a process tells its streams is what    *)
(* EventFeed promises them.                                                *)
(***************************************************************************)
EXTENDS OrderEvents, FiniteSetTheorems, TLAPS

(***************************************************************************)
(* Ranks.                                                                  *)
(***************************************************************************)
LEMMA EventsAreNumbered == MaxEvents \in Nat
  BY OrderEventsAssumption

(* Events are finitely many.                                               *)
LEMMA EventsFinite ==
  ASSUME NEW rows \in SUBSET Events
  PROVE  /\ IsFiniteSet(rows)
         /\ Cardinality(rows) \in 0..MaxEvents
<1>1. IsFiniteSet(Events) /\ Cardinality(Events) = MaxEvents
  BY FS_Interval, EventsAreNumbered DEF Events
<1>2. IsFiniteSet(rows) /\ Cardinality(rows) <= MaxEvents
  BY <1>1, FS_Subset
<1> QED BY <1>2, FS_CardinalityType

(* A row that comes later has a higher rank.                               *)
LEMMA RankGrows ==
  ASSUME NEW rows \in SUBSET Events, NEW d \in rows, NEW e \in rows, d < e
  PROVE  Rank(d, rows) < Rank(e, rows)
<1> DEFINE D == {c \in rows : c <= d}
           E == {c \in rows : c <= e}
<1>0. \A c \in rows : c \in Nat
  BY EventsAreNumbered DEF Events
<1>1. D \subseteq E /\ E \subseteq Events
  BY <1>0
<1>2. e \in E /\ e \notin D
  BY <1>0
<1>3. /\ IsFiniteSet(E)
      /\ Cardinality(D) \in Nat /\ Cardinality(E) \in Nat
  BY <1>1, EventsFinite
<1>4. Cardinality(D) <= Cardinality(E) /\ Cardinality(D) # Cardinality(E)
  BY <1>1, <1>2, <1>3, FS_Subset
<1> QED BY <1>3, <1>4 DEF Rank

(* The ranks of a set of rows are 1, 2, ... without gaps.                  *)
LEMMA RanksAreConsecutive ==
  ASSUME NEW rows \in SUBSET Events
  PROVE  /\ \A e \in rows : Rank(e, rows) \in 1..Cardinality(rows)
         /\ \A n \in 1..Cardinality(rows) : \E e \in rows : Rank(e, rows) = n
         /\ \A d, e \in rows : Rank(d, rows) = Rank(e, rows) => d = e
<1> DEFINE n == Cardinality(rows)
<1>1. IsFiniteSet(rows) /\ n \in Nat
  BY EventsFinite
<1>2. ASSUME NEW e \in rows PROVE Rank(e, rows) \in 1..n
  <2> DEFINE E == {c \in rows : c <= e}
  <2>1. E \subseteq rows /\ e \in E
    BY EventsAreNumbered DEF Events
  <2>2. IsFiniteSet(E) /\ Cardinality(E) \in Nat
    BY <2>1, EventsFinite
  <2>3. Cardinality(E) <= n
    BY <1>1, <2>1, FS_Subset
  <2>4. Cardinality(E) # 0
    BY <2>1, <2>2, FS_EmptySet
  <2> QED BY <1>1, <2>2, <2>3, <2>4 DEF Rank
<1>3. ASSUME NEW d \in rows, NEW e \in rows, Rank(d, rows) = Rank(e, rows)
      PROVE  d = e
  <2>1. Rank(d, rows) \in Nat
    BY <1>1, <1>2
  <2>2. ~(d < e) /\ ~(e < d)
    BY <1>3, <2>1, RankGrows
  <2> QED BY <2>2, EventsAreNumbered DEF Events
<1>4. \A k \in 1..n : \E e \in rows : Rank(e, rows) = k
  <2> DEFINE f == [e \in rows |-> Rank(e, rows)]
  <2>1. f \in Injection(rows, 1..n)
    BY <1>2, <1>3 DEF Injection, IsInjective
  <2>2. IsFiniteSet(1..n) /\ Cardinality(1..n) = n
    BY <1>1, FS_Interval
  <2>3. f \in Surjection(rows, 1..n)
    BY <2>1, <2>2, FS_Injection
  <2> QED BY <2>3 DEF Surjection
<1> QED BY <1>2, <1>3, <1>4

(***************************************************************************)
(* The log.                                                                *)
(***************************************************************************)
LogTyped ==
  /\ written \in 0..MaxEvents
  /\ committed \subseteq 1..written
  /\ cursor \in [Events -> Nat]
  /\ head \in Nat
  /\ floor \in 0..head
  /\ publisher \in Instances \cup {None}
  /\ publication \in [Instances -> {"none", "asked", "chosen"}]
  /\ chosen \in [Instances -> SUBSET Events]

(* Cursors are given once, to committed events, in one piece; only the     *)
(* rows up to floor are gone.                                              *)
CursorsAreAPiece ==
  /\ \A e \in Events : Published(e) => e \in committed /\ cursor[e] <= head
  /\ \A n \in 1..head : \E e \in Events : cursor[e] = n
  /\ \A d, e \in Events : Published(d) /\ cursor[d] = cursor[e] => d = e
  /\ stored = {e \in committed : cursor[e] = 0 \/ cursor[e] > floor}

(* The row lock of an order: its events are recorded one after the other.  *)
OrdersAreSerial ==
  \A d, e \in 1..written : d < e /\ OrderOf[d] = OrderOf[e] => d \in committed

(* A batch is pending as long as its publisher has the advisory lock, and  *)
(* leaves out no event that comes before one of its own in their order.    *)
BatchIsNext(i) ==
  /\ publication[i] = "chosen" <=> publisher = i
  /\ publication[i] = "chosen" =>
       /\ chosen[i] \subseteq Pending
       /\ \A e \in chosen[i] : \A d \in Events :
            d < e /\ OrderOf[d] = OrderOf[e] => Published(d) \/ d \in chosen[i]

LogInv ==
  /\ LogTyped
  /\ CursorsAreAPiece
  /\ OrdersAreSerial
  /\ OrdersAreToldInOrder
  /\ \A i \in Instances : BatchIsNext(i)

LEMMA RowsAreEvents ==
  ASSUME LogInv
  PROVE  committed \subseteq Events /\ stored \subseteq committed
<1>1. written \in Nat /\ written <= MaxEvents /\ committed \subseteq 1..written
  BY EventsAreNumbered DEF LogInv, LogTyped
<1>2. committed \subseteq Events
  BY <1>1, EventsAreNumbered DEF Events
<1> QED BY <1>2 DEF LogInv, CursorsAreAPiece

(* The log begins empty.                                                   *)
LEMMA LogBegins == Init => LogInv
<1> SUFFICES ASSUME Init PROVE LogInv
  OBVIOUS
<1>1. LogTyped
  BY EventsAreNumbered DEF Init, LogTyped
<1>2. CursorsAreAPiece /\ OrdersAreSerial /\ OrdersAreToldInOrder
  BY EventsAreNumbered
  DEF Init, CursorsAreAPiece, OrdersAreSerial, OrdersAreToldInOrder, Published
<1>3. \A i \in Instances : BatchIsNext(i)
  BY OrderEventsAssumption DEF Init, BatchIsNext
<1> QED BY <1>1, <1>2, <1>3 DEF LogInv

(* INSERT: what came before in the order is committed.                     *)
LEMMA RecordKeepsLog ==
  ASSUME LogInv, NEW e \in Events, RecordEvent(e)
  PROVE  LogInv'
<1>1. written' = written + 1 /\ written' \in 0..MaxEvents /\ written \in Nat
  BY EventsAreNumbered DEF RecordEvent, LogInv, LogTyped, Events
<1>2. LogTyped'
  BY <1>1 DEF RecordEvent, LogInv, LogTyped, outbox, state, publishing
<1>3. OrdersAreSerial'
  <2> SUFFICES ASSUME NEW c \in 1..written', NEW d \in 1..written', c < d,
                      OrderOf[c] = OrderOf[d]
               PROVE  c \in committed
    BY DEF OrdersAreSerial, RecordEvent
  <2>1. CASE d = e
    BY <1>1, <2>1 DEF RecordEvent
  <2>2. CASE d # e
    BY <1>1, <2>2 DEF RecordEvent, LogInv, OrdersAreSerial
  <2> QED BY <2>1, <2>2
<1>4. /\ CursorsAreAPiece' /\ OrdersAreToldInOrder'
      /\ \A i \in Instances : BatchIsNext(i)'
  BY DEF RecordEvent, LogInv, CursorsAreAPiece, OrdersAreToldInOrder,
         BatchIsNext, Published, Pending, publishing, state
<1> QED BY <1>2, <1>3, <1>4 DEF LogInv

(* COMMIT: a row appears, and a batch that is chosen is as it was.         *)
LEMMA CommitKeepsLog ==
  ASSUME LogInv, NEW e \in Events, NEW i \in Instances, CommitEvent(e, i)
  PROVE  LogInv'
<1>1. /\ e \in 1..written /\ e \notin committed
      /\ committed' = committed \cup {e} /\ stored' = stored \cup {e}
      /\ written' = written /\ cursor' = cursor /\ head' = head /\ floor' = floor
      /\ publisher' = publisher /\ chosen' = chosen
  BY DEF CommitEvent, state
<1>2. publication' \in [Instances -> {"none", "asked", "chosen"}]
      /\ \A j \in Instances : publication'[j] = "chosen" <=> publication[j] = "chosen"
  BY DEF CommitEvent, Wake, LogInv, LogTyped
<1>3. LogTyped'
  BY <1>1, <1>2 DEF LogInv, LogTyped
<1>4. cursor[e] = 0
  BY <1>1 DEF LogInv, LogTyped, CursorsAreAPiece, Published
<1>5. CursorsAreAPiece' /\ OrdersAreSerial' /\ OrdersAreToldInOrder'
  BY <1>1, <1>4 DEF LogInv, CursorsAreAPiece, OrdersAreSerial,
                    OrdersAreToldInOrder, Published
<1>6. \A j \in Instances : BatchIsNext(j)'
  BY <1>1, <1>2 DEF LogInv, BatchIsNext, Pending, Published
<1> QED BY <1>3, <1>5, <1>6 DEF LogInv

(* The oldest pending rows: with an event of an order, those before it.    *)
LEMMA SelectKeepsLog ==
  ASSUME LogInv, NEW i \in Instances, SelectBatch(i)
  PROVE  LogInv'
<1>1. /\ UNCHANGED <<written, committed, cursor, stored, head, floor>>
      /\ CursorsAreAPiece' /\ OrdersAreSerial' /\ OrdersAreToldInOrder'
  BY DEF SelectBatch, outbox, state, LogInv, CursorsAreAPiece, OrdersAreSerial,
         OrdersAreToldInOrder, Published
<1>2. Pending \subseteq Events /\ Pending \subseteq committed
  BY RowsAreEvents DEF Pending
<1>3. ASSUME NEW e \in Batch, NEW d \in Events, d < e, OrderOf[d] = OrderOf[e]
      PROVE  Published(d) \/ d \in Batch
  <2>1. d \in committed
    BY <1>2, <1>3, EventsAreNumbered
    DEF Batch, Events, LogInv, LogTyped, OrdersAreSerial
  <2>2. cursor[d] \in Nat
    BY DEF LogInv, LogTyped
  <2>3. ASSUME ~Published(d) PROVE d \in Batch
    <3>1. d \in Pending /\ e \in Pending
      BY <2>1, <2>2, <2>3 DEF Pending, Batch, Published, LogInv, CursorsAreAPiece
    <3>2. Rank(d, Pending) < Rank(e, Pending)
      BY <1>2, <1>3, <3>1, RankGrows
    <3>3. Rank(d, Pending) \in Nat /\ Rank(e, Pending) \in Nat
      BY <1>2, <3>1, RanksAreConsecutive, EventsFinite
    <3>4. BatchLimit \in Nat /\ Rank(e, Pending) <= BatchLimit
      BY OrderEventsAssumption DEF Batch
    <3> QED BY <3>1, <3>2, <3>3, <3>4 DEF Batch
  <2> QED BY <2>3
<1>4. CASE publisher = None
  <2>1. /\ publisher' = i /\ chosen' = [chosen EXCEPT ![i] = Batch]
        /\ publication' = [publication EXCEPT ![i] = "chosen"]
    BY <1>4 DEF SelectBatch
  <2>2. Batch \subseteq Pending
    BY DEF Batch
  <2>3. LogTyped'
    BY <1>1, <1>2, <2>1, <2>2 DEF LogInv, LogTyped
  <2>4. BatchIsNext(i)'
    BY <1>1, <1>3, <2>1, <2>2 DEF BatchIsNext, LogInv, LogTyped, Pending, Published
  <2>5. ASSUME NEW j \in Instances \ {i} PROVE BatchIsNext(j)'
    <3>1. publication'[j] = publication[j] /\ publication[j] # "chosen"
      BY <1>4, <2>1, OrderEventsAssumption DEF LogInv, LogTyped, BatchIsNext
    <3> QED BY <2>1, <3>1 DEF BatchIsNext
  <2> QED BY <1>1, <2>3, <2>4, <2>5 DEF LogInv
<1>5. CASE publisher # None
  <2>1. /\ publisher' = publisher /\ chosen' = chosen
        /\ publication' = [publication EXCEPT ![i] = "none"]
        /\ publication[i] # "chosen"
    BY <1>5 DEF SelectBatch
  <2>2. LogTyped'
    BY <1>1, <2>1 DEF LogInv, LogTyped
  <2>3. \A j \in Instances : BatchIsNext(j)'
    BY <1>1, <2>1 DEF BatchIsNext, LogInv, LogTyped, Pending, Published
  <2> QED BY <1>1, <2>2, <2>3 DEF LogInv
<1> QED BY <1>4, <1>5

(* A publication that ends without a trace.                                *)
LEMMA EndKeepsLog ==
  ASSUME LogInv, NEW i \in Instances, publisher = i, EndPublication(i),
         UNCHANGED <<outbox, state>>
  PROVE  LogInv'
<1>1. /\ publisher' = None /\ chosen' = [chosen EXCEPT ![i] = {}]
      /\ publication' = [publication EXCEPT ![i] = "none"]
  BY DEF EndPublication
<1>2. LogTyped'
  BY <1>1 DEF LogInv, LogTyped, outbox, state
<1>3. CursorsAreAPiece' /\ OrdersAreSerial' /\ OrdersAreToldInOrder'
  BY DEF outbox, state, LogInv, CursorsAreAPiece, OrdersAreSerial,
         OrdersAreToldInOrder, Published
<1>4. \A j \in Instances : BatchIsNext(j)'
  BY <1>1, OrderEventsAssumption DEF LogInv, LogTyped, BatchIsNext
<1> QED BY <1>2, <1>3, <1>4 DEF LogInv

LEMMA SmallerOfTwo ==
  ASSUME NEW a \in Nat, NEW b \in Nat
  PROVE  Min({a, b}) \in {a, b} /\ Min({a, b}) <= a /\ Min({a, b}) <= b
<1>1. \E x \in {a, b} : \A y \in {a, b} : x <= y
  BY SMT
<1> QED BY <1>1 DEF Min

(* COMMIT of a publication: its batch gets the next cursors, in the order  *)
(* of its events, and a prefix of what was published before may go.        *)
LEMMA PublishKeepsLog ==
  ASSUME LogInv, NEW i \in Instances, Publish(i)
  PROVE  LogInv'
<1> DEFINE B == chosen[i]
           n == Cardinality(B)
<1> USE DEF Published
<1>1. /\ publication[i] = "chosen" /\ publisher = i
      /\ B \subseteq Pending /\ B \subseteq Events /\ B \subseteq stored
      /\ B \subseteq committed
  BY RowsAreEvents DEF Publish, LogInv, BatchIsNext, Pending
<1>2. n \in Nat
  BY <1>1, EventsFinite, EventsAreNumbered
<1>3. /\ \A e \in B : Rank(e, B) \in 1..n
      /\ \A k \in 1..n : \E e \in B : Rank(e, B) = k
      /\ \A d, e \in B : Rank(d, B) = Rank(e, B) => d = e
  BY <1>1, RanksAreConsecutive
<1>4. /\ written' = written /\ committed' = committed /\ head' = head + n
      /\ cursor' = Numbered(B)
      /\ publisher' = None /\ chosen' = [chosen EXCEPT ![i] = {}]
      /\ publication' = [publication EXCEPT ![i] = "none"]
      /\ stored' = {e \in stored : cursor[e] = 0 \/ cursor[e] > floor'}
  BY DEF Publish, EndPublication
<1>5. floor' \in floor..head /\ head \in Nat /\ floor \in Nat
  <2>1. floor \in Nat /\ head \in Nat /\ floor <= head
    BY DEF LogInv, LogTyped
  <2>2. floor + PurgeLimit \in Nat
    BY <2>1, OrderEventsAssumption
  <2>3. Min({head, floor + PurgeLimit}) \in Nat /\ Min({head, floor + PurgeLimit}) <= head
    BY <2>1, <2>2, SmallerOfTwo
  <2> QED BY <2>1, <2>3 DEF Publish, Expired
<1>6. \A e \in Events :
        /\ cursor[e] \in Nat
        /\ e \in B => cursor[e] = 0 /\ cursor'[e] \in (head + 1)..(head + n)
        /\ e \in B => cursor'[e] = head + Rank(e, B)
        /\ e \notin B => cursor'[e] = cursor[e]
  BY <1>1, <1>2, <1>3, <1>4, <1>5 DEF Numbered, Pending, LogInv, LogTyped
<1>7. LogTyped'
  BY <1>2, <1>4, <1>5, <1>6 DEF LogInv, LogTyped, Numbered
<1>8. CursorsAreAPiece'
  <2>1. \A e \in Events : Published(e)' => e \in committed' /\ cursor'[e] <= head'
    BY <1>1, <1>2, <1>4, <1>5, <1>6 DEF LogInv, CursorsAreAPiece
  <2>2. ASSUME NEW k \in 1..head' PROVE \E e \in Events : cursor'[e] = k
    <3>1. CASE k <= head
      <4>1. PICK e \in Events : cursor[e] = k
        BY <1>5, <3>1 DEF LogInv, CursorsAreAPiece
      <4> QED BY <1>6, <4>1
    <3>2. CASE k > head
      <4>1. k - head \in 1..n
        BY <1>2, <1>4, <1>5, <3>2
      <4>2. PICK e \in B : Rank(e, B) = k - head
        BY <1>3, <4>1
      <4> QED BY <1>1, <1>5, <1>6, <4>2
    <3> QED BY <1>2, <1>4, <1>5, <3>1, <3>2
  <2>3. ASSUME NEW d \in Events, NEW e \in Events, Published(d)', cursor'[d] = cursor'[e]
        PROVE  d = e
    <3>1. CASE d \in B /\ e \in B
      <4>1. Rank(d, B) = Rank(e, B)
        BY <1>3, <1>5, <1>6, <2>3, <3>1
      <4> QED BY <1>3, <3>1, <4>1
    <3>2. CASE d \notin B /\ e \notin B
      BY <1>6, <2>3, <3>2 DEF LogInv, CursorsAreAPiece
    <3>3. CASE d \in B <=> e \notin B
      BY <1>2, <1>5, <1>6, <2>3, <3>3 DEF LogInv, CursorsAreAPiece
    <3> QED BY <3>1, <3>2, <3>3
  <2>4. ASSUME NEW e
        PROVE  e \in stored' <=> e \in committed' /\ (cursor'[e] = 0 \/ cursor'[e] > floor')
    <3>1. CASE e \in committed
      <4>1. e \in Events
        BY <3>1, RowsAreEvents
      <4>2. CASE e \in B
        BY <1>1, <1>2, <1>4, <1>5, <1>6, <4>1, <4>2
      <4>3. CASE e \notin B
        BY <1>4, <1>5, <1>6, <3>1, <4>1, <4>3 DEF LogInv, CursorsAreAPiece
      <4> QED BY <4>2, <4>3
    <3>2. CASE e \notin committed
      BY <1>4, <3>2, RowsAreEvents
    <3> QED BY <3>1, <3>2
  <2>5. stored' = {e \in committed' : cursor'[e] = 0 \/ cursor'[e] > floor'}
    BY <2>4
  <2> QED BY <2>1, <2>2, <2>3, <2>5 DEF CursorsAreAPiece
<1>9. OrdersAreSerial'
  BY <1>4 DEF LogInv, OrdersAreSerial
<1>10. OrdersAreToldInOrder'
  <2> SUFFICES ASSUME NEW d \in Events, NEW e \in Events, d < e,
                      OrderOf[d] = OrderOf[e], Published(e)'
               PROVE  Published(d)' /\ cursor'[d] < cursor'[e]
    BY DEF OrdersAreToldInOrder
  <2>1. CASE e \in B
    <3>1. CASE d \in B
      <4>1. Rank(d, B) < Rank(e, B)
        BY <1>1, <2>1, <3>1, RankGrows
      <4> QED BY <1>3, <1>5, <1>6, <2>1, <3>1, <4>1
    <3>2. CASE d \notin B
      <4>1. Published(d)
        BY <1>1, <2>1, <3>2 DEF LogInv, BatchIsNext
      <4>2. cursor[d] <= head
        BY <4>1 DEF LogInv, CursorsAreAPiece
      <4> QED BY <1>2, <1>5, <1>6, <2>1, <3>2, <4>1, <4>2
    <3> QED BY <3>1, <3>2
  <2>2. CASE e \notin B
    <3>1. Published(e)
      BY <1>6, <2>2
    <3>2. Published(d) /\ cursor[d] < cursor[e]
      BY <3>1 DEF LogInv, OrdersAreToldInOrder
    <3>3. d \notin B
      BY <1>6, <3>2
    <3> QED BY <1>6, <2>2, <3>2, <3>3
  <2> QED BY <2>1, <2>2
<1>11. ASSUME NEW j \in Instances PROVE BatchIsNext(j)'
  BY <1>1, <1>4, OrderEventsAssumption DEF LogInv, LogTyped, BatchIsNext
<1> QED BY <1>7, <1>8, <1>9, <1>10, <1>11 DEF LogInv

logVars == <<outbox, state, publisher, chosen>>

(* A wake-up, or a publication that ends before it chose anything.         *)
LEMMA WakingKeepsLog ==
  ASSUME LogInv, UNCHANGED logVars,
         publication' \in [Instances -> {"none", "asked", "chosen"}],
         \A j \in Instances : publication'[j] = "chosen" <=> publication[j] = "chosen"
  PROVE  LogInv'
<1>1. LogTyped'
  BY DEF LogInv, LogTyped, logVars, outbox, state
<1>2. CursorsAreAPiece' /\ OrdersAreSerial' /\ OrdersAreToldInOrder'
  BY DEF logVars, outbox, state, LogInv, CursorsAreAPiece, OrdersAreSerial,
         OrdersAreToldInOrder, Published
<1>3. \A j \in Instances : BatchIsNext(j)'
  BY DEF logVars, outbox, LogInv, BatchIsNext, Pending, Published
<1> QED BY <1>1, <1>2, <1>3 DEF LogInv

LEMMA LogStep == LogInv /\ [Next]_eventVars => LogInv'
<1> SUFFICES ASSUME LogInv, [Next]_eventVars PROVE LogInv'
  OBVIOUS
<1>0. /\ Listeners \subseteq Instances
      /\ publication \in [Instances -> {"none", "asked", "chosen"}]
  BY OrderEventsAssumption DEF LogInv, LogTyped
<1>1. ASSUME NEW e \in Events, RecordEvent(e) PROVE LogInv'
  BY <1>1, RecordKeepsLog
<1>2. ASSUME NEW e \in Events, NEW i \in Instances, CommitEvent(e, i) PROVE LogInv'
  BY <1>2, CommitKeepsLog
<1>3. ASSUME NEW i \in Instances, Publisher(i) PROVE LogInv'
  <2>1. CASE SelectBatch(i)
    BY <2>1, SelectKeepsLog
  <2>2. CASE Publish(i)
    BY <2>2, PublishKeepsLog
  <2>3. CASE PublicationFails(i)
    <3>1. publisher = i
      BY <2>3 DEF PublicationFails, LogInv, BatchIsNext
    <3> QED BY <2>3, <3>1, EndKeepsLog DEF PublicationFails
  <2>4. CASE Timer(i)
    BY <1>0, <2>4, WakingKeepsLog DEF Timer, Wake, logVars
  <2>5. CASE Restart(i)
    <3>1. CASE publisher = i
      BY <2>5, <3>1, EndKeepsLog DEF Restart
    <3>2. CASE publisher # i
      <4>1. publication[i] # "chosen"
        BY <3>2 DEF LogInv, BatchIsNext
      <4> QED BY <1>0, <2>5, <3>2, <4>1, WakingKeepsLog DEF Restart, logVars
    <3> QED BY <3>1, <3>2
  <2> QED BY <1>3, <2>1, <2>2, <2>3, <2>4, <2>5 DEF Publisher
<1>4. ASSUME NEW i \in Listeners, Listener(i) PROVE LogInv'
  <2>1. UNCHANGED <<logVars, publication>>
    BY <1>4 DEF Listener, Listen, ReadHead, BecomeReady, LoseConnection, Notification,
                Replay, CallBack, DistributionFails, logVars, publishing
  <2> QED BY <1>0, <2>1, WakingKeepsLog
<1>5. CASE UNCHANGED eventVars
  BY <1>0, <1>5, WakingKeepsLog DEF eventVars, logVars, publishing
<1> QED BY <1>1, <1>2, <1>3, <1>4, <1>5 DEF Next

LEMMA LogAlways == Spec => []LogInv
  BY LogBegins, LogStep, PTL DEF Spec

(* order-events.service.ts:209: the published rows that are kept are the   *)
(* cursors floor+1..head, each given once, and a committed row that is     *)
(* gone had been published: whatever the batches, purges and faults.       *)
THEOREM TheLogHasNoHoles == Spec => []LogHasNoHoles
<1>1. LogInv => LogHasNoHoles
  <2> SUFFICES ASSUME LogInv PROVE LogHasNoHoles
    OBVIOUS
  <2> USE DEF LogInv, CursorsAreAPiece, Published
  <2>1. /\ head \in Nat /\ floor \in 0..head /\ cursor \in [Events -> Nat]
        /\ stored \subseteq Events /\ committed \subseteq Events
    BY RowsAreEvents DEF LogTyped
  <2>2. {cursor[e] : e \in {d \in stored : Published(d)}} \subseteq (floor + 1)..head
    BY <2>1
  <2>3. ASSUME NEW n \in (floor + 1)..head
        PROVE  \E e \in stored : Published(e) /\ cursor[e] = n
    BY <2>1
  <2> QED BY <2>1, <2>2, <2>3 DEF LogHasNoHoles
<1> QED BY <1>1, LogAlways, PTL

(* order-events.service.ts:210: however many processes publish and however *)
(* transactions overlap, the events of an order get their cursors in the   *)
(* order in which they happened to it, and none is published before one    *)
(* that came before it.                                                    *)
THEOREM EventsAreToldInOrder == Spec => []OrdersAreToldInOrder
<1>1. LogInv => OrdersAreToldInOrder
  BY DEF LogInv
<1> QED BY <1>1, LogAlways, PTL

(***************************************************************************)
(* What each process tells its streams.                                    *)
(***************************************************************************)
TransportTyped ==
  /\ listener \in [Instances -> {"down", "listening", "read", "up"}]
  /\ headRead \in [Instances -> Nat]
  /\ position \in [Instances -> Nat]
  /\ distributing \in [Instances -> {"idle", "asked", "answered"}]
  /\ asked \in [Instances -> Nat]
  /\ answer \in [Instances -> [head : Nat, first : Nat, reset : BOOLEAN]]
  /\ dirty \in [Instances -> BOOLEAN]
  /\ heard \in [Instances -> Nat]

(* A distribution that is under way has asked for no more than has been    *)
(* called back, or will count as called back once the connection is up     *)
(* again; and what it answers begins right after what it asked for.        *)
DistributionIsCurrent(i) ==
  /\ position[i] <= head /\ headRead[i] <= head
  /\ distributing[i] # "idle" =>
       /\ asked[i] <= position[i]
       /\ listener[i] = "read" => asked[i] <= headRead[i]
  /\ distributing[i] = "answered" =>
       /\ answer[i].head <= head
       /\ ~answer[i].reset =>
            asked[i] <= answer[i].head /\ answer[i].first = asked[i] + 1

TransportInv ==
  /\ TransportTyped
  /\ \A i \in Instances : DistributionIsCurrent(i)

LEMMA TransportBegins == Init => TransportInv
  BY DEF Init, TransportInv, TransportTyped, DistributionIsCurrent, NoAnswer

(* The log only grows, so that a distribution stays current.               *)
LEMMA QuietKeepsTransport ==
  ASSUME LogInv, LogInv', TransportInv, head <= head',
         UNCHANGED <<listener, headRead, distribution>>
  PROVE  TransportInv'
<1>1. head \in Nat /\ head' \in Nat
  BY DEF LogInv, LogTyped
<1>2. TransportTyped'
  BY DEF TransportInv, TransportTyped, distribution
<1>3. ASSUME NEW i \in Instances PROVE DistributionIsCurrent(i)'
  <2>1. /\ DistributionIsCurrent(i) /\ position[i] \in Nat /\ headRead[i] \in Nat
        /\ answer[i].head \in Nat
    BY DEF TransportInv, TransportTyped
  <2> QED BY <1>1, <2>1 DEF DistributionIsCurrent, distribution
<1> QED BY <1>2, <1>3 DEF TransportInv

(* A step of one process leaves the distributions of the others alone.     *)
LEMMA OwnStepKeepsTransport ==
  ASSUME TransportInv, TransportTyped', NEW i \in Instances,
         head' = head, DistributionIsCurrent(i)',
         \A j \in Instances \ {i} :
           /\ listener'[j] = listener[j] /\ headRead'[j] = headRead[j]
           /\ position'[j] = position[j] /\ distributing'[j] = distributing[j]
           /\ asked'[j] = asked[j] /\ answer'[j] = answer[j]
  PROVE  TransportInv'
  BY DEF TransportInv, DistributionIsCurrent

LEMMA LargerOfTwo ==
  ASSUME NEW a \in Nat, NEW b \in Nat
  PROVE  Max({a, b}) = IF a >= b THEN a ELSE b
<1>1. \E x \in {a, b} : \A y \in {a, b} : x >= y
  BY SMT
<1> QED BY <1>1 DEF Max

(* distribute(): a new round asks for what has not been called back, as    *)
(* the connection is up.                                                   *)
LEMMA DistributeKeeps ==
  ASSUME LogInv, TransportInv, NEW i \in Instances, Distribute(i), head' = head,
         listener' \in [Instances -> {"down", "listening", "read", "up"}],
         headRead' \in [Instances -> Nat], position' \in [Instances -> Nat],
         listener'[i] = "up", headRead'[i] <= head, position'[i] <= head,
         distributing[i] # "idle" => asked[i] <= position'[i],
         UNCHANGED <<answer, heard>>,
         \A j \in Instances \ {i} :
           /\ listener'[j] = listener[j] /\ headRead'[j] = headRead[j]
           /\ position'[j] = position[j]
  PROVE  TransportInv'
<1>1. TransportTyped'
  BY DEF Distribute, TransportInv, TransportTyped
<1>2. /\ asked[i] \in Nat /\ position'[i] \in Nat /\ head \in Nat
      /\ DistributionIsCurrent(i)
  BY DEF TransportInv, TransportTyped, LogInv, LogTyped
<1>3. DistributionIsCurrent(i)'
  <2>1. CASE distributing[i] = "idle"
    <3>1. distributing'[i] = "asked" /\ asked'[i] = position'[i]
      BY <2>1 DEF Distribute, TransportInv, TransportTyped
    <3> QED BY <1>2, <3>1 DEF DistributionIsCurrent
  <2>2. CASE distributing[i] # "idle"
    <3>1. distributing' = distributing /\ asked' = asked
      BY <2>2 DEF Distribute
    <3> QED BY <1>2, <2>2, <3>1 DEF DistributionIsCurrent
  <2> QED BY <2>1, <2>2
<1>4. \A j \in Instances \ {i} : distributing'[j] = distributing[j] /\ asked'[j] = asked[j]
  BY DEF Distribute, TransportInv, TransportTyped
<1> QED BY <1>1, <1>3, <1>4, OwnStepKeepsTransport

(* A connection that comes up: it announces from the head it has read.     *)
LEMMA ConnectingKeeps ==
  ASSUME LogInv, TransportInv, NEW i \in Instances,
         Listen(i) \/ ReadHead(i) \/ BecomeReady(i)
  PROVE  TransportInv'
<1>0. /\ asked[i] \in Nat /\ position[i] \in Nat /\ head \in Nat /\ headRead[i] \in Nat
      /\ DistributionIsCurrent(i) /\ TransportTyped
  BY DEF TransportInv, TransportTyped, LogInv, LogTyped
<1>1. CASE Listen(i)
  <2>1. /\ listener' = [listener EXCEPT ![i] = "listening"]
        /\ UNCHANGED <<head, headRead, distribution>>
    BY <1>1 DEF Listen, state
  <2>2. TransportTyped' /\ DistributionIsCurrent(i)'
    BY <1>0, <2>1 DEF TransportTyped, DistributionIsCurrent, distribution
  <2> QED BY <1>0, <2>1, <2>2, OwnStepKeepsTransport DEF TransportTyped, distribution
<1>2. CASE ReadHead(i)
  <2>1. /\ listener' = [listener EXCEPT ![i] = "read"]
        /\ headRead' = [headRead EXCEPT ![i] = head]
        /\ UNCHANGED <<head, distribution>>
    BY <1>2 DEF ReadHead, state
  <2>2. TransportTyped' /\ DistributionIsCurrent(i)'
    BY <1>0, <2>1 DEF TransportTyped, DistributionIsCurrent, distribution
  <2> QED BY <1>0, <2>1, <2>2, OwnStepKeepsTransport DEF TransportTyped, distribution
<1>3. CASE BecomeReady(i)
  <2>1. /\ listener' = [listener EXCEPT ![i] = "up"]
        /\ headRead' = [headRead EXCEPT ![i] = 0]
        /\ position' = [position EXCEPT ![i] = headRead[i]]
        /\ listener[i] = "read" /\ Distribute(i)
        /\ UNCHANGED <<head, answer, heard>>
    BY <1>3 DEF BecomeReady, state
  <2>2. /\ listener'[i] = "up" /\ headRead'[i] <= head /\ position'[i] <= head
        /\ distributing[i] # "idle" => asked[i] <= position'[i]
    BY <1>0, <2>1 DEF TransportTyped, DistributionIsCurrent
  <2>3. /\ listener' \in [Instances -> {"down", "listening", "read", "up"}]
        /\ headRead' \in [Instances -> Nat] /\ position' \in [Instances -> Nat]
    BY <1>0, <2>1 DEF TransportTyped
  <2>4. \A j \in Instances \ {i} :
          /\ listener'[j] = listener[j] /\ headRead'[j] = headRead[j]
          /\ position'[j] = position[j]
    BY <1>0, <2>1 DEF TransportTyped
  <2> QED BY <2>1, <2>2, <2>3, <2>4, DistributeKeeps
<1> QED BY <1>1, <1>2, <1>3

(* A connection or a whole process that is lost relies on nothing.         *)
LEMMA LosingKeeps ==
  ASSUME LogInv, TransportInv, NEW i \in Instances,
         LoseConnection(i) \/ DistributionFails(i) \/ Restart(i)
  PROVE  TransportInv'
<1>0. /\ DistributionIsCurrent(i) /\ TransportTyped /\ head \in Nat
      /\ position[i] \in Nat /\ headRead[i] \in Nat
  BY DEF TransportInv, TransportTyped, LogInv, LogTyped
<1>1. CASE LoseConnection(i)
  <2>1. /\ listener' = [listener EXCEPT ![i] = "down"]
        /\ headRead' = [headRead EXCEPT ![i] = 0]
        /\ heard' = [heard EXCEPT ![i] = 0]
        /\ UNCHANGED <<head, position, distributing, asked, answer, dirty>>
    BY <1>1 DEF LoseConnection, state
  <2>2. TransportTyped' /\ DistributionIsCurrent(i)'
    BY <1>0, <2>1 DEF TransportTyped, DistributionIsCurrent
  <2> QED BY <1>0, <2>1, <2>2, OwnStepKeepsTransport DEF TransportTyped
<1>2. CASE DistributionFails(i)
  <2>1. /\ distributing' = [distributing EXCEPT ![i] = "idle"]
        /\ asked' = [asked EXCEPT ![i] = 0]
        /\ heard' = [heard EXCEPT ![i] = 0]
        /\ UNCHANGED <<head, listener, headRead, position, answer, dirty>>
    BY <1>2 DEF DistributionFails, state, listening
  <2>2. TransportTyped' /\ DistributionIsCurrent(i)'
    BY <1>0, <2>1 DEF TransportTyped, DistributionIsCurrent
  <2> QED BY <1>0, <2>1, <2>2, OwnStepKeepsTransport DEF TransportTyped
<1>3. CASE Restart(i)
  <2>1. /\ listener' = [listener EXCEPT ![i] = "down"]
        /\ headRead' = [headRead EXCEPT ![i] = 0]
        /\ position' = [position EXCEPT ![i] = 0]
        /\ distributing' = [distributing EXCEPT ![i] = "idle"]
        /\ asked' = [asked EXCEPT ![i] = 0]
        /\ answer' = [answer EXCEPT ![i] = NoAnswer]
        /\ dirty' = [dirty EXCEPT ![i] = FALSE]
        /\ heard' = [heard EXCEPT ![i] = 0]
        /\ head' = head
    BY <1>3 DEF Restart, state
  <2>2. TransportTyped' /\ DistributionIsCurrent(i)'
    BY <1>0, <2>1 DEF TransportTyped, DistributionIsCurrent, NoAnswer
  <2> QED BY <1>0, <2>1, <2>2, OwnStepKeepsTransport DEF TransportTyped
<1> QED BY <1>1, <1>2, <1>3

(* A wake-up starts a distribution only while the connection is up.        *)
LEMMA WakeUpKeeps ==
  ASSUME LogInv, LogInv', TransportInv, NEW i \in Instances,
         Notification(i) \/ Timer(i)
  PROVE  TransportInv'
<1>0. /\ UNCHANGED <<head, position, listener, headRead, answer, heard>>
      /\ IF Ready(i) THEN Distribute(i) ELSE UNCHANGED <<distributing, asked, dirty>>
      /\ head \in Nat /\ TransportTyped /\ DistributionIsCurrent(i)
  BY DEF Notification, Timer, state, listening, TransportInv, LogInv, LogTyped
<1>1. CASE Ready(i)
  BY <1>0, <1>1, DistributeKeeps DEF Ready, TransportTyped, DistributionIsCurrent
<1>2. CASE ~Ready(i)
  BY <1>0, <1>2, QuietKeepsTransport DEF distribution
<1> QED BY <1>1, <1>2

(* The answer is about the snapshot, which holds what has been asked for.  *)
LEMMA ReplayKeeps ==
  ASSUME LogInv, TransportInv, NEW i \in Instances, Replay(i)
  PROVE  TransportInv'
<1>0. /\ DistributionIsCurrent(i) /\ TransportTyped
      /\ head \in Nat /\ floor \in Nat /\ asked[i] \in Nat
  BY DEF TransportInv, TransportTyped, LogInv, LogTyped
<1>1. Max({asked[i], floor}) = IF asked[i] >= floor THEN asked[i] ELSE floor
  BY <1>0, LargerOfTwo
<1> DEFINE a == [head |-> head, first |-> Max({asked[i], floor}) + 1,
                 reset |-> ~Replayable(asked[i])]
<1>2. /\ a \in [head : Nat, first : Nat, reset : BOOLEAN]
      /\ a.head = head
      /\ ~a.reset => asked[i] <= head /\ a.first = asked[i] + 1
  <2>1. Replayable(asked[i]) \in BOOLEAN
    BY DEF Replayable
  <2>2. Replayable(asked[i]) => asked[i] >= floor /\ asked[i] <= head
    BY <1>0 DEF Replayable
  <2>3. Max({asked[i], floor}) + 1 \in Nat
    BY <1>0, <1>1
  <2>4. a \in [head : Nat, first : Nat, reset : BOOLEAN]
    BY <1>0, <2>1, <2>3, Zenon
  <2>5. a.head = head /\ (~a.reset <=> Replayable(asked[i]))
        /\ a.first = Max({asked[i], floor}) + 1
    BY <2>1, Zenon
  <2> QED BY <1>0, <1>1, <2>2, <2>4, <2>5
<1>3. /\ distributing[i] = "asked"
      /\ distributing' = [distributing EXCEPT ![i] = "answered"]
      /\ answer' = [answer EXCEPT ![i] = a]
      /\ UNCHANGED <<head, listener, headRead, position, asked, dirty, heard>>
  BY DEF Replay, state, listening
<1> HIDE DEF a
<1>4. TransportTyped' /\ DistributionIsCurrent(i)'
  BY <1>0, <1>2, <1>3 DEF TransportTyped, DistributionIsCurrent
<1> QED BY <1>0, <1>3, <1>4, OwnStepKeepsTransport DEF TransportTyped

(* After the callbacks the loop asks for what comes after them, if at all. *)
LEMMA CallBackKeeps ==
  ASSUME LogInv, TransportInv, NEW i \in Instances, CallBack(i)
  PROVE  TransportInv'
<1>0. /\ DistributionIsCurrent(i) /\ TransportTyped /\ head \in Nat
      /\ answer[i] \in [head : Nat, first : Nat, reset : BOOLEAN]
      /\ answer[i].head \in Nat /\ answer[i].first \in Nat /\ heard[i] \in Nat
  BY DEF TransportInv, TransportTyped, LogInv, LogTyped
<1>1. /\ distributing[i] = "answered"
      /\ position' = [position EXCEPT ![i] = answer[i].head]
      /\ answer' = [answer EXCEPT ![i] = NoAnswer]
      /\ NextRound(i)
      /\ UNCHANGED <<head, listener, headRead>>
  BY DEF CallBack, state, listening
<1>2. heard' \in [Instances -> Nat]
  BY <1>0 DEF CallBack, TransportTyped
<1>3. NoAnswer \in [head : Nat, first : Nat, reset : BOOLEAN]
  BY DEF NoAnswer
<1>4. position' \in [Instances -> Nat] /\ position'[i] = answer[i].head
  BY <1>0, <1>1 DEF TransportTyped
<1>5. /\ distributing'[i] \in {"idle", "asked"}
      /\ distributing'[i] = "asked" => Ready(i) /\ asked'[i] = position'[i]
      /\ distributing' \in [Instances -> {"idle", "asked", "answered"}]
      /\ asked' \in [Instances -> Nat] /\ dirty' \in [Instances -> BOOLEAN]
      /\ \A j \in Instances \ {i} : /\ distributing'[j] = distributing[j]
                                    /\ asked'[j] = asked[j]
  <2>1. CASE dirty[i] /\ Ready(i)
    BY <1>0, <1>1, <1>4, <2>1 DEF NextRound, TransportTyped
  <2>2. CASE ~(dirty[i] /\ Ready(i))
    BY <1>0, <1>1, <2>2 DEF NextRound, TransportTyped
  <2> QED BY <2>1, <2>2
<1>6. TransportTyped'
  BY <1>0, <1>1, <1>2, <1>3, <1>4, <1>5 DEF TransportTyped
<1>7. DistributionIsCurrent(i)'
  BY <1>0, <1>1, <1>4, <1>5 DEF DistributionIsCurrent, Ready
<1> QED BY <1>0, <1>1, <1>4, <1>5, <1>6, <1>7, OwnStepKeepsTransport DEF TransportTyped

LEMMA TransportStep == LogInv /\ LogInv' /\ TransportInv /\ [Next]_eventVars => TransportInv'
<1> SUFFICES ASSUME LogInv, LogInv', TransportInv, [Next]_eventVars
             PROVE  TransportInv'
  OBVIOUS
<1>0. /\ Listeners \subseteq Instances
      /\ head \in Nat /\ \A i \in Instances : Cardinality(chosen[i]) \in Nat
  BY OrderEventsAssumption, EventsFinite, EventsAreNumbered DEF LogInv, LogTyped
<1>1. ASSUME NEW e \in Events, RecordEvent(e) PROVE TransportInv'
  BY <1>0, <1>1, QuietKeepsTransport DEF RecordEvent, state, listening
<1>2. ASSUME NEW e \in Events, NEW i \in Instances, CommitEvent(e, i) PROVE TransportInv'
  BY <1>0, <1>2, QuietKeepsTransport DEF CommitEvent, state, listening
<1>3. ASSUME NEW i \in Instances, Publisher(i) PROVE TransportInv'
  <2>1. CASE SelectBatch(i) \/ PublicationFails(i)
    BY <1>0, <2>1, QuietKeepsTransport DEF SelectBatch, PublicationFails, state, listening
  <2>2. CASE Publish(i)
    BY <1>0, <2>2, QuietKeepsTransport DEF Publish
  <2>3. CASE Timer(i)
    BY <2>3, WakeUpKeeps
  <2>4. CASE Restart(i)
    BY <2>4, LosingKeeps
  <2> QED BY <1>3, <2>1, <2>2, <2>3, <2>4 DEF Publisher
<1>4. ASSUME NEW i \in Listeners, Listener(i) PROVE TransportInv'
  BY <1>0, <1>4, ConnectingKeeps, LosingKeeps, WakeUpKeeps, ReplayKeeps, CallBackKeeps
  DEF Listener
<1>5. CASE UNCHANGED eventVars
  BY <1>0, <1>5, QuietKeepsTransport DEF eventVars, state, listening
<1> QED BY <1>1, <1>2, <1>3, <1>4, <1>5 DEF Next

(* No more cursors are given than there are events.                        *)
LEMMA HeadIsBounded ==
  ASSUME NEW h \in Nat, NEW c \in [Events -> Nat],
         \A n \in 1..h : \E e \in Events : c[e] = n
  PROVE  h <= MaxEvents
<1> DEFINE told == {e \in Events : c[e] \in 1..h}
           f == [e \in told |-> c[e]]
<1>1. IsFiniteSet(told) /\ Cardinality(told) \in 0..MaxEvents
  BY EventsFinite
<1>2. f \in Surjection(told, 1..h)
  BY DEF Surjection
<1>3. Cardinality(1..h) <= Cardinality(told) /\ Cardinality(1..h) = h
  BY <1>1, <1>2, FS_Surjection, FS_Interval
<1> QED BY <1>1, <1>3, EventsAreNumbered

(* Everything but a publication, or a step of the process itself, leaves   *)
(* its feed alone.                                                         *)
Untouched(i) ==
  /\ UNCHANGED state
  /\ position'[i] = position[i] /\ heard'[i] = heard[i] /\ Ready(i)' = Ready(i)

LEMMA UntouchedStutters ==
  ASSUME NEW i \in Instances, Untouched(i)
  PROVE  UNCHANGED Feed(i)!feed
  BY DEF Untouched, state, Feed!feed

(* A publication extends the log.                                          *)
LEMMA PublishExtends ==
  ASSUME LogInv, LogInv', NEW i \in Instances, NEW j \in Instances, Publish(j)
  PROVE  Feed(i)!Extend
<1>1. /\ floor \in Nat /\ head \in Nat /\ floor' \in 0..head' /\ head' \in Nat
      /\ head' <= MaxEvents
  BY HeadIsBounded DEF LogInv, LogTyped, CursorsAreAPiece
<1>2. Cardinality(chosen[j]) \in Nat
  BY EventsFinite, EventsAreNumbered DEF LogInv, LogTyped
<1>3. head' = head + Cardinality(chosen[j]) /\ floor' \in Expired
      /\ UNCHANGED <<listener, position, heard>>
  BY DEF Publish, distribution
<1>4. head' \in head..MaxEvents
  BY <1>1, <1>2, <1>3, EventsAreNumbered
<1>5. floor' \in floor..head'
  BY <1>1, <1>3 DEF Expired
<1> QED BY <1>3, <1>4, <1>5 DEF Feed!Extend, Ready

(* Callbacks with null, whatever they are for, reset the feed.             *)
LEMMA LosingResets ==
  ASSUME LogInv, TransportInv, TransportInv', NEW i \in Instances,
         LoseConnection(i) \/ DistributionFails(i) \/ Restart(i)
  PROVE  Feed(i)!Reset
<1>1. UNCHANGED <<head, floor>> /\ heard'[i] = 0
  BY DEF LoseConnection, DistributionFails, Restart, state, TransportInv, TransportTyped
<1>2. Ready(i)' \in {Ready(i), FALSE}
  BY DEF LoseConnection, DistributionFails, Restart, TransportInv, TransportTyped,
         Ready, listening
<1>3. position'[i] \in 0..head
  BY <1>1 DEF TransportInv, TransportTyped, DistributionIsCurrent, LogInv, LogTyped
<1> QED BY <1>1, <1>2, <1>3 DEF Feed!Reset

(* A connection that is up admits streams again.                           *)
LEMMA ReadyConnects ==
  ASSUME LogInv, TransportInv, TransportInv', NEW i \in Instances, BecomeReady(i)
  PROVE  Feed(i)!Connect
<1>1. /\ UNCHANGED <<head, floor, heard>>
      /\ listener[i] = "read" /\ listener'[i] = "up"
  BY DEF BecomeReady, state, TransportInv, TransportTyped
<1>2. position'[i] \in 0..head
  BY <1>1 DEF TransportInv, TransportTyped, DistributionIsCurrent, LogInv, LogTyped
<1> QED BY <1>1, <1>2 DEF Feed!Connect, Ready

(* Callbacks with rows leave no gap after what has been called back.       *)
LEMMA CallBackAnnounces ==
  ASSUME LogInv, TransportInv, NEW i \in Instances, CallBack(i)
  PROVE  Feed(i)!FeedNext
<1> DEFINE a == answer[i]
<1>0. /\ DistributionIsCurrent(i) /\ distributing[i] = "answered"
      /\ a.head \in Nat /\ a.first \in Nat /\ a.reset \in BOOLEAN
      /\ head \in Nat /\ head <= MaxEvents /\ MaxEvents \in Nat
      /\ position[i] \in Nat /\ asked[i] \in Nat
  BY HeadIsBounded, EventsAreNumbered
  DEF TransportInv, TransportTyped, LogInv, LogTyped, CursorsAreAPiece, CallBack
<1>1. /\ UNCHANGED <<head, floor, listener>>
      /\ position'[i] = a.head
      /\ heard'[i] = IF a.reset THEN 0
                     ELSE IF a.first <= a.head THEN a.first ELSE heard[i]
  BY <1>0 DEF CallBack, state, listening, TransportInv, TransportTyped
<1>2. CASE a.reset
  <2>1. a.head \in 0..head
    BY <1>0 DEF DistributionIsCurrent
  <2>2. Feed(i)!Reset
    BY <1>1, <1>2, <2>1 DEF Feed!Reset, Ready
  <2> QED BY <2>2 DEF Feed!FeedNext
<1>3. CASE ~a.reset
  <2>1. /\ a.first \in 1..(MaxEvents + 1) /\ a.head \in 0..MaxEvents
        /\ a.first <= position[i] + 1 /\ a.head \in (a.first - 1)..head
    BY <1>0, <1>3 DEF DistributionIsCurrent
  <2>2. Feed(i)!Announce(a.first, a.head)
    BY <1>1, <1>3, <2>1 DEF Feed!Announce, Ready
  <2> QED BY <2>1, <2>2 DEF Feed!FeedNext
<1> QED BY <1>0, <1>2, <1>3

LEMMA FeedStep ==
  ASSUME LogInv, LogInv', TransportInv, TransportInv', [Next]_eventVars,
         NEW i \in Instances
  PROVE  [Feed(i)!FeedNext]_(Feed(i)!feed)
<1>0. Listeners \subseteq Instances
  BY OrderEventsAssumption
<1>1. ASSUME NEW e \in Events, RecordEvent(e) PROVE Untouched(i)
  BY <1>1 DEF RecordEvent, Untouched, Ready, listening, distribution
<1>2. ASSUME NEW e \in Events, NEW j \in Instances, CommitEvent(e, j) PROVE Untouched(i)
  BY <1>2 DEF CommitEvent, Untouched, Ready, listening, distribution
<1>3. ASSUME NEW j \in Instances, Publisher(j)
      PROVE  Untouched(i) \/ Feed(i)!FeedNext
  <2>1. CASE SelectBatch(j) \/ PublicationFails(j) \/ Timer(j)
    BY <2>1 DEF SelectBatch, PublicationFails, Timer, Untouched, Ready,
                listening, distribution
  <2>2. CASE Publish(j)
    BY <2>2, PublishExtends DEF Feed!FeedNext
  <2>3. CASE Restart(j)
    <3>1. CASE j = i
      BY <2>3, <3>1, LosingResets DEF Feed!FeedNext
    <3>2. CASE j # i
      BY <2>3, <3>2 DEF Restart, Untouched, Ready, TransportInv, TransportTyped
    <3> QED BY <3>1, <3>2
  <2> QED BY <1>3, <2>1, <2>2, <2>3 DEF Publisher
<1>4. ASSUME NEW j \in Listeners, Listener(j)
      PROVE  Untouched(i) \/ Feed(i)!FeedNext
  <2>1. CASE j # i
    <3>1. CASE Listen(j) \/ ReadHead(j) \/ BecomeReady(j) \/ LoseConnection(j)
      BY <2>1, <3>1 DEF Listen, ReadHead, BecomeReady, LoseConnection, Untouched,
                        Ready, distribution, TransportInv, TransportTyped
    <3>2. CASE Notification(j) \/ Replay(j) \/ CallBack(j) \/ DistributionFails(j)
      BY <2>1, <3>2 DEF Notification, Replay, CallBack, DistributionFails, Untouched,
                        Ready, listening, TransportInv, TransportTyped
    <3> QED BY <1>4, <3>1, <3>2 DEF Listener
  <2>2. CASE j = i
    <3>1. CASE LoseConnection(i) \/ DistributionFails(i)
      BY <3>1, LosingResets DEF Feed!FeedNext
    <3>2. CASE BecomeReady(i)
      BY <3>2, ReadyConnects DEF Feed!FeedNext
    <3>3. CASE CallBack(i)
      BY <3>3, CallBackAnnounces
    <3>4. CASE Listen(i) \/ ReadHead(i) \/ Notification(i) \/ Replay(i)
      BY <3>4 DEF Listen, ReadHead, Notification, Replay, Untouched, Ready,
                  listening, distribution, TransportInv, TransportTyped
    <3> QED BY <1>4, <2>2, <3>1, <3>2, <3>3, <3>4 DEF Listener
  <2> QED BY <2>1, <2>2
<1>5. ASSUME UNCHANGED eventVars PROVE Untouched(i)
  BY <1>5 DEF eventVars, Untouched, Ready, listening, distribution
<1>6. CASE Untouched(i)
  BY <1>6, UntouchedStutters
<1>7. CASE ~Untouched(i)
  <2>1. CASE \E j \in Instances : Publisher(j)
    BY <1>3, <1>7, <2>1
  <2>2. CASE \E j \in Listeners : Listener(j)
    BY <1>4, <1>7, <2>2
  <2> QED BY <1>1, <1>2, <1>5, <1>7, <2>1, <2>2 DEF Next
<1> QED BY <1>6, <1>7

(* order-events.service.ts:273: each step of the outbox, of a publication  *)
(* or of a LISTEN connection is, for each process, a step of EventFeed or  *)
(* none: its callbacks leave no gap after what they were called with       *)
(* before, or tell every stream to start again, whatever connections are   *)
(* lost, wake-ups absorbed and distributions overtaken by a reconnection.  *)
THEOREM ProcessesTellTheLog == Spec => TellsTheLog
<1>1. Init => \A i \in Instances : Feed(i)!FeedInit
  BY DEF Init, Feed!FeedInit, Ready
<1>2. LogInv /\ LogInv' /\ TransportInv /\ TransportInv' /\ [Next]_eventVars
      => \A i \in Instances : [Feed(i)!FeedNext]_(Feed(i)!feed)
  BY FeedStep
<1>3. Spec => []LogInv /\ []TransportInv
  BY LogAlways, TransportBegins, TransportStep, PTL DEF Spec
<1> QED BY <1>1, <1>2, <1>3, PTL DEF Spec, TellsTheLog

===============================================================================
