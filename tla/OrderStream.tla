----------------------------- MODULE OrderStream -----------------------------
(***************************************************************************)
(* order-events-stream.service.ts: the SSE streams of administrators, on   *)
(* top of what OrderEvents promises each process (EventFeed).              *)
(*                                                                         *)
(* A frame is the cursor of its event.  Heartbeats are counted: where they *)
(* stand among the events makes no difference.  Every frame weighs one     *)
(* unit of the byte limit.                                                 *)
(***************************************************************************)
EXTENDS EventFeed, FiniteSets, Sequences, SequencesExt

CONSTANTS
  Streams,          \* bound: connections at a time that clients try to open
  Users,
  None,
  Total, PerUser,   \* STREAM_LIMITS: connections of a process, of one user
  StartsPerMinute,  \* STREAM_LIMITS: openings of one user
  ReplayLimit,      \* STREAM_LIMITS: events replayed, or buffered meanwhile
  QueueLimit        \* STREAM_LIMITS: weight of the frames a client may owe

ASSUME OrderStreamAssumption ==
  /\ IsFiniteSet(Streams) /\ IsFiniteSet(Users)
  /\ None \notin Users \cup Nat
  /\ {MaxHead, Total, PerUser, StartsPerMinute, ReplayLimit, QueueLimit} \subseteq Nat

VARIABLES
  stream,    \* the connections
  starts,    \* user -> openings in its current minute
  admin,     \* users whose role is admin
  check,     \* checkRoles: "idle", "querying" or "answered"
  checked,   \* the connections it is about (a place taken again is not one)
  allowed    \* the administrators it has found

roles == <<admin, check, checked, allowed>>
streamVars == <<feed, stream, starts, roles>>

Idle == [phase |-> "closed", user |-> None, start |-> None, cursor |-> 0,
         rows |-> <<>>, pending |-> <<>>, sent |-> <<>>, queue |-> <<>>,
         beats |-> 0, bytes |-> 0, blocked |-> FALSE]

Init ==
  /\ FeedInit
  /\ stream = [c \in Streams |-> Idle]
  /\ starts = [u \in Users |-> 0]
  /\ admin = Users
  /\ check = "idle" /\ checked = {} /\ allowed = {}

(* this.connections: those that initialize have their place already.       *)
Connections == {c \in Streams : stream[c].phase \in {"opening", "answered", "live"}}
Of(u) == {c \in Connections : stream[c].user = u}

Cursors(from, to) == [n \in 1..(to - from) |-> from + n]
Close(c) == stream' = [stream EXCEPT ![c] = Idle]
CloseAll == stream' = [c \in Streams |->
                         IF c \in Connections THEN Idle ELSE stream[c]]

(***************************************************************************)
(* Writing to the response.                                                *)
(***************************************************************************)
(* send() of several frames: those that find the socket full, as the k-th  *)
(* leaves it, wait.  A queue past its limit closes the stream.             *)
Send(s, frames, k) ==
  LET taken == IF s.blocked THEN 0 ELSE IF k < Len(frames) THEN k ELSE Len(frames)
      rest  == SubSeq(frames, taken + 1, Len(frames))
      t     == [s EXCEPT !.sent = @ \o SubSeq(frames, 1, taken),
                         !.queue = @ \o rest, !.bytes = @ + Len(rest),
                         !.blocked = @ \/ k <= Len(frames)]
  IN IF t.bytes > QueueLimit THEN Idle ELSE t

(* send() of a heartbeat, which may fill the socket.                       *)
Beat(s, fills) ==
  IF ~s.blocked THEN [s EXCEPT !.blocked = fills]
  ELSE IF s.bytes + 1 > QueueLimit THEN Idle
  ELSE [s EXCEPT !.beats = @ + 1, !.bytes = @ + 1]

(* Mutant: deliver() does not compare the cursor.                          *)
AllRows(cursor, rows) == rows

(* The members of a set of cursors, the lowest first.                      *)
InOrder(S) ==
  [n \in 1..Cardinality(S) |->
     CHOOSE r \in S : Cardinality({q \in S : q <= r}) = n]

(* Rows whose cursor is past the one given and past those before them.     *)
Fresh(cursor, rows) ==
  InOrder({rows[n] : n \in {m \in DOMAIN rows :
             rows[m] > cursor /\ \A l \in 1..(m - 1) : rows[m] > rows[l]}})

(* deliver() of several rows.                                              *)
Deliver(s, rows, k) ==
  LET new == Fresh(s.cursor, rows)
      t   == Send(s, new, k)
  IN IF new = <<>> \/ t = Idle THEN t ELSE [t EXCEPT !.cursor = Last(new)]

(* How many of n frames the socket of each stream takes before it is full. *)
Capacity(n) == 1..(n + 1)
Capacities(n) == [{c \in Connections : stream[c].phase = "live" /\ ~stream[c].blocked}
                   -> Capacity(n)]
Takes(k, c) == IF c \in DOMAIN k THEN k[c] ELSE 1

(***************************************************************************)
(* open().                                                                 *)
(***************************************************************************)
(* The guard: a valid token of somebody who is an administrator now.       *)
Authorize(c, u) ==
  /\ stream[c].phase = "closed"
  /\ u \in admin
  /\ stream' = [stream EXCEPT ![c].phase = "authorized", ![c].user = u]
  /\ UNCHANGED <<feed, starts, roles>>

Admissible(u) ==
  /\ ready
  /\ starts[u] < StartsPerMinute
  /\ Cardinality(Connections) < Total
  /\ Cardinality(Of(u)) < PerUser

(* From the request to the replay, which is awaited.                       *)
Open(c, last) ==
  LET u == stream[c].user IN
  /\ stream[c].phase = "authorized"
  /\ IF Admissible(u)
     THEN /\ stream' = [stream EXCEPT ![c].phase = "opening", ![c].start = last]
          /\ starts' = [starts EXCEPT ![u] = @ + 1]
          /\ checked' = checked \ {c}
     ELSE Close(c) /\ UNCHANGED <<starts, checked>>
  /\ UNCHANGED <<feed, admin, check, allowed>>

(* replay(cursor): the snapshot, and the rows or the reset it comes to.    *)
Replay(c) ==
  LET from == IF stream[c].start = None THEN head ELSE stream[c].start IN
  /\ stream[c].phase = "opening"
  /\ stream' = [stream EXCEPT ![c] =
       IF from \in floor..head /\ head - from <= ReplayLimit
       THEN [@ EXCEPT !.phase = "answered", !.start = from,
                      !.rows = Cursors(from, head)]
       ELSE Idle]
  /\ UNCHANGED <<feed, starts, roles>>

(* After the replay: its rows, then what was announced meanwhile.          *)
Initialize(c, k) ==
  LET s == stream[c] IN
  /\ s.phase = "answered"
  /\ stream' = [stream EXCEPT ![c] =
       IF ready
       THEN Deliver([s EXCEPT !.phase = "live", !.cursor = s.start, !.rows = <<>>,
                              !.pending = <<>>],
                    s.rows \o s.pending, k)
       ELSE Idle]
  /\ UNCHANGED <<feed, starts, roles>>

(***************************************************************************)
(* What the process is called back with.                                   *)
(***************************************************************************)
OnRows(s, rows, k) ==
  CASE s.phase = "live" -> Deliver(s, rows, k)
    [] s.phase \in {"opening", "answered"} ->
         IF Len(s.pending) + Len(rows) > ReplayLimit THEN Idle
         ELSE [s EXCEPT !.pending = @ \o rows]
    [] OTHER -> s

Rows(f, t) ==
  /\ Announce(f, t)
  /\ \E k \in Capacities(t + 1 - f) :
       stream' = [c \in Streams |->
                    OnRows(stream[c], Cursors(f - 1, t), Takes(k, c))]
  /\ UNCHANGED <<starts, roles>>

(* Mutant: streams that initialize have nothing to reset.                  *)
ResetLive ==
  /\ Reset
  /\ stream' = [c \in Streams |->
                  IF stream[c].phase = "live" THEN Idle ELSE stream[c]]
  /\ UNCHANGED <<starts, roles>>

ResetAll ==
  /\ Reset
  /\ CloseAll
  /\ UNCHANGED <<starts, roles>>

(***************************************************************************)
(* The life of a stream.                                                   *)
(***************************************************************************)
(* Mutant: drain forgets what it has written.                              *)
DrainUncounted(c, k, b, full) ==
  LET s == stream[c] IN
  /\ s.blocked
  /\ k <= Len(s.queue) /\ b <= s.beats
  /\ k + b = Len(s.queue) + s.beats \/ (full /\ k + b > 0)
  /\ stream' = [stream EXCEPT ![c] =
       [s EXCEPT !.sent = @ \o SubSeq(s.queue, 1, k),
                 !.queue = SubSeq(s.queue, k + 1, Len(s.queue)),
                 !.beats = @ - b, !.blocked = full]]
  /\ UNCHANGED <<feed, starts, roles>>

(* 'drain': k events and b heartbeats are written until nothing is left,   *)
(* or the socket is full again.                                            *)
Drain(c, k, b, full) ==
  LET s == stream[c] IN
  /\ s.blocked
  /\ k <= Len(s.queue) /\ b <= s.beats
  /\ k + b = Len(s.queue) + s.beats \/ (full /\ k + b > 0)
  /\ stream' = [stream EXCEPT ![c] =
       [s EXCEPT !.sent = @ \o SubSeq(s.queue, 1, k),
                 !.queue = SubSeq(s.queue, k + 1, Len(s.queue)),
                 !.beats = @ - b, !.bytes = @ - (k + b), !.blocked = full]]
  /\ UNCHANGED <<feed, starts, roles>>

(* The client or the lease ends it, the client has been slow for 10 s, the *)
(* token expires, the replay fails or takes 5 s.                           *)
End(c) ==
  /\ c \in Connections
  /\ Close(c)
  /\ UNCHANGED <<feed, starts, roles>>

(* tick(): heartbeats, some of which fill their socket.                    *)
Heartbeat ==
  /\ \E full \in SUBSET {c \in Connections : stream[c].phase = "live"} :
       stream' = [c \in Streams |-> IF stream[c].phase = "live"
                                    THEN Beat(stream[c], c \in full)
                                    ELSE stream[c]]
  /\ UNCHANGED <<feed, starts, roles>>

(* A minute after the first opening its user may start again.              *)
MinutePasses(u) ==
  /\ starts[u] > 0
  /\ starts' = [starts EXCEPT ![u] = 0]
  /\ UNCHANGED <<feed, stream, roles>>

(* onModuleDestroy, and a process that starts again.                       *)
Restart ==
  /\ Reset
  /\ ~ready'
  /\ stream' = [c \in Streams |-> Idle]
  /\ starts' = [u \in Users |-> 0]
  /\ check' = "idle" /\ checked' = {} /\ allowed' = {}
  /\ UNCHANGED admin

(***************************************************************************)
(* checkRoles(), once a minute.                                            *)
(***************************************************************************)
ChangeRole(u) ==
  /\ admin' = IF u \in admin THEN admin \ {u} ELSE admin \cup {u}
  /\ UNCHANGED <<feed, stream, starts, check, checked, allowed>>

StartCheck ==
  /\ check = "idle" /\ Connections # {}
  /\ check' = "querying"
  /\ checked' = Connections
  /\ UNCHANGED <<feed, stream, starts, admin, allowed>>

ReadRoles ==
  /\ check = "querying"
  /\ check' = "answered"
  /\ allowed' = admin
  /\ UNCHANGED <<feed, stream, starts, admin, checked>>

EndCheck == check' = "idle" /\ checked' = {} /\ allowed' = {}

StopRevoked ==
  /\ check = "answered"
  /\ stream' = [c \in Streams |->
                  IF c \in checked \cap Connections /\ stream[c].user \notin allowed
                  THEN Idle ELSE stream[c]]
  /\ EndCheck
  /\ UNCHANGED <<feed, starts, admin>>

(* Mutant: checkingRoles stays set.                                        *)
CheckSticks ==
  /\ check = "querying"
  /\ CloseAll
  /\ check' = "failed"
  /\ UNCHANGED <<feed, starts, admin, checked, allowed>>

(* The roles cannot be read, or not within 5 s: every stream is stopped.   *)
CheckFails ==
  /\ check = "querying"
  /\ CloseAll
  /\ EndCheck
  /\ UNCHANGED <<feed, starts, admin>>

(* Between two steps of the process, what OrderEvents does for it.         *)
Quietly(step) == step /\ UNCHANGED <<stream, starts, roles>>

Next ==
  \/ Quietly(Extend) \/ Quietly(Connect)
  \/ \E f \in 1..(MaxHead + 1) : \E t \in 0..MaxHead : Rows(f, t)
  \/ ResetAll \/ Restart
  \/ \E c \in Streams :
       \/ \E u \in Users : Authorize(c, u)
       \/ \E last \in {None} \cup 0..MaxHead : Open(c, last)
       \/ Replay(c) \/ End(c)
       \/ \E k \in Capacity(MaxHead) : Initialize(c, k)
       \/ \E k, b \in 0..QueueLimit, full \in BOOLEAN : Drain(c, k, b, full)
  \/ Heartbeat
  \/ \E u \in Users : MinutePasses(u) \/ ChangeRole(u)
  \/ StartCheck \/ ReadRoles \/ StopRevoked \/ CheckFails

Spec == Init /\ [][Next]_streamVars

(* The timer of checkRoles() fires, and its race with the deadline ends.   *)
LiveSpec ==
  Spec /\ WF_streamVars(StartCheck) /\ WF_streamVars(ReadRoles)
       /\ WF_streamVars(StopRevoked)

(***************************************************************************)
(* Properties.                                                             *)
(***************************************************************************)
(* order-events-stream.service.ts:194: what a client has been sent or is   *)
(* owed is every event since its cursor, once and in order, and nothing    *)
(* the process has heard of is missing, although events were announced     *)
(* while it replayed, connections were reset and the log was purged.       *)
ClientMissesNothing ==
  \A c \in Connections : stream[c].phase = "live" =>
    /\ stream[c].sent \o stream[c].queue = Cursors(stream[c].start, stream[c].cursor)
    /\ position <= stream[c].cursor

(* order-events-stream.service.ts:172: places are taken before anything is *)
(* awaited, so that no limit is passed; the weight that cuts a slow client *)
(* off is that of its queue, and a client that is not slow is owed nothing.*)
StreamsKeepTheirLimits ==
  LET open == {c \in Streams : stream[c].phase \notin {"closed", "authorized"}} IN
  /\ Cardinality(open) <= Total
  /\ \A u \in Users : Cardinality({c \in open : stream[c].user = u}) <= PerUser
  /\ \A c \in open :
       /\ stream[c].bytes = Len(stream[c].queue) + stream[c].beats
       /\ stream[c].bytes <= QueueLimit
       /\ Len(stream[c].pending) <= ReplayLimit
       /\ stream[c].bytes > 0 => stream[c].blocked

(* order-events-stream.service.ts:54, order-events.service.ts:121: without *)
(* its LISTEN connection a process keeps no stream, not even one that is   *)
(* still being initialized.                                                *)
NoStreamWithoutTransport == Connections # {} => ready

(* order-events-stream.service.ts:256: the streams of somebody who is no   *)
(* longer an administrator end, even those opened while roles were read.   *)
RevokedStreamsEnd ==
  \A c \in Streams :
    (c \in Connections /\ stream[c].user \notin admin)
      ~> (c \notin Connections \/ stream[c].user \in admin)

=============================================================================
