------------------------------ MODULE EventFeed ------------------------------
(***************************************************************************)
(* What one process promises its SSE streams about the log of published    *)
(* order events, whatever happens to its LISTEN connection.                *)
(*                                                                         *)
(* The log is the cursors 1..head, of which floor+1..head are still kept.  *)
(* The process calls back with consecutive events that leave no gap after  *)
(* the ones it called back with before, or tells everybody to start again. *)
(***************************************************************************)
EXTENDS Naturals

CONSTANT MaxHead   \* bound: events ever published

VARIABLES
  head, floor,   \* order_event_state
  position,      \* the log has been called back up to here
  ready,         \* streams may be opened
  heard          \* the first event of the last callback, 0 for a reset

feed == <<head, floor, position, ready, heard>>

FeedTypeOK ==
  /\ head \in 0..MaxHead
  /\ floor \in 0..head
  /\ position \in 0..head
  /\ ready \in BOOLEAN
  /\ heard \in 0..MaxHead

FeedInit ==
  /\ head = 0 /\ floor = 0 /\ position = 0
  /\ ready = FALSE
  /\ heard = 0

(* The log grows, and forgets a prefix.  Cursors are never given twice.    *)
Extend ==
  /\ head' \in head..MaxHead
  /\ floor' \in floor..head'
  /\ UNCHANGED <<position, ready, heard>>

(* Callback with f..t.  It may repeat events, and may even go back, but    *)
(* begins no later than the first event not called back with yet.          *)
Announce(f, t) ==
  /\ f <= position + 1
  /\ t \in (f - 1)..head
  /\ position' = t
  /\ heard' = IF f <= t THEN f ELSE heard
  /\ UNCHANGED <<head, floor, ready>>

(* Callback with null: every stream has to start again.                    *)
Reset ==
  /\ heard' = 0
  /\ position' \in 0..head
  /\ ready' \in {ready, FALSE}
  /\ UNCHANGED <<head, floor>>

(* Streams are admitted again, from a head the process has read.           *)
Connect ==
  /\ ~ready
  /\ ready' = TRUE
  /\ position' \in 0..head
  /\ UNCHANGED <<head, floor, heard>>

FeedNext ==
  \/ Extend
  \/ \E f \in 1..(MaxHead + 1) : \E t \in 0..MaxHead : Announce(f, t)
  \/ Reset
  \/ Connect

FeedSpec == FeedInit /\ [][FeedNext]_feed

=============================================================================
