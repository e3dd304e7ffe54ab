------------------------------ MODULE StreamLife ------------------------------
(***************************************************************************)
(* The life of one stream, as its neighbours see it: events are posted to  *)
(* it and carried out, frames go out of it and come back.  FramePool shows *)
(* it for one stream with all of its pool, BsEvent for all streams of all  *)
(* channels with a number in place of each pool; both implement this, so   *)
(* what BsEvent takes a pool to be is what FramePool does.                 *)
(*                                                                         *)
(* There are no threads, flags and mutexes here.  The promise: a stream    *)
(* with a frame out is neither opened nor closed, no frame goes out of it  *)
(* while an event is pending, and it is never opened twice.                *)
(*                                                                         *)
(* "broken" says that the promise is off, as in FrameLending.              *)
(***************************************************************************)
EXTENDS Naturals

CONSTANT Main   \* the main stream of its channel

VARIABLES
  event,      \* the event that waits, or "NONE"
  enabled,    \* the encoder runs for it
  hooks,      \* it is read
  closeHook,  \* it is to be closed
  queue,      \* it has a queue
  out,        \* frames that are out
  broken

stream == <<enabled, hooks, closeHook, queue>>
vars   == <<event, stream, out, broken>>

Init ==
  /\ event = "NONE" /\ out = 0 /\ broken = FALSE
  /\ enabled = FALSE /\ hooks = FALSE /\ closeHook = FALSE /\ queue = FALSE

(* START is for a stream that is off, STOP for a whole channel. *)
Post == \E e \in {"START", "UPDATE", "STOP"} :
  /\ e = "START" => ~enabled
  /\ e = "STOP" => Main
  /\ event' = e /\ UNCHANGED <<stream, out>>

(* It comes up with hooks, with or without a queue, or not at all; the     *)
(* encoder may run in either case.                                         *)
Start ==
  /\ event = "START" /\ event' = "NONE"
  /\ ~enabled /\ out = 0 /\ out' = 0
  /\ \/ enabled' /\ hooks' /\ closeHook' /\ queue' \in BOOLEAN
     \/ enabled' \in BOOLEAN /\ UNCHANGED <<hooks, closeHook, queue>>

Update ==
  /\ event = "UPDATE" /\ event' = "NONE"
  /\ queue /\ out = 0
  /\ hooks \/ closeHook \/ queue'
  /\ queue' \in BOOLEAN /\ UNCHANGED <<enabled, hooks, closeHook, out>>

(* The main stream is stopped by its event, the others along with it. *)
Stopping == Main => event = "STOP"

Stop ==
  /\ Stopping /\ event' = "NONE"
  /\ out = 0 /\ out' = 0
  /\ ~hooks' /\ ~closeHook'
  /\ enabled' => enabled
  /\ queue' => queue
  /\ ~closeHook => queue' = queue /\ (enabled' = enabled \/ queue)

(* While frames are out STOP only keeps new ones from following. *)
Unhook ==
  /\ Stopping /\ out > 0 /\ ~hooks'
  /\ UNCHANGED <<event, enabled, closeHook, queue, out>>

Send ==
  /\ Main /\ hooks /\ queue /\ event = "NONE"
  /\ out' = out + 1 /\ UNCHANGED <<event, stream>>

Return == out > 0 /\ out' = out - 1 /\ UNCHANGED <<event, stream>>

Next == \/ /\ ~broken /\ ~broken'
           /\ Post \/ Start \/ Update \/ Stop \/ Unhook \/ Send \/ Return
        \/ broken'

Spec == Init /\ [][Next]_vars
=============================================================================
