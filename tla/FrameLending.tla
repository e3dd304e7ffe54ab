----------------------------- MODULE FrameLending -----------------------------
(***************************************************************************)
(* What the frame pool of a live stream promises to the driver and to the  *)
(* library: a bitstream buffer is lent to the program, is either given     *)
(* back at once or queued, the queue is sent in the order in which it was  *)
(* filled, and the buffer that goes back after a frame was sent is the one *)
(* that frame is in.  There are no slots, no keys and no search here;      *)
(* FramePool is shown to implement this with all of them.                  *)
(*                                                                         *)
(* "broken" says that the promise is off: the code has one race after      *)
(* which it no longer holds (FramePool!Sound).                             *)
(***************************************************************************)
EXTENDS Sequences

CONSTANTS
  Bufs,     \* the driver's buffers
  NoBuf     \* none of them

VARIABLES
  lent,     \* buffers the driver has handed out
  hand,     \* the one that was taken and not yet queued
  queue,    \* frames accepted and not yet sent, oldest first
  sending,  \* the frame that was sent and not yet given back
  broken

vars == <<lent, hand, queue, sending, broken>>

Init == /\ lent = {} /\ hand = NoBuf
        /\ queue = <<>> /\ sending = NoBuf
        /\ broken = FALSE

Take == \E b \in Bufs \ lent :
  /\ hand = NoBuf /\ hand' = b
  /\ lent' = lent \cup {b}
  /\ UNCHANGED <<queue, sending>>

Refuse ==
  /\ hand # NoBuf /\ hand' = NoBuf
  /\ lent' = lent \ {hand}
  /\ UNCHANGED <<queue, sending>>

Accept ==
  /\ hand # NoBuf /\ hand' = NoBuf
  /\ queue' = Append(queue, hand)
  /\ UNCHANGED <<lent, sending>>

Send ==
  /\ queue # <<>> /\ queue' = Tail(queue)
  /\ sending = NoBuf /\ sending' = Head(queue)
  /\ UNCHANGED <<lent, hand>>

Return ==
  /\ sending # NoBuf /\ sending' = NoBuf
  /\ lent' = lent \ {sending}
  /\ UNCHANGED <<hand, queue>>

Next == \/ /\ ~broken /\ ~broken'
           /\ Take \/ Refuse \/ Accept \/ Send \/ Return
        \/ broken'

Spec == Init /\ [][Next]_vars
=============================================================================
