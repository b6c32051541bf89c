--------------------------- MODULE ScancodeChannel ---------------------------
(***************************************************************************)
(* What the keyboard path promises the shell: the bytes the keyboard sends *)
(* arrive once each and in order, except those sent before the channel is  *)
(* open or while it is nearly full; nothing that was accepted is lost, and *)
(* it arrives after a finite time unless the kernel stops.                 *)
(***************************************************************************)
EXTENDS Naturals, Sequences

CONSTANTS Cap,     \* the most bytes that can be under way
          MaxKeys  \* bound on the bytes sent

VARIABLES open, chan, delivered, stopped, pressed

vars == <<open, chan, delivered, stopped, pressed>>

Init == /\ open = FALSE /\ stopped = FALSE
        /\ chan = <<>> /\ delivered = <<>> /\ pressed = 0

Open == ~open /\ open' = TRUE /\ UNCHANGED <<chan, delivered, stopped, pressed>>

(* Any step may turn out to be the kernel's last. *)
MayStop == stopped' \in {stopped, TRUE}

Accept == /\ open /\ Len(chan) < Cap
          /\ pressed < MaxKeys /\ pressed' = pressed + 1
          /\ chan' = Append(chan, pressed')
          /\ MayStop /\ UNCHANGED <<open, delivered>>

(* A byte is refused only by a channel that is closed, or full but for the one
   byte that may be on its way to the shell. *)
Refuse == /\ ~open \/ Len(chan) >= Cap - 1
          /\ pressed < MaxKeys /\ pressed' = pressed + 1
          /\ UNCHANGED <<open, chan, delivered, stopped>>

Deliver == /\ chan # <<>> /\ ~stopped
           /\ delivered' = Append(delivered, Head(chan)) /\ chan' = Tail(chan)
           /\ MayStop /\ UNCHANGED <<open, pressed>>

Stop == stopped' = TRUE /\ UNCHANGED <<open, chan, delivered, pressed>>

Next == Open \/ Accept \/ Refuse \/ Deliver \/ Stop

Safety == Init /\ [][Next]_vars

Spec == Safety /\ WF_vars(Deliver)
=============================================================================
