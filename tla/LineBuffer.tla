----------------------------- MODULE LineBuffer ------------------------------
(***************************************************************************)
(* What a line editor promises: the characters on the two sides of the     *)
(* cursor, which typing, erasing and moving change by one.  "astray" is    *)
(* what its user gets for leaving the line: nothing is promised until the  *)
(* line is entered, not even that the editor survives.                     *)
(***************************************************************************)
EXTENDS Integers, Sequences

CONSTANT Chars

VARIABLES left, right,  \* the text before and after the cursor
          status        \* "editing", "astray", "exited" or "panicked"

vars == <<left, right, status>>

Init == left = <<>> /\ right = <<>> /\ status = "editing"

Edit == status = "editing" /\ status' = "editing"

Type(c) == Edit /\ left' = Append(left, c) /\ right' = right

Erase == /\ Edit /\ left # <<>>
         /\ left' = SubSeq(left, 1, Len(left) - 1) /\ right' = right

MoveLeft == /\ Edit /\ left # <<>>
            /\ left' = SubSeq(left, 1, Len(left) - 1)
            /\ right' = <<left[Len(left)]>> \o right

MoveRight == /\ Edit /\ right # <<>>
             /\ left' = Append(left, Head(right)) /\ right' = Tail(right)

GoAstray == status = "editing" /\ status' = "astray" /\ left' = <<>> /\ right' = <<>>

(* There is nothing to erase: the one key that is fatal at once. *)
EraseNothing == /\ status = "editing" /\ left = <<>>
                /\ status' = "panicked" /\ right' = <<>> /\ UNCHANGED left

(* The line is entered, and its command returns or does not. *)
Enter == /\ status \in {"editing", "astray"} /\ status' \in {"editing", "exited"}
         /\ left' = <<>> /\ right' = <<>>

Crash == status = "astray" /\ status' = "panicked" /\ UNCHANGED <<left, right>>

Next == \/ \E c \in Chars : Type(c)
        \/ Erase \/ EraseNothing \/ MoveLeft \/ MoveRight \/ GoAstray \/ Enter \/ Crash

Spec == Init /\ [][Next]_vars
=============================================================================
