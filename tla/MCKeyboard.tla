----------------------------- MODULE MCKeyboard -----------------------------
(* TLC instance of Keyboard: the keyboard's task and one more. *)
EXTENDS Keyboard
=============================================================================
