----------------------------- MODULE MCAtaDrive -----------------------------
(* TLC instance of AtaDrive: three sectors of four bytes. *)
EXTENDS AtaDrive
=============================================================================
