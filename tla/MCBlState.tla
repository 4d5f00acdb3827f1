------------------------------ MODULE MCBlState ------------------------------
(***************************************************************************)
(* State pages of eight words for TLC: one page to swap.                   *)
(***************************************************************************)
EXTENDS BlState
===============================================================================
