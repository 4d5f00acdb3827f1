--------------------------------- MODULE MCFwu ---------------------------------
(***************************************************************************)
(* A slot of three pages for TLC, with files that fill it, one that does   *)
(* not fit and one that is not of whole words, and a watchdog that ends    *)
(* before it is erased.                                                    *)
(***************************************************************************)
EXTENDS Fwu

F(n, last) == [blocks |-> n, last |-> last]
FitOrNot == {F(2, "short"), F(2, "full"), F(2, "odd"), F(3, "short")}
OneBlock == {F(1, "short")}

Together == SUBSET {"loss", "quit", "reset"}
===============================================================================
