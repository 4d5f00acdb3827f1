------------------------------- MODULE BlPages -------------------------------
(***************************************************************************)
(* What the boot loader does to its two state pages, and nothing else:     *)
(* bl_process() records the next state with bl_set_state(), or erases both *)
(* pages to get back to IDLE; a reset may come between any two operations  *)
(* and inside them.  Pages are summarised as in BlStateCode.               *)
(***************************************************************************)
EXTENDS BlStateCode

CONSTANT TornState   \* the operations a reset may interrupt

VARIABLES
  bl,   \* the two pages
  at    \* "ready" for bl_process(), or between its two erases

pagesVars == <<bl, at>>

State == BlGetState(bl)

(* The transitions bl_process() makes with bl_set_state().                 *)
MaySet(old, new) ==
  \/ new = old + 1 /\ old < RESTORE_1
  \/ new = TO_IDLE /\ old \in {INSTALL, RESTORE_0, RESTORE_1}

(* A reset left page n in one of these conditions, and the other alone.    *)
Damaged(n, outcomes) == bl'[n] \in outcomes /\ bl' = [bl EXCEPT ![n] = bl'[n]]

Set(s) ==
  LET n == SetPage(s)
  IN /\ at = "ready"
     /\ MaySet(State, s)
     /\ \/ bl' = [bl EXCEPT ![n] = Zeroed(bl[n], SetWord(s))]
        \/ /\ "write" \in TornState
           /\ Damaged(n, TornZero(bl[n], SetWord(s)))
     /\ UNCHANGED at

Erase(n, place, next) ==
  /\ at = place
  /\ \/ bl' = [bl EXCEPT ![n] = ClearPage] /\ at' = next
     \/ /\ "erase" \in TornState
        /\ Damaged(n, TornClear(bl[n]))
        /\ at' = "ready"

ToIdle ==
  /\ at = "ready"
  /\ State \in {ERROR, TO_IDLE}
  /\ at' = "erase_0"
  /\ UNCHANGED bl

Reset == at # "ready" /\ at' = "ready" /\ UNCHANGED bl

PagesInit == bl = [n \in 0 .. 1 |-> ClearPage] /\ at = "ready"

PagesNext ==
  \/ \E s \in BlStates : Set(s)
  \/ ToIdle
  \/ Erase(0, "erase_0", "erase_1")
  \/ Erase(1, "erase_1", "ready")
  \/ Reset

PagesSpec == PagesInit /\ [][PagesNext]_pagesVars
===============================================================================
