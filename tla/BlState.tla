------------------------------- MODULE BlState -------------------------------
(***************************************************************************)
(* The two bl_state pages word by word: bl_zero_split_idx, bl_get_state    *)
(* and bl_set_state of prod-sbl/main.c, with what an interrupted write or  *)
(* erase leaves in the words.                                              *)
(***************************************************************************)
EXTENDS BlStateCode

CONSTANTS
  Zero, Erased, Junk,   \* 0x00000000, 0xffffffff and anything else
  TornState             \* the operations a reset may interrupt

ASSUME WordsAssumption ==
  /\ Zero # Erased
  /\ Junk \notin {Zero, Erased}
  /\ TornState \subseteq {"write", "erase"}

VARIABLES
  page,  \* mem->bl_state[0] and [1]
  at     \* where bl_process() is

vars == <<page, at>>

Indices == 0 .. StateWords - 1
Cells == {Zero, Erased, Junk}
WordPage == [Indices -> Cells]
ErasedWords == [i \in Indices |-> Erased]

(* Where a loop from i on over the words that hold v stops.                *)
RunEnd(pg, v, i) ==
  CHOOSE k \in i .. StateWords :
    /\ k < StateWords => pg[k] # v
    /\ \A j \in i .. k - 1 : pg[j] = v

BlZeroSplitIdxBugNoTail(pg) == RunEnd(pg, Zero, 0)

BlZeroSplitIdx(pg) ==
  LET i == RunEnd(pg, Zero, 0)
  IN IF i < StateWords /\ RunEnd(pg, Erased, i) < StateWords THEN -1 ELSE i

State == Decode(BlZeroSplitIdx(page[0]), BlZeroSplitIdx(page[1]))

(* Programming a word clears bits: all of them, or some when interrupted.  *)
Write(pg, i, v) == [pg EXCEPT ![i] = v]
(* An interrupted erase has set any of the bits that were not set.         *)
TornErase(pg) ==
  LET Written == {i \in Indices : pg[i] # Erased}
  IN {[i \in Indices |-> IF i \notin Written \/ left[i] = "erased" THEN Erased
                         ELSE IF left[i] = "torn" THEN Junk ELSE pg[i]] :
        left \in [Written -> {"erased", "torn", "kept"}]}

(* bl_set_state(s), called by bl_process() with the state after the        *)
(* current one, or with TO_IDLE.                                           *)
SetState(s) ==
  LET n == SetPage(s)
      i == SetWord(s)
  IN /\ at = "ready"
     /\ \/ s = State + 1 /\ State < RESTORE_1
        \/ s = TO_IDLE /\ State \in {INSTALL, RESTORE_0, RESTORE_1}
     /\ \/ page' = [page EXCEPT ![n] = Write(page[n], i, Zero)]
        \/ /\ "write" \in TornState
           /\ \E v \in Cells : page' = [page EXCEPT ![n] = Write(page[n], i, v)]
     /\ UNCHANGED at

(* ERROR and TO_IDLE end with the erase of page 0, then of page 1.         *)
ToIdle ==
  /\ at = "ready"
  /\ State \in {ERROR, TO_IDLE}
  /\ at' = "erase_0"
  /\ UNCHANGED page

ErasePage(n, next) ==
  \/ page' = [page EXCEPT ![n] = ErasedWords] /\ at' = next
  \/ /\ "erase" \in TornState
     /\ \E q \in TornErase(page[n]) : page' = [page EXCEPT ![n] = q]
     /\ at' = "ready"

ErasePage0BugOrder == at = "erase_0" /\ ErasePage(1, "erase_1")
ErasePage0 == at = "erase_0" /\ ErasePage(0, "erase_1")
ErasePage1 == at = "erase_1" /\ ErasePage(1, "ready")

Reset == at # "ready" /\ at' = "ready" /\ UNCHANGED page

Init == page = [n \in 0 .. 1 |-> ErasedWords] /\ at = "ready"

Next == (\E s \in BlStates : SetState(s)) \/ ToIdle \/ ErasePage0 \/ ErasePage1 \/ Reset

Spec == Init /\ [][Next]_vars
-------------------------------------------------------------------------------
(* Properties *)

TypeOK == page \in [0 .. 1 -> WordPage] /\ at \in {"ready", "erase_0", "erase_1"}

(* The words implement the summary that the model of the boot loader uses: *)
(* the index after the last word that is not erased, and whether           *)
(* bl_zero_split_idx rejects the page.                                     *)
Top(pg) ==
  CHOOSE t \in 0 .. StateWords :
    /\ t > 0 => pg[t - 1] # Erased
    /\ \A j \in t .. StateWords - 1 : pg[j] = Erased

Summary(pg) == [top |-> Top(pg), bad |-> BlZeroSplitIdx(pg) = -1]

Abstract == INSTANCE BlPages WITH bl <- [n \in 0 .. 1 |-> Summary(page[n])]

ImplementsPages == Abstract!PagesSpec

(* A reset never makes bl_get_state() skip a state or go back: what it     *)
(* reads next is the same state, the next one, the way back to IDLE, or    *)
(* ERROR.                                                                  *)
MayRead(old, new) ==
  old # ERROR => \/ new \in {old, old + 1, TO_IDLE, ERROR}
                 \/ old = TO_IDLE /\ new = IDLE

StateAdvances == [][MayRead(State, State')]_vars

(* Once page 1 is marked, the erases can be interrupted any number of      *)
(* times and page 0 is never taken for a state of its own again            *)
(* (main.c:299-303).                                                       *)
MarkGuards ==
  [][page[1] # ErasedWords => State' \in {TO_IDLE, ERROR, IDLE}]_vars
===============================================================================
