------------------------------ MODULE BlStateCode ------------------------------
(***************************************************************************)
(* The persistent state of the boot loader: the enumeration bl_state_e and *)
(* its encoding in the two bl_state flash pages.                           *)
(*                                                                         *)
(* A page is summarised by the index after its last word that is not       *)
(* erased ("top") and by whether bl_zero_split_idx rejects it ("bad", a    *)
(* word that is neither 0 nor erased, or a 0 after an erased word).        *)
(* BlState.tla has the words themselves and is shown to implement these    *)
(* operators.                                                              *)
(***************************************************************************)
EXTENDS Integers

CONSTANT MaxSwapPages   \* BL_MAX_SWAP_PAGES, (PAGE_WORDS - 4) / BL_SWAP_STATES

ASSUME MaxSwapAssumption == MaxSwapPages \in Nat \ {0}

SwapPhases == 4                                   \* BL_SWAP_STATES
StateWords == SwapPhases * MaxSwapPages + 4       \* PAGE_WORDS

IDLE       == 0
INSTALL    == 1
SWAP_START == 2
RUN        == SWAP_START + SwapPhases * MaxSwapPages
RESTORE_0  == RUN + 1
RESTORE_1  == RUN + 2
TO_IDLE    == RUN + 3
ERROR      == RUN + 4

BlStates == IDLE .. ERROR

(* The phases of one page of the swap, bl_swap_state_e.                    *)
ERASE1 == 0
COPY0  == 1
ERASE0 == 2
COPY1  == 3

SwapPage(st)  == (st - SWAP_START) \div SwapPhases
SwapPhase(st) == (st - SWAP_START) % SwapPhases

StatePage == [top : 0 .. StateWords, bad : BOOLEAN]
ClearPage == [top |-> 0, bad |-> FALSE]

(* bl_zero_split_idx on a summarised page.                                 *)
Split(pg) == IF pg.bad THEN -1 ELSE pg.top

(* bl_get_state, from what bl_zero_split_idx finds in the two pages.       *)
DecodeBugUnchecked(enc0, enc1) == IF enc1 = 0 THEN enc0 ELSE TO_IDLE

Decode(enc0, enc1) ==
  IF enc0 < 0 \/ enc1 < 0 \/ enc0 >= TO_IDLE \/ enc1 >= 2 THEN ERROR
  ELSE IF enc1 = 0 THEN enc0 ELSE TO_IDLE

BlGetState(b) == Decode(Split(b[0]), Split(b[1]))

(* A state page after word i of it has been written with 0, and after a    *)
(* reset in the middle of that write.  Skipping a word leaves a gap.       *)
Zeroed(pg, i) ==
  [top |-> IF i < pg.top THEN pg.top ELSE i + 1, bad |-> pg.bad \/ pg.top < i]
TornZero(pg, i) == {pg, Zeroed(pg, i), [top |-> Zeroed(pg, i).top, bad |-> TRUE]}

(* A state page after a reset in the middle of its erase.                  *)
TornClear(pg) ==
  [top : 0 .. pg.top, bad : BOOLEAN] \ {[top |-> 0, bad |-> TRUE]}

(* The page bl_set_state(s) writes, and the word in it.                    *)
SetPage(s) == IF s = TO_IDLE THEN 1 ELSE 0
SetWord(s) == IF s = TO_IDLE THEN 0 ELSE s - INSTALL
===============================================================================
