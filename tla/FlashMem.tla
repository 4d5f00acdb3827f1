------------------------------- MODULE FlashMem -------------------------------
(***************************************************************************)
(* Flash as the boot loader and the application see it: pages of words,    *)
(* a word write that can only be trusted on an erased word, a page erase,  *)
(* and what a reset in the middle of either leaves behind.                 *)
(*                                                                         *)
(* flash.c only forwards to the NVMC of the nRF52840; the behaviour of the *)
(* hardware is taken from how prod-sbl/main.c uses it: every copy loop     *)
(* writes only over erased words and erases a page that holds neither the  *)
(* source word nor the erased value, which is exactly what a half-finished *)
(* write or erase can leave.                                               *)
(***************************************************************************)
EXTENDS Integers

CONSTANTS
  NPages,     \* pages of a slot: slot_len / FLASH_PAGE_SIZE
  PageWords,  \* words of a page that the model tells apart
  Word,       \* the values of a word
  Erased,     \* 0xffffffff
  Junk        \* what an interrupted write or erase leaves in a word

ASSUME FlashAssumption ==
  /\ NPages \in Nat \ {0}
  /\ PageWords \in Nat \ {0}
  /\ Erased \in Word
  /\ Junk \in Word

Pages == 0 .. NPages - 1         \* slot0; slot1 has one page more
Slot1Pages == 0 .. NPages
Words == 0 .. PageWords - 1
Page == [Words -> Word]
Contents == [Pages -> Page]      \* what a slot-sized area can hold

ErasedPage == [w \in Words |-> Erased]

(* A page after a reset in the middle of its erase.                        *)
TornErase(pg) == {q \in Page : \A w \in Words : q[w] \in {pg[w], Erased, Junk}}

(* A word after a reset in the middle of writing v over it.                *)
TornWrite(u, v) == {u, v, Junk}

(* A page after a reset in the middle of programming pg into it.           *)
TornProgram(pg) == {q \in Page : \A w \in Words : q[w] \in {Erased, pg[w], Junk}}
===============================================================================
