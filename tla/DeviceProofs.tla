----------------------------- MODULE DeviceProofs -----------------------------
(***************************************************************************)
(* What holds of Device.tla for every size of the slots, every set of      *)
(* signed images and every set of resets: type correctness, and the        *)
(* recovery of the device from resets during an update.                    *)
(***************************************************************************)
EXTENDS Device, TLAPS

Labels == SblLabels \union AppLabels \union {"off"}

FlashOK ==
  /\ slot0 \in Contents
  /\ slot1 \in [Slot1Pages -> Page]
  /\ bl \in [0 .. 1 -> StatePage]

RegsOK ==
  /\ gpregret \in Cmds
  /\ gpregret2 \in Rsps
  /\ resetreas \subseteq {"SREQ", "OFF"}
  /\ acl \subseteq Regions
  /\ pc \in Labels
  /\ cmd \in Cmds

RamStates == {r \in Ram : r.dl # NoImage => r.offset > 0}

HistoryOK ==
  /\ ram \in RamStates
  /\ accepted \in Nat
  /\ tried \in Signed \union {NoImage}

LEMMA TypeParts == TypeOK <=> FlashOK /\ RegsOK /\ HistoryOK
  BY DEF TypeOK, FlashOK, RegsOK, HistoryOK, Labels, RamStates
-------------------------------------------------------------------------------
(* The state pages *)

LEMMA StateNumbers ==
  /\ StateWords \in Nat /\ StateWords = RUN + 2
  /\ RUN \in Nat /\ RUN > SWAP_START
  /\ IDLE = 0 /\ INSTALL = 1 /\ SWAP_START = 2
  /\ RESTORE_0 = RUN + 1 /\ RESTORE_1 = RUN + 2 /\ TO_IDLE = RUN + 3 /\ ERROR = RUN + 4
  BY MaxSwapAssumption, SMT DEF StateWords, SwapPhases, RUN, SWAP_START, IDLE, INSTALL,
     RESTORE_0, RESTORE_1, TO_IDLE, ERROR

(* bl_get_state() returns one of the states.                               *)
LEMMA StateType ==
  ASSUME NEW b \in [0 .. 1 -> StatePage]
  PROVE  BlGetState(b) \in BlStates
<1> DEFINE e0 == Split(b[0])
           e1 == Split(b[1])
<1>1. b[0] \in StatePage /\ b[1] \in StatePage
  OBVIOUS
<1>2. e0 \in -1 .. StateWords /\ e1 \in -1 .. StateWords
  BY <1>1, StateNumbers DEF Split, StatePage
<1>3. e0 >= 0 /\ e0 < TO_IDLE => e0 \in BlStates
  BY <1>2, StateNumbers DEF BlStates
<1>4. ERROR \in BlStates /\ TO_IDLE \in BlStates
  BY StateNumbers DEF BlStates
<1> QED
  BY <1>2, <1>3, <1>4, StateNumbers DEF BlGetState, Decode

(* Writing a word of a state page, whole or torn.                          *)
LEMMA ZeroedType ==
  ASSUME NEW pg \in StatePage, NEW i \in 0 .. StateWords - 1
  PROVE  Zeroed(pg, i) \in StatePage /\ TornZero(pg, i) \subseteq StatePage
<1>1. Zeroed(pg, i) \in StatePage
  BY StateNumbers DEF Zeroed, StatePage
<1>2. [top |-> Zeroed(pg, i).top, bad |-> TRUE] \in StatePage
  BY <1>1 DEF StatePage
<1> QED
  BY <1>1, <1>2 DEF TornZero
-------------------------------------------------------------------------------
(* What the building blocks of the actions do to the types *)

LEMMA ResetType ==
  ASSUME RegsOK, NEW kind, Reset(kind)
  PROVE  RegsOK' /\ pc' = "main"
  BY DEF RegsOK, Reset, Cmds, Rsps, NONE, NORMAL, Labels, SblLabels, Regions

LEMMA OutsideResetType ==
  ASSUME RegsOK, OutsideReset
  PROVE  RegsOK' /\ pc' = "main"
  BY ResetType DEF OutsideReset

LEMMA GotoType ==
  ASSUME RegsOK, KeepRegs, NEW label \in Labels, Goto(label)
  PROVE  RegsOK'
  BY DEF RegsOK, KeepRegs, regs, Goto

LEMMA WriteSlot0Type ==
  ASSUME FlashOK, RegsOK,
         NEW p \in Pages, NEW pg \in Page, NEW torn \in SUBSET Page, NEW next \in Labels,
         WriteSlot0(p, pg, torn, next)
  PROVE  FlashOK' /\ RegsOK'
  BY GotoType, OutsideResetType DEF WriteSlot0, FlashOK, Contents

LEMMA WriteSlot1Type ==
  ASSUME FlashOK, RegsOK,
         NEW p \in Slot1Pages, NEW pg \in Page, NEW torn \in SUBSET Page, NEW next \in Labels,
         WriteSlot1(p, pg, torn, next)
  PROVE  FlashOK' /\ RegsOK'
  BY GotoType, OutsideResetType DEF WriteSlot1, FlashOK

LEMMA PageTypes ==
  /\ ErasedPage \in Page
  /\ \A pg : TornErase(pg) \subseteq Page
  /\ \A pg : TornProgram(pg) \subseteq Page
  BY FlashAssumption DEF ErasedPage, Page, TornErase, TornProgram

LEMMA CopyTypes ==
  ASSUME NEW dst \in Page, NEW src \in Page, NEW i \in Words
  PROVE  Copied(dst, src, i) \in Page /\ TornCopy(dst, src, i) \subseteq Page
  BY FlashAssumption DEF Copied, TornCopy, TornWrite, Page

LEMMA BlSetStateType ==
  ASSUME FlashOK, RegsOK, NEW s \in (INSTALL .. RESTORE_1) \union {TO_IDLE},
         NEW next \in Labels, BlSetState(s, next)
  PROVE  FlashOK' /\ RegsOK'
<1> DEFINE n == SetPage(s)
<1>1. n \in 0 .. 1 /\ SetWord(s) \in 0 .. StateWords - 1
  BY StateNumbers DEF SetPage, SetWord
<1>2. bl[n] \in StatePage
  BY <1>1 DEF FlashOK
<1>3. /\ Zeroed(bl[n], SetWord(s)) \in StatePage
      /\ TornZero(bl[n], SetWord(s)) \subseteq StatePage
  BY <1>1, <1>2, ZeroedType
<1>4. FlashOK'
  BY <1>1, <1>3 DEF BlSetState, FlashOK
<1>5. RegsOK'
  BY OutsideResetType DEF BlSetState, RegsOK, KeepRegs, regs, Cmds
<1> QED
  BY <1>4, <1>5
-------------------------------------------------------------------------------
(* Type correctness, one lemma per group of actions *)

LEMMA MainTypes ==
  ASSUME FlashOK, RegsOK, Main \/ RunRequested \/ RunNoCheck \/ IdleRun \/ Restart
  PROVE  FlashOK' /\ RegsOK'
<1>1. CASE Main
  BY <1>1 DEF Main, FlashOK, RegsOK, flash, Cmds, Labels, SblLabels, Regions
<1>2. ASSUME NEW next \in Labels, BlRunApp(next)
      PROVE  FlashOK' /\ RegsOK'
  BY <1>2 DEF BlRunApp, Lockdown, Goto, FlashOK, RegsOK, flash, Labels, AppLabels, Regions
<1>3. CASE RunRequested \/ RunNoCheck \/ IdleRun
  BY <1>2, <1>3 DEF RunRequested, RunNoCheck, IdleRun, Labels, SblLabels
<1>4. CASE Restart
  BY <1>4, ResetType DEF Restart, FlashOK, flash
<1> QED
  BY <1>1, <1>3, <1>4

(* The branches of bl_process() that write only registers.                 *)
RegisterStep ==
  \/ IdleNormal \/ InstallError \/ RunState
  \/ RestoreChain \/ RestoreAccepted \/ RestoreBegin \/ RestoreErased
  \/ Restore1Done \/ ErrorState \/ ToIdleNormal \/ ToIdleChain \/ SetRun \/ SetNone

LEMMA RegisterTypes ==
  ASSUME FlashOK, RegsOK, RegisterStep
  PROVE  FlashOK' /\ RegsOK'
<1> DEFINE Quiet == UNCHANGED <<flash, regs>>
<1>1. FlashOK'
  BY DEF RegisterStep, IdleNormal, InstallError, RunState, RestoreChain, RestoreAccepted,
     RestoreBegin, RestoreErased, Restore1Done, ErrorState, ToIdleNormal, ToIdleChain,
     SetRun, SetNone, BlSetRsp, BlSetCmd, FlashOK, flash
<1>2. ASSUME NEW label \in Labels, Goto(label),
             \/ \E r \in Rsps : BlSetRsp(r)
             \/ \E c \in Cmds : BlSetCmd(c)
             \/ Quiet
      PROVE  RegsOK'
  BY <1>2 DEF Goto, BlSetRsp, BlSetCmd, RegsOK, regs
<1>3. /\ {NORMAL, NEW_FW_FIRST_RUN, RESTORE_FIRST_RUN, INSTALL_ERROR, INTERNAL_ERROR} \subseteq Rsps
      /\ {NONE, RUN_APP} \subseteq Cmds /\ cmd \in Cmds
      /\ {"idle_run", "set_run", "set_none", "set_state", "restore_erase", "restore_copy",
           "erase_state_0"} \subseteq Labels
  BY DEF Rsps, Cmds, Labels, SblLabels, RegsOK
<1>5. CASE IdleNormal \/ InstallError \/ RunState \/ RestoreAccepted \/ Restore1Done
           \/ ErrorState \/ ToIdleNormal
  BY <1>1, <1>2, <1>3, <1>5 DEF IdleNormal, InstallError, RunState, RestoreAccepted, Restore1Done,
     ErrorState, ToIdleNormal
<1>6. CASE RestoreChain \/ ToIdleChain \/ SetNone
  BY <1>1, <1>2, <1>3, <1>6 DEF RestoreChain, ToIdleChain, SetNone
<1>7. CASE RestoreBegin \/ RestoreErased
  BY <1>1, <1>2, <1>3, <1>7 DEF RestoreBegin, RestoreErased
<1>8. CASE SetRun
  BY <1>1, <1>2, <1>3, <1>8 DEF SetRun
<1> QED
  BY <1>1, <1>5, <1>6, <1>7, <1>8 DEF RegisterStep
(* The arithmetic of the swap: a state is four times a page plus a phase.  *)
LEMMA SwapArithmetic ==
  ASSUME NEW s \in SWAP_START .. RUN - 1
  PROVE  /\ SwapPage(s) \in 0 .. MaxSwapPages - 1
         /\ SwapPhase(s) \in {ERASE1, COPY0, ERASE0, COPY1}
         /\ s = SWAP_START + 4 * SwapPage(s) + SwapPhase(s)
  BY MaxSwapAssumption, SMT DEF SwapPage, SwapPhase, SwapPhases, SWAP_START, RUN,
     ERASE1, COPY0, ERASE0, COPY1

LEMMA SwapAtFacts ==
  ASSUME FlashOK, NEW phase, SwapAt(phase)
  PROVE  /\ SwapPage(st) \in Pages
         /\ SwapPage(st) \in Slot1Pages /\ SwapPage(st) + 1 \in Slot1Pages
         /\ st \in SWAP_START .. RUN - 1
         /\ SwapPhase(st) = phase
<1>1. st \in SWAP_START .. RUN - 1
  BY StateType, StateNumbers DEF SwapAt, Swapping, FlashOK, st, BlStates
<1> QED
  BY <1>1, SwapArithmetic, FlashAssumption DEF SwapAt, Pages, Slot1Pages

LEMMA SwapNextTypes ==
  ASSUME FlashOK, RegsOK, Swapping, SwapNext
  PROVE  FlashOK' /\ RegsOK'
<1>1. st + 1 \in (INSTALL .. RESTORE_1) \union {TO_IDLE}
  BY StateType, StateNumbers DEF Swapping, FlashOK, st, BlStates
<1> QED
  BY <1>1, BlSetStateType DEF SwapNext, Labels, SblLabels

LEMMA SwapTypes ==
  ASSUME FlashOK, RegsOK, BlSwap
  PROVE  FlashOK' /\ RegsOK'
<1> DEFINE n == SwapPage(st)
<1>1. {"process", "restart"} \subseteq Labels
  BY DEF Labels, SblLabels
<1>2. CASE SwapSkip
  BY <1>2, SwapNextTypes DEF SwapSkip
<1>3. CASE SwapErase1
  <2>1. SwapAt(ERASE1)
    BY <1>3 DEF SwapErase1
  <2>2. CASE SwapNext
    BY <2>1, <2>2, SwapNextTypes DEF SwapAt
  <2>3. CASE EraseSlot1(n, "process")
    BY <2>1, <2>3, <1>1, SwapAtFacts, PageTypes, WriteSlot1Type DEF EraseSlot1
  <2> QED
    BY <1>3, <2>2, <2>3 DEF SwapErase1
<1>4. CASE SwapErase0
  <2>1. SwapAt(ERASE0)
    BY <1>4 DEF SwapErase0
  <2>2. CASE SwapNext
    BY <2>1, <2>2, SwapNextTypes DEF SwapAt
  <2>3. CASE EraseSlot0(n, "process")
    BY <2>1, <2>3, <1>1, SwapAtFacts, PageTypes, WriteSlot0Type DEF EraseSlot0
  <2> QED
    BY <1>4, <2>2, <2>3 DEF SwapErase0
<1>5. CASE SwapCopy0
  <2>1. SwapAt(COPY0) /\ n \in Pages /\ n \in Slot1Pages
    BY <1>5, SwapAtFacts DEF SwapCopy0
  <2>2. slot0[n] \in Page /\ slot1[n] \in Page
    BY <2>1 DEF FlashOK, Contents
  <2>3. CASE SwapNext
    BY <2>1, <2>3, SwapNextTypes DEF SwapAt
  <2>4. ASSUME NEW i \in Words,
               WriteSlot1(n, Copied(slot1[n], slot0[n], i),
                          TornCopy(slot1[n], slot0[n], i), "process")
        PROVE  FlashOK' /\ RegsOK'
    BY <2>1, <2>2, <2>4, <1>1, CopyTypes, WriteSlot1Type
  <2>5. CASE EraseSlot1(n, "restart")
    BY <2>1, <2>5, <1>1, PageTypes, WriteSlot1Type DEF EraseSlot1
  <2> QED
    BY <1>5, <2>3, <2>4, <2>5 DEF SwapCopy0
<1>6. CASE SwapCopy1
  <2>1. SwapAt(COPY1) /\ n \in Pages /\ n + 1 \in Slot1Pages
    BY <1>6, SwapAtFacts DEF SwapCopy1
  <2>2. slot0[n] \in Page /\ slot1[n + 1] \in Page
    BY <2>1 DEF FlashOK, Contents
  <2>3. CASE SwapNext
    BY <2>1, <2>3, SwapNextTypes DEF SwapAt
  <2>4. ASSUME NEW i \in Words,
               WriteSlot0(n, Copied(slot0[n], slot1[n + 1], i),
                          TornCopy(slot0[n], slot1[n + 1], i), "process")
        PROVE  FlashOK' /\ RegsOK'
    BY <2>1, <2>2, <2>4, <1>1, CopyTypes, WriteSlot0Type
  <2>5. CASE EraseSlot0(n, "restart")
    BY <2>1, <2>5, <1>1, PageTypes, WriteSlot0Type DEF EraseSlot0
  <2> QED
    BY <1>6, <2>3, <2>4, <2>5 DEF SwapCopy1
<1> QED
  BY <1>2, <1>3, <1>4, <1>5, <1>6 DEF BlSwap

(* The branches of bl_process() that write or erase flash.                 *)
FlashStep ==
  \/ IdleInstall \/ InstallStart
  \/ RestoreErase \/ RestoreCopy \/ RestoreCopied \/ Restore1Erase
  \/ SetState \/ EraseState0 \/ EraseState1

LEMMA StatePageEraseTypes ==
  ASSUME FlashOK, RegsOK, NEW n \in 0 .. 1, NEW next \in Labels, EraseStatePage(n, next)
  PROVE  FlashOK' /\ RegsOK'
<1>1. ClearPage \in StatePage /\ TornClear(bl[n]) \subseteq StatePage
  <2>1. bl[n].top \in 0 .. StateWords
    BY DEF FlashOK, StatePage
  <2>2. 0 .. bl[n].top \subseteq 0 .. StateWords
    BY <2>1, StateNumbers
  <2>3. TornClear(bl[n]) \subseteq StatePage
    BY <2>2, Zenon DEF StatePage, TornClear
  <2>4. ClearPage \in StatePage
    BY StateNumbers DEF ClearPage, StatePage
  <2>5. QED
    BY <2>3, <2>4
<1> QED
  BY <1>1, GotoType, OutsideResetType DEF EraseStatePage, FlashOK

LEMMA FlashTypes ==
  ASSUME FlashOK, RegsOK, FlashStep
  PROVE  FlashOK' /\ RegsOK'
<1>1. {"process", "restart", "restore_erase", "restore_copy", "erase_state_1"} \subseteq Labels
  BY DEF Labels, SblLabels
<1>2. \A p \in Pages : p \in Slot1Pages /\ slot0[p] \in Page /\ slot1[p] \in Page
  BY FlashAssumption DEF Pages, Slot1Pages, FlashOK, Contents
<1>3. {INSTALL, SWAP_START, RESTORE_0, RESTORE_1, TO_IDLE}
        \subseteq (INSTALL .. RESTORE_1) \union {TO_IDLE}
  BY StateNumbers
<1>4. CASE IdleInstall
  BY <1>1, <1>3, <1>4, BlSetStateType DEF IdleInstall
<1>5. CASE InstallStart
  BY <1>1, <1>3, <1>5, BlSetStateType DEF InstallStart
<1>6. CASE RestoreErase
  BY <1>1, <1>6, PageTypes, WriteSlot0Type DEF RestoreErase, EraseSlot0
<1>7. CASE RestoreCopy
  <2>1. PICK p \in Pages, i \in Words :
          \/ WriteSlot0(p, Copied(slot0[p], slot1[p], i),
                        TornCopy(slot0[p], slot1[p], i), "restore_copy")
          \/ EraseSlot0(p, "restart")
    BY <1>7 DEF RestoreCopy
  <2>2. /\ Copied(slot0[p], slot1[p], i) \in Page
        /\ TornCopy(slot0[p], slot1[p], i) \subseteq Page
    BY <1>2, CopyTypes
  <2> QED
    BY <1>1, <2>1, <2>2, PageTypes, WriteSlot0Type DEF EraseSlot0
<1>8. CASE RestoreCopied
  BY <1>1, <1>3, <1>8, BlSetStateType DEF RestoreCopied
<1>9. CASE Restore1Erase
  BY <1>1, <1>2, <1>9, PageTypes, WriteSlot1Type DEF Restore1Erase, EraseSlot1
<1>10. CASE SetState
  BY <1>1, <1>3, <1>10, BlSetStateType DEF SetState
<1>11. CASE EraseState0 \/ EraseState1
  BY <1>1, <1>11, StatePageEraseTypes DEF EraseState0, EraseState1
<1> QED
  BY <1>4, <1>5, <1>6, <1>7, <1>8, <1>9, <1>10, <1>11 DEF FlashStep
LEMMA SblTypes ==
  ASSUME FlashOK, RegsOK, SblNext
  PROVE  FlashOK' /\ RegsOK'
  BY MainTypes, RegisterTypes, FlashTypes, SwapTypes
  DEF SblNext, BlProcess, RegisterStep, FlashStep

LEMMA RamTypes ==
  ASSUME NEW r \in RamStates \union {NoRam}, RamBecomes(r)
  PROVE  ram' \in RamStates
<1>1. 0 \in 0 .. NPages + 1
  BY FlashAssumption
<1>2. NoRam \in RamStates
  BY <1>1 DEF RamStates, NoRam, Ram, Rsps
<1> QED
  BY <1>2 DEF RamBecomes

LEMMA AcceptedType ==
  ASSUME HistoryOK, slot0 \in Signed, NoteAccepted
  PROVE  accepted' \in Nat
<1>1. Header[slot0].date \in Nat
  BY SblAssumption
<1> QED
  BY <1>1 DEF HistoryOK, NoteAccepted

(* Writing or erasing a page of slot1 from the application.                *)
LEMMA AppWriteTypes ==
  ASSUME FlashOK, RegsOK, HistoryOK, Slot0Valid,
         NEW p \in Slot1Pages, NEW pg \in Page, NEW torn \in SUBSET Page,
         NEW next \in AppLabels, NEW r \in RamStates,
         WriteSlot1(p, pg, torn, next), RamBecomes(r), NoteAccepted, UNCHANGED tried
  PROVE  FlashOK' /\ RegsOK' /\ HistoryOK' /\ Slot0Valid'
<1>1. next \in Labels
  BY DEF Labels
<1>2. FlashOK' /\ RegsOK'
  BY <1>1, WriteSlot1Type
<1>3. HistoryOK'
  BY RamTypes, AcceptedType DEF HistoryOK, Slot0Valid
<1> QED
  BY <1>2, <1>3 DEF WriteSlot1, Slot0Valid

LEMMA ApplicationTypes ==
  ASSUME FlashOK, RegsOK, HistoryOK, AppRunsValid, AppBoot \/ AppCmd \/ WakeUp \/ Crash
  PROVE  FlashOK' /\ RegsOK' /\ HistoryOK' /\ AppRunsValid'
<1>1. /\ AppLabels \subseteq Labels /\ "off" \in Labels /\ "main" \in Labels
      /\ NONE \in Cmds
  BY DEF Labels, SblLabels, Cmds
<1>2. NoRam \in RamStates /\ ram \in RamStates
  BY FlashAssumption DEF RamStates, NoRam, Ram, Rsps, HistoryOK
<1>3. CASE AppStart
  <2>1. ram' \in RamStates
    BY <1>2, <1>3 DEF AppStart, RamStates, Ram, NoRam, RegsOK
  <2> QED
    BY <1>1, <1>3, <2>1 DEF AppStart, Goto, FlashOK, RegsOK, HistoryOK, flash, AppLabels, AppRunsValid, Slot0Valid
<1>4. CASE AppRsp
  <2>1. ram' \in RamStates
    BY <1>2, <1>4 DEF AppRsp, RamStates, Ram, RegsOK
  <2> QED
    BY <1>1, <1>4, <2>1 DEF AppRsp, Goto, FlashOK, RegsOK, HistoryOK, flash, AppLabels, Rsps,
       AppRunsValid, Slot0Valid
<1>5. ASSUME NEW c \in Cmds, SblRun(c)
      PROVE  FlashOK' /\ RegsOK' /\ HistoryOK' /\ AppRunsValid'
  BY <1>1, <1>2, <1>5 DEF SblRun, FlashOK, RegsOK, HistoryOK, flash, AppLabels, AppRunsValid, Slot0Valid
<1>6. CASE AcceptImage
  <2>1. 0 \in Slot1Pages /\ "app" \in AppLabels /\ Slot0Valid
    BY <1>6, FlashAssumption DEF AcceptImage, Slot1Pages, AppLabels, AppRunsValid, Slot0Valid
  <2> QED
    <3>1. WriteSlot1(0, ErasedPage, TornErase(slot1[0]), "app")
      BY <1>6 DEF AcceptImage, EraseSlot1
    <3>2. RamBecomes(ram) /\ NoteAccepted /\ UNCHANGED tried
      BY <1>6 DEF AcceptImage
    <3> QED
      BY <1>2, <2>1, <3>1, <3>2, PageTypes, AppWriteTypes DEF AppRunsValid
<1>7. CASE FwStart
  <2>1. PICK image \in Signed : ram' = [ram EXCEPT !.dl = image, !.offset = 1]
    BY <1>7 DEF FwStart
  <2>2. ram' = [dl |-> image, offset |-> 1, rsp |-> ram.rsp, reason |-> ram.reason]
    BY <1>2, <2>1 DEF RamStates, Ram
  <2>3. ram' \in RamStates
    BY <1>2, <2>2, FlashAssumption DEF RamStates, Ram
  <2> QED
    BY <1>1, <1>7, <2>3 DEF FwStart, Goto, FlashOK, RegsOK, HistoryOK, flash, regs, AppLabels, AppRunsValid, Slot0Valid
<1>8. CASE FwErase
  <2>1. PICK p \in Slot1Pages : EraseSlot1(p, "fw_erase")
    BY <1>8 DEF FwErase
  <2>2. "fw_erase" \in AppLabels /\ Slot0Valid
    BY <1>8 DEF FwErase, AppLabels, AppRunsValid, Slot0Valid
  <2> QED
    <3>1. WriteSlot1(p, ErasedPage, TornErase(slot1[p]), "fw_erase")
      BY <2>1 DEF EraseSlot1
    <3>2. RamBecomes(ram) /\ NoteAccepted /\ UNCHANGED tried
      BY <1>8 DEF FwErase
    <3> QED
      BY <1>2, <2>2, <3>1, <3>2, PageTypes, AppWriteTypes DEF AppRunsValid
<1>9. CASE FwErased
  BY <1>1, <1>9 DEF FwErased, Goto, FlashOK, RegsOK, HistoryOK, flash, regs, appVars, AppLabels, AppRunsValid, Slot0Valid
<1>10. CASE FwBlock
  <2> DEFINE n == ram.offset
             page == ram.dl[n - 1]
  <2>1. n \in Slot1Pages /\ ram.dl \in Signed /\ n - 1 \in Pages /\ Slot0Valid
    BY <1>2, <1>10, FlashAssumption
    DEF FwBlock, RamStates, Ram, Slot1Pages, Pages, AppLabels, AppRunsValid, Slot0Valid
  <2>2. page \in Page
    BY <2>1, SblAssumption DEF Contents
  <2>3. [ram EXCEPT !.offset = n + 1] \in RamStates
    BY <1>2, <1>10, <2>1, FlashAssumption DEF FwBlock, RamStates, Ram, Slot1Pages, Pages
  <2>4. "app" \in AppLabels
    BY DEF AppLabels, AppRunsValid, Slot0Valid
  <2> QED
    <3>1. WriteSlot1(n, page, TornProgram(page), "app")
      BY <1>10 DEF FwBlock
    <3>2. RamBecomes([ram EXCEPT !.offset = n + 1]) /\ NoteAccepted /\ UNCHANGED tried
      BY <1>10 DEF FwBlock
    <3> HIDE DEF n, page
    <3> QED
      BY <2>1, <2>2, <2>3, <2>4, <3>1, <3>2, PageTypes, AppWriteTypes DEF AppRunsValid
<1>11. CASE FwSchedule \/ AppSblRun
  <2>1. INSTALL_APP \in Cmds /\ AppCmds \subseteq Cmds
    BY DeviceAssumption DEF Cmds
  <2> QED
    BY <1>5, <1>11, <2>1 DEF FwSchedule, AppSblRun
<1>12. CASE Stop \/ WakeUp
  BY <1>1, <1>2, <1>12
  DEF Stop, WakeUp, Goto, FlashOK, RegsOK, HistoryOK, flash, regs, appVars, AppLabels, AppRunsValid, Slot0Valid
<1>13. CASE Crash
  BY <1>2, <1>13, ResetType DEF Crash, FlashOK, HistoryOK, flash, AppLabels, AppRunsValid, Slot0Valid
<1> QED
  BY <1>3, <1>4, <1>6, <1>7, <1>8, <1>9, <1>10, <1>11, <1>12, <1>13 DEF AppBoot, AppCmd
(* The application only runs after the jump of app_run(), which checked    *)
(* slot0, and no step of the boot loader leads there but that jump.        *)
LEMMA OnlyValidRuns ==
  ASSUME RegsOK, AppRunsValid, SblNext
  PROVE  AppRunsValid'
<1>1. CASE RunRequested \/ IdleRun \/ RunNoCheck
  BY <1>1 DEF RunRequested, IdleRun, RunNoCheck, BlRunApp, Goto, AppLabels, AppRunsValid,
     Slot0Valid, flash
<1>2. CASE Main \/ Restart
  BY <1>2 DEF Main, Restart, Reset, AppLabels, AppRunsValid
<1>3. CASE RegisterStep
  BY <1>3 DEF RegisterStep, IdleNormal, InstallError, RunState, RestoreChain,
     RestoreAccepted, RestoreBegin, RestoreErased, Restore1Done, ErrorState, ToIdleNormal,
     ToIdleChain, SetRun, SetNone, Goto, AppLabels, AppRunsValid
<1>4. ASSUME NEW next, next \notin AppLabels,
             \/ \E s : BlSetState(s, next)
             \/ \E p, pg, torn : WriteSlot0(p, pg, torn, next) \/ WriteSlot1(p, pg, torn, next)
             \/ \E n : EraseStatePage(n, next)
      PROVE  AppRunsValid'
  BY <1>4 DEF BlSetState, WriteSlot0, WriteSlot1, EraseStatePage, OutsideReset, Reset, Goto,
     AppLabels, AppRunsValid
<1>5. \A next \in {"process", "restart", "restore_erase", "restore_copy", "erase_state_1"} :
        next \notin AppLabels
  BY DEF AppLabels
<1>6. CASE FlashStep
  BY <1>4, <1>5, <1>6 DEF FlashStep, IdleInstall, InstallStart, RestoreErase, RestoreCopy,
     RestoreCopied, Restore1Erase, SetState, EraseState0, EraseState1, EraseSlot0, EraseSlot1
<1>7. CASE BlSwap
  BY <1>4, <1>5, <1>7 DEF BlSwap, SwapSkip, SwapErase1, SwapCopy0, SwapErase0, SwapCopy1,
     SwapNext, EraseSlot0, EraseSlot1
<1> QED
  BY <1>1, <1>2, <1>3, <1>6, <1>7 DEF SblNext, BlProcess, RegisterStep, FlashStep

LEMMA TypeInit == Init => TypeOK /\ AppRunsValid
<1> SUFFICES ASSUME Init PROVE TypeOK /\ AppRunsValid
  OBVIOUS
<1>1. FlashOK
  BY PageTypes, SblAssumption, StateNumbers
  DEF Init, SblInit, FlashOK, StatePage, ClearPage
<1>2. RegsOK /\ AppRunsValid
  BY DEF Init, SblInit, RegsOK, Cmds, Rsps, Labels, SblLabels, AppLabels, AppRunsValid
<1>3. HistoryOK
  BY FlashAssumption DEF Init, HistoryOK, RamStates, Ram, NoRam, Rsps
<1> QED
  BY <1>1, <1>2, <1>3, TypeParts

LEMMA TypeStep == TypeOK /\ AppRunsValid /\ [Next]_vars => TypeOK' /\ AppRunsValid'
<1> SUFFICES ASSUME TypeOK, AppRunsValid, [Next]_vars
             PROVE  TypeOK' /\ AppRunsValid'
  OBVIOUS
<1>1. FlashOK /\ RegsOK /\ HistoryOK
  BY TypeParts
<1>2. FlashOK' /\ RegsOK' /\ HistoryOK' => TypeOK'
  BY DEF TypeOK, FlashOK, RegsOK, HistoryOK, Labels, RamStates
<1>3. CASE SblNext /\ UNCHANGED appVars
  BY <1>1, <1>2, <1>3, SblTypes, OnlyValidRuns DEF HistoryOK, appVars
<1>4. CASE AppBoot \/ AppCmd \/ WakeUp \/ Crash
  BY <1>1, <1>2, <1>4, ApplicationTypes
<1>5. CASE UNCHANGED vars
  BY <1>1, <1>2, <1>5 DEF FlashOK, RegsOK, HistoryOK, AppRunsValid, Slot0Valid, vars, sblVars, appVars
<1> QED
  BY <1>3, <1>4, <1>5 DEF Next

(* Every variable keeps its type, and the application that runs is always  *)
(* an image that app_image_valid() accepts.                                *)
THEOREM TypeCorrect == Spec => [](TypeOK /\ AppRunsValid)
<1>1. Init => TypeOK /\ AppRunsValid
  BY TypeInit
<1>2. TypeOK /\ AppRunsValid /\ [Next]_vars => (TypeOK /\ AppRunsValid)'
  BY TypeStep
<1> QED
  BY <1>1, <1>2, PTL DEF Spec
-------------------------------------------------------------------------------
(* What is locked *)

(* The places where slot0 and bl_state may be locked: from bl_run_app() on *)
(* to the next reset.                                                      *)
LockedLabels == AppLabels \union {"off", "shutdown", "restart", "wild"}

LocksHold ==
  /\ pc # "main" => "bl" \in acl
  /\ "slot0" \in acl \/ "bl_state" \in acl => pc \in LockedLabels
  /\ AppConfined

LEMMA LockdownHolds ==
  ASSUME LocksHold, pc # "main", NEW next \in {"restart", "wild", "shutdown"}, BlRunApp(next)
  PROVE  LocksHold'
<1>1. "bl" \in acl' /\ {"bl_state", "slot0"} \subseteq acl'
  BY DEF BlRunApp, Lockdown, LocksHold
<1>2. Slot0Valid /\ Header[slot0].type >= APP_TYPE_AFI => "mfidata" \in acl'
  BY DEF BlRunApp, Lockdown, AppType
<1>3. /\ pc' \in AppLabels => pc' = "app_start" /\ Slot0Valid
      /\ pc' \in LockedLabels /\ slot0' = slot0
  BY DEF BlRunApp, Goto, AppLabels, LockedLabels, flash
<1> QED
  BY <1>1, <1>2, <1>3 DEF LocksHold, AppConfined

(* Every other step but those of the application forgets the locks with a  *)
(* reset, or keeps them and stays where nothing is locked.                 *)
LEMMA ResetUnlocks ==
  ASSUME acl' = {}, pc' = "main"
  PROVE  LocksHold'
  BY DEF LocksHold, AppConfined, AppLabels

LEMMA SblUnlocked ==
  ASSUME LocksHold, SblNext
  PROVE  /\ LocksHold'
         /\ "slot0" \in acl \/ "bl_state" \in acl => UNCHANGED <<slot0, bl>>
<1>1. CASE RunRequested \/ RunNoCheck \/ IdleRun
  BY <1>1, LockdownHolds DEF RunRequested, RunNoCheck, IdleRun, BlRunApp, flash
<1>2. CASE Main
  BY <1>2 DEF Main, LocksHold, AppConfined, AppLabels, flash
<1>3. CASE Restart
  BY <1>3, ResetUnlocks DEF Restart, Reset, flash
<1>4. ASSUME pc \notin LockedLabels \union {"main"},
             \/ acl' = {} /\ pc' = "main"
             \/ acl' = acl /\ pc' \notin AppLabels \union {"main"}
      PROVE  LocksHold' /\ "slot0" \notin acl /\ "bl_state" \notin acl
  BY <1>4, ResetUnlocks DEF LocksHold, AppConfined
<1>5. CASE RegisterStep
  <2>1. pc \notin LockedLabels \union {"main"}
    BY <1>5 DEF RegisterStep, IdleNormal, InstallError, RunState, RestoreChain, RestoreAccepted,
       RestoreBegin, RestoreErased, Restore1Done, ErrorState, ToIdleNormal, ToIdleChain,
       SetRun, SetNone, Process, LockedLabels, AppLabels
  <2>2. acl' = acl
    BY <1>5 DEF RegisterStep, IdleNormal, InstallError, RunState, RestoreChain, RestoreAccepted,
       RestoreBegin, RestoreErased, Restore1Done, ErrorState, ToIdleNormal, ToIdleChain,
       SetRun, SetNone, BlSetRsp, BlSetCmd, regs
  <2>3. pc' \notin AppLabels \union {"main"}
    BY <1>5 DEF RegisterStep, IdleNormal, InstallError, RunState, RestoreChain, RestoreAccepted,
       RestoreBegin, RestoreErased, Restore1Done, ErrorState, ToIdleNormal, ToIdleChain,
       SetRun, SetNone, Goto, AppLabels
  <2> QED
    BY <1>4, <2>1, <2>2, <2>3
<1>6. ASSUME NEW next \in {"process", "restart", "restore_erase", "restore_copy", "erase_state_1"},
             \/ \E s : BlSetState(s, next)
             \/ \E p, pg, torn : WriteSlot0(p, pg, torn, next) \/ WriteSlot1(p, pg, torn, next)
             \/ \E n : EraseStatePage(n, next)
      PROVE  \/ acl' = {} /\ pc' = "main"
             \/ acl' = acl /\ pc' \notin AppLabels \union {"main"}
  BY <1>6 DEF BlSetState, WriteSlot0, WriteSlot1, EraseStatePage, OutsideReset, Reset, Goto,
     KeepRegs, regs, AppLabels
<1>7. CASE FlashStep
  <2>1. pc \notin LockedLabels \union {"main"}
    BY <1>7 DEF FlashStep, IdleInstall, InstallStart, RestoreErase, RestoreCopy,
       RestoreCopied, Restore1Erase, SetState, EraseState0, EraseState1, Process,
       LockedLabels, AppLabels
  <2>2. \/ acl' = {} /\ pc' = "main"
        \/ acl' = acl /\ pc' \notin AppLabels \union {"main"}
    BY <1>6, <1>7 DEF FlashStep, IdleInstall, InstallStart, RestoreErase, RestoreCopy,
       RestoreCopied, Restore1Erase, SetState, EraseState0, EraseState1, EraseSlot0, EraseSlot1
  <2> QED
    BY <1>4, <2>1, <2>2
<1>8. CASE BlSwap
  <2>1. pc \notin LockedLabels \union {"main"}
    BY <1>8 DEF BlSwap, SwapSkip, SwapErase1, SwapCopy0, SwapErase0, SwapCopy1, SwapAt,
       LockedLabels, AppLabels
  <2>2. \/ acl' = {} /\ pc' = "main"
        \/ acl' = acl /\ pc' \notin AppLabels \union {"main"}
    BY <1>6, <1>8 DEF BlSwap, SwapSkip, SwapErase1, SwapCopy0, SwapErase0, SwapCopy1,
       SwapNext, EraseSlot0, EraseSlot1
  <2> QED
    BY <1>4, <2>1, <2>2
<1> QED
  BY <1>1, <1>2, <1>3, <1>5, <1>7, <1>8 DEF SblNext, BlProcess, RegisterStep, FlashStep

LEMMA AppUnlocked ==
  ASSUME LocksHold, AppBoot \/ AppCmd \/ WakeUp \/ Crash
  PROVE  LocksHold' /\ UNCHANGED <<slot0, bl>>
<1>1. UNCHANGED <<slot0, bl>>
  BY DEF AppBoot, AppStart, AppRsp, AppCmd, AcceptImage, FwStart, FwErase, FwErased, FwBlock,
     FwSchedule, AppSblRun, Stop, WakeUp, Crash, SblRun, EraseSlot1, WriteSlot1, flash
<1>2. CASE WakeUp \/ Crash
  BY <1>1, <1>2, ResetUnlocks DEF WakeUp, Crash, Reset
<1>3. CASE AppBoot \/ AppCmd
  <2>1. pc \in AppLabels
    BY <1>3 DEF AppBoot, AppStart, AppRsp, AppCmd, AcceptImage, FwStart, FwErase, FwErased,
       FwBlock, FwSchedule, AppSblRun, Stop, AppLabels
  <2>2. \/ acl' = {} /\ pc' = "main"
        \/ acl' = acl /\ pc' \in AppLabels \union {"off"}
    BY <1>3 DEF AppBoot, AppStart, AppRsp, AppCmd, AcceptImage, FwStart, FwErase, FwErased,
       FwBlock, FwSchedule, AppSblRun, Stop, SblRun, EraseSlot1, WriteSlot1, OutsideReset,
       Reset, KeepRegs, regs, Goto, AppLabels
  <2> QED
    BY <1>1, <2>1, <2>2, ResetUnlocks DEF LocksHold, AppConfined, LockedLabels, AppLabels
<1> QED
  BY <1>1, <1>2, <1>3

LEMMA LocksStep ==
  ASSUME LocksHold, [Next]_vars
  PROVE  /\ LocksHold'
         /\ "slot0" \in acl => slot0' = slot0
         /\ "bl_state" \in acl => bl' = bl
<1>1. CASE UNCHANGED vars
  BY <1>1 DEF vars, sblVars, LocksHold, AppConfined
<1> QED
  BY <1>1, SblUnlocked, AppUnlocked DEF Next

LEMMA LocksInit == Init => LocksHold
  BY DEF Init, SblInit, LocksHold, AppConfined, AppLabels

(* No step of the application, and no reset during it, changes slot0 or    *)
(* the pages that hold the boot loader's state.                            *)
AppKeeps == [][(pc \in AppLabels) => UNCHANGED <<slot0, bl>>]_vars

(* Whenever the application runs, after whatever resets, its ACL regions   *)
(* are the boot loader, its state and slot0, and for an AFI image the      *)
(* manufacturing data: no step from there, a reset included, changes slot0 *)
(* or the state pages.                                                     *)
THEOREM ApplicationConfined == Spec => []AppConfined /\ AppKeeps
<1>1. LocksHold => AppConfined
  BY DEF LocksHold
<1>2. ASSUME LocksHold, [Next]_vars
      PROVE  LocksHold' /\ [(pc \in AppLabels) => UNCHANGED <<slot0, bl>>]_vars
  <2>1. LocksHold' /\ ("slot0" \in acl => slot0' = slot0) /\ ("bl_state" \in acl => bl' = bl)
    BY <1>2, LocksStep
  <2>2. pc \in AppLabels => "slot0" \in acl /\ "bl_state" \in acl
    BY <1>1, <1>2 DEF AppConfined
  <2> QED
    BY <2>1, <2>2
<1> QED
  BY <1>1, <1>2, LocksInit, PTL DEF Spec, AppKeeps

(* The boot loader never writes to what it has locked.                     *)
THEOREM LocksRespected == Spec => LockedUntouched
<1>1. LocksHold /\ [Next]_vars =>
        LocksHold' /\ [/\ "slot0" \in acl => slot0' = slot0
                       /\ "bl_state" \in acl => bl' = bl]_vars
  BY LocksStep
<1> QED
  BY <1>1, LocksInit, PTL DEF Spec, LockedUntouched
-------------------------------------------------------------------------------
(* What the boot loader does to the two state pages *)

(* Which states can be met at the places where the rest of a branch of     *)
(* bl_process() records the next one.                                      *)
PlacesTell ==
  /\ pc = "set_run" => st \in {INSTALL, RUN, RESTORE_1, ERROR, TO_IDLE}
  /\ pc = "set_none" => st = RESTORE_0
  /\ pc = "set_state" => st \in {INSTALL, RUN, RESTORE_0, RESTORE_1}
  /\ pc = "erase_state_0" => st \in {ERROR, TO_IDLE}

LEMMA SamePages ==
  /\ StatePages!BlStates = BlStates
  /\ StatePages!ClearPage = ClearPage
  /\ StatePages!INSTALL = INSTALL /\ StatePages!RESTORE_0 = RESTORE_0
  /\ StatePages!RESTORE_1 = RESTORE_1 /\ StatePages!TO_IDLE = TO_IDLE
  /\ StatePages!ERROR = ERROR
  /\ \A s : StatePages!SetPage(s) = SetPage(s) /\ StatePages!SetWord(s) = SetWord(s)
  /\ \A pg : StatePages!TornClear(pg) = TornClear(pg)
  /\ \A pg, i : StatePages!Zeroed(pg, i) = Zeroed(pg, i)
  /\ \A pg, i : StatePages!TornZero(pg, i) = TornZero(pg, i)
  /\ StatePages!State = st
<1> USE DEF StatePages!IDLE, IDLE, StatePages!INSTALL, INSTALL, StatePages!SWAP_START, SWAP_START,
      StatePages!RUN, RUN, StatePages!RESTORE_0, RESTORE_0, StatePages!RESTORE_1, RESTORE_1,
      StatePages!TO_IDLE, TO_IDLE, StatePages!ERROR, ERROR, StatePages!SwapPhases, SwapPhases,
      StatePages!StateWords, StateWords
<1>1. StatePages!BlStates = BlStates
  BY Zenon DEF StatePages!BlStates, BlStates
<1>2. StatePages!ClearPage = ClearPage
  BY Zenon DEF StatePages!ClearPage, ClearPage
<1>3. /\ StatePages!INSTALL = INSTALL /\ StatePages!RESTORE_0 = RESTORE_0
      /\ StatePages!RESTORE_1 = RESTORE_1 /\ StatePages!TO_IDLE = TO_IDLE
      /\ StatePages!ERROR = ERROR
  BY Zenon
<1>4. ASSUME NEW s
      PROVE  StatePages!SetPage(s) = SetPage(s) /\ StatePages!SetWord(s) = SetWord(s)
  BY Zenon DEF StatePages!SetPage, SetPage, StatePages!SetWord, SetWord
<1>5. ASSUME NEW pg PROVE StatePages!TornClear(pg) = TornClear(pg)
  BY Zenon DEF StatePages!TornClear, TornClear, StatePages!StatePage, StatePage
<1>6. ASSUME NEW pg, NEW i PROVE StatePages!Zeroed(pg, i) = Zeroed(pg, i)
  BY Zenon DEF StatePages!Zeroed, Zeroed
<1>7. ASSUME NEW pg, NEW i PROVE StatePages!TornZero(pg, i) = TornZero(pg, i)
  BY <1>6, Zenon DEF StatePages!TornZero, TornZero
<1>8. StatePages!State = st
  BY Zenon DEF StatePages!State, st, StatePages!BlGetState, BlGetState, StatePages!Split, Split,
     StatePages!Decode, Decode
<1> HIDE DEF StatePages!IDLE, IDLE, StatePages!INSTALL, INSTALL, StatePages!SWAP_START, SWAP_START,
      StatePages!RUN, RUN, StatePages!RESTORE_0, RESTORE_0, StatePages!RESTORE_1, RESTORE_1,
      StatePages!TO_IDLE, TO_IDLE, StatePages!ERROR, ERROR, StatePages!SwapPhases, SwapPhases,
      StatePages!StateWords, StateWords
<1> QED
  BY <1>1, <1>2, <1>3, <1>4, <1>5, <1>6, <1>7, <1>8, Zenon

LEMMA PlaceReady ==
  /\ pc \notin {"erase_state_0", "erase_state_1"} => StatePlace = "ready"
  /\ pc' \notin {"erase_state_0", "erase_state_1"} => StatePlace' = "ready"
  BY DEF StatePlace

(* A step that leaves the state pages alone, which may be a reset between  *)
(* their two erases.                                                       *)
LEMMA PagesReset ==
  ASSUME bl' = bl, pc' \notin {"erase_state_0", "erase_state_1"}
  PROVE  [StatePages!PagesNext]_(StatePages!pagesVars)
<1>1. StatePlace' = "ready"
  BY PlaceReady
<1>2. StatePages!Reset \/ StatePlace = "ready"
  BY <1>1 DEF StatePages!Reset
<1> QED
  BY <1>1, <1>2 DEF StatePages!pagesVars, StatePages!PagesNext

(* bl_set_state() records a state the pages allow.                         *)
LEMMA PagesSet ==
  ASSUME FlashOK, pc \notin {"erase_state_0", "erase_state_1"},
         NEW s \in BlStates, NEW next, next \notin {"erase_state_0", "erase_state_1"},
         BlSetState(s, next),
         s # TO_IDLE => st < RESTORE_1,
         s = TO_IDLE => st \in {INSTALL, RESTORE_0, RESTORE_1}
  PROVE  [StatePages!PagesNext]_(StatePages!pagesVars)
<1> DEFINE n == SetPage(s)
<1>1. n \in 0 .. 1
  BY DEF SetPage
<1>2. pc' \in {next, "main"}
  BY DEF BlSetState, OutsideReset, Reset
<1>3. StatePlace = "ready" /\ StatePlace' = "ready"
  BY <1>2, PlaceReady
<1>4. \/ bl' = [bl EXCEPT ![n] = Zeroed(bl[n], SetWord(s))]
      \/ /\ "write" \in TornState
         /\ bl'[n] \in TornZero(bl[n], SetWord(s))
         /\ bl' = [bl EXCEPT ![n] = bl'[n]]
  BY <1>1 DEF BlSetState, FlashOK
<1>5. StatePages!MaySet(st, s)
  BY SamePages DEF BlSetState, StatePages!MaySet
<1>6. StatePages!Set(s)
  BY <1>3, <1>4, <1>5, SamePages, Zenon DEF StatePages!Set, StatePages!Damaged, n
<1> QED
  BY <1>6, SamePages DEF StatePages!PagesNext

LEMMA PagesErase ==
  ASSUME FlashOK, NEW n \in 0 .. 1, NEW next, NEW place, NEW after,
         EraseStatePage(n, next),
         StatePlace = place, pc' = next => StatePlace' = after,
         <<n, place, after>> \in {<<0, "erase_0", "erase_1">>, <<1, "erase_1", "ready">>}
  PROVE  [StatePages!PagesNext]_(StatePages!pagesVars)
<1>1. CASE bl' = [bl EXCEPT ![n] = ClearPage] /\ pc' = next
  <2>1. StatePages!Erase(n, place, after)
    BY <1>1, SamePages DEF StatePages!Erase
  <2> QED
    BY <2>1 DEF StatePages!PagesNext
<1>2. CASE "erase" \in TornState /\ (\E q \in TornClear(bl[n]) : bl' = [bl EXCEPT ![n] = q])
           /\ pc' = "main"
  <2>1. bl'[n] \in TornClear(bl[n]) /\ bl' = [bl EXCEPT ![n] = bl'[n]]
    BY <1>2 DEF FlashOK
  <2>2. StatePlace' = "ready"
    BY <1>2, PlaceReady
  <2>3. StatePages!Erase(n, place, after)
    BY <1>2, <2>1, <2>2, SamePages DEF StatePages!Erase, StatePages!Damaged
  <2> QED
    BY <2>3 DEF StatePages!PagesNext
<1> QED
  BY <1>1, <1>2 DEF EraseStatePage, OutsideReset, Reset, Goto

(* One lemma per group of actions: what they do to the pages, and that the *)
(* places still tell.                                                      *)
ErasingLabels == {"erase_state_0", "erase_state_1"}
TellingLabels == {"set_run", "set_none", "set_state"} \union ErasingLabels

LEMMA PlacesKept ==
  ASSUME pc' \notin TellingLabels \/ pc' = "erase_state_1"
  PROVE  PlacesTell'
  BY DEF PlacesTell, TellingLabels, ErasingLabels

LEMMA PagesRegister ==
  ASSUME FlashOK, PlacesTell, RegisterStep
  PROVE  PlacesTell' /\ [StatePages!PagesNext]_(StatePages!pagesVars)
<1>1. bl' = bl /\ st' = st
  BY DEF RegisterStep, IdleNormal, InstallError, RunState, RestoreChain, RestoreAccepted,
     RestoreBegin, RestoreErased, Restore1Done, ErrorState, ToIdleNormal, ToIdleChain,
     SetRun, SetNone, BlSetRsp, BlSetCmd, flash, st
<1>2. CASE ToIdleChain \/ (SetRun /\ st \in {ERROR, TO_IDLE})
  <2>1. pc' = "erase_state_0" /\ st \in {ERROR, TO_IDLE} /\ pc \notin ErasingLabels
    BY <1>2 DEF ToIdleChain, SetRun, Process, Goto, ErasingLabels
  <2>2. StatePlace = "ready" /\ StatePlace' = "erase_0"
    BY <2>1, PlaceReady DEF StatePlace, ErasingLabels
  <2>3. StatePages!ToIdle
    BY <1>1, <2>1, <2>2, SamePages DEF StatePages!ToIdle
  <2> QED
    BY <1>1, <2>1, <2>3 DEF StatePages!PagesNext, PlacesTell
<1>3. CASE ~(ToIdleChain \/ (SetRun /\ st \in {ERROR, TO_IDLE}))
  <2>1. /\ pc' \notin ErasingLabels
        /\ pc' = "set_run" => st \in {INSTALL, RUN, RESTORE_1, ERROR, TO_IDLE}
        /\ pc' = "set_none" => st = RESTORE_0
        /\ pc' = "set_state" => st \in {INSTALL, RUN, RESTORE_0, RESTORE_1}
    BY <1>3 DEF RegisterStep, IdleNormal, InstallError, RunState, RestoreChain, RestoreAccepted,
       RestoreBegin, RestoreErased, Restore1Done, ErrorState, ToIdleNormal, ToIdleChain,
       SetRun, SetNone, Process, Goto, PlacesTell, ErasingLabels
  <2> QED
    BY <1>1, <2>1, PagesReset DEF PlacesTell, ErasingLabels
<1> QED
  BY <1>2, <1>3

LEMMA PagesFlash ==
  ASSUME FlashOK, PlacesTell, FlashStep \/ BlSwap
  PROVE  PlacesTell' /\ [StatePages!PagesNext]_(StatePages!pagesVars)
<1>1. ASSUME NEW next, next \notin TellingLabels,
             \E p, pg, torn : WriteSlot0(p, pg, torn, next) \/ WriteSlot1(p, pg, torn, next)
      PROVE  PlacesTell' /\ [StatePages!PagesNext]_(StatePages!pagesVars)
  <2>1. bl' = bl /\ pc' \in {next, "main"}
    BY <1>1 DEF WriteSlot0, WriteSlot1, OutsideReset, Reset, Goto
  <2> QED
    BY <1>1, <2>1, PlacesKept, PagesReset DEF TellingLabels, ErasingLabels
<1>2. ASSUME NEW s \in BlStates, NEW next, next \notin TellingLabels, BlSetState(s, next),
             pc \notin ErasingLabels,
             s # TO_IDLE => st < RESTORE_1, s = TO_IDLE => st \in {INSTALL, RESTORE_0, RESTORE_1}
      PROVE  PlacesTell' /\ [StatePages!PagesNext]_(StatePages!pagesVars)
  <2>1. pc' \in {next, "main"}
    BY <1>2 DEF BlSetState, OutsideReset, Reset
  <2> QED
    BY <1>2, <2>1, PlacesKept, PagesSet DEF TellingLabels, ErasingLabels
<1>3. \A next \in {"process", "restart", "restore_erase", "restore_copy"} :
        next \notin TellingLabels
  BY DEF TellingLabels, ErasingLabels
<1>4. CASE RestoreErase \/ RestoreCopy \/ Restore1Erase
  BY <1>1, <1>3, <1>4 DEF RestoreErase, RestoreCopy, Restore1Erase, EraseSlot0, EraseSlot1
<1>5. CASE IdleInstall \/ InstallStart \/ RestoreCopied
  <2>1. PICK s \in {INSTALL, SWAP_START, RESTORE_1} : BlSetState(s, "process")
    BY <1>5 DEF IdleInstall, InstallStart, RestoreCopied
  <2>2. s \in BlStates /\ s # TO_IDLE /\ s = st + 1 /\ s <= RESTORE_1
    BY <2>1, StateNumbers DEF BlSetState, BlStates
  <2>3. st < RESTORE_1
    BY <2>2, StateType, StateNumbers DEF FlashOK, st, BlStates
  <2>4. pc \notin ErasingLabels
    BY <1>5 DEF IdleInstall, InstallStart, RestoreCopied, Process, ErasingLabels
  <2> QED
    BY <1>2, <1>3, <2>1, <2>2, <2>3, <2>4
<1>6. CASE SetState
  <2>1. PICK s \in {RESTORE_0, TO_IDLE} :
          BlSetState(s, "restart") /\ s = (IF st = RUN THEN RESTORE_0 ELSE TO_IDLE)
    BY <1>6 DEF SetState
  <2>2. s \in BlStates /\ pc = "set_state" /\ pc \notin ErasingLabels
    BY <1>6, StateNumbers DEF SetState, BlStates, ErasingLabels
  <2>3. /\ s # TO_IDLE => st < RESTORE_1
        /\ s = TO_IDLE => st \in {INSTALL, RESTORE_0, RESTORE_1}
    BY <2>1, <2>2, StateNumbers DEF PlacesTell
  <2> QED
    BY <1>2, <1>3, <2>1, <2>2, <2>3
<1>7. CASE EraseState0
  <2>1. pc = "erase_state_0" /\ EraseStatePage(0, "erase_state_1")
    BY <1>7 DEF EraseState0
  <2>2. StatePlace = "erase_0" /\ (pc' = "erase_state_1" => StatePlace' = "erase_1")
    BY <2>1 DEF StatePlace
  <2>3. pc' \in {"erase_state_1", "main"}
    BY <2>1 DEF EraseStatePage, OutsideReset, Reset, Goto
  <2> QED
    BY <2>1, <2>2, <2>3, PagesErase, PlacesKept DEF TellingLabels, ErasingLabels
<1>8. CASE EraseState1
  <2>1. pc = "erase_state_1" /\ EraseStatePage(1, "restart")
    BY <1>8 DEF EraseState1
  <2>2. StatePlace = "erase_1" /\ (pc' = "restart" => StatePlace' = "ready")
    BY <2>1 DEF StatePlace
  <2>3. pc' \in {"restart", "main"}
    BY <2>1 DEF EraseStatePage, OutsideReset, Reset, Goto
  <2> QED
    BY <2>1, <2>2, <2>3, PagesErase, PlacesKept DEF TellingLabels, ErasingLabels
<1>9. CASE BlSwap
  <2>1. pc = "process" /\ Swapping
    BY <1>9 DEF BlSwap, SwapSkip, SwapErase1, SwapCopy0, SwapErase0, SwapCopy1, SwapAt
  <2>2. CASE SwapNext
    <3>1. st \in BlStates /\ st < RUN
      BY <2>1, StateType DEF FlashOK, st, Swapping
    <3>2. st + 1 \in BlStates /\ st + 1 # TO_IDLE /\ st < RESTORE_1
      BY <3>1, StateNumbers DEF BlStates
    <3> QED
      BY <1>2, <1>3, <2>1, <2>2, <3>2 DEF SwapNext, ErasingLabels
  <2>3. CASE \E next \in {"process", "restart"} :
               \E p, pg, torn : WriteSlot0(p, pg, torn, next) \/ WriteSlot1(p, pg, torn, next)
    BY <1>1, <1>3, <2>3
  <2> QED
    BY <1>9, <2>2, <2>3 DEF BlSwap, SwapSkip, SwapErase1, SwapCopy0, SwapErase0, SwapCopy1,
       EraseSlot0, EraseSlot1
<1> QED
  BY <1>4, <1>5, <1>6, <1>7, <1>8, <1>9 DEF FlashStep

LEMMA PagesStep ==
  ASSUME FlashOK, PlacesTell, [Next]_vars
  PROVE  PlacesTell' /\ [StatePages!PagesNext]_(StatePages!pagesVars)
<1>1. ASSUME bl' = bl, pc' \notin TellingLabels
      PROVE  PlacesTell' /\ [StatePages!PagesNext]_(StatePages!pagesVars)
  BY <1>1, PlacesKept, PagesReset DEF TellingLabels, ErasingLabels
<1>2. CASE Main \/ RunRequested \/ RunNoCheck \/ IdleRun \/ Restart
  <2>1. bl' = bl /\ pc' \notin TellingLabels
    BY <1>2 DEF Main, RunRequested, RunNoCheck, IdleRun, Restart, Reset, BlRunApp, Goto, flash,
       TellingLabels, ErasingLabels
  <2> QED
    BY <1>1, <2>1
<1>3. CASE AppBoot \/ AppCmd \/ WakeUp \/ Crash
  <2>1. bl' = bl
    BY <1>3 DEF AppBoot, AppStart, AppRsp, AppCmd, AcceptImage, FwStart, FwErase, FwErased,
       FwBlock, FwSchedule, AppSblRun, Stop, WakeUp, Crash, SblRun, EraseSlot1, WriteSlot1, flash
  <2>2. pc' \in AppLabels \union {"main", "off"}
    BY <1>3 DEF AppBoot, AppStart, AppRsp, AppCmd, AcceptImage, FwStart, FwErase, FwErased,
       FwBlock, FwSchedule, AppSblRun, Stop, WakeUp, Crash, SblRun, EraseSlot1, WriteSlot1, Goto,
       OutsideReset, Reset, AppLabels
  <2> QED
    BY <1>1, <2>1, <2>2 DEF TellingLabels, ErasingLabels, AppLabels
<1>4. CASE UNCHANGED vars
  BY <1>4 DEF vars, sblVars, PlacesTell, st, StatePages!pagesVars, StatePlace
<1> QED
  BY <1>2, <1>3, <1>4, PagesRegister, PagesFlash
  DEF Next, SblNext, BlProcess, RegisterStep, FlashStep

(* The boot loader uses the state pages as BlPages.tla says, whatever is   *)
(* torn: the words of BlState.tla therefore do what this model takes them  *)
(* to do.                                                                  *)
THEOREM PagesUsed == Spec => UsesStatePages
<1>1. Init => PlacesTell /\ StatePages!PagesInit
  <2> SUFFICES ASSUME Init PROVE PlacesTell /\ StatePages!PagesInit
    OBVIOUS
  <2>1. pc = "main" /\ bl = [n \in 0 .. 1 |-> ClearPage]
    BY DEF Init, SblInit
  <2> QED
    BY <2>1, PlaceReady, SamePages DEF PlacesTell, StatePages!PagesInit
<1>2. TypeOK => FlashOK
  BY DEF TypeOK, FlashOK
<1>3. FlashOK /\ PlacesTell /\ [Next]_vars
        => PlacesTell' /\ [StatePages!PagesNext]_(StatePages!pagesVars)
  BY PagesStep
<1> QED
  BY <1>1, <1>2, <1>3, TypeCorrect, PTL DEF Spec, UsesStatePages, StatePages!PagesSpec
-------------------------------------------------------------------------------
(* The device recovers from resets at any step of an update, as long as no *)
(* reset tears the write of a word of bl_state.  The inductive invariant   *)
(* is Recoverable of Device.tla with the types; from it follow             *)
(* NeverBricked and SwapPreserves.                                         *)

Guarded(b) ==
  /\ b[1].top <= 1
  /\ b[0].bad => b[1] = [top |-> 1, bad |-> FALSE]
  /\ b[1].bad => b[0] = ClearPage

LEMMA GuardedPages == StatePagesGuarded <=> Guarded(bl)
  BY DEF StatePagesGuarded, Guarded

(* With the pages guarded an error can only come from an interrupted erase,*)
(* and one page is enough to know the state.                               *)
LEMMA GuardedState ==
  ASSUME NEW b \in [0 .. 1 -> StatePage], Guarded(b)
  PROVE  BlGetState(b) = IF b[0].bad \/ b[1].bad THEN ERROR
                         ELSE IF b[1].top = 0 THEN b[0].top ELSE TO_IDLE
<1>1. b[0] \in StatePage /\ b[1] \in StatePage
  OBVIOUS
<1>2. /\ b[0].top \in 0 .. RESTORE_1 /\ b[1].top \in 0 .. 1
      /\ b[0].bad \in BOOLEAN /\ b[1].bad \in BOOLEAN
  BY <1>1, StateNumbers DEF StatePage, Guarded
<1>3. Split(b[0]) = (IF b[0].bad THEN -1 ELSE b[0].top)
      /\ Split(b[1]) = (IF b[1].bad THEN -1 ELSE b[1].top)
  BY DEF Split
<1> QED
  BY <1>2, <1>3, StateNumbers DEF BlGetState, Decode

LEMMA SetStateEffect ==
  ASSUME FlashOK, StatePagesGuarded, "write" \notin TornState,
         NEW s \in (INSTALL .. RESTORE_1) \union {TO_IDLE}, NEW next, BlSetState(s, next)
  PROVE  /\ StatePagesGuarded'
         /\ s # TO_IDLE => st' = s /\ s = st + 1
         /\ s = TO_IDLE => st' \in {ERROR, TO_IDLE}
         /\ UNCHANGED <<slot0, slot1, gpregret, resetreas>>
         /\ pc' = next /\ cmd' = NONE
<1> DEFINE n == SetPage(s)
           i == SetWord(s)
<1>1. /\ bl' = [bl EXCEPT ![n] = Zeroed(bl[n], i)]
      /\ UNCHANGED <<slot0, slot1, gpregret, resetreas>>
      /\ pc' = next /\ cmd' = NONE
      /\ s = TO_IDLE \/ s = st + 1
  BY DEF BlSetState, KeepRegs, regs
<1>2. /\ bl[0] \in StatePage /\ bl[1] \in StatePage
      /\ Guarded(bl) /\ bl \in [0 .. 1 -> StatePage]
  BY GuardedPages DEF FlashOK
<1>3. i \in 0 .. StateWords - 1 /\ n \in 0 .. 1
  BY StateNumbers DEF SetPage, SetWord
<1>4. bl' \in [0 .. 1 -> StatePage]
  BY <1>1, <1>2, <1>3, ZeroedType
<1>5. CASE s = TO_IDLE
  <2>1. n = 1 /\ i = 0
    BY <1>5 DEF SetPage, SetWord
  <2>2. /\ bl'[0] = bl[0]
        /\ bl'[1].top = 1 /\ bl'[1].bad = bl[1].bad
        /\ bl[1].top = 1 => bl'[1] = bl[1]
    BY <1>1, <1>2, <2>1, StateNumbers DEF Zeroed, Guarded, StatePage
  <2>3. Guarded(bl')
    <3>1. ASSUME bl[0].bad PROVE bl'[1] = [top |-> 1, bad |-> FALSE]
      <4>1. bl[1] = [top |-> 1, bad |-> FALSE]
        BY <1>2, <3>1 DEF Guarded
      <4>2. bl[1].top = 1
        BY <4>1
      <4> QED
        BY <2>2, <4>1, <4>2
    <3>2. bl'[1].bad => bl'[0] = ClearPage
      BY <1>2, <2>2 DEF Guarded
    <3> QED
      BY <2>2, <3>1, <3>2 DEF Guarded
  <2>4. BlGetState(bl') \in {ERROR, TO_IDLE}
    BY <1>4, <2>2, <2>3, GuardedState
  <2> QED
    BY <1>1, <1>5, <2>3, <2>4 DEF st, StatePagesGuarded, Guarded
<1>6. CASE s # TO_IDLE
  <2>1. n = 0 /\ i = s - 1 /\ s = st + 1 /\ s \in 1 .. RESTORE_1
    BY <1>1, <1>6, StateNumbers DEF SetPage, SetWord
  <2>2. /\ st = bl[0].top /\ ~bl[0].bad /\ ~bl[1].bad /\ bl[1].top = 0
    <3>1. st < TO_IDLE /\ st # ERROR
      <4>1. st \in BlStates
        BY <1>2, StateType DEF st
      <4> QED
        BY <2>1, <4>1, StateNumbers DEF BlStates
    <3>2. st = IF bl[0].bad \/ bl[1].bad THEN ERROR
               ELSE IF bl[1].top = 0 THEN bl[0].top ELSE TO_IDLE
      BY <1>2, GuardedState DEF st
    <3> QED
      BY <3>1, <3>2, StateNumbers
  <2>3. /\ bl'[1] = bl[1]
        /\ bl'[0].top = st + 1 /\ bl'[0].bad = bl[0].bad
    BY <1>1, <1>2, <2>1, <2>2, StateNumbers DEF Zeroed, StatePage
  <2>4. Guarded(bl')
    BY <1>2, <2>2, <2>3 DEF Guarded
  <2>5. BlGetState(bl') = s
    BY <1>4, <2>1, <2>2, <2>3, <2>4, GuardedState
  <2> QED
    BY <1>1, <1>6, <2>4, <2>5 DEF st, StatePagesGuarded, Guarded
<1> QED
  BY <1>5, <1>6

(* The two erases that lead back to IDLE: page 1 tells until page 0 is     *)
(* erased for good.                                                        *)
LEMMA EraseStateEffect ==
  ASSUME FlashOK, FlashOK', StatePagesGuarded, LabelsAgree, EraseState0 \/ EraseState1
  PROVE  /\ StatePagesGuarded'
         /\ st' \in {IDLE, TO_IDLE, ERROR}
         /\ UNCHANGED <<slot0, slot1>>
         /\ pc' = "erase_state_1" => bl'[0] = ClearPage
<1>1. /\ bl[0] \in StatePage /\ bl[1] \in StatePage
      /\ bl'[0] \in StatePage /\ bl'[1] \in StatePage
      /\ Guarded(bl) /\ bl \in [0 .. 1 -> StatePage] /\ bl' \in [0 .. 1 -> StatePage]
  BY GuardedPages DEF FlashOK
<1>2. UNCHANGED <<slot0, slot1>>
  BY DEF EraseState0, EraseState1, EraseStatePage
<1>3. \A q \in TornClear(ClearPage) : q = ClearPage
  <2> SUFFICES ASSUME NEW q \in StatePage, q.top <= 0, q.top = 0 => ~q.bad
               PROVE  q = ClearPage
    BY DEF TornClear, ClearPage
  <2>1. q.top = 0 /\ q.bad = FALSE
    BY StateNumbers DEF StatePage
  <2>2. q = [top |-> q.top, bad |-> q.bad]
    BY DEF StatePage
  <2> QED
    BY <2>1, <2>2 DEF ClearPage
<1>4. \A pg \in StatePage : ClearPage \in TornClear(pg)
  BY StateNumbers DEF ClearPage, TornClear, StatePage
<1>5. CASE EraseState0
  <2>1. /\ bl'[1] = bl[1] /\ bl'[0] \in TornClear(bl[0])
        /\ pc' = "erase_state_1" => bl'[0] = ClearPage
    BY <1>1, <1>4, <1>5 DEF EraseState0, EraseStatePage, OutsideReset, Reset
  <2>2. st \in {ERROR, TO_IDLE}
    BY <1>5 DEF EraseState0, LabelsAgree
  <2>3. bl[1] = [top |-> 1, bad |-> FALSE] \/ (bl[1].bad /\ bl[0] = ClearPage)
    BY <1>1, <2>2, GuardedState, StateNumbers DEF st, Guarded, StatePage
  <2>4. Guarded(bl')
    BY <1>1, <1>3, <2>1, <2>3 DEF Guarded, ClearPage
  <2>5. BlGetState(bl') \in {TO_IDLE, ERROR}
    BY <1>1, <2>1, <2>3, <2>4, GuardedState
  <2> QED
    BY <1>2, <2>1, <2>4, <2>5 DEF st, StatePagesGuarded, Guarded
<1>6. CASE EraseState1
  <2>1. bl[0] = ClearPage
    BY <1>6 DEF EraseState1, LabelsAgree
  <2>2. bl'[0] = ClearPage /\ bl'[1] \in TornClear(bl[1])
    BY <1>1, <1>4, <1>6, <2>1 DEF EraseState1, EraseStatePage
  <2>3. Guarded(bl')
    BY <1>1, <2>2 DEF Guarded, ClearPage, TornClear, StatePage
  <2>4. BlGetState(bl') \in {IDLE, TO_IDLE, ERROR}
    BY <1>1, <2>2, <2>3, GuardedState, StateNumbers DEF ClearPage
  <2> QED
    BY <1>2, <2>2, <2>3, <2>4 DEF st, StatePagesGuarded, Guarded
<1> QED
  BY <1>5, <1>6
-------------------------------------------------------------------------------
(* The swap *)

(* From one swap state to the next: the next phase, or the next page.      *)
LEMMA SwapSuccessor ==
  ASSUME NEW s \in SWAP_START .. RUN - 1
  PROVE  /\ s < RUN - 1 /\ SwapPhase(s) # COPY1 =>
              SwapPage(s + 1) = SwapPage(s) /\ SwapPhase(s + 1) = SwapPhase(s) + 1
         /\ s < RUN - 1 /\ SwapPhase(s) = COPY1 =>
              SwapPage(s + 1) = SwapPage(s) + 1 /\ SwapPhase(s + 1) = ERASE1
         /\ s = RUN - 1 => SwapPage(s) = MaxSwapPages - 1 /\ SwapPhase(s) = COPY1
<1>1. /\ SwapPage(s) \in Int /\ SwapPhase(s) \in 0 .. 3
      /\ s = 2 + 4 * SwapPage(s) + SwapPhase(s)
  BY SwapArithmetic DEF SWAP_START, ERASE1, COPY0, ERASE0, COPY1
<1>2. CASE s < RUN - 1
  <2>1. s + 1 \in SWAP_START .. RUN - 1
    BY <1>2, StateNumbers
  <2>2. /\ SwapPage(s + 1) \in Int /\ SwapPhase(s + 1) \in 0 .. 3
        /\ s + 1 = 2 + 4 * SwapPage(s + 1) + SwapPhase(s + 1)
    BY <2>1, SwapArithmetic DEF SWAP_START, ERASE1, COPY0, ERASE0, COPY1
  <2> QED
    BY <1>1, <1>2, <2>2, StateNumbers DEF COPY1, ERASE1
<1>3. CASE s = RUN - 1
  <2>1. s = 2 + 4 * MaxSwapPages - 1
    BY <1>3, MaxSwapAssumption DEF RUN, SWAP_START, SwapPhases
  <2> QED
    BY <1>1, <1>3, <2>1, MaxSwapAssumption, StateNumbers DEF COPY1
<1> QED
  BY <1>2, <1>3, StateNumbers

LEMMA SwapRange ==
  ASSUME FlashOK
  PROVE  Swapping <=> st \in SWAP_START .. RUN - 1
  BY StateType, StateNumbers DEF Swapping, FlashOK, st, BlStates

LEMMA WriteEffect0 ==
  ASSUME NEW p, NEW pg, NEW torn, NEW next, WriteSlot0(p, pg, torn, next), Undisturbed
  PROVE  /\ \E q : slot0' = [slot0 EXCEPT ![p] = q]
         /\ UNCHANGED <<slot1, bl>>
         /\ Undisturbed'
         /\ pc' \in {next, "main"}
  BY DEF WriteSlot0, KeepRegs, regs, Goto, OutsideReset, Reset, Undisturbed

LEMMA WriteEffect1 ==
  ASSUME NEW p, NEW pg, NEW torn, NEW next, WriteSlot1(p, pg, torn, next), Undisturbed
  PROVE  /\ \E q : slot1' = [slot1 EXCEPT ![p] = q]
         /\ UNCHANGED <<slot0, bl>>
         /\ Undisturbed'
         /\ pc' \in {next, "main"}
  BY DEF WriteSlot1, KeepRegs, regs, Goto, OutsideReset, Reset, Undisturbed

(* What a step of the swap does: both images stay whole, and once the last *)
(* page is copied slot0 is the installed one.                              *)
SwapKeeps ==
  /\ StatePagesGuarded'
  /\ Swapping' => OldImage' = OldImage /\ InstalledImage' = InstalledImage
  /\ ~Swapping' => st' = RUN /\ slot0' = InstalledImage
  /\ Undisturbed'
  /\ pc' \in {"process", "restart", "main"}

LEMMA SwapNextKeeps ==
  ASSUME FlashOK, StatePagesGuarded, "write" \notin TornState, Undisturbed,
         Swapping, SwapNext,
         SwapPage(st) < NPages /\ SwapPhase(st) = COPY0
           => slot1[SwapPage(st)] = slot0[SwapPage(st)],
         SwapPage(st) < NPages /\ SwapPhase(st) = COPY1
           => slot0[SwapPage(st)] = slot1[SwapPage(st) + 1]
  PROVE  SwapKeeps
<1> DEFINE n == SwapPage(st)
           k == SwapPhase(st)
<1>1. st \in SWAP_START .. RUN - 1
  BY SwapRange
<1>2. /\ n \in 0 .. MaxSwapPages - 1 /\ k \in {ERASE1, COPY0, ERASE0, COPY1}
      /\ NPages \in Nat /\ NPages <= MaxSwapPages /\ NPages > 0 /\ MaxSwapPages \in Nat
  BY <1>1, SwapArithmetic, FlashAssumption, SblAssumption, MaxSwapAssumption
<1>3. /\ StatePagesGuarded' /\ st' = st + 1
      /\ UNCHANGED <<slot0, slot1, gpregret, resetreas>>
      /\ pc' = "process" /\ cmd' = NONE
  BY <1>1, SetStateEffect, StateNumbers DEF SwapNext
<1>4. Undisturbed' /\ pc' \in {"process", "restart", "main"}
  BY <1>3 DEF Undisturbed
<1>5. CASE st < RUN - 1
  <2>1. Swapping'
    BY <1>1, <1>3, <1>5, StateNumbers DEF Swapping
  <2>2. ASSUME k # COPY1
        PROVE  OldImage' = OldImage /\ InstalledImage' = InstalledImage
    <3>1. SwapPage(st') = n /\ SwapPhase(st') = k + 1
      BY <1>1, <1>3, <1>5, <2>2, SwapSuccessor
    <3>2. InstalledImage' = InstalledImage
      BY <1>3, <3>1 DEF InstalledImage
    <3>3. \A p \in Pages : OldImage[p] = OldImage'[p]
      BY <1>2, <1>3, <2>2, <3>1 DEF OldImage, ERASE1, COPY0, ERASE0, COPY1, Pages
    <3> QED
      BY <3>2, <3>3 DEF OldImage
  <2>3. ASSUME k = COPY1
        PROVE  OldImage' = OldImage /\ InstalledImage' = InstalledImage
    <3>1. SwapPage(st') = n + 1 /\ SwapPhase(st') = ERASE1
      BY <1>1, <1>3, <1>5, <2>3, SwapSuccessor
    <3>2. \A p \in Pages : OldImage[p] = OldImage'[p]
      BY <1>2, <1>3, <2>3, <3>1 DEF OldImage, ERASE1, COPY0, ERASE0, COPY1, Pages
    <3>3. \A p \in Pages : InstalledImage[p] = InstalledImage'[p]
      BY <1>2, <1>3, <2>3, <3>1 DEF InstalledImage, Pages
    <3> QED
      BY <3>2, <3>3 DEF OldImage, InstalledImage
  <2> QED
    BY <1>3, <1>4, <2>1, <2>2, <2>3 DEF SwapKeeps
<1>6. CASE st = RUN - 1
  <2>1. st' = RUN /\ ~Swapping'
    BY <1>3, <1>6, StateNumbers DEF Swapping
  <2>2. n = MaxSwapPages - 1 /\ k = COPY1
    BY <1>1, <1>6, SwapSuccessor
  <2>3. \A p \in Pages : InstalledImage[p] = slot0[p]
    BY <1>2, <2>2 DEF InstalledImage, Pages
  <2>4. slot0 = InstalledImage
    BY <2>3 DEF InstalledImage, FlashOK, Contents
  <2> QED
    BY <1>3, <1>4, <2>1, <2>4 DEF SwapKeeps
<1> QED
  BY <1>1, <1>5, <1>6, StateNumbers
(* A write or an erase of the page a phase works on is outside both images.*)
LEMMA SwapWriteKeeps ==
  ASSUME FlashOK, StatePagesGuarded, Undisturbed, Swapping, SwapPage(st) \in Pages,
         NEW q, NEW next \in {"process", "restart"},
         \/ /\ SwapPhase(st) \in {ERASE1, COPY0}
            /\ slot1' = [slot1 EXCEPT ![SwapPage(st)] = q]
            /\ UNCHANGED slot0
         \/ /\ SwapPhase(st) \in {ERASE0, COPY1}
            /\ slot0' = [slot0 EXCEPT ![SwapPage(st)] = q]
            /\ UNCHANGED slot1,
         UNCHANGED bl, Undisturbed', pc' \in {next, "main"}
  PROVE  SwapKeeps
<1> DEFINE n == SwapPage(st)
<1>1. StatePagesGuarded' /\ st' = st /\ Swapping'
  BY DEF StatePagesGuarded, st, Swapping
<1>2. n \in Nat /\ Pages \subseteq Nat
  BY FlashAssumption DEF Pages
<1>3. \A p \in Pages : OldImage'[p] = OldImage[p] /\ InstalledImage'[p] = InstalledImage[p]
  <2> SUFFICES ASSUME NEW p \in Pages
               PROVE  OldImage'[p] = OldImage[p] /\ InstalledImage'[p] = InstalledImage[p]
    OBVIOUS
  <2>1. CASE SwapPhase(st) \in {ERASE1, COPY0}
    <3>1. UNCHANGED slot0 /\ (\A r \in Slot1Pages : r # n => slot1'[r] = slot1[r])
      BY <2>1 DEF ERASE1, COPY0, ERASE0, COPY1, FlashOK
    <3>2. p \in Slot1Pages /\ p + 1 \in Slot1Pages
      BY FlashAssumption DEF Pages, Slot1Pages
    <3> QED
      BY <1>1, <1>2, <2>1, <3>1, <3>2
      DEF OldImage, InstalledImage, ERASE1, COPY0, ERASE0, COPY1
  <2>2. CASE SwapPhase(st) \in {ERASE0, COPY1}
    <3>1. UNCHANGED slot1 /\ (\A r \in Pages : r # n => slot0'[r] = slot0[r])
      BY <2>2 DEF ERASE1, COPY0, ERASE0, COPY1, FlashOK, Contents
    <3> QED
      BY <1>1, <1>2, <2>2, <3>1
      DEF OldImage, InstalledImage, ERASE1, COPY0, ERASE0, COPY1
  <2> QED
    BY <2>1, <2>2
<1> QED
  BY <1>1, <1>3 DEF SwapKeeps, OldImage, InstalledImage

LEMMA BlSwapKeeps ==
  ASSUME FlashOK, StatePagesGuarded, "write" \notin TornState, Undisturbed, BlSwap
  PROVE  Swapping /\ SwapKeeps
<1> DEFINE n == SwapPage(st)
           k == SwapPhase(st)
<1>1. ERASE1 # COPY0 /\ ERASE1 # COPY1 /\ ERASE0 # COPY0 /\ ERASE0 # COPY1 /\ COPY0 # COPY1
  BY DEF ERASE1, COPY0, ERASE0, COPY1
<1>2. Swapping
  BY DEF BlSwap, SwapSkip, SwapErase1, SwapCopy0, SwapErase0, SwapCopy1, SwapAt
<1>3. n \in Int /\ NPages \in Int
  BY <1>2, SwapRange, SwapArithmetic, FlashAssumption
<1>4. ASSUME NEW pg, NEW torn, NEW next \in {"process", "restart"},
             n \in Pages, k \in {ERASE1, COPY0}, WriteSlot1(n, pg, torn, next)
      PROVE  SwapKeeps
  BY <1>2, <1>4, WriteEffect1, SwapWriteKeeps
<1>5. ASSUME NEW pg, NEW torn, NEW next \in {"process", "restart"},
             n \in Pages, k \in {ERASE0, COPY1}, WriteSlot0(n, pg, torn, next)
      PROVE  SwapKeeps
  BY <1>2, <1>5, WriteEffect0, SwapWriteKeeps
<1>6. CASE SwapSkip
  <2>1. n >= NPages /\ SwapNext
    BY <1>6 DEF SwapSkip
  <2> QED
    BY <1>2, <1>3, <2>1, SwapNextKeeps
<1>7. CASE SwapErase1
  <2>1. k = ERASE1 /\ n \in Pages
    BY <1>7, SwapAtFacts DEF SwapErase1
  <2>2. CASE SwapNext
    BY <1>1, <1>2, <2>1, <2>2, SwapNextKeeps
  <2>3. CASE EraseSlot1(n, "process")
    <3>1. WriteSlot1(n, ErasedPage, TornErase(slot1[n]), "process")
      BY <2>3 DEF EraseSlot1
    <3> QED
      BY <1>2, <1>4, <2>1, <3>1
  <2> QED
    BY <1>7, <2>2, <2>3 DEF SwapErase1
<1>8. CASE SwapCopy0
  <2>1. k = COPY0 /\ n \in Pages
    BY <1>8, SwapAtFacts DEF SwapCopy0
  <2>2. CASE slot1[n] = slot0[n] /\ SwapNext
    BY <1>1, <1>2, <2>1, <2>2, SwapNextKeeps
  <2>3. ASSUME NEW i, WriteSlot1(n, Copied(slot1[n], slot0[n], i),
                                 TornCopy(slot1[n], slot0[n], i), "process")
        PROVE  SwapKeeps
    BY <1>4, <2>1, <2>3
  <2>4. CASE EraseSlot1(n, "restart")
    <3>1. WriteSlot1(n, ErasedPage, TornErase(slot1[n]), "restart")
      BY <2>4 DEF EraseSlot1
    <3> QED
      BY <1>2, <1>4, <2>1, <3>1
  <2>5. \/ slot1[n] = slot0[n] /\ SwapNext
        \/ \E i \in Words : WriteSlot1(n, Copied(slot1[n], slot0[n], i),
                                       TornCopy(slot1[n], slot0[n], i), "process")
        \/ EraseSlot1(n, "restart")
    BY <1>8 DEF SwapCopy0
  <2> QED
    BY <1>2, <2>2, <2>3, <2>4, <2>5
<1>9. CASE SwapErase0
  <2>1. k = ERASE0 /\ n \in Pages
    BY <1>9, SwapAtFacts DEF SwapErase0
  <2>2. CASE SwapNext
    BY <1>1, <1>2, <2>1, <2>2, SwapNextKeeps
  <2>3. CASE EraseSlot0(n, "process")
    <3>1. WriteSlot0(n, ErasedPage, TornErase(slot0[n]), "process")
      BY <2>3 DEF EraseSlot0
    <3> QED
      BY <1>2, <1>5, <2>1, <3>1
  <2> QED
    BY <1>9, <2>2, <2>3 DEF SwapErase0
<1>10. CASE SwapCopy1
  <2>1. k = COPY1 /\ n \in Pages
    BY <1>10, SwapAtFacts DEF SwapCopy1
  <2>2. CASE slot0[n] = slot1[n + 1] /\ SwapNext
    BY <1>1, <1>2, <2>1, <2>2, SwapNextKeeps
  <2>3. ASSUME NEW i, WriteSlot0(n, Copied(slot0[n], slot1[n + 1], i),
                                 TornCopy(slot0[n], slot1[n + 1], i), "process")
        PROVE  SwapKeeps
    BY <1>5, <2>1, <2>3
  <2>4. CASE EraseSlot0(n, "restart")
    <3>1. WriteSlot0(n, ErasedPage, TornErase(slot0[n]), "restart")
      BY <2>4 DEF EraseSlot0
    <3> QED
      BY <1>2, <1>5, <2>1, <3>1
  <2>5. \/ slot0[n] = slot1[n + 1] /\ SwapNext
        \/ \E i \in Words : WriteSlot0(n, Copied(slot0[n], slot1[n + 1], i),
                                       TornCopy(slot0[n], slot1[n + 1], i), "process")
        \/ EraseSlot0(n, "restart")
    BY <1>10 DEF SwapCopy1
  <2> QED
    BY <1>2, <2>2, <2>3, <2>4, <2>5
<1> QED
  BY <1>2, <1>6, <1>7, <1>8, <1>9, <1>10 DEF BlSwap
-------------------------------------------------------------------------------
(* The inductive invariant, one lemma per group of actions *)

(* AppRunsValid and NeverBricked aside, the parts of Recoverable.          *)
Core ==
  /\ MovingUndisturbed
  /\ SwapRecoverable
  /\ RestoreRecoverable
  /\ StatePagesGuarded
  /\ LabelsAgree

LEMMA RecoverableParts == Recoverable <=> NeverBricked /\ AppRunsValid /\ Core
  BY DEF Recoverable, Core

Settled == ~Swapping /\ Slot0Valid

LEMMA SettledWhere ==
  ASSUME Core, pc \notin MovingLabels \/ gpregret # NONE \/ cmd # NONE \/ "OFF" \in resetreas
  PROVE  Settled
  BY DEF Core, MovingUndisturbed, Undisturbed, Moving, Settled

LEMMA SettledStates ==
  ASSUME FlashOK, Core, st \notin SWAP_START .. RUN - 1, st # RESTORE_0
  PROVE  Settled
  BY SwapRange DEF Core, RestoreRecoverable, Settled

LEMMA SettledCore ==
  ASSUME Settled', StatePagesGuarded', LabelsAgree'
  PROVE  Core'
  BY DEF Settled, Core, MovingUndisturbed, Moving, SwapRecoverable, RestoreRecoverable

LEMMA SameFlash ==
  ASSUME Core, UNCHANGED flash
  PROVE  /\ SwapRecoverable' /\ RestoreRecoverable' /\ StatePagesGuarded'
         /\ Moving' = Moving /\ Settled' = Settled
         /\ st' = st /\ RestoreValid' = RestoreValid /\ bl' = bl
  BY DEF Core, flash, SwapRecoverable, RestoreRecoverable, StatePagesGuarded, Moving, Settled,
     Swapping, Slot0Valid, RestoreValid, st, OldImage, InstalledImage, RestoreImage

(* A reset at any place, after which the flash still allows a recovery.    *)
LEMMA ResetCore ==
  ASSUME NEW kind, Reset(kind),
         SwapRecoverable', RestoreRecoverable', StatePagesGuarded',
         Settled' \/ (gpregret = NONE /\ "OFF" \notin resetreas)
  PROVE  Core' /\ NeverBricked'
<1>1. pc' = "main" /\ cmd' = NONE
  BY DEF Reset
<1>2. /\ gpregret = NONE => gpregret' = NONE
      /\ "OFF" \notin resetreas => "OFF" \notin resetreas'
  BY DEF Reset
<1>3. MovingUndisturbed'
  BY <1>1, <1>2 DEF Settled, MovingUndisturbed, Undisturbed, Moving, MovingLabels
<1>4. LabelsAgree' /\ NeverBricked'
  BY <1>1 DEF LabelsAgree, NeverBricked
<1> QED
  BY <1>3, <1>4 DEF Core

LEMMA MainCore ==
  ASSUME FlashOK, Core, NeverBricked, Main \/ RunRequested \/ RunNoCheck \/ IdleRun \/ Restart
  PROVE  Core' /\ NeverBricked'
<1>1. UNCHANGED flash
  BY DEF Main, RunRequested, RunNoCheck, IdleRun, Restart, BlRunApp, flash
<1>2. CASE Main
  <2>1. gpregret' = NONE /\ cmd' = gpregret /\ resetreas' = resetreas
    BY <1>2 DEF Main
  <2>2. /\ pc' \in {"run_app", "run_nocheck", "process"}
        /\ pc' = "run_app" => gpregret = RUN_APP
        /\ pc' = "run_nocheck" => "OFF" \in resetreas
        /\ pc' = "process" => "OFF" \notin resetreas
    BY <1>2 DEF Main
  <2>3. ASSUME Moving PROVE pc' = "process" /\ cmd' = NONE /\ "OFF" \notin resetreas'
    BY <2>1, <2>2, <2>3 DEF Core, MovingUndisturbed, Undisturbed, NONE, RUN_APP
  <2>4. MovingUndisturbed'
    BY <1>1, <2>1, <2>3, SameFlash DEF MovingUndisturbed, Undisturbed, MovingLabels
  <2>5. LabelsAgree' /\ NeverBricked'
    BY <2>1, <2>2 DEF LabelsAgree, NeverBricked
  <2> QED
    BY <1>1, <2>4, <2>5, SameFlash DEF Core
<1>3. CASE RunRequested \/ RunNoCheck \/ IdleRun
  <2>1. pc \notin MovingLabels
    BY <1>3 DEF RunRequested, RunNoCheck, IdleRun, MovingLabels
  <2>2. Settled /\ Slot0Valid /\ Settled'
    BY <1>1, <2>1, SettledWhere, SameFlash DEF Settled
  <2>3. pc' = "app_start"
    BY <1>3, <2>2 DEF RunRequested, RunNoCheck, IdleRun, BlRunApp, Goto
  <2>4. LabelsAgree' /\ NeverBricked'
    BY <2>3 DEF LabelsAgree, NeverBricked
  <2> QED
    BY <1>1, <2>2, <2>4, SameFlash, SettledCore
<1>4. CASE Restart
  <2>1. Settled' \/ (gpregret = NONE /\ "OFF" \notin resetreas)
    BY <1>1, SameFlash, SettledWhere
  <2> QED
    BY <1>1, <1>4, <2>1, SameFlash, ResetCore DEF Restart
<1> QED
  BY <1>2, <1>3, <1>4
LEMMA RegisterCore ==
  ASSUME FlashOK, RegsOK, Core, NeverBricked, RegisterStep
  PROVE  Core' /\ NeverBricked'
<1>1. UNCHANGED <<flash, resetreas, cmd>>
  BY DEF RegisterStep, IdleNormal, InstallError, RunState, RestoreChain, RestoreAccepted,
     RestoreBegin, RestoreErased, Restore1Done, ErrorState, ToIdleNormal, ToIdleChain,
     SetRun, SetNone, BlSetRsp, BlSetCmd, flash, regs, Goto
<1>2. CASE IdleNormal
  <2>1. Settled /\ pc' = "idle_run" /\ gpregret' = NONE
    BY <1>2, SettledStates, StateNumbers
    DEF IdleNormal, Process, BlSetRsp, Goto, Core, LabelsAgree
  <2>2. LabelsAgree' /\ NeverBricked'
    BY <2>1 DEF LabelsAgree, NeverBricked
  <2> QED
    BY <1>1, <2>1, <2>2, SameFlash, SettledCore
<1>3. CASE InstallError \/ RunState \/ Restore1Done \/ ErrorState \/ ToIdleNormal
           \/ RestoreChain \/ RestoreAccepted \/ ToIdleChain \/ SetRun \/ SetNone
  <2>1. Settled
    <3>1. CASE InstallError \/ RunState \/ Restore1Done \/ ErrorState \/ ToIdleNormal
               \/ ToIdleChain
      BY <3>1, SettledStates, StateNumbers
      DEF InstallError, RunState, Restore1Done, ErrorState, ToIdleNormal, ToIdleChain, Process
    <3>2. CASE RestoreChain \/ SetRun \/ SetNone
      BY <3>2, SettledWhere DEF RestoreChain, SetRun, SetNone, MovingLabels
    <3>3. CASE RestoreAccepted
      BY <3>3, StateNumbers
      DEF RestoreAccepted, Process, Core, RestoreRecoverable, Settled, Swapping
    <3> QED
      BY <1>3, <3>1, <3>2, <3>3
  <2>2. /\ pc' \in {"set_run", "set_none", "set_state", "erase_state_0"}
        /\ pc' = "erase_state_0" => st \in {ERROR, TO_IDLE}
    BY <1>3 DEF InstallError, RunState, Restore1Done, ErrorState, ToIdleNormal, RestoreChain,
       RestoreAccepted, ToIdleChain, SetRun, SetNone, Process, Goto
  <2>3. LabelsAgree' /\ NeverBricked'
    BY <1>1, <2>2, SameFlash DEF LabelsAgree, NeverBricked
  <2> QED
    BY <1>1, <2>1, <2>3, SameFlash, SettledCore
<1>4. CASE RestoreBegin \/ RestoreErased
  <2>1. /\ pc \in {"process", "restore_erase"}
        /\ pc' \in {"restore_erase", "restore_copy"}
        /\ gpregret' = gpregret
    BY <1>4 DEF RestoreBegin, RestoreErased, Process, Goto, regs
  <2>2. /\ gpregret = NONE /\ "OFF" \notin resetreas
        /\ st = RESTORE_0 /\ RestoreValid /\ cmd = NONE
    BY <1>4 DEF RestoreBegin, RestoreErased, Process, Core, LabelsAgree
  <2>3. LabelsAgree' /\ NeverBricked'
    BY <1>1, <2>1, <2>2, SameFlash DEF LabelsAgree, NeverBricked
  <2>4. MovingUndisturbed'
    BY <1>1, <2>1, <2>2 DEF MovingUndisturbed, Undisturbed, MovingLabels
  <2> QED
    BY <1>1, <2>3, <2>4, SameFlash DEF Core
<1> QED
  BY <1>2, <1>3, <1>4 DEF RegisterStep

LEMMA SwapCore ==
  ASSUME FlashOK, RegsOK, Core, NeverBricked, "write" \notin TornState, BlSwap
  PROVE  Core' /\ NeverBricked'
<1>1. pc = "process" /\ Swapping
  BY DEF BlSwap, SwapSkip, SwapErase1, SwapCopy0, SwapErase0, SwapCopy1, SwapAt
<1>2. Undisturbed /\ StatePagesGuarded
  BY <1>1 DEF Core, MovingUndisturbed, Moving, Undisturbed
<1>3. SwapKeeps
  BY <1>2, BlSwapKeeps
<1>4. OldImage \in Signed /\ InstalledImage \in Signed
  BY <1>1 DEF Core, SwapRecoverable
<1>5. /\ Undisturbed' /\ StatePagesGuarded'
      /\ pc' \in {"process", "restart", "main"}
  BY <1>3 DEF SwapKeeps
<1>6. LabelsAgree' /\ NeverBricked' /\ MovingUndisturbed'
  BY <1>5 DEF LabelsAgree, NeverBricked, MovingUndisturbed, MovingLabels, Undisturbed
<1>7. CASE Swapping'
  <2>1. SwapRecoverable'
    BY <1>3, <1>4, <1>7 DEF SwapKeeps, SwapRecoverable
  <2> QED
    BY <1>5, <1>6, <1>7, <2>1 DEF Core, RestoreRecoverable
<1>8. CASE ~Swapping'
  <2>1. Settled'
    BY <1>3, <1>4, <1>8 DEF SwapKeeps, Settled, Slot0Valid
  <2> QED
    BY <1>5, <1>6, <2>1, SettledCore
<1> QED
  BY <1>7, <1>8

(* At the start of the swap both images are where they were.               *)
LEMMA InstalledIsNew ==
  ASSUME FlashOK, st' = SWAP_START, UNCHANGED <<slot0, slot1>>
  PROVE  Swapping' /\ OldImage' = slot0 /\ InstalledImage' = NewImage
<1>1. Swapping' /\ SwapPage(st') = 0 /\ SwapPhase(st') = ERASE1
  BY StateNumbers, SMT
  DEF Swapping, SwapPage, SwapPhase, SwapPhases, SWAP_START, ERASE1
<1>2. \A p \in Pages : OldImage'[p] = slot0[p] /\ InstalledImage'[p] = NewImage[p]
  BY <1>1, FlashAssumption
  DEF OldImage, InstalledImage, NewImage, Pages, ERASE1, ERASE0, COPY1
<1> QED
  BY <1>1, <1>2 DEF OldImage, InstalledImage, NewImage, FlashOK, Contents

LEMMA FlashCore ==
  ASSUME FlashOK, RegsOK, FlashOK', Core, NeverBricked, "write" \notin TornState, FlashStep
  PROVE  Core' /\ NeverBricked'
<1>1. {INSTALL, SWAP_START, RESTORE_0, RESTORE_1, TO_IDLE}
        \subseteq (INSTALL .. RESTORE_1) \union {TO_IDLE}
  BY StateNumbers
<1>2. StatePagesGuarded
  BY DEF Core
<1>3. CASE IdleInstall
  <2>1. /\ StatePagesGuarded' /\ st' = INSTALL /\ pc' = "process"
        /\ UNCHANGED <<slot0, slot1, gpregret, resetreas>>
    BY <1>1, <1>2, <1>3, SetStateEffect, StateNumbers DEF IdleInstall
  <2>2. Settled /\ gpregret = NONE /\ "OFF" \notin resetreas
    BY <1>3, SettledStates, StateNumbers DEF IdleInstall, Process, Core, LabelsAgree
  <2>3. Settled'
    BY <2>1, <2>2, StateNumbers DEF Settled, Swapping, Slot0Valid
  <2>4. LabelsAgree' /\ NeverBricked'
    BY <2>1, <2>2 DEF LabelsAgree, NeverBricked
  <2> QED
    BY <2>1, <2>3, <2>4, SettledCore
<1>4. CASE InstallStart
  <2>1. /\ StatePagesGuarded' /\ st' = SWAP_START /\ pc' = "process" /\ cmd' = NONE
        /\ UNCHANGED <<slot0, slot1, gpregret, resetreas>>
    BY <1>1, <1>2, <1>4, SetStateEffect, StateNumbers DEF InstallStart
  <2>2. gpregret = NONE /\ "OFF" \notin resetreas
    BY <1>4 DEF InstallStart, Process, Core, LabelsAgree
  <2>3. Swapping' /\ OldImage' = slot0 /\ InstalledImage' = NewImage
    BY <2>1, InstalledIsNew
  <2>6. SwapRecoverable' /\ RestoreRecoverable'
    BY <1>4, <2>3
    DEF InstallStart, Slot1Valid, Slot0Valid, SwapRecoverable, RestoreRecoverable
  <2>7. LabelsAgree' /\ NeverBricked' /\ MovingUndisturbed'
    BY <2>1, <2>2 DEF LabelsAgree, NeverBricked, MovingUndisturbed, Undisturbed, MovingLabels
  <2> QED
    BY <2>1, <2>6, <2>7 DEF Core
<1>5. CASE RestoreErase \/ RestoreCopy
  <2>1. /\ Undisturbed /\ st = RESTORE_0 /\ RestoreValid
    BY <1>5 DEF RestoreErase, RestoreCopy, Core, LabelsAgree, Undisturbed
  <2>2. \E p, pg, torn : \E next \in {"restore_erase", "restore_copy", "restart"} :
          WriteSlot0(p, pg, torn, next)
    BY <1>5 DEF RestoreErase, RestoreCopy, EraseSlot0
  <2>3. /\ UNCHANGED <<slot1, bl>> /\ Undisturbed'
        /\ pc' \in {"restore_erase", "restore_copy", "restart", "main"}
    BY <2>1, <2>2, WriteEffect0
  <2>4. st' = RESTORE_0 /\ RestoreValid' /\ StatePagesGuarded'
    BY <1>2, <2>1, <2>3 DEF st, RestoreValid, RestoreImage, StatePagesGuarded
  <2>5. SwapRecoverable' /\ RestoreRecoverable'
    BY <2>4, StateNumbers DEF SwapRecoverable, RestoreRecoverable, Swapping
  <2>6. LabelsAgree' /\ NeverBricked' /\ MovingUndisturbed'
    BY <2>3, <2>4
    DEF LabelsAgree, NeverBricked, MovingUndisturbed, MovingLabels, Undisturbed
  <2> QED
    BY <2>4, <2>5, <2>6 DEF Core
<1>6. CASE RestoreCopied
  <2>1. /\ StatePagesGuarded' /\ st' = RESTORE_1 /\ pc' = "process"
        /\ UNCHANGED <<slot0, slot1, gpregret, resetreas>>
    BY <1>1, <1>2, <1>6, SetStateEffect, StateNumbers DEF RestoreCopied
  <2>2. gpregret = NONE /\ "OFF" \notin resetreas /\ RestoreValid
    BY <1>6 DEF RestoreCopied, Core, LabelsAgree
  <2>3. slot0 = RestoreImage
    BY <1>6 DEF RestoreCopied, RestoreImage, FlashOK, Contents
  <2>4. Settled'
    BY <2>1, <2>2, <2>3, StateNumbers DEF Settled, Swapping, Slot0Valid, RestoreValid
  <2>5. LabelsAgree' /\ NeverBricked'
    BY <2>1, <2>2 DEF LabelsAgree, NeverBricked
  <2> QED
    BY <2>1, <2>4, <2>5, SettledCore
<1>7. CASE Restore1Erase
  <2>1. Settled /\ pc = "process"
    BY <1>7, SettledStates, StateNumbers DEF Restore1Erase, Process
  <2>2. gpregret = NONE /\ "OFF" \notin resetreas
    BY <2>1 DEF Core, LabelsAgree
  <2>3. /\ UNCHANGED <<slot0, bl>> /\ pc' \in {"process", "main"}
        /\ gpregret' = NONE /\ "OFF" \notin resetreas'
    BY <1>7, <2>2
    DEF Restore1Erase, EraseSlot1, WriteSlot1, KeepRegs, regs, Goto, OutsideReset, Reset
  <2>4. Settled' /\ StatePagesGuarded'
    BY <1>2, <2>1, <2>3 DEF Settled, Slot0Valid, Swapping, st, StatePagesGuarded
  <2>5. LabelsAgree' /\ NeverBricked'
    BY <2>3 DEF LabelsAgree, NeverBricked
  <2> QED
    BY <2>4, <2>5, SettledCore
<1>8. CASE SetState
  <2>1. Settled
    BY <1>8, SettledWhere DEF SetState, MovingLabels
  <2>2. PICK s \in {RESTORE_0, TO_IDLE} : BlSetState(s, "restart")
    BY <1>8 DEF SetState
  <2>3. /\ StatePagesGuarded' /\ st' \in {RESTORE_0, ERROR, TO_IDLE}
        /\ UNCHANGED slot0 /\ pc' = "restart"
    BY <1>1, <1>2, <2>2, SetStateEffect, StateNumbers
  <2>4. Settled'
    BY <2>1, <2>3, StateNumbers DEF Settled, Slot0Valid, Swapping
  <2>5. LabelsAgree' /\ NeverBricked'
    BY <2>3 DEF LabelsAgree, NeverBricked
  <2> QED
    BY <2>3, <2>4, <2>5, SettledCore
<1>9. CASE EraseState0 \/ EraseState1
  <2>1. Settled
    BY <1>9, SettledWhere DEF EraseState0, EraseState1, MovingLabels
  <2>2. /\ StatePagesGuarded' /\ st' \in {IDLE, TO_IDLE, ERROR}
        /\ UNCHANGED <<slot0, slot1>>
        /\ pc' = "erase_state_1" => bl'[0] = ClearPage
    BY <1>2, <1>9, EraseStateEffect DEF Core
  <2>3. pc' \in {"erase_state_1", "restart", "main"}
    BY <1>9 DEF EraseState0, EraseState1, EraseStatePage, Goto, OutsideReset, Reset
  <2>4. Settled'
    BY <2>1, <2>2, StateNumbers DEF Settled, Slot0Valid, Swapping
  <2>5. LabelsAgree' /\ NeverBricked'
    BY <2>2, <2>3 DEF LabelsAgree, NeverBricked
  <2> QED
    BY <2>2, <2>4, <2>5, SettledCore
<1> QED
  BY <1>3, <1>4, <1>5, <1>6, <1>7, <1>8, <1>9 DEF FlashStep
(* The application only touches slot1, and only runs when slot0 does not   *)
(* depend on it.                                                           *)
LEMMA ApplicationCore ==
  ASSUME FlashOK, RegsOK, Core, NeverBricked, AppBoot \/ AppCmd \/ WakeUp
  PROVE  Core' /\ NeverBricked'
<1>1. pc \notin MovingLabels
  BY DEF AppBoot, AppStart, AppRsp, AppCmd, AcceptImage, FwStart, FwErase, FwErased, FwBlock,
     FwSchedule, AppSblRun, Stop, WakeUp, MovingLabels
<1>2. UNCHANGED <<slot0, bl>>
  BY DEF AppBoot, AppStart, AppRsp, AppCmd, AcceptImage, FwStart, FwErase, FwErased, FwBlock,
     FwSchedule, AppSblRun, Stop, WakeUp, SblRun, EraseSlot1, WriteSlot1, flash
<1>3. pc' \in AppLabels \union {"main", "off"}
  BY DEF AppBoot, AppStart, AppRsp, AppCmd, AcceptImage, FwStart, FwErase, FwErased, FwBlock,
     FwSchedule, AppSblRun, Stop, WakeUp, SblRun, EraseSlot1, WriteSlot1, Goto, OutsideReset,
     Reset, AppLabels
<1>4. Settled'
  BY <1>1, <1>2, SettledWhere DEF Settled, Slot0Valid, Swapping, st
<1>5. StatePagesGuarded'
  BY <1>2 DEF Core, StatePagesGuarded
<1>6. LabelsAgree' /\ NeverBricked'
  BY <1>3 DEF LabelsAgree, NeverBricked, AppLabels
<1> QED
  BY <1>4, <1>5, <1>6, SettledCore

LEMMA CrashCore ==
  ASSUME Core, Crash
  PROVE  Core' /\ NeverBricked'
<1>1. PICK kind : Reset(kind)
  BY DEF Crash
<1>2. UNCHANGED flash
  BY DEF Crash
<1>3. Settled' \/ (gpregret = NONE /\ "OFF" \notin resetreas)
  BY <1>2, SameFlash, SettledWhere
<1> QED
  BY <1>1, <1>2, <1>3, SameFlash, ResetCore

(* Recoverable is inductive together with the types.                       *)
Inv == TypeOK /\ Recoverable

LEMMA InvInit == Init => Inv
<1> SUFFICES ASSUME Init PROVE Inv
  OBVIOUS
<1>1. TypeOK /\ AppRunsValid
  BY TypeInit
<1>2. bl[0] = ClearPage /\ bl[1] = ClearPage
  BY DEF Init, SblInit
<1>3. bl \in [0 .. 1 -> StatePage] /\ Guarded(bl)
  BY <1>1, <1>2 DEF TypeOK, Guarded, ClearPage
<1>4. st = IDLE
  BY <1>2, <1>3, GuardedState DEF st, ClearPage, IDLE
<1>5. Settled
  BY <1>4, StateNumbers DEF Init, SblInit, Settled, Slot0Valid, Swapping
<1>6. Core /\ NeverBricked
  BY <1>3, <1>5, GuardedPages
  DEF Init, SblInit, Settled, Core, MovingUndisturbed, Moving, SwapRecoverable,
      RestoreRecoverable, LabelsAgree, NeverBricked
<1> QED
  BY <1>1, <1>6, RecoverableParts DEF Inv

LEMMA InvStep ==
  ASSUME "write" \notin TornState
  PROVE  Inv /\ [Next]_vars => Inv'
<1> SUFFICES ASSUME Inv, [Next]_vars PROVE Inv'
  OBVIOUS
<1>1. FlashOK /\ RegsOK /\ Core /\ NeverBricked /\ TypeOK /\ AppRunsValid
  BY TypeParts, RecoverableParts DEF Inv
<1>2. TypeOK' /\ AppRunsValid'
  BY <1>1, TypeStep
<1>3. FlashOK'
  BY <1>2 DEF TypeOK, FlashOK
<1>4. Core' /\ NeverBricked' => Inv'
  BY <1>2 DEF Inv, Recoverable, Core
<1>5. CASE SblNext /\ UNCHANGED appVars
  BY <1>1, <1>3, <1>4, <1>5, MainCore, RegisterCore, FlashCore, SwapCore
  DEF SblNext, BlProcess, RegisterStep, FlashStep
<1>6. CASE AppBoot \/ AppCmd \/ WakeUp
  BY <1>1, <1>4, <1>6, ApplicationCore
<1>7. CASE Crash
  BY <1>1, <1>4, <1>7, CrashCore
<1>8. CASE UNCHANGED vars
  <2>1. UNCHANGED flash /\ UNCHANGED <<gpregret, resetreas, pc, cmd>>
    BY <1>8 DEF vars, sblVars, flash
  <2> QED
    BY <1>1, <1>4, <2>1, SameFlash
    DEF Core, MovingUndisturbed, Undisturbed, LabelsAgree, NeverBricked
<1> QED
  BY <1>5, <1>6, <1>7, <1>8 DEF Next

(* The device can always go on: while slot0 cannot be run the images are   *)
(* whole, no command or wake-up jumps to slot0, and the state pages are    *)
(* never misread, whatever resets come and whatever flash operation but    *)
(* the write of a state word they interrupt.                               *)
THEOREM AlwaysRecoverable ==
  ASSUME "write" \notin TornState
  PROVE  Spec => []Recoverable
<1>1. Init => Inv
  BY InvInit
<1>2. Inv /\ [Next]_vars => Inv'
  BY InvStep
<1>3. Inv => Recoverable
  BY DEF Inv
<1> QED
  BY <1>1, <1>2, <1>3, PTL DEF Spec

(* Neither shutdown() nor a jump to an invalid image is ever reached.      *)
THEOREM NeverBricks ==
  ASSUME "write" \notin TornState
  PROVE  Spec => []NeverBricked
<1>1. Recoverable => NeverBricked
  BY DEF Recoverable
<1> QED
  BY <1>1, AlwaysRecoverable, PTL

(* A step between two states of the swap loses no page of either image.    *)
LEMMA SwapStep ==
  ASSUME Inv, "write" \notin TornState, Next, Swapping, Swapping'
  PROVE  OldImage' = OldImage /\ InstalledImage' = InstalledImage
<1>1. FlashOK /\ RegsOK /\ Core /\ NeverBricked
  BY TypeParts, RecoverableParts DEF Inv
<1>2. /\ pc \in MovingLabels /\ Undisturbed /\ StatePagesGuarded
      /\ st \in SWAP_START .. RUN - 1
  BY <1>1, SwapRange DEF Core, MovingUndisturbed, Moving, Undisturbed
<1>3. CASE UNCHANGED flash
  BY <1>3 DEF flash, OldImage, InstalledImage, st
<1>4. CASE BlSwap
  BY <1>1, <1>2, <1>4, BlSwapKeeps DEF SwapKeeps
<1>5. CASE SblNext /\ ~BlSwap
  <2>1. ~FlashStep
    BY <1>1, <1>2, StateNumbers
    DEF FlashStep, IdleInstall, InstallStart, RestoreErase, RestoreCopy, RestoreCopied,
        Restore1Erase, SetState, EraseState0, EraseState1, Process, MovingLabels,
        Core, LabelsAgree
  <2>2. UNCHANGED flash
    BY <1>5, <2>1
    DEF SblNext, BlProcess, FlashStep, Main, RunRequested, RunNoCheck, IdleRun, Restart,
        BlRunApp, IdleNormal, InstallError, RunState, RestoreChain, RestoreAccepted,
        RestoreBegin, RestoreErased, Restore1Done, ErrorState, ToIdleNormal, ToIdleChain,
        SetRun, SetNone, BlSetRsp, BlSetCmd, flash
  <2> QED
    BY <1>3, <2>2
<1>6. CASE AppBoot \/ AppCmd \/ WakeUp
  BY <1>2, <1>6
  DEF AppBoot, AppStart, AppRsp, AppCmd, AcceptImage, FwStart, FwErase, FwErased, FwBlock,
      FwSchedule, AppSblRun, Stop, WakeUp, MovingLabels
<1>7. CASE Crash
  BY <1>3, <1>7 DEF Crash
<1> QED
  BY <1>4, <1>5, <1>6, <1>7 DEF Next

(* Both images can be put together again after every write, erase and      *)
(* reset of the swap.                                                      *)
THEOREM SwapPreservesImages ==
  ASSUME "write" \notin TornState
  PROVE  Spec => SwapPreserves
<1>1. Init => Inv
  BY InvInit
<1>2. Inv /\ [Next]_vars => Inv'
  BY InvStep
<1>3. Inv /\ [Next]_vars =>
        [Swapping /\ Swapping' => OldImage' = OldImage /\ InstalledImage' = InstalledImage]_vars
  BY SwapStep
<1> QED
  BY <1>1, <1>2, <1>3, PTL DEF Spec, SwapPreserves
===============================================================================
