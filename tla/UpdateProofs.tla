----------------------------- MODULE UpdateProofs -----------------------------
(***************************************************************************)
(* The device implements Update.tla: every step of the boot loader, of the *)
(* application and of a reset is an install, a settlement or a restore of  *)
(* the abstract update, or none of them.  That an accepted image is never  *)
(* followed by an older one is then a property of the abstract update.     *)
(* The last part is about the trial of a new image.                        *)
(***************************************************************************)
EXTENDS DeviceProofs

(* After fw-start the first page of slot1 is erased, and no block goes     *)
(* there: what could be restored is gone for good.                         *)
DownloadErased ==
  /\ pc = "app_rsp" => ram.dl = NoImage
  /\ pc = "app" /\ ram.dl # NoImage => slot1[0] = ErasedPage

LEMMA DownloadInit == Init => DownloadErased
  BY DEF Init, SblInit, DownloadErased

LEMMA DownloadStep ==
  ASSUME TypeOK, DownloadErased, [Next]_vars
  PROVE  DownloadErased'
<1>1. slot1 \in [Slot1Pages -> Page] /\ 0 \in Slot1Pages
  BY FlashAssumption DEF TypeOK, Slot1Pages
<1>2. ASSUME pc' \notin {"app", "app_rsp"} PROVE DownloadErased'
  BY <1>2 DEF DownloadErased
<1>3. CASE SblNext
  <2>1. CASE Main \/ RunRequested \/ RunNoCheck \/ IdleRun \/ Restart
    BY <1>2, <2>1 DEF Main, RunRequested, RunNoCheck, IdleRun, Restart, Reset, BlRunApp, Goto
  <2>2. CASE RegisterStep
    BY <1>2, <2>2 DEF RegisterStep, IdleNormal, InstallError, RunState, RestoreChain,
       RestoreAccepted, RestoreBegin, RestoreErased, Restore1Done, ErrorState, ToIdleNormal,
       ToIdleChain, SetRun, SetNone, Goto
  <2>3. ASSUME NEW next \in {"process", "restart", "restore_erase", "restore_copy", "erase_state_1"},
               \/ \E s : BlSetState(s, next)
               \/ \E p, pg, torn : WriteSlot0(p, pg, torn, next) \/ WriteSlot1(p, pg, torn, next)
               \/ \E n : EraseStatePage(n, next)
        PROVE  DownloadErased'
    BY <1>2, <2>3 DEF BlSetState, WriteSlot0, WriteSlot1, EraseStatePage, OutsideReset, Reset, Goto
  <2>4. CASE FlashStep
    BY <2>3, <2>4 DEF FlashStep, IdleInstall, InstallStart, RestoreErase, RestoreCopy,
       RestoreCopied, Restore1Erase, SetState, EraseState0, EraseState1, EraseSlot0, EraseSlot1
  <2>5. CASE BlSwap
    BY <2>3, <2>5 DEF BlSwap, SwapSkip, SwapErase1, SwapCopy0, SwapErase0, SwapCopy1,
       SwapNext, EraseSlot0, EraseSlot1
  <2> QED
    BY <1>3, <2>1, <2>2, <2>4, <2>5 DEF SblNext, BlProcess, RegisterStep, FlashStep
<1>4. CASE AppStart
  BY <1>4 DEF AppStart, NoRam, Goto, DownloadErased
<1>5. CASE AppRsp
  <2>1. ram.dl = NoImage /\ ram'.dl = ram.dl
    BY <1>5 DEF AppRsp, DownloadErased, TypeOK, Ram
  <2> QED
    BY <1>5, <2>1 DEF AppRsp, Goto, DownloadErased
<1>6. CASE AcceptImage
  <2>1. slot1' = [slot1 EXCEPT ![0] = ErasedPage] \/ pc' = "main"
    BY <1>6 DEF AcceptImage, EraseSlot1, WriteSlot1, OutsideReset, Reset
  <2>2. pc' \in {"app", "main"}
    BY <1>6 DEF AcceptImage, EraseSlot1, WriteSlot1, OutsideReset, Reset, Goto
  <2> QED
    BY <1>1, <2>1, <2>2 DEF DownloadErased
<1>7. CASE FwErased
  BY <1>1, <1>7 DEF FwErased, Goto, flash, DownloadErased
<1>8. CASE FwBlock
  <2> DEFINE n == ram.offset
  <2>1. n \in Slot1Pages /\ n # 0 /\ slot1[0] = ErasedPage
    BY <1>8, FlashAssumption DEF FwBlock, TypeOK, Ram, Slot1Pages, DownloadErased
  <2>2. \E q : slot1' = [slot1 EXCEPT ![n] = q]
    BY <1>8 DEF FwBlock, WriteSlot1
  <2>3. slot1'[0] = ErasedPage
    BY <1>1, <2>1, <2>2
  <2>4. pc' # "app_rsp"
    BY <1>8 DEF FwBlock, WriteSlot1, OutsideReset, Reset, Goto
  <2> QED
    BY <2>3, <2>4 DEF DownloadErased
<1>9. CASE FwStart \/ FwErase \/ FwSchedule \/ AppSblRun \/ Stop \/ WakeUp \/ Crash
  BY <1>2, <1>9 DEF FwStart, FwErase, FwSchedule, AppSblRun, SblRun, Stop, WakeUp, Crash, Reset,
     EraseSlot1, WriteSlot1, OutsideReset, Goto
<1>10. CASE UNCHANGED vars
  BY <1>10 DEF vars, sblVars, appVars, DownloadErased
<1> QED
  BY <1>3, <1>4, <1>5, <1>6, <1>7, <1>8, <1>9, <1>10 DEF Next, AppBoot, AppCmd
-------------------------------------------------------------------------------
(* What is current and what is there to fall back on *)

LEMMA Views ==
  /\ Swapping => CurrentImage = InstalledImage /\ FallbackImage = OldImage
  /\ ~Swapping /\ RestoreDue => CurrentImage = RestoreImage /\ FallbackImage = NoImage
  /\ ~Swapping /\ ~RestoreDue /\ OnTrial => CurrentImage = slot0 /\ FallbackImage = RestoreImage
  /\ ~Swapping /\ ~RestoreDue /\ ~OnTrial => CurrentImage = slot0 /\ FallbackImage = NoImage
  BY DEF CurrentImage, FallbackImage

LEMMA ViewsAfter ==
  /\ Swapping' => CurrentImage' = InstalledImage' /\ FallbackImage' = OldImage'
  /\ ~Swapping' /\ RestoreDue' => CurrentImage' = RestoreImage' /\ FallbackImage' = NoImage
  /\ ~Swapping' /\ ~RestoreDue' /\ OnTrial' => CurrentImage' = slot0' /\ FallbackImage' = RestoreImage'
  /\ ~Swapping' /\ ~RestoreDue' /\ ~OnTrial' => CurrentImage' = slot0' /\ FallbackImage' = NoImage
  BY DEF CurrentImage, FallbackImage

(* Where a restore can be due, and where something is on trial.            *)
LEMMA DueStates ==
  /\ RestoreDue => st = RESTORE_0 /\ RestoreValid /\ pc \in MovingLabels /\ OnTrial /\ ~Swapping
  /\ OnTrial => st \in {RUN, RESTORE_0} /\ RestoreValid /\ ~Swapping
  /\ st = RESTORE_0 /\ RestoreValid => OnTrial
  BY StateNumbers DEF RestoreDue, OnTrial, Swapping

LEMMA DueStatesAfter ==
  /\ RestoreDue' => st' = RESTORE_0 /\ RestoreValid' /\ OnTrial' /\ ~Swapping'
  /\ OnTrial' => st' \in {RUN, RESTORE_0} /\ RestoreValid' /\ ~Swapping'
  BY StateNumbers DEF RestoreDue, OnTrial, Swapping

LEMMA CurrentSigned ==
  ASSUME TypeOK, Core
  PROVE  /\ CurrentImage \in Signed
         /\ FallbackImage \in Signed \union {NoImage}
         /\ FallbackImage = NoImage <=> ~Swapping /\ (~OnTrial \/ RestoreDue)
<1>1. ~Swapping /\ ~RestoreDue => slot0 \in Signed
  BY DEF Core, RestoreRecoverable, MovingUndisturbed, Moving, Slot0Valid, RestoreDue
<1>2. Swapping => InstalledImage \in Signed /\ OldImage \in Signed
  BY DEF Core, SwapRecoverable
<1>3. RestoreValid => RestoreImage \in Signed
  BY DEF RestoreValid
<1> QED
  BY <1>1, <1>2, <1>3, Views, DueStates, DeviceAssumption

ImageStep ==
  \/ UNCHANGED <<CurrentImage, FallbackImage>>
  \/ Upd!Install \/ Upd!Settle \/ Upd!Restore

(* Steps within and out of a trial during which slot0 is left alone.       *)
LEMMA TrialSteps ==
  ASSUME TypeOK, Core, ~Swapping, ~Swapping', ~RestoreDue, slot0' = slot0,
         OnTrial' => OnTrial /\ RestoreImage' = RestoreImage
  PROVE  ImageStep
<1>1. CASE OnTrial /\ ~OnTrial'
  BY <1>1, Views, ViewsAfter, CurrentSigned, DueStatesAfter DEF ImageStep, Upd!Settle
<1>2. CASE OnTrial /\ OnTrial' /\ RestoreDue'
  BY <1>2, Views, ViewsAfter, CurrentSigned DEF ImageStep, Upd!Restore
<1>3. CASE OnTrial /\ OnTrial' /\ ~RestoreDue'
  BY <1>3, Views, ViewsAfter DEF ImageStep
<1>4. CASE ~OnTrial
  BY <1>4, Views, ViewsAfter, DueStatesAfter DEF ImageStep
<1> QED
  BY <1>1, <1>2, <1>3, <1>4

LEMMA DueSteps ==
  ASSUME RestoreDue, RestoreDue', RestoreImage' = RestoreImage
  PROVE  ImageStep
  BY Views, ViewsAfter, DueStates, DueStatesAfter DEF ImageStep

(* A restore that is due stays due until it is done.                       *)
QuietStep ==
  \/ Main \/ RunRequested \/ RunNoCheck \/ IdleRun \/ Restart \/ RegisterStep
  \/ AppStart \/ AppRsp \/ FwStart \/ FwErased \/ FwSchedule \/ AppSblRun \/ Stop \/ WakeUp
  \/ Crash
  \/ UNCHANGED vars

LEMMA QuietFlash ==
  ASSUME QuietStep
  PROVE  UNCHANGED flash
<1>1. CASE Main \/ RunRequested \/ RunNoCheck \/ IdleRun \/ Restart
  BY <1>1 DEF Main, RunRequested, RunNoCheck, IdleRun, Restart, BlRunApp, flash
<1>2. CASE RegisterStep
  BY <1>2 DEF RegisterStep, IdleNormal, InstallError, RunState, RestoreChain, RestoreAccepted,
     RestoreBegin, RestoreErased, Restore1Done, ErrorState, ToIdleNormal, ToIdleChain,
     SetRun, SetNone, BlSetRsp, BlSetCmd, flash
<1>3. CASE AppStart \/ AppRsp \/ FwStart \/ FwErased \/ FwSchedule \/ AppSblRun \/ Stop
           \/ WakeUp \/ Crash
  BY <1>3 DEF AppStart, AppRsp, FwStart, FwErased, FwSchedule, AppSblRun, SblRun, Stop,
     WakeUp, Crash, flash
<1>4. CASE UNCHANGED vars
  BY <1>4 DEF vars, sblVars, flash
<1> QED
  BY <1>1, <1>2, <1>3, <1>4 DEF QuietStep

LEMMA SameViews ==
  ASSUME UNCHANGED flash
  PROVE  /\ st' = st /\ slot0' = slot0 /\ RestoreImage' = RestoreImage
         /\ OldImage' = OldImage /\ InstalledImage' = InstalledImage
         /\ RestoreValid' = RestoreValid /\ OnTrial' = OnTrial /\ Swapping' = Swapping
  BY DEF flash, st, RestoreImage, OldImage, InstalledImage, RestoreValid, OnTrial, Swapping

LEMMA DueKept ==
  ASSUME RestoreDue, QuietStep
  PROVE  RestoreDue'
<1>1. /\ st' = RESTORE_0 /\ RestoreValid'
      /\ pc \in MovingLabels /\ gpregret = NONE /\ cmd = NONE /\ "OFF" \notin resetreas
      /\ st = RESTORE_0 /\ RestoreValid
  BY QuietFlash, SameViews DEF RestoreDue, Undisturbed
<1>2. ASSUME pc' \in MovingLabels, gpregret' = NONE, cmd' = NONE, "OFF" \notin resetreas'
      PROVE  RestoreDue'
  BY <1>1, <1>2 DEF RestoreDue, Undisturbed, MovingLabels
<1>3. CASE Main
  BY <1>1, <1>2, <1>3 DEF Main, MovingLabels, NONE, RUN_APP
<1>4. CASE Restart \/ Crash
  BY <1>1, <1>2, <1>4 DEF Restart, Crash, Reset, MovingLabels
<1>5. CASE RestoreBegin \/ RestoreErased
  BY <1>1, <1>2, <1>5 DEF RestoreBegin, RestoreErased, MovingLabels, Goto, regs
<1>6. CASE RegisterStep /\ ~RestoreBegin /\ ~RestoreErased
  <2>1. st \notin {IDLE, INSTALL, RUN, RESTORE_1, ERROR, TO_IDLE}
    BY <1>1, StateNumbers
  <2> QED
    BY <1>1, <1>6, <2>1
    DEF RegisterStep, IdleNormal, InstallError, RunState, RestoreChain, RestoreAccepted,
        Restore1Done, ErrorState, ToIdleNormal, ToIdleChain, SetRun, SetNone, Process,
        MovingLabels
<1>7. CASE RunRequested \/ RunNoCheck \/ IdleRun \/ AppStart \/ AppRsp \/ FwStart \/ FwErased
           \/ FwSchedule \/ AppSblRun \/ Stop \/ WakeUp
  BY <1>1, <1>7 DEF RunRequested, RunNoCheck, IdleRun, AppStart, AppRsp, FwStart, FwErased,
     FwSchedule, AppSblRun, Stop, WakeUp, MovingLabels
<1>8. CASE UNCHANGED vars
  BY <1>1, <1>2, <1>8 DEF vars, sblVars
<1> QED
  BY <1>3, <1>4, <1>5, <1>6, <1>7, <1>8 DEF QuietStep

LEMMA QuietImages ==
  ASSUME TypeOK, Core, QuietStep
  PROVE  ImageStep
<1>1. UNCHANGED flash
  BY QuietFlash
<1>2. CASE Swapping
  BY <1>1, <1>2, SameViews, Views, ViewsAfter DEF ImageStep
<1>3. CASE RestoreDue
  BY <1>1, <1>3, SameViews, DueKept, DueSteps
<1>4. CASE ~Swapping /\ ~RestoreDue
  BY <1>1, <1>4, SameViews, TrialSteps
<1> QED
  BY <1>2, <1>3, <1>4
-------------------------------------------------------------------------------
(* The boot loader's flash operations *)

(* The last step of a swap leaves the image before in slot1, ready to be   *)
(* restored.                                                               *)
LEMMA SwapEnds ==
  ASSUME TypeOK, Core, "write" \notin TornState, BlSwap, ~Swapping'
  PROVE  /\ st' = RUN /\ slot0' = InstalledImage /\ RestoreImage' = OldImage
<1>1. FlashOK /\ StatePagesGuarded
  BY TypeParts DEF Core
<1>2. /\ pc = "process" /\ Swapping
      /\ SwapNext \/ \E p, pg, torn, next :
           WriteSlot0(p, pg, torn, next) \/ WriteSlot1(p, pg, torn, next)
  BY DEF BlSwap, SwapSkip, SwapErase1, SwapCopy0, SwapErase0, SwapCopy1, SwapAt,
     EraseSlot0, EraseSlot1
<1>3. Undisturbed
  BY <1>2 DEF Core, MovingUndisturbed, Moving
<1>4. st' = RUN /\ slot0' = InstalledImage
  BY <1>1, <1>3, BlSwapKeeps DEF SwapKeeps
<1>5. SwapNext
  <2>1. ASSUME UNCHANGED bl PROVE FALSE
    BY <1>2, <2>1 DEF st, Swapping
  <2> QED
    BY <1>2, <2>1 DEF WriteSlot0, WriteSlot1
<1>6. st \in SWAP_START .. RUN - 1
  BY <1>1, <1>2, SwapRange
<1>7. st' = st + 1 /\ UNCHANGED <<slot0, slot1>>
  BY <1>1, <1>5, <1>6, SetStateEffect, StateNumbers DEF SwapNext
<1>8. SwapPage(st) = MaxSwapPages - 1 /\ SwapPhase(st) = COPY1
  BY <1>4, <1>6, <1>7, SwapSuccessor, StateNumbers
<1>9. \A p \in Pages : OldImage[p] = slot1[p]
  <2>1. /\ NPages \in Nat /\ MaxSwapPages \in Nat /\ NPages <= MaxSwapPages
    BY FlashAssumption, SblAssumption, MaxSwapAssumption
  <2> QED
    BY <1>8, <2>1 DEF OldImage, Pages
<1> QED
  BY <1>4, <1>7, <1>9 DEF OldImage, RestoreImage

LEMMA SwapImages ==
  ASSUME TypeOK, Core, "write" \notin TornState, BlSwap
  PROVE  ImageStep
<1>1. pc = "process" /\ Swapping
  BY DEF BlSwap, SwapSkip, SwapErase1, SwapCopy0, SwapErase0, SwapCopy1, SwapAt
<1>2. Undisturbed /\ StatePagesGuarded /\ FlashOK
  BY <1>1, TypeParts DEF Core, MovingUndisturbed, Moving
<1>3. SwapKeeps
  BY <1>2, BlSwapKeeps
<1>4. CASE Swapping'
  BY <1>1, <1>3, <1>4, Views, ViewsAfter DEF SwapKeeps, ImageStep
<1>5. CASE ~Swapping'
  <2>1. st' = RUN /\ slot0' = InstalledImage /\ RestoreImage' = OldImage
    BY <1>5, SwapEnds
  <2>2. OldImage \in Signed
    BY <1>1 DEF Core, SwapRecoverable
  <2>3. OnTrial' /\ ~RestoreDue'
    BY <2>1, <2>2, StateNumbers DEF OnTrial, RestoreDue, RestoreValid
  <2> QED
    BY <1>1, <1>5, <2>1, <2>3, Views, ViewsAfter DEF ImageStep
<1> QED
  BY <1>4, <1>5

(* Recording that the swap begins is the install of the abstract update.   *)
LEMMA InstallImages ==
  ASSUME TypeOK, Core, "write" \notin TornState, InstallStart
  PROVE  ImageStep
<1>1. FlashOK /\ StatePagesGuarded /\ st = INSTALL
  BY TypeParts DEF Core, InstallStart, Process
<1>2. SWAP_START \in (INSTALL .. RESTORE_1) \union {TO_IDLE} /\ SWAP_START # TO_IDLE
  BY StateNumbers
<1>3. st' = SWAP_START /\ UNCHANGED <<slot0, slot1>>
  BY <1>1, <1>2, SetStateEffect DEF InstallStart
<1>4. Swapping' /\ OldImage' = slot0 /\ InstalledImage' = NewImage
  BY <1>1, <1>3, InstalledIsNew
<1>7. NewImage \in Signed /\ MayFollow(NewImage, slot0)
  BY DEF InstallStart, Slot1Valid, MayFollow
<1>8. ~Swapping /\ ~RestoreDue /\ ~OnTrial
  BY <1>1, StateNumbers DEF Swapping, RestoreDue, OnTrial
<1>9. /\ CurrentImage = slot0 /\ FallbackImage = NoImage
      /\ CurrentImage' = NewImage /\ FallbackImage' = slot0
  BY <1>4, <1>8, Views, ViewsAfter
<1>10. Upd!Install
  <2>1. FallbackImage = NoImage /\ FallbackImage' = CurrentImage
    BY <1>9
  <2>2. MayFollow(NewImage, CurrentImage) /\ CurrentImage' = NewImage
    BY <1>7, <1>9
  <2> QED
    BY <1>7, <2>1, <2>2 DEF Upd!Install
<1> QED
  BY <1>10 DEF ImageStep

(* The restore changes slot0 behind the current image, until they agree.   *)
LEMMA RestoreImages ==
  ASSUME TypeOK, Core, "write" \notin TornState, RestoreErase \/ RestoreCopy \/ RestoreCopied
  PROVE  ImageStep
<1>1. FlashOK /\ StatePagesGuarded
  BY TypeParts DEF Core
<1>2. RestoreDue
  BY DEF RestoreErase, RestoreCopy, RestoreCopied, RestoreDue, Core, LabelsAgree, Undisturbed,
     MovingLabels
<1>3. CASE RestoreErase \/ RestoreCopy
  <2>1. \E p, pg, torn : \E next \in {"restore_erase", "restore_copy", "restart"} :
          WriteSlot0(p, pg, torn, next)
    BY <1>3 DEF RestoreErase, RestoreCopy, EraseSlot0
  <2>2. /\ UNCHANGED <<slot1, bl>> /\ Undisturbed'
        /\ pc' \in {"restore_erase", "restore_copy", "restart", "main"}
    BY <1>2, <2>1, WriteEffect0 DEF RestoreDue
  <2>3. st' = st /\ RestoreImage' = RestoreImage
    BY <2>2 DEF st, RestoreImage
  <2>4. RestoreDue'
    BY <1>2, <2>2, <2>3 DEF RestoreDue, RestoreValid, MovingLabels
  <2> QED
    BY <1>2, <2>3, <2>4, DueSteps
<1>4. CASE RestoreCopied
  <2>1. RESTORE_1 \in (INSTALL .. RESTORE_1) \union {TO_IDLE} /\ RESTORE_1 # TO_IDLE
    BY StateNumbers
  <2>2. st' = RESTORE_1 /\ UNCHANGED <<slot0, slot1>>
    BY <1>1, <1>4, <2>1, SetStateEffect DEF RestoreCopied
  <2>3. slot0 = RestoreImage
    BY <1>1, <1>4 DEF RestoreCopied, RestoreImage, FlashOK, Contents
  <2>4. ~Swapping' /\ ~RestoreDue' /\ ~OnTrial'
    BY <2>2, StateNumbers DEF Swapping, RestoreDue, OnTrial
  <2> QED
    BY <1>2, <2>2, <2>3, <2>4, Views, ViewsAfter, DueStates DEF ImageStep
<1> QED
  BY <1>3, <1>4

(* The rest of the boot loader's flash operations leave slot0 alone, and   *)
(* only end trials.                                                        *)
LEMMA OtherFlashImages ==
  ASSUME TypeOK, Core, "write" \notin TornState,
         IdleInstall \/ Restore1Erase \/ SetState \/ EraseState0 \/ EraseState1
  PROVE  ImageStep
<1>1. FlashOK /\ StatePagesGuarded /\ LabelsAgree
  BY TypeParts DEF Core
<1>2. {INSTALL, RESTORE_0, TO_IDLE} \subseteq (INSTALL .. RESTORE_1) \union {TO_IDLE}
  BY StateNumbers
<1>3. CASE IdleInstall
  <2>1. st = IDLE /\ st' = INSTALL /\ UNCHANGED <<slot0, slot1>>
    BY <1>1, <1>2, <1>3, SetStateEffect, StateNumbers DEF IdleInstall, Process
  <2>2. ~Swapping /\ ~Swapping' /\ ~RestoreDue /\ ~OnTrial'
    BY <2>1, StateNumbers DEF Swapping, RestoreDue, OnTrial
  <2> QED
    BY <2>1, <2>2, TrialSteps
<1>4. CASE Restore1Erase
  <2>1. st = RESTORE_1 /\ UNCHANGED <<slot0, bl>>
    BY <1>4 DEF Restore1Erase, Process, EraseSlot1, WriteSlot1
  <2>2. st' = RESTORE_1
    BY <2>1 DEF st
  <2>3. ~Swapping /\ ~Swapping' /\ ~RestoreDue /\ ~OnTrial'
    BY <2>1, <2>2, StateNumbers DEF Swapping, RestoreDue, OnTrial
  <2> QED
    BY <2>1, <2>3, TrialSteps
<1>5. CASE SetState
  <2>1. Settled /\ ~RestoreDue
    BY <1>5, SettledWhere DEF SetState, MovingLabels, RestoreDue
  <2>2. PICK s \in {RESTORE_0, TO_IDLE} :
          BlSetState(s, "restart") /\ (s = RESTORE_0 => st = RUN)
    BY <1>5, StateNumbers DEF SetState
  <2>3. /\ s = RESTORE_0 => st' = RESTORE_0
        /\ s = TO_IDLE => st' \in {ERROR, TO_IDLE}
        /\ UNCHANGED <<slot0, slot1>>
    BY <1>1, <1>2, <2>2, SetStateEffect, StateNumbers
  <2>4. RestoreImage' = RestoreImage /\ RestoreValid' = RestoreValid
    BY <2>3 DEF RestoreImage, RestoreValid
  <2>5. ~Swapping'
    BY <2>3, StateNumbers DEF Swapping
  <2>6. OnTrial' => OnTrial
    <3>1. CASE s = RESTORE_0
      BY <2>2, <2>4, <3>1 DEF OnTrial
    <3>2. CASE s = TO_IDLE
      BY <2>3, <3>2, StateNumbers DEF OnTrial
    <3> QED
      BY <3>1, <3>2
  <2> QED
    BY <2>1, <2>3, <2>4, <2>5, <2>6, TrialSteps DEF Settled
<1>6. CASE EraseState0 \/ EraseState1
  <2>1. Settled /\ ~RestoreDue
    BY <1>6, SettledWhere DEF EraseState0, EraseState1, MovingLabels, RestoreDue
  <2>2. st' \in {IDLE, TO_IDLE, ERROR} /\ UNCHANGED <<slot0, slot1>>
    <3>1. FlashOK'
      BY <1>6, TypeParts, FlashTypes DEF FlashStep
    <3> QED
      BY <1>1, <1>6, <3>1, EraseStateEffect
  <2>3. ~Swapping' /\ ~OnTrial'
    BY <2>2, StateNumbers DEF Swapping, OnTrial
  <2> QED
    BY <2>1, <2>2, <2>3, TrialSteps DEF Settled
<1> QED
  BY <1>3, <1>4, <1>5, <1>6
-------------------------------------------------------------------------------
(* The application's flash operations: once its first page is erased, or   *)
(* left half erased, nothing in slot1 can be taken for an image to restore.*)

LEMMA RestoreOnlyOnce ==
  ASSUME TypeOK, FirstPageTells, NEW n \in Slot1Pages, NEW q,
         slot1' = [slot1 EXCEPT ![n] = q],
         \/ n = 0 /\ (q = ErasedPage \/ q \in TornErase(slot1[0]))
         \/ n # 0 /\ slot1[0] = ErasedPage,
         RestoreImage' \in Signed
  PROVE  RestoreImage' = RestoreImage
<1>1. /\ slot1 \in [Slot1Pages -> Page] /\ 0 \in Slot1Pages /\ 0 \in Pages
      /\ Pages \subseteq Slot1Pages
  BY FlashAssumption DEF TypeOK, Slot1Pages, Pages
<1>2. RestoreImage'[0] = slot1'[0] /\ slot1'[0] # ErasedPage
  <2>1. RestoreImage'[0] = slot1'[0]
    BY <1>1 DEF RestoreImage
  <2>2. RestoreImage'[0] # ErasedPage
    BY SblAssumption
  <2> QED
    BY <2>1, <2>2
<1>3. n = 0 /\ q \in TornErase(slot1[0])
  BY <1>1, <1>2
<1>4. \A w \in Words : q[w] \notin {Erased, Junk}
  BY <1>1, <1>2, <1>3 DEF FirstPageTells
<1>5. q \in Page /\ \A w \in Words : q[w] = slot1[0][w]
  BY <1>3, <1>4 DEF TornErase
<1>6. q = slot1[0]
  BY <1>1, <1>5 DEF Page
<1>7. slot1' = slot1
  BY <1>1, <1>3, <1>6
<1> QED
  BY <1>7 DEF RestoreImage

LEMMA AppWrites ==
  ASSUME TypeOK, DownloadErased, FirstPageTells, AcceptImage \/ FwErase \/ FwBlock
  PROVE  /\ pc \in AppLabels /\ UNCHANGED <<slot0, bl>>
         /\ RestoreImage' \in Signed => RestoreImage' = RestoreImage
<1>1. \A p \in Slot1Pages : p \in Nat
  BY DEF Slot1Pages
<1>2. 0 \in Slot1Pages /\ slot1 \in [Slot1Pages -> Page]
  BY FlashAssumption DEF Slot1Pages, TypeOK
<1>3. ASSUME NEW n \in Slot1Pages, NEW pg, NEW torn, NEW next, WriteSlot1(n, pg, torn, next),
             \/ n = 0 /\ pg = ErasedPage /\ torn = TornErase(slot1[0])
             \/ n # 0 /\ slot1[0] = ErasedPage
      PROVE  /\ UNCHANGED <<slot0, bl>>
             /\ RestoreImage' \in Signed => RestoreImage' = RestoreImage
  <2>1. PICK q : slot1' = [slot1 EXCEPT ![n] = q] /\ (q = pg \/ q \in torn)
    BY <1>3 DEF WriteSlot1
  <2>2. RestoreImage' \in Signed => RestoreImage' = RestoreImage
    BY <1>3, <2>1, RestoreOnlyOnce
  <2> QED
    BY <1>3, <2>2 DEF WriteSlot1
<1>4. CASE AcceptImage
  BY <1>2, <1>3, <1>4 DEF AcceptImage, EraseSlot1, AppLabels
<1>5. CASE FwErase
  <2>1. PICK p \in Slot1Pages :
          /\ \A r \in Slot1Pages : r < p => slot1[r] = ErasedPage
          /\ EraseSlot1(p, "fw_erase")
    BY <1>5 DEF FwErase
  <2>2. p # 0 => slot1[0] = ErasedPage
    BY <1>1, <1>2, <2>1
  <2> QED
    BY <1>3, <1>5, <2>1, <2>2 DEF FwErase, EraseSlot1, AppLabels
<1>6. CASE FwBlock
  <2> DEFINE n == ram.offset
  <2>1. n \in Slot1Pages /\ n # 0 /\ slot1[0] = ErasedPage
    BY <1>6, FlashAssumption DEF FwBlock, TypeOK, Ram, Slot1Pages, DownloadErased
  <2>2. \E pg, torn, next : WriteSlot1(n, pg, torn, next)
    BY <1>6 DEF FwBlock
  <2> QED
    BY <1>3, <1>6, <2>1, <2>2 DEF FwBlock, AppLabels
<1> QED
  BY <1>4, <1>5, <1>6

LEMMA AppImages ==
  ASSUME TypeOK, Core, DownloadErased, FirstPageTells, AcceptImage \/ FwErase \/ FwBlock
  PROVE  ImageStep
<1>1. /\ pc \in AppLabels /\ UNCHANGED <<slot0, bl>>
      /\ RestoreImage' \in Signed => RestoreImage' = RestoreImage
  BY AppWrites
<1>2. Settled /\ ~RestoreDue
  BY <1>1, SettledWhere DEF AppLabels, MovingLabels, RestoreDue
<1>3. st' = st /\ ~Swapping'
  BY <1>1, <1>2 DEF st, Swapping, Settled
<1>4. OnTrial' => OnTrial /\ RestoreImage' = RestoreImage
  BY <1>1, <1>3 DEF OnTrial, RestoreValid
<1> QED
  BY <1>1, <1>2, <1>3, <1>4, TrialSteps DEF Settled
-------------------------------------------------------------------------------
UpdateInv == Inv /\ DownloadErased

LEMMA UpdateInvInit == Init => UpdateInv
  BY InvInit, DownloadInit DEF UpdateInv

LEMMA UpdateInvStep ==
  ASSUME "write" \notin TornState
  PROVE  UpdateInv /\ [Next]_vars => UpdateInv'
  BY InvStep, DownloadStep DEF UpdateInv, Inv

LEMMA InitIdle == Init => st = IDLE
<1> SUFFICES ASSUME Init PROVE st = IDLE
  OBVIOUS
<1>1. bl[0] = ClearPage /\ bl[1] = ClearPage
  BY DEF Init, SblInit
<1>2. bl \in [0 .. 1 -> StatePage] /\ Guarded(bl)
  BY <1>1, InvInit DEF Inv, TypeOK, Guarded, ClearPage
<1> QED
  BY <1>1, <1>2, GuardedState DEF st, ClearPage, IDLE

LEMMA UpdateInitially == Init => Upd!UpdateInit
<1> SUFFICES ASSUME Init PROVE Upd!UpdateInit
  OBVIOUS
<1>1. st = IDLE
  BY InitIdle
<1>2. ~Swapping /\ ~RestoreDue /\ ~OnTrial
  BY <1>1, StateNumbers DEF Swapping, RestoreDue, OnTrial
<1> QED
  BY <1>2, Views DEF Upd!UpdateInit, Init, SblInit

LEMMA ImagesStep ==
  ASSUME "write" \notin TornState, FirstPageTells, UpdateInv, [Next]_vars
  PROVE  ImageStep
<1>1. TypeOK /\ Core /\ DownloadErased
  BY RecoverableParts DEF UpdateInv, Inv
<1>2. CASE QuietStep
  BY <1>1, <1>2, QuietImages
<1>3. CASE FlashStep
  BY <1>1, <1>3, InstallImages, RestoreImages, OtherFlashImages DEF FlashStep
<1>4. CASE BlSwap
  BY <1>1, <1>4, SwapImages
<1>5. CASE AcceptImage \/ FwErase \/ FwBlock
  BY <1>1, <1>5, AppImages
<1> QED
  BY <1>2, <1>3, <1>4, <1>5
  DEF Next, SblNext, BlProcess, RegisterStep, FlashStep, AppBoot, AppCmd, QuietStep

(* Whatever resets interrupt, the device moves from one settled image to a *)
(* newer one on trial, and from there stays or goes back to it.            *)
THEOREM ImplementsAbstractUpdate ==
  ASSUME "write" \notin TornState, FirstPageTells
  PROVE  Spec => ImplementsUpdate
<1>1. Init => UpdateInv
  BY UpdateInvInit
<1>2. UpdateInv /\ [Next]_vars => UpdateInv'
  BY UpdateInvStep
<1>3. Init => Upd!UpdateInit
  BY UpdateInitially
<1>4. UpdateInv /\ [Next]_vars => [Upd!UpdateNext]_(Upd!updateVars)
  BY ImagesStep DEF ImageStep, Upd!UpdateNext, Upd!updateVars
<1> QED
  BY <1>1, <1>2, <1>3, <1>4, PTL DEF Spec, ImplementsUpdate, Upd!UpdateSpec
-------------------------------------------------------------------------------
(* No rollback: neither the current image nor the one before it is older   *)
(* than any that ran with nothing to restore.                              *)
NotBelow ==
  /\ Header[CurrentImage].date >= accepted
  /\ FallbackImage # NoImage => Header[FallbackImage].date >= accepted

LEMMA DatesAreNumbers == \A image \in Signed : Header[image].date \in Nat
  BY SblAssumption

LEMMA ImageStepNotBelow ==
  ASSUME ~TargetDev, TypeOK, Core, NotBelow, ImageStep, UNCHANGED accepted
  PROVE  NotBelow'
<1>1. /\ CurrentImage \in Signed /\ accepted \in Nat
      /\ Header[CurrentImage].date \in Nat /\ Header[CurrentImage].date >= accepted
  BY CurrentSigned, DatesAreNumbers DEF TypeOK, NotBelow
<1>2. CASE UNCHANGED <<CurrentImage, FallbackImage>>
  BY <1>2 DEF NotBelow
<1>3. CASE Upd!Install
  <2>1. PICK image \in Signed : MayFollow(image, CurrentImage) /\ CurrentImage' = image
    BY <1>3 DEF Upd!Install
  <2>2. Header[image].date > Header[CurrentImage].date /\ Header[image].date \in Nat
    BY <2>1, DatesAreNumbers DEF MayFollow, Ratchet
  <2>3. Header[image].date >= accepted
    BY <1>1, <2>2
  <2>4. FallbackImage' = CurrentImage
    BY <1>3 DEF Upd!Install
  <2>5. Header[CurrentImage'].date >= accepted' /\ Header[FallbackImage'].date >= accepted'
    BY <1>1, <2>1, <2>3, <2>4
  <2> QED
    BY <2>5 DEF NotBelow
<1>4. CASE Upd!Settle
  BY <1>4 DEF NotBelow, Upd!Settle
<1>5. CASE Upd!Restore
  BY <1>5 DEF NotBelow, Upd!Restore
<1> QED
  BY <1>2, <1>3, <1>4, <1>5 DEF ImageStep

(* A step of the application that accepts the image in slot0.              *)
LEMMA AcceptNotBelow ==
  ASSUME TypeOK, Core, DownloadErased, FirstPageTells, NotBelow,
         AcceptImage \/ FwErase \/ FwBlock, RestoreImage' \notin Signed
  PROVE  NotBelow'
<1>1. pc \in AppLabels /\ UNCHANGED <<slot0, bl>>
  BY AppWrites
<1>2. Settled /\ ~RestoreDue
  BY <1>1, SettledWhere DEF AppLabels, MovingLabels, RestoreDue
<1>3. CurrentImage = slot0 /\ slot0 \in Signed
  BY <1>2, Views DEF Settled, Slot0Valid
<1>4. ~Swapping' /\ ~RestoreDue' /\ ~OnTrial'
  BY <1>1, <1>2 DEF Settled, Swapping, st, RestoreDue, OnTrial, RestoreValid
<1>5. CurrentImage' = slot0 /\ FallbackImage' = NoImage
  BY <1>1, <1>4, ViewsAfter
<1>6. NoteAccepted
  BY DEF AcceptImage, FwErase, FwBlock
<1>7. /\ accepted' = IF accepted < Header[slot0].date THEN Header[slot0].date ELSE accepted
      /\ accepted \in Nat /\ Header[slot0].date \in Nat /\ Header[slot0].date >= accepted
  BY <1>3, <1>6, DatesAreNumbers DEF NoteAccepted, NotBelow, TypeOK
<1>8. Header[slot0].date >= accepted'
  BY <1>7
<1> QED
  BY <1>5, <1>8 DEF NotBelow

LEMMA NotBelowStep ==
  ASSUME "write" \notin TornState, ~TargetDev, FirstPageTells, UpdateInv, NotBelow, [Next]_vars
  PROVE  NotBelow'
<1>1. TypeOK /\ Core /\ DownloadErased /\ ImageStep
  BY RecoverableParts, ImagesStep DEF UpdateInv, Inv
<1>2. CASE UNCHANGED accepted
  BY <1>1, <1>2, ImageStepNotBelow
<1>3. CASE AcceptImage \/ FwErase \/ FwBlock
  <2>1. CASE RestoreImage' \in Signed
    <3>1. UNCHANGED accepted
      BY <1>3, <2>1 DEF AcceptImage, FwErase, FwBlock, NoteAccepted
    <3> QED
      BY <1>2, <3>1
  <2>2. CASE RestoreImage' \notin Signed
    BY <1>1, <1>3, <2>2, AcceptNotBelow
  <2> QED
    BY <2>1, <2>2
<1>4. UNCHANGED accepted \/ AcceptImage \/ FwErase \/ FwBlock
  BY DEF Next, AppBoot, AppCmd, AppStart, AppRsp, FwStart, FwErased, FwSchedule, AppSblRun,
     SblRun, Stop, WakeUp, Crash, appVars, vars
<1> QED
  BY <1>2, <1>3, <1>4

(* In the release build an image that ran with nothing left to restore is  *)
(* never followed by an older one.                                         *)
THEOREM NoRollback ==
  ASSUME "write" \notin TornState, ~TargetDev, FirstPageTells
  PROVE  Spec => []AcceptedIsFinal
<1>1. Init => UpdateInv /\ NotBelow
  <2> SUFFICES ASSUME Init PROVE UpdateInv /\ NotBelow
    OBVIOUS
  <2>1. UpdateInv
    BY UpdateInvInit
  <2>2. CurrentImage \in Signed /\ FallbackImage = NoImage
    <3>1. Init => Upd!UpdateInit
      BY UpdateInitially
    <3> QED
      BY <3>1 DEF Upd!UpdateInit
  <2>3. accepted = 0 /\ Header[CurrentImage].date \in Nat
    BY <2>2, DatesAreNumbers DEF Init
  <2>4. Header[CurrentImage].date >= accepted
    BY <2>3
  <2> QED
    BY <2>1, <2>2, <2>4 DEF NotBelow
<1>2. UpdateInv /\ NotBelow /\ [Next]_vars => (UpdateInv /\ NotBelow)'
  BY UpdateInvStep, NotBelowStep
<1>3. UpdateInv /\ NotBelow => AcceptedIsFinal
  <2> SUFFICES ASSUME UpdateInv, NotBelow, pc \in AppLabels
               PROVE  Header[slot0].date >= accepted
    BY DEF AcceptedIsFinal
  <2>1. Settled /\ ~RestoreDue
    BY RecoverableParts, SettledWhere DEF UpdateInv, Inv, AppLabels, MovingLabels, RestoreDue
  <2>2. CurrentImage = slot0
    BY <2>1, Views DEF Settled
  <2> QED
    BY <2>2 DEF NotBelow
<1> QED
  BY <1>1, <1>2, <1>3, PTL DEF Spec
-------------------------------------------------------------------------------
(* The trial of a new image: the response the application reads tells what *)
(* this start is, and an image that is not accepted is started only once.  *)
(* Both need that no soft reset comes from outside the code - one between  *)
(* bl_set_cmd(RUN_APP) and the new state would start the image a second    *)
(* time - and that the application does not pass RUN_APP to sbl_run().     *)

(* What each place in the code may rely on, beyond LabelsAgree.            *)
RunLabels == {"set_state", "erase_state_0", "erase_state_1", "restart", "main"}

CommandsAgree ==
  /\ gpregret = RUN_APP => pc \in RunLabels /\ (pc = "main" => "SREQ" \in resetreas)
  /\ cmd = RUN_APP => pc \in {"run_app"} \union AppLabels \union {"off"}
  /\ pc = "set_run" => st # RESTORE_0
  /\ pc = "set_state" /\ st = RESTORE_0 => gpregret # RUN_APP
  /\ pc = "set_none" => ~RestoreValid
  /\ pc = "idle_run" => st = IDLE
  /\ pc = "run_nocheck" => "OFF" \in resetreas

(* Between the end of the swap and the record that the new image was       *)
(* started nothing but hard resets can come in between.                    *)
RunOnce ==
  st = RUN =>
    /\ RestoreValid
    /\ pc \in {"main", "process", "set_run", "set_state", "restart"}
    /\ cmd = NONE /\ "OFF" \notin resetreas
    /\ gpregret = NONE \/ pc = "set_state"

(* A response is about the start it precedes.                              *)
ResponseAgrees ==
  /\ gpregret2 # NORMAL =>
       /\ pc \in {"set_run", "run_app", "app_start", "app_rsp"} \/ gpregret = RUN_APP
       /\ "OFF" \notin resetreas
       /\ pc = "app_rsp" => "OFF" \notin ram.reason
  /\ gpregret2 = NEW_FW_FIRST_RUN => OnTrial
  /\ gpregret2 = RESTORE_FIRST_RUN => ~RestoreValid
  /\ OnTrial =>
       /\ gpregret = RUN_APP \/ pc = "set_run" => gpregret2 = NEW_FW_FIRST_RUN
       /\ pc \in {"run_app", "app_start"} /\ "OFF" \notin resetreas => gpregret2 = NEW_FW_FIRST_RUN
       /\ pc = "app_rsp" /\ "OFF" \notin ram.reason => gpregret2 = NEW_FW_FIRST_RUN

ResponseInv == CommandsAgree /\ RunOnce /\ ResponseAgrees

LEMMA CodesDiffer ==
  /\ NONE # RUN_APP /\ NONE # INSTALL_APP /\ INSTALL_APP # RUN_APP
  /\ NORMAL \notin {NEW_FW_FIRST_RUN, RESTORE_FIRST_RUN, INSTALL_ERROR, INTERNAL_ERROR}
  /\ NEW_FW_FIRST_RUN \notin {RESTORE_FIRST_RUN, INSTALL_ERROR, INTERNAL_ERROR}
  /\ RESTORE_FIRST_RUN \notin {INSTALL_ERROR, INTERNAL_ERROR}
  BY DEF NONE, RUN_APP, INSTALL_APP, NORMAL, NEW_FW_FIRST_RUN, RESTORE_FIRST_RUN,
     INSTALL_ERROR, INTERNAL_ERROR

(* Every reset from outside starts afresh: no command, no response.        *)
LEMMA HardReset ==
  ASSUME "soft" \notin ResetKinds, NEW kind \in ResetKinds, Reset(kind),
         st' = RUN => RestoreValid' /\ "OFF" \notin resetreas
  PROVE  ResponseInv'
<1>1. /\ gpregret' = NONE /\ gpregret2' = NORMAL /\ pc' = "main" /\ cmd' = NONE
      /\ "OFF" \notin resetreas => "OFF" \notin resetreas'
  BY DEF Reset
<1>2. CommandsAgree'
  BY <1>1, CodesDiffer DEF CommandsAgree
<1>3. RunOnce'
  BY <1>1 DEF RunOnce
<1>4. ResponseAgrees'
  BY <1>1, CodesDiffer DEF ResponseAgrees
<1> QED
  BY <1>2, <1>3, <1>4 DEF ResponseInv

LEMMA HardOutsideReset ==
  ASSUME "soft" \notin ResetKinds, OutsideReset,
         st' = RUN => RestoreValid' /\ "OFF" \notin resetreas
  PROVE  ResponseInv'
  BY HardReset DEF OutsideReset

LEMMA MainResponses ==
  ASSUME TypeOK, Core, ResponseInv,
         Main \/ RunRequested \/ RunNoCheck \/ IdleRun \/ Restart
  PROVE  ResponseInv'
<1> USE DEF ResponseInv
<1>1. QuietStep
  BY DEF QuietStep
<1>2. st' = st /\ RestoreValid' = RestoreValid /\ OnTrial' = OnTrial
  BY <1>1, QuietFlash, SameViews
<1>3. CASE Main
  <2>1. /\ gpregret' = NONE /\ cmd' = gpregret /\ UNCHANGED <<gpregret2, resetreas>>
        /\ pc = "main"
        /\ pc' = IF "SREQ" \in resetreas /\ gpregret = RUN_APP THEN "run_app"
                 ELSE IF "OFF" \in resetreas THEN "run_nocheck" ELSE "process"
    BY <1>3 DEF Main
  <2>2. CommandsAgree'
    BY <1>2, <2>1, CodesDiffer DEF CommandsAgree, RunLabels
  <2>3. RunOnce'
    BY <1>2, <2>1, CodesDiffer DEF RunOnce
  <2>4. ResponseAgrees'
    BY <1>2, <2>1, CodesDiffer DEF ResponseAgrees, CommandsAgree
  <2> QED
    BY <2>2, <2>3, <2>4
<1>4. CASE RunRequested \/ RunNoCheck \/ IdleRun
  <2>1. /\ pc \in {"run_app", "run_nocheck", "idle_run"} /\ pc' = "app_start"
        /\ UNCHANGED <<gpregret, gpregret2, resetreas, cmd>>
    <3>1. pc \notin MovingLabels
      BY <1>4 DEF RunRequested, RunNoCheck, IdleRun, MovingLabels
    <3>2. Slot0Valid
      BY <3>1, SettledWhere DEF Settled
    <3> QED
      BY <1>4, <3>2 DEF RunRequested, RunNoCheck, IdleRun, BlRunApp, Goto
  <2>2. CommandsAgree'
    BY <1>2, <2>1 DEF CommandsAgree, RunLabels, AppLabels
  <2>3. RunOnce'
    BY <1>2, <2>1 DEF RunOnce
  <2>4. ResponseAgrees'
    BY <1>2, <2>1, StateNumbers
    DEF ResponseAgrees, CommandsAgree, RunLabels, OnTrial
  <2> QED
    BY <2>2, <2>3, <2>4
<1>5. CASE Restart
  <2>1. /\ pc \in {"restart", "wild"} /\ pc' = "main" /\ cmd' = NONE
        /\ UNCHANGED <<gpregret, gpregret2>> /\ resetreas' = resetreas \union {"SREQ"}
    BY <1>5 DEF Restart, Reset
  <2>2. CommandsAgree'
    BY <1>2, <2>1, CodesDiffer DEF CommandsAgree, RunLabels
  <2>3. RunOnce'
    BY <1>2, <2>1 DEF RunOnce
  <2>4. ResponseAgrees'
    BY <1>2, <2>1 DEF ResponseAgrees, CommandsAgree, RunLabels
  <2> QED
    BY <2>2, <2>3, <2>4
<1> QED
  BY <1>3, <1>4, <1>5

(* A branch of bl_process() that sets a response.                          *)
LEMMA BranchResponses ==
  ASSUME TypeOK, Core, ResponseInv, NEW r \in Rsps, NEW next \in {"set_run", "set_none", "idle_run"},
         pc = "process", BlSetRsp(r), Goto(next), st # RESTORE_0 \/ ~RestoreValid,
         next = "set_run" => st # RESTORE_0,
         next = "set_none" => ~RestoreValid,
         next = "idle_run" => st = IDLE,
         next # "set_run" => r = NORMAL,
         r = NEW_FW_FIRST_RUN <=> st = RUN,
         r = RESTORE_FIRST_RUN => ~RestoreValid
  PROVE  ResponseInv'
<1> USE DEF ResponseInv
<1>1. /\ UNCHANGED <<flash, gpregret, resetreas, cmd>> /\ gpregret2' = r /\ pc' = next
      /\ gpregret = NONE /\ "OFF" \notin resetreas
  BY DEF BlSetRsp, Goto, Core, LabelsAgree
<1>2. st' = st /\ RestoreValid' = RestoreValid /\ OnTrial' = OnTrial
  BY <1>1, SameViews
<1>3. st = RUN => RestoreValid /\ cmd = NONE
  BY DEF RunOnce
<1>4. st = RUN => next = "set_run"
  BY CodesDiffer
<1>5. cmd # RUN_APP
  BY DEF CommandsAgree, AppLabels
<1>6. OnTrial <=> st = RUN
  BY <1>3, StateNumbers DEF OnTrial
<1>7. CommandsAgree'
  BY <1>1, <1>2, <1>5, CodesDiffer DEF CommandsAgree
<1>8. RunOnce'
  BY <1>1, <1>2, <1>3, <1>4 DEF RunOnce
<1>9. ResponseAgrees'
  BY <1>1, <1>2, <1>6, CodesDiffer DEF ResponseAgrees
<1> QED
  BY <1>7, <1>8, <1>9

LEMMA RegisterResponses ==
  ASSUME TypeOK, Core, ResponseInv, RegisterStep
  PROVE  ResponseInv'
<1> USE DEF ResponseInv
<1>1. QuietStep
  BY DEF QuietStep
<1>2. st' = st /\ RestoreValid' = RestoreValid /\ OnTrial' = OnTrial
  BY <1>1, QuietFlash, SameViews
<1>3. CASE IdleNormal \/ InstallError \/ RunState \/ ErrorState \/ ToIdleNormal
           \/ RestoreAccepted \/ Restore1Done
  <2>1. IDLE # RESTORE_0 /\ IDLE # RUN /\ INSTALL # RESTORE_0 /\ INSTALL # RUN /\ RUN # RESTORE_0
        /\ ERROR # RESTORE_0 /\ ERROR # RUN /\ TO_IDLE # RESTORE_0 /\ TO_IDLE # RUN
        /\ RESTORE_1 # RESTORE_0 /\ RESTORE_1 # RUN
    BY StateNumbers
  <2>2. {NORMAL, NEW_FW_FIRST_RUN, RESTORE_FIRST_RUN, INSTALL_ERROR, INTERNAL_ERROR} = Rsps
    BY DEF Rsps
  <2>3. CASE IdleNormal
    BY <2>1, <2>2, <2>3, CodesDiffer, BranchResponses DEF IdleNormal, Process
  <2>4. CASE InstallError
    BY <2>1, <2>2, <2>4, CodesDiffer, BranchResponses DEF InstallError, Process
  <2>5. CASE RunState
    BY <2>1, <2>2, <2>5, CodesDiffer, BranchResponses DEF RunState, Process
  <2>6. CASE ErrorState
    BY <2>1, <2>2, <2>6, CodesDiffer, BranchResponses DEF ErrorState, Process
  <2>7. CASE ToIdleNormal
    BY <2>1, <2>2, <2>7, CodesDiffer, BranchResponses DEF ToIdleNormal, Process
  <2>8. CASE RestoreAccepted
    BY <2>1, <2>2, <2>8, CodesDiffer, BranchResponses DEF RestoreAccepted, Process
  <2>9. CASE Restore1Done
    <3>1. ~RestoreValid
      <4>1. 0 \in Pages /\ slot1[0] = ErasedPage
        BY <2>9, FlashAssumption DEF Restore1Done, Pages
      <4>2. RestoreImage[0] = ErasedPage
        BY <4>1 DEF RestoreImage
      <4> QED
        BY <4>2, SblAssumption DEF RestoreValid
    <3> QED
      BY <2>1, <2>2, <2>9, <3>1, CodesDiffer, BranchResponses DEF Restore1Done, Process
  <2> QED
    BY <1>3, <2>3, <2>4, <2>5, <2>6, <2>7, <2>8, <2>9
<1>4. CASE RestoreChain \/ ToIdleChain
  <2>1. /\ pc = "process" /\ st # RUN /\ st \in {RESTORE_0, TO_IDLE}
        /\ gpregret' = cmd /\ UNCHANGED <<gpregret2, resetreas, cmd>>
        /\ pc' \in {"set_state", "erase_state_0"}
    BY <1>4, StateNumbers DEF RestoreChain, ToIdleChain, Process, BlSetCmd, Goto
  <2>2. cmd # RUN_APP /\ gpregret = NONE
    BY <2>1 DEF CommandsAgree, AppLabels, Core, LabelsAgree
  <2>3. gpregret2 = NORMAL
    BY <2>1, <2>2, CodesDiffer DEF ResponseAgrees
  <2>4. CommandsAgree'
    BY <1>2, <2>1, <2>2 DEF CommandsAgree
  <2>5. RunOnce'
    BY <1>2, <2>1 DEF RunOnce
  <2>6. ResponseAgrees'
    BY <1>2, <2>1, <2>2, <2>3, CodesDiffer DEF ResponseAgrees
  <2> QED
    BY <2>4, <2>5, <2>6
<1>5. CASE RestoreBegin \/ RestoreErased
  <2>1. /\ pc \in {"process", "restore_erase"} /\ pc' \in {"restore_erase", "restore_copy"}
        /\ UNCHANGED <<gpregret, gpregret2, resetreas, cmd>>
    BY <1>5 DEF RestoreBegin, RestoreErased, Process, Goto, regs
  <2>2. cmd # RUN_APP /\ gpregret = NONE /\ st = RESTORE_0
    BY <1>5, <2>1
    DEF CommandsAgree, AppLabels, Core, LabelsAgree, RestoreBegin, RestoreErased, Process
  <2>3. gpregret2 = NORMAL
    BY <2>1, <2>2, CodesDiffer DEF ResponseAgrees
  <2>4. CommandsAgree'
    BY <1>2, <2>1, <2>2, CodesDiffer DEF CommandsAgree
  <2>5. RunOnce'
    BY <1>2, <2>1, <2>2, StateNumbers DEF RunOnce
  <2>6. ResponseAgrees'
    BY <1>2, <2>1, <2>2, <2>3, CodesDiffer DEF ResponseAgrees
  <2> QED
    BY <2>4, <2>5, <2>6
<1>6. CASE SetRun
  <2>1. /\ pc = "set_run" /\ pc' \in {"erase_state_0", "set_state"}
        /\ pc' = "erase_state_0" => st \in {ERROR, TO_IDLE}
        /\ gpregret' = RUN_APP /\ UNCHANGED <<gpregret2, resetreas, cmd>>
    BY <1>6 DEF SetRun, BlSetCmd, Goto
  <2>2. CommandsAgree'
    BY <1>2, <2>1 DEF CommandsAgree, RunLabels, AppLabels
  <2>3. RunOnce'
    BY <1>2, <2>1, StateNumbers DEF RunOnce
  <2>4. ResponseAgrees'
    BY <1>2, <2>1 DEF ResponseAgrees
  <2> QED
    BY <2>2, <2>3, <2>4
<1>7. CASE SetNone
  <2>1. /\ pc = "set_none" /\ pc' = "set_state"
        /\ gpregret' = NONE /\ UNCHANGED <<gpregret2, resetreas, cmd>>
    BY <1>7 DEF SetNone, BlSetCmd, Goto
  <2>2. gpregret # RUN_APP /\ ~RestoreValid /\ ~OnTrial /\ gpregret2 = NORMAL /\ st # RUN
    BY <2>1 DEF CommandsAgree, RunLabels, OnTrial, ResponseAgrees, RunOnce
  <2>3. CommandsAgree'
    BY <1>2, <2>1, CodesDiffer DEF CommandsAgree, AppLabels
  <2>4. RunOnce'
    BY <1>2, <2>2 DEF RunOnce
  <2>5. ResponseAgrees'
    BY <1>2, <2>1, <2>2, CodesDiffer DEF ResponseAgrees
  <2> QED
    BY <2>3, <2>4, <2>5
<1> QED
  BY <1>3, <1>4, <1>5, <1>6, <1>7 DEF RegisterStep

(* While bl_process() moves pages no command and no response is pending.   *)
LEMMA Unheard ==
  ASSUME Core, ResponseInv, pc \in {"process", "restore_erase", "restore_copy"}
  PROVE  /\ gpregret = NONE /\ gpregret2 = NORMAL /\ cmd # RUN_APP
         /\ "OFF" \notin resetreas
  BY CodesDiffer DEF Core, LabelsAgree, ResponseInv, CommandsAgree, ResponseAgrees, AppLabels

StillUnheard ==
  /\ pc' \in {"process", "restore_erase", "restore_copy", "restart", "main"}
  /\ gpregret' = NONE /\ gpregret2' = NORMAL /\ cmd' \in {cmd, NONE}
  /\ "OFF" \notin resetreas'

LEMMA UnheardResponses ==
  ASSUME cmd # RUN_APP, StillUnheard,
         st' = RUN => RestoreValid' /\ cmd' = NONE /\ pc' \in {"process", "restart", "main"}
  PROVE  ResponseInv'
<1>1. CommandsAgree'
  BY CodesDiffer DEF StillUnheard, CommandsAgree
<1>2. RunOnce'
  BY DEF StillUnheard, RunOnce
<1>3. ResponseAgrees'
  BY CodesDiffer DEF StillUnheard, ResponseAgrees
<1> QED
  BY <1>1, <1>2, <1>3 DEF ResponseInv

LEMMA UnheardWrites ==
  ASSUME Core, ResponseInv, pc \in {"process", "restore_erase", "restore_copy"},
         NEW next \in {"process", "restore_erase", "restore_copy", "restart"},
         \/ \E p, pg, torn : WriteSlot0(p, pg, torn, next) \/ WriteSlot1(p, pg, torn, next)
         \/ "write" \notin TornState /\ \E s : BlSetState(s, next)
  PROVE  StillUnheard
<1>1. /\ gpregret = NONE /\ gpregret2 = NORMAL /\ "OFF" \notin resetreas
  BY Unheard
<1>2. \/ UNCHANGED regs /\ pc' = next /\ cmd' \in {cmd, NONE}
      \/ OutsideReset
  BY DEF WriteSlot0, WriteSlot1, BlSetState, KeepRegs, Goto
<1>3. CASE UNCHANGED regs /\ pc' = next /\ cmd' \in {cmd, NONE}
  BY <1>1, <1>3 DEF StillUnheard, regs
<1>4. CASE OutsideReset
  BY <1>1, <1>4 DEF StillUnheard, OutsideReset, Reset
<1> QED
  BY <1>2, <1>3, <1>4

LEMMA FlashResponses ==
  ASSUME TypeOK, Core, ResponseInv, FlashOK', "soft" \notin ResetKinds, "write" \notin TornState,
         FlashStep
  PROVE  ResponseInv'
<1>1. FlashOK /\ StatePagesGuarded /\ LabelsAgree
  BY TypeParts DEF Core
<1>2. /\ {INSTALL, SWAP_START, RESTORE_0, RESTORE_1, TO_IDLE}
           \subseteq (INSTALL .. RESTORE_1) \union {TO_IDLE}
      /\ RUN \notin {INSTALL, SWAP_START, RESTORE_0, RESTORE_1, TO_IDLE, ERROR, IDLE}
  BY StateNumbers
<1>3. CASE IdleInstall \/ InstallStart \/ RestoreCopied
  <2>1. PICK s \in {INSTALL, SWAP_START, RESTORE_1} : BlSetState(s, "process")
    BY <1>3 DEF IdleInstall, InstallStart, RestoreCopied
  <2>2. pc \in {"process", "restore_copy"}
    BY <1>3 DEF IdleInstall, InstallStart, RestoreCopied, Process
  <2>3. StillUnheard
    BY <2>1, <2>2, UnheardWrites
  <2>4. st' # RUN
    BY <1>1, <1>2, <2>1, SetStateEffect, StateNumbers
  <2> QED
    BY <2>2, <2>3, <2>4, Unheard, UnheardResponses
<1>4. CASE RestoreErase \/ RestoreCopy \/ Restore1Erase
  <2>1. /\ pc \in {"process", "restore_erase", "restore_copy"} /\ UNCHANGED bl
        /\ st \in {RESTORE_0, RESTORE_1}
    BY <1>1, <1>4 DEF RestoreErase, RestoreCopy, Restore1Erase, Process, LabelsAgree,
       EraseSlot0, EraseSlot1, WriteSlot0, WriteSlot1
  <2>2. \E next \in {"process", "restore_erase", "restore_copy", "restart"} :
          \E p, pg, torn : WriteSlot0(p, pg, torn, next) \/ WriteSlot1(p, pg, torn, next)
    BY <1>4 DEF RestoreErase, RestoreCopy, Restore1Erase, EraseSlot0, EraseSlot1
  <2>3. StillUnheard
    BY <2>1, <2>2, UnheardWrites
  <2>4. st' # RUN
    BY <1>2, <2>1 DEF st
  <2> QED
    BY <2>1, <2>3, <2>4, Unheard, UnheardResponses
<1>5. CASE SetState
  <2> DEFINE s == IF st = RUN THEN RESTORE_0 ELSE TO_IDLE
  <2>1. BlSetState(s, "restart") /\ pc = "set_state"
    BY <1>5 DEF SetState
  <2>2. /\ s = RESTORE_0 => st' = RESTORE_0
        /\ s = TO_IDLE => st' \in {ERROR, TO_IDLE}
        /\ UNCHANGED <<slot0, slot1, gpregret, resetreas>> /\ pc' = "restart" /\ cmd' = NONE
    BY <1>1, <1>2, <2>1, SetStateEffect, StateNumbers
  <2>3. UNCHANGED gpregret2
    BY <2>1 DEF BlSetState, KeepRegs, regs
  <2>4. RestoreValid' = RestoreValid
    BY <2>2 DEF RestoreValid, RestoreImage
  <2>5. RESTORE_0 # TO_IDLE /\ st' # RUN
    BY <2>2, StateNumbers
  <2>6. OnTrial' <=> st = RUN /\ RestoreValid
    BY <2>2, <2>4, <2>5, StateNumbers DEF OnTrial
  <2>7. OnTrial' => OnTrial
    BY <2>6 DEF OnTrial
  <2>8. CommandsAgree'
    BY <2>2, CodesDiffer DEF CommandsAgree, RunLabels
  <2>9. RunOnce'
    BY <2>5 DEF RunOnce
  <2>10. gpregret2 # NORMAL => gpregret = RUN_APP /\ "OFF" \notin resetreas
    BY <2>1 DEF ResponseInv, ResponseAgrees
  <2>11. gpregret2 = NEW_FW_FIRST_RUN => OnTrial'
    <3> SUFFICES ASSUME gpregret2 = NEW_FW_FIRST_RUN PROVE OnTrial'
      OBVIOUS
    <3>1. OnTrial /\ gpregret = RUN_APP
      BY <2>10, CodesDiffer DEF ResponseInv, ResponseAgrees
    <3>2. st = RUN
      BY <2>1, <3>1 DEF ResponseInv, CommandsAgree, OnTrial
    <3> QED
      BY <2>6, <3>1, <3>2 DEF OnTrial
  <2>12. /\ gpregret2 = RESTORE_FIRST_RUN => ~RestoreValid
         /\ OnTrial /\ gpregret = RUN_APP => gpregret2 = NEW_FW_FIRST_RUN
    BY DEF ResponseInv, ResponseAgrees
  <2>13. ResponseAgrees'
    BY <2>2, <2>3, <2>4, <2>7, <2>10, <2>11, <2>12 DEF ResponseAgrees
  <2> QED
    BY <2>8, <2>9, <2>13 DEF ResponseInv
<1>6. CASE EraseState0 \/ EraseState1
  <2>1. /\ st' \in {IDLE, TO_IDLE, ERROR} /\ UNCHANGED <<slot0, slot1>>
    BY <1>1, <1>6, EraseStateEffect
  <2>2. st' \notin {RUN, RESTORE_0} /\ ~OnTrial'
    BY <2>1, StateNumbers DEF OnTrial
  <2>3. CASE OutsideReset
    BY <2>2, <2>3, HardOutsideReset
  <2>4. CASE UNCHANGED <<regs, cmd>> /\ pc' \in {"erase_state_1", "restart"}
    <3>1. pc \in {"erase_state_0", "erase_state_1"}
      BY <1>6 DEF EraseState0, EraseState1
    <3>2. UNCHANGED <<gpregret, gpregret2, resetreas, cmd>>
      BY <2>4 DEF regs
    <3>3. ~OnTrial
      <4>1. pc = "erase_state_1" => st \in {IDLE, TO_IDLE, ERROR}
        <5>1. /\ Guarded(bl) /\ bl \in [0 .. 1 -> StatePage]
          BY <1>1, GuardedPages DEF FlashOK
        <5>2. pc = "erase_state_1" => bl[0].top = 0
          BY <1>1 DEF LabelsAgree, ClearPage
        <5> QED
          BY <5>1, <5>2, GuardedState, StateNumbers DEF st
      <4> QED
        BY <1>1, <3>1, <4>1, StateNumbers DEF OnTrial, LabelsAgree
    <3>4. RestoreValid' = RestoreValid
      BY <2>1 DEF RestoreValid, RestoreImage
    <3>5. CommandsAgree'
      BY <2>4, <3>1, <3>2, CodesDiffer DEF ResponseInv, CommandsAgree, RunLabels, AppLabels
    <3>6. RunOnce'
      BY <2>2 DEF RunOnce
    <3>7. ResponseAgrees'
      BY <2>2, <2>4, <3>1, <3>2, <3>3, <3>4 DEF ResponseInv, ResponseAgrees
    <3> QED
      BY <3>5, <3>6, <3>7 DEF ResponseInv
  <2> QED
    BY <1>6, <2>3, <2>4 DEF EraseState0, EraseState1, EraseStatePage, KeepRegs, Goto
<1> QED
  BY <1>3, <1>4, <1>5, <1>6 DEF FlashStep

LEMMA SwapResponses ==
  ASSUME TypeOK, Core, ResponseInv, "write" \notin TornState, BlSwap
  PROVE  ResponseInv'
<1>1. pc = "process" /\ Swapping
  BY DEF BlSwap, SwapSkip, SwapErase1, SwapCopy0, SwapErase0, SwapCopy1, SwapAt
<1>2. \E next \in {"process", "restart"} :
        \/ \E p, pg, torn : WriteSlot0(p, pg, torn, next) \/ WriteSlot1(p, pg, torn, next)
        \/ \E s : BlSetState(s, next)
  BY DEF BlSwap, SwapSkip, SwapErase1, SwapCopy0, SwapErase0, SwapCopy1, SwapNext,
     EraseSlot0, EraseSlot1
<1>3. StillUnheard
  BY <1>1, <1>2, UnheardWrites
<1>4. st' = RUN => RestoreValid' /\ cmd' = NONE /\ pc' \in {"process", "restart", "main"}
  <2> SUFFICES ASSUME st' = RUN
               PROVE  RestoreValid' /\ cmd' = NONE /\ pc' \in {"process", "restart", "main"}
    OBVIOUS
  <2>1. ~Swapping'
    BY StateNumbers DEF Swapping
  <2>2. RestoreImage' = OldImage /\ OldImage \in Signed
    BY <1>1, <2>1, SwapEnds DEF Core, SwapRecoverable
  <2>3. Undisturbed /\ StatePagesGuarded /\ FlashOK
    BY <1>1, TypeParts DEF Core, MovingUndisturbed, Moving
  <2>4. pc' \in {"process", "restart", "main"}
    BY <2>3, BlSwapKeeps DEF SwapKeeps
  <2> QED
    BY <1>3, <2>2, <2>3, <2>4 DEF StillUnheard, RestoreValid, Undisturbed
<1> QED
  BY <1>1, <1>3, <1>4, Unheard, UnheardResponses

LEMMA AppResponses ==
  ASSUME TypeOK, Core, ResponseInv, "soft" \notin ResetKinds, RUN_APP \notin AppCmds,
         AppBoot \/ AppCmd \/ WakeUp
  PROVE  ResponseInv'
<1> USE DEF ResponseInv
<1>1. /\ pc \in AppLabels \union {"off"} /\ UNCHANGED <<slot0, bl>> /\ st' = st
  BY DEF AppBoot, AppStart, AppRsp, AppCmd, AcceptImage, FwStart, FwErase, FwErased, FwBlock,
     FwSchedule, AppSblRun, Stop, WakeUp, SblRun, EraseSlot1, WriteSlot1, flash, AppLabels, st
<1>2. gpregret # RUN_APP /\ st # RUN /\ st' # RUN
  BY <1>1 DEF CommandsAgree, RunLabels, RunOnce, AppLabels
<1>3. pc \notin {"app_start", "app_rsp"} => gpregret2 = NORMAL
  BY <1>1, <1>2 DEF ResponseAgrees, AppLabels
<1>4. RunOnce'
  BY <1>2 DEF RunOnce
<1>5. CASE AppStart
  <2>1. /\ UNCHANGED <<flash, gpregret, gpregret2, cmd>> /\ resetreas' = {}
        /\ pc = "app_start" /\ pc' = "app_rsp" /\ ram'.reason = resetreas
    BY <1>5 DEF AppStart, Goto, NoRam
  <2>2. RestoreValid' = RestoreValid /\ OnTrial' = OnTrial
    BY <2>1, SameViews
  <2>3. CommandsAgree'
    BY <1>2, <2>1 DEF CommandsAgree, AppLabels
  <2>4. ResponseAgrees'
    BY <1>2, <2>1, <2>2 DEF ResponseAgrees
  <2> QED
    BY <1>4, <2>3, <2>4
<1>6. CASE AppRsp
  <2>1. /\ UNCHANGED <<gpregret, cmd>> /\ gpregret2' = NORMAL /\ pc' = "app"
    BY <1>6 DEF AppRsp, Goto
  <2>2. CommandsAgree'
    BY <1>2, <2>1 DEF CommandsAgree, AppLabels
  <2>3. ResponseAgrees'
    BY <1>2, <2>1, CodesDiffer DEF ResponseAgrees
  <2> QED
    BY <1>4, <2>2, <2>3
<1>7. CASE AppCmd \/ WakeUp
  <2>1. pc \notin {"app_start", "app_rsp"}
    BY <1>7 DEF AppCmd, AcceptImage, FwStart, FwErase, FwErased, FwBlock, FwSchedule, AppSblRun,
       Stop, WakeUp
  <2>2. CASE OutsideReset
    BY <1>2, <2>2, HardOutsideReset
  <2>3. ASSUME gpregret' # RUN_APP, gpregret2' = gpregret2, cmd' \in {cmd, NONE},
               pc' \in {"app", "fw_erase", "off", "main"}, pc' = "main" => cmd' = NONE
        PROVE  ResponseInv'
    <3>1. gpregret2' = NORMAL
      BY <1>3, <2>1, <2>3
    <3>2. CommandsAgree'
      BY <2>3, CodesDiffer DEF CommandsAgree, AppLabels
    <3>3. ResponseAgrees'
      BY <2>3, <3>1, CodesDiffer DEF ResponseAgrees
    <3> QED
      BY <1>4, <3>2, <3>3
  <2>4. CASE AcceptImage \/ FwErase \/ FwBlock
    BY <1>2, <2>2, <2>3, <2>4
    DEF AcceptImage, FwErase, FwBlock, EraseSlot1, WriteSlot1, KeepRegs, regs, Goto
  <2>5. CASE FwStart \/ FwErased \/ Stop
    BY <1>2, <2>3, <2>5 DEF FwStart, FwErased, Stop, Goto, regs
  <2>6. CASE FwSchedule \/ AppSblRun
    BY <2>3, <2>6, CodesDiffer DEF FwSchedule, AppSblRun, SblRun
  <2>7. CASE WakeUp
    BY <1>2, <2>3, <2>7 DEF WakeUp
  <2> QED
    BY <1>7, <2>4, <2>5, <2>6, <2>7 DEF AppCmd
<1> QED
  BY <1>5, <1>6, <1>7 DEF AppBoot

LEMMA ResponseInvInit == Init => ResponseInv
<1> SUFFICES ASSUME Init PROVE ResponseInv
  OBVIOUS
<1>1. /\ gpregret = NONE /\ gpregret2 = NORMAL /\ pc = "main" /\ cmd = NONE
  BY DEF Init, SblInit
<1>2. st = IDLE
  BY InitIdle
<1>3. CommandsAgree
  BY <1>1, CodesDiffer DEF CommandsAgree
<1>4. RunOnce
  BY <1>2, StateNumbers DEF RunOnce
<1>5. ResponseAgrees
  BY <1>1, CodesDiffer DEF ResponseAgrees
<1> QED
  BY <1>3, <1>4, <1>5 DEF ResponseInv

LEMMA ResponseInvStep ==
  ASSUME "write" \notin TornState, "soft" \notin ResetKinds, RUN_APP \notin AppCmds,
         Inv, ResponseInv, [Next]_vars
  PROVE  ResponseInv'
<1>1. TypeOK /\ Core /\ FlashOK'
  BY RecoverableParts, InvStep DEF Inv, TypeOK, FlashOK
<1>2. CASE Main \/ RunRequested \/ RunNoCheck \/ IdleRun \/ Restart
  BY <1>1, <1>2, MainResponses
<1>3. CASE RegisterStep
  BY <1>1, <1>3, RegisterResponses
<1>4. CASE FlashStep
  BY <1>1, <1>4, FlashResponses
<1>5. CASE BlSwap
  BY <1>1, <1>5, SwapResponses
<1>6. CASE AppBoot \/ AppCmd \/ WakeUp
  BY <1>1, <1>6, AppResponses
<1>7. CASE Crash
  <2>1. PICK kind \in ResetKinds : Reset(kind)
    BY <1>7 DEF Crash
  <2>2. st' = st /\ RestoreValid' = RestoreValid
    BY <1>7, SameViews DEF Crash
  <2> QED
    BY <2>1, <2>2, HardReset DEF ResponseInv, RunOnce
<1>8. CASE UNCHANGED vars
  <2>1. UNCHANGED flash /\ UNCHANGED <<gpregret, gpregret2, resetreas, pc, cmd, ram>>
    BY <1>8 DEF vars, sblVars, appVars, flash
  <2> QED
    BY <2>1, SameViews DEF ResponseInv, CommandsAgree, RunOnce, ResponseAgrees
<1> QED
  BY <1>2, <1>3, <1>4, <1>5, <1>6, <1>7, <1>8
  DEF Next, SblNext, BlProcess, RegisterStep, FlashStep

(* The response the application reads is about this start of it.           *)
THEOREM ResponsesTruthful ==
  ASSUME "write" \notin TornState, "soft" \notin ResetKinds, RUN_APP \notin AppCmds
  PROVE  Spec => RspTruthful
<1>1. Init => Inv /\ ResponseInv
  BY InvInit, ResponseInvInit
<1>2. Inv /\ ResponseInv /\ [Next]_vars => (Inv /\ ResponseInv)'
  BY InvStep, ResponseInvStep
<1>3. Inv /\ ResponseInv /\ [Next]_vars =>
        [pc = "app_rsp" /\ pc' = "app" =>
           /\ gpregret2 = NEW_FW_FIRST_RUN <=> OnTrial /\ "OFF" \notin ram.reason
           /\ gpregret2 = RESTORE_FIRST_RUN => ~RestoreValid]_vars
  BY CodesDiffer DEF ResponseInv, ResponseAgrees
<1> QED
  BY <1>1, <1>2, <1>3, PTL DEF Spec, RspTruthful
-------------------------------------------------------------------------------
(* The image on trial is remembered from its start: it is not the one an   *)
(* install brings, and nothing but a wake-up starts it again.              *)
TriedAgrees ==
  /\ pc \in {"app_rsp", "app", "fw_erase", "off"} => tried \in {slot0, NoImage}
  /\ gpregret = INSTALL_APP \/ cmd = INSTALL_APP \/ st = INSTALL => tried \in {slot0, NoImage}
  /\ Swapping => tried # InstalledImage
  /\ st = RUN => tried # slot0
  /\ st = RESTORE_0 /\ RestoreValid /\ tried = slot0 =>
       /\ gpregret # RUN_APP
       /\ pc \in {"run_app", "app_start"} => "OFF" \in resetreas

(* A step that leaves the images alone and adds no command.                *)
LEMMA TriedKept ==
  ASSUME TriedAgrees, UNCHANGED <<flash, tried>>,
         pc' \in {"app_rsp", "app", "fw_erase", "off"} => pc \in {"app_rsp", "app", "fw_erase", "off"},
         gpregret' = INSTALL_APP \/ cmd' = INSTALL_APP =>
           \/ gpregret = INSTALL_APP \/ cmd = INSTALL_APP
           \/ pc \in {"app_rsp", "app", "fw_erase", "off"},
         gpregret' = RUN_APP => gpregret = RUN_APP \/ st # RESTORE_0,
         pc' \in {"run_app", "app_start"} =>
           \/ gpregret = RUN_APP \/ st # RESTORE_0 \/ "OFF" \in resetreas'
           \/ pc \in {"run_app", "app_start"} /\ resetreas' = resetreas
  PROVE  TriedAgrees'
<1>1. /\ st' = st /\ RestoreValid' = RestoreValid /\ Swapping' = Swapping
      /\ InstalledImage' = InstalledImage /\ slot0' = slot0
  BY SameViews
<1> QED
  BY <1>1 DEF TriedAgrees

LEMMA QuietTried ==
  ASSUME TypeOK, Core, ResponseInv, TriedAgrees, RUN_APP \notin AppCmds, QuietStep, ~AppStart,
         UNCHANGED tried
  PROVE  TriedAgrees'
<1>1. UNCHANGED flash
  BY QuietFlash
<1>2. CASE Main
  BY <1>1, <1>2, CodesDiffer, TriedKept DEF Main
<1>3. CASE RunRequested \/ RunNoCheck \/ IdleRun
  <2>1. pc' \in {"app_start", "restart", "wild", "shutdown"}
        /\ UNCHANGED <<gpregret, resetreas, cmd>>
    BY <1>3 DEF RunRequested, RunNoCheck, IdleRun, BlRunApp, Goto
  <2>2. CASE RunRequested
    BY <1>1, <2>1, <2>2, TriedKept DEF RunRequested
  <2>3. CASE RunNoCheck
    <3>1. "OFF" \in resetreas'
      BY <2>1, <2>3 DEF RunNoCheck, ResponseInv, CommandsAgree
    <3> QED
      BY <1>1, <2>1, <3>1, TriedKept
  <2>4. CASE IdleRun
    <3>1. st # RESTORE_0
      BY <2>4, StateNumbers DEF IdleRun, ResponseInv, CommandsAgree
    <3> QED
      BY <1>1, <2>1, <3>1, TriedKept
  <2> QED
    BY <1>3, <2>2, <2>3, <2>4
<1>4. CASE Restart \/ Crash
  BY <1>1, <1>4, CodesDiffer, TriedKept DEF Restart, Crash, Reset
<1>5. CASE SetRun
  <2>1. st # RESTORE_0
    BY <1>5 DEF SetRun, ResponseInv, CommandsAgree
  <2> QED
    BY <1>1, <1>5, <2>1, CodesDiffer, TriedKept DEF SetRun, BlSetCmd, Goto
<1>6. CASE RestoreChain \/ ToIdleChain
  <2>1. cmd # RUN_APP
    BY <1>6, Unheard DEF RestoreChain, ToIdleChain, Process
  <2> QED
    BY <1>1, <1>6, <2>1, TriedKept DEF RestoreChain, ToIdleChain, BlSetCmd, Goto
<1>7. CASE RegisterStep /\ ~SetRun /\ ~RestoreChain /\ ~ToIdleChain
  <2>1. /\ gpregret' \in {gpregret, NONE} /\ UNCHANGED cmd
        /\ pc' \in {"idle_run", "set_run", "set_none", "set_state", "restore_erase",
                    "restore_copy"}
    BY <1>7 DEF RegisterStep, IdleNormal, InstallError, RunState, RestoreAccepted, RestoreBegin,
       RestoreErased, Restore1Done, ErrorState, ToIdleNormal, SetNone, BlSetRsp, BlSetCmd,
       Goto, regs
  <2> QED
    BY <1>1, <2>1, CodesDiffer, TriedKept
<1>8. CASE AppRsp \/ FwStart \/ FwErased \/ Stop
  BY <1>1, <1>8, TriedKept DEF AppRsp, FwStart, FwErased, Stop, Goto, regs
<1>9. CASE FwSchedule \/ AppSblRun
  BY <1>1, <1>9, CodesDiffer, TriedKept DEF FwSchedule, AppSblRun, SblRun
<1>10. CASE WakeUp
  BY <1>1, <1>10, CodesDiffer, TriedKept DEF WakeUp
<1>11. CASE UNCHANGED vars
  BY <1>1, <1>11, TriedKept DEF vars, sblVars
<1> QED
  BY <1>2, <1>3, <1>4, <1>5, <1>6, <1>7, <1>8, <1>9, <1>10, <1>11 DEF QuietStep

LEMMA AppStartTried ==
  ASSUME TypeOK, Core, ResponseInv, TriedAgrees, AppStart
  PROVE  TriedAgrees'
<1>1. /\ UNCHANGED <<flash, gpregret, cmd>> /\ pc = "app_start" /\ pc' = "app_rsp"
      /\ tried' = IF OnTrial THEN slot0 ELSE NoImage
  BY DEF AppStart, Goto
<1>2. /\ st' = st /\ Swapping' = Swapping /\ slot0' = slot0
  BY <1>1, SameViews
<1>3. tried' \in {slot0', NoImage}
  BY <1>1, <1>2
<1>4. ~Swapping /\ st # RUN /\ gpregret # RUN_APP
  BY <1>1, SettledWhere
  DEF MovingLabels, Settled, ResponseInv, RunOnce, CommandsAgree, RunLabels
<1> QED
  BY <1>1, <1>2, <1>3, <1>4 DEF TriedAgrees

LEMMA SwapTried ==
  ASSUME TypeOK, Core, ResponseInv, TriedAgrees, "write" \notin TornState, BlSwap,
         UNCHANGED tried
  PROVE  TriedAgrees'
<1>1. pc = "process" /\ Swapping
  BY DEF BlSwap, SwapSkip, SwapErase1, SwapCopy0, SwapErase0, SwapCopy1, SwapAt
<1>2. Undisturbed /\ StatePagesGuarded /\ FlashOK
  BY <1>1, TypeParts DEF Core, MovingUndisturbed, Moving
<1>3. SwapKeeps
  BY <1>2, BlSwapKeeps
<1>4. /\ gpregret' = NONE /\ cmd' = NONE /\ pc' \in {"process", "restart", "main"}
  BY <1>3 DEF SwapKeeps, Undisturbed
<1>5. CASE Swapping'
  <2>1. st' \notin {INSTALL, RUN, RESTORE_0}
    BY <1>5, StateNumbers DEF Swapping
  <2> QED
    BY <1>1, <1>3, <1>4, <1>5, <2>1, CodesDiffer DEF TriedAgrees, SwapKeeps
<1>6. CASE ~Swapping'
  <2>1. st' = RUN /\ slot0' = InstalledImage
    BY <1>3, <1>6 DEF SwapKeeps
  <2>2. st' \notin {INSTALL, RESTORE_0}
    BY <2>1, StateNumbers
  <2> QED
    BY <1>1, <1>4, <1>6, <2>1, <2>2, CodesDiffer DEF TriedAgrees
<1> QED
  BY <1>5, <1>6

LEMMA FlashTried ==
  ASSUME TypeOK, Core, ResponseInv, TriedAgrees, FlashOK', ~TargetDev,
         "write" \notin TornState, FlashStep, UNCHANGED tried
  PROVE  TriedAgrees'
<1>1. FlashOK /\ StatePagesGuarded /\ LabelsAgree
  BY TypeParts DEF Core
<1>2. /\ {INSTALL, SWAP_START, RESTORE_0, RESTORE_1, TO_IDLE}
           \subseteq (INSTALL .. RESTORE_1) \union {TO_IDLE}
      /\ RUN \notin {INSTALL, SWAP_START, RESTORE_0, RESTORE_1, TO_IDLE, ERROR, IDLE}
      /\ RESTORE_0 \notin {INSTALL, SWAP_START, RESTORE_1, TO_IDLE, ERROR, IDLE}
      /\ INSTALL \notin {SWAP_START, RESTORE_0, RESTORE_1, TO_IDLE, ERROR, IDLE}
  BY StateNumbers
<1>3. CASE IdleInstall
  <2>1. /\ pc = "process" /\ cmd = INSTALL_APP /\ gpregret = NONE
        /\ st' = INSTALL /\ UNCHANGED slot0 /\ pc' = "process"
    BY <1>1, <1>2, <1>3, SetStateEffect, StateNumbers DEF IdleInstall, Process, LabelsAgree
  <2>2. tried' \in {slot0', NoImage} /\ ~Swapping'
    BY <2>1, StateNumbers DEF TriedAgrees, Swapping
  <2> QED
    BY <1>2, <2>1, <2>2 DEF TriedAgrees
<1>4. CASE InstallStart
  <2>1. /\ st = INSTALL /\ st' = SWAP_START /\ pc' = "process" /\ UNCHANGED <<slot0, slot1>>
        /\ gpregret' = gpregret /\ cmd' = NONE /\ gpregret = NONE
    BY <1>1, <1>2, <1>4, SetStateEffect, StateNumbers DEF InstallStart, Process, LabelsAgree
  <2>2. tried \in {slot0, NoImage}
    BY <2>1 DEF TriedAgrees
  <2>3. /\ NewImage \in Signed /\ slot0 \in Signed
        /\ Header[NewImage].date > Header[slot0].date
    BY <1>4 DEF InstallStart, Slot1Valid, Slot0Valid, Ratchet
  <2>4. NewImage # slot0
    BY <2>3, DatesAreNumbers
  <2>5. tried # NewImage
    BY <2>2, <2>3, <2>4, DeviceAssumption
  <2>6. InstalledImage' = NewImage
    BY <1>1, <2>1, InstalledIsNew
  <2> QED
    BY <1>2, <2>1, <2>5, <2>6, CodesDiffer DEF TriedAgrees
<1>5. CASE RestoreErase \/ RestoreCopy
  <2>1. /\ pc \in {"restore_erase", "restore_copy"} /\ UNCHANGED bl
        /\ st = RESTORE_0 /\ cmd = NONE
    BY <1>1, <1>5 DEF RestoreErase, RestoreCopy, LabelsAgree, EraseSlot0, WriteSlot0
  <2>2. \E next \in {"process", "restore_erase", "restore_copy", "restart"} :
          \E p, pg, torn : WriteSlot0(p, pg, torn, next) \/ WriteSlot1(p, pg, torn, next)
    BY <1>5 DEF RestoreErase, RestoreCopy, EraseSlot0
  <2>3. StillUnheard
    BY <2>1, <2>2, UnheardWrites
  <2>4. st' = RESTORE_0 /\ ~Swapping'
    BY <2>1, StateNumbers DEF st, Swapping
  <2> QED
    BY <1>2, <2>1, <2>3, <2>4, CodesDiffer DEF TriedAgrees, StillUnheard
<1>6. CASE RestoreCopied
  <2>1. /\ pc' = "process" /\ st' = RESTORE_1 /\ cmd' = NONE /\ gpregret' = NONE
    BY <1>1, <1>2, <1>6, SetStateEffect, StateNumbers DEF RestoreCopied, LabelsAgree
  <2>2. ~Swapping'
    BY <2>1, StateNumbers DEF Swapping
  <2> QED
    BY <1>2, <2>1, <2>2, CodesDiffer DEF TriedAgrees
<1>7. CASE Restore1Erase
  <2>1. /\ pc = "process" /\ UNCHANGED <<slot0, bl>> /\ st = RESTORE_1
    BY <1>7 DEF Restore1Erase, Process, EraseSlot1, WriteSlot1
  <2>2. \E p, pg, torn : WriteSlot1(p, pg, torn, "process")
    BY <1>7 DEF Restore1Erase, EraseSlot1
  <2>3. StillUnheard
    BY <2>1, <2>2, UnheardWrites
  <2>4. st' = RESTORE_1 /\ ~Swapping'
    BY <2>1, StateNumbers DEF st, Swapping
  <2> QED
    BY <1>2, <2>1, <2>3, <2>4, CodesDiffer DEF TriedAgrees, StillUnheard
<1>8. CASE SetState
  <2>1. BlSetState(IF st = RUN THEN RESTORE_0 ELSE TO_IDLE, "restart")
    BY <1>8 DEF SetState
  <2>2. /\ st' \in {RESTORE_0, ERROR, TO_IDLE} /\ (st' = RESTORE_0 => st = RUN)
        /\ UNCHANGED <<slot0, gpregret>> /\ pc' = "restart" /\ cmd' = NONE
    <3>1. CASE st = RUN
      BY <1>1, <1>2, <2>1, <3>1, SetStateEffect
    <3>2. CASE st # RUN
      BY <1>1, <1>2, <2>1, <3>2, SetStateEffect
    <3> QED
      BY <3>1, <3>2
  <2>3. ~Swapping'
    BY <2>2, StateNumbers DEF Swapping
  <2> QED
    BY <1>2, <2>2, <2>3, CodesDiffer DEF TriedAgrees
<1>9. CASE EraseState0 \/ EraseState1
  <2>1. /\ st' \in {IDLE, TO_IDLE, ERROR} /\ UNCHANGED slot0
    BY <1>1, <1>9, EraseStateEffect
  <2>2. ~Swapping'
    BY <2>1, StateNumbers DEF Swapping
  <2>3. /\ gpregret' \in {gpregret, NONE} /\ cmd' \in {cmd, NONE}
        /\ pc' \in {"erase_state_1", "restart", "main"}
    BY <1>9 DEF EraseState0, EraseState1, EraseStatePage, KeepRegs, regs, Goto, OutsideReset, Reset
  <2> QED
    BY <1>2, <2>1, <2>2, <2>3, CodesDiffer DEF TriedAgrees
<1> QED
  BY <1>3, <1>4, <1>5, <1>6, <1>7, <1>8, <1>9 DEF FlashStep

LEMMA AppWriteTried ==
  ASSUME TypeOK, Core, ResponseInv, TriedAgrees, AcceptImage \/ FwErase \/ FwBlock
  PROVE  TriedAgrees'
<1>1. /\ pc \in {"app", "fw_erase"} /\ UNCHANGED <<slot0, bl, tried>>
      /\ gpregret' \in {gpregret, NONE} /\ cmd' \in {cmd, NONE}
      /\ pc' \in {"app", "fw_erase", "main"}
  BY DEF AcceptImage, FwErase, FwBlock, EraseSlot1, WriteSlot1, KeepRegs, regs, Goto,
     OutsideReset, Reset
<1>2. ~Swapping /\ st # RUN /\ gpregret # RUN_APP
  BY <1>1, SettledWhere
  DEF MovingLabels, Settled, ResponseInv, RunOnce, CommandsAgree, RunLabels
<1>3. st' = st /\ ~Swapping'
  BY <1>1, <1>2 DEF st, Swapping
<1> QED
  BY <1>1, <1>2, <1>3, CodesDiffer DEF TriedAgrees

TrialInv == Inv /\ ResponseInv /\ TriedAgrees

LEMMA TrialInvStep ==
  ASSUME "write" \notin TornState, "soft" \notin ResetKinds, RUN_APP \notin AppCmds, ~TargetDev,
         TrialInv, [Next]_vars
  PROVE  TrialInv'
<1>1. TypeOK /\ Core /\ ResponseInv /\ TriedAgrees
  BY RecoverableParts DEF TrialInv, Inv
<1>2. Inv' /\ ResponseInv'
  BY InvStep, ResponseInvStep DEF TrialInv
<1>3. FlashOK'
  BY <1>2 DEF Inv, TypeOK, FlashOK
<1>4. TriedAgrees'
  <2>1. CASE QuietStep /\ ~AppStart /\ UNCHANGED tried
    BY <1>1, <2>1, QuietTried
  <2>2. CASE AppStart
    BY <1>1, <2>2, AppStartTried
  <2>3. CASE FlashStep /\ UNCHANGED tried
    BY <1>1, <1>3, <2>3, FlashTried
  <2>4. CASE BlSwap /\ UNCHANGED tried
    BY <1>1, <2>4, SwapTried
  <2>5. CASE AcceptImage \/ FwErase \/ FwBlock
    BY <1>1, <2>5, AppWriteTried
  <2>6. AppStart \/ UNCHANGED tried
    BY DEF Next, AppBoot, AppCmd, AcceptImage, FwErase, FwBlock, AppRsp, FwStart, FwErased,
       FwSchedule, AppSblRun, SblRun, Stop, WakeUp, Crash, appVars, vars
  <2> QED
    BY <2>1, <2>2, <2>3, <2>4, <2>5, <2>6
    DEF Next, SblNext, BlProcess, RegisterStep, FlashStep, AppBoot, AppCmd, QuietStep
<1> QED
  BY <1>2, <1>4 DEF TrialInv

(* Unless it is accepted, no reset but the wake-up from System OFF starts  *)
(* an image on trial again.                                                *)
THEOREM TrialRunsOnce ==
  ASSUME "write" \notin TornState, "soft" \notin ResetKinds, RUN_APP \notin AppCmds, ~TargetDev
  PROVE  Spec => OneTrial
<1>1. Init => TrialInv
  <2> SUFFICES ASSUME Init PROVE TrialInv
    OBVIOUS
  <2>1. Inv /\ ResponseInv
    BY InvInit, ResponseInvInit
  <2>2. /\ gpregret = NONE /\ cmd = NONE /\ pc = "main" /\ tried = NoImage
        /\ slot0 \in Signed
    BY DEF Init, SblInit
  <2>3. ~Swapping
    BY InitIdle, StateNumbers DEF Swapping
  <2>4. TriedAgrees
    BY <2>2, <2>3, DeviceAssumption, CodesDiffer DEF TriedAgrees
  <2> QED
    BY <2>1, <2>4 DEF TrialInv
<1>2. TrialInv /\ [Next]_vars => TrialInv'
  BY TrialInvStep
<1>3. TrialInv /\ [Next]_vars =>
        [pc = "app_start" /\ pc' = "app_rsp" /\ OnTrial /\ "OFF" \notin resetreas
           => tried # slot0]_vars
  BY DEF TrialInv, TriedAgrees, ResponseInv, RunOnce, OnTrial
<1> QED
  BY <1>1, <1>2, <1>3, PTL DEF Spec, OneTrial
===============================================================================
