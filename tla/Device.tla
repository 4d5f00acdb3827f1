-------------------------------- MODULE Device --------------------------------
(***************************************************************************)
(* The device: the boot loader of Sbl.tla and the application it starts,   *)
(* prod-app/main.c with the part of fwu.c and libsbl that touches what     *)
(* the two share: slot1, the GPREGRETs and RESETREAS.                      *)
(*                                                                         *)
(* A reset can come at any time, from outside (ResetKinds) or from the     *)
(* code itself.  The commands of the host are taken at any time the main   *)
(* loop of the application can take them; a download is programmed one     *)
(* page at a time, the protocol of fwu.c and its blocks are left to it.    *)
(***************************************************************************)
EXTENDS Sbl

CONSTANTS
  NoImage,   \* no download is under way
  AppCmds    \* what the application passes to sbl_run besides INSTALL_APP

ASSUME DeviceAssumption ==
  /\ NoImage \notin Signed
  /\ AppCmds \subseteq Cmds

VARIABLES
  ram,       \* the application's variables: download, saved response and reset reason
  accepted,  \* history: the date of the newest image that ran with nothing to restore
  tried      \* history: the image whose trial run has begun

appVars == <<ram, accepted, tried>>
vars == <<sblVars, appVars>>

Ram == [dl : Signed \union {NoImage}, offset : 0 .. NPages + 1,
        rsp : Rsps, reason : SUBSET {"SREQ", "OFF"}]
NoRam == [dl |-> NoImage, offset |-> 0, rsp |-> NORMAL, reason |-> {}]

(* A reset loses the application's variables.                              *)
RamBecomes(r) == ram' = IF pc' = "main" THEN NoRam ELSE r

(* The new image runs and can still be taken back.                         *)
OnTrial == st \in {RUN, RESTORE_0} /\ RestoreValid

NoteAccepted ==
  accepted' = IF RestoreImage' \notin Signed /\ accepted < Header[slot0].date
              THEN Header[slot0].date ELSE accepted
-------------------------------------------------------------------------------
(* main(): the reset reason is saved and cleared, then sbl_rsp() reads and *)
(* clears the response.                                                    *)
AppStart ==
  /\ pc = "app_start"
  /\ ram' = [NoRam EXCEPT !.reason = resetreas]
  /\ resetreas' = {}
  /\ Goto("app_rsp")
  /\ tried' = IF OnTrial THEN slot0 ELSE NoImage
  /\ UNCHANGED <<flash, gpregret, gpregret2, acl, accepted>>

AppRspBugKeeps ==
  /\ pc = "app_rsp"
  /\ ram' = [ram EXCEPT !.rsp = gpregret2]
  /\ Goto("app")
  /\ UNCHANGED <<flash, regs, accepted, tried>>

AppRsp ==
  /\ pc = "app_rsp"
  /\ ram' = [ram EXCEPT !.rsp = gpregret2]
  /\ gpregret2' = NORMAL
  /\ Goto("app")
  /\ UNCHANGED <<flash, gpregret, resetreas, acl, accepted, tried>>

(* sbl_run(): the command and a soft reset.                                *)
SblRun(c) ==
  /\ gpregret' = c
  /\ resetreas' = resetreas \union {"SREQ"}
  /\ acl' = {}
  /\ pc' = "main"
  /\ cmd' = NONE
  /\ ram' = NoRam
  /\ UNCHANGED <<flash, gpregret2, accepted, tried>>

(* accept_image(): erase the first page of slot1 unless it is erased.      *)
AcceptImage ==
  /\ pc = "app"
  /\ slot1[0] # ErasedPage
  /\ EraseSlot1(0, "app")
  /\ RamBecomes(ram)
  /\ NoteAccepted
  /\ UNCHANGED tried

(* fw-start: erase the whole of slot1, page by page; the first block goes  *)
(* to its second page.                                                     *)
FwStart ==
  /\ pc = "app"
  /\ \E image \in Signed : ram' = [ram EXCEPT !.dl = image, !.offset = 1]
  /\ Goto("fw_erase")
  /\ UNCHANGED <<flash, regs, accepted, tried>>

FwErase ==
  /\ pc = "fw_erase"
  /\ \E p \in Slot1Pages :
       /\ slot1[p] # ErasedPage
       /\ \A q \in Slot1Pages : q < p => slot1[q] = ErasedPage
       /\ EraseSlot1(p, "fw_erase")
  /\ RamBecomes(ram)
  /\ NoteAccepted
  /\ UNCHANGED tried

FwErased ==
  /\ pc = "fw_erase"
  /\ \A p \in Slot1Pages : slot1[p] = ErasedPage
  /\ Goto("app")
  /\ UNCHANGED <<flash, regs, appVars>>

(* fw-block, for as many of them as fill a page; nothing is written past   *)
(* the end of slot1.                                                       *)
FwBlockBugNoEnd ==
  LET n == ram.offset
      page == ram.dl[(n - 1) % NPages]
  IN /\ pc = "app"
     /\ ram.dl # NoImage
     /\ WriteSlot1(n, page, TornProgram(page), "app")
     /\ RamBecomes([ram EXCEPT !.offset = n + 1])
     /\ NoteAccepted
     /\ UNCHANGED tried

FwBlock ==
  LET n == ram.offset
      page == ram.dl[n - 1]
  IN /\ pc = "app"
     /\ ram.dl # NoImage
     /\ n <= NPages
     /\ WriteSlot1(n, page, TornProgram(page), "app")
     /\ RamBecomes([ram EXCEPT !.offset = n + 1])
     /\ NoteAccepted
     /\ UNCHANGED tried

(* fw-schedule, also before the last block, and the sbl_run(INSTALL_APP)   *)
(* of fwu_process().                                                       *)
FwSchedule == pc = "app" /\ ram.dl # NoImage /\ SblRun(INSTALL_APP)

(* reject-image is sbl_run(SBL_CMD_NONE).                                  *)
AppSblRun == pc = "app" /\ \E c \in AppCmds : SblRun(c)

(* stop: System OFF, until a pin wakes the device up.                      *)
Stop ==
  /\ pc = "app"
  /\ Goto("off")
  /\ ram' = NoRam
  /\ UNCHANGED <<flash, regs, accepted, tried>>

WakeUp ==
  /\ pc = "off"
  /\ resetreas' = resetreas \union {"OFF"}
  /\ acl' = {}
  /\ pc' = "main"
  /\ cmd' = NONE
  /\ UNCHANGED <<flash, gpregret, gpregret2, appVars>>

AppBoot == AppStart \/ AppRsp
AppCmd == AcceptImage \/ FwStart \/ FwErase \/ FwErased \/ FwBlock
          \/ FwSchedule \/ AppSblRun \/ Stop

(* Power loss, watchdog, reset pin, a fault: between any two effects.  In  *)
(* System OFF and in shutdown(), which feeds the watchdog, the first and   *)
(* the third are left.                                                     *)
Crash ==
  /\ \E kind \in ResetKinds :
       /\ pc \in {"off", "shutdown"} => kind \in {"pin", "power"}
       /\ Reset(kind)
  /\ ram' = NoRam
  /\ UNCHANGED <<flash, accepted, tried>>
-------------------------------------------------------------------------------
Init ==
  /\ SblInit
  /\ ram = NoRam
  /\ accepted = 0
  /\ tried = NoImage

Next ==
  \/ SblNext /\ UNCHANGED appVars
  \/ AppBoot
  \/ AppCmd
  \/ WakeUp
  \/ Crash

Spec == Init /\ [][Next]_vars

(* The boot loader and the start of the application run on by themselves;  *)
(* commands, resets and wake-ups need not come.                            *)
FairSpec == Spec /\ WF_vars(SblNext /\ UNCHANGED appVars) /\ WF_vars(AppBoot \/ FwErase \/ FwErased)
-------------------------------------------------------------------------------
(* Properties *)

AppLabels == {"app_start", "app_rsp", "app", "fw_erase"}

(* The type invariant: the flash, the registers and the variables of the   *)
(* boot loader and of the application.                                     *)
TypeOK ==
  /\ slot0 \in Contents
  /\ slot1 \in [Slot1Pages -> Page]
  /\ bl \in [0 .. 1 -> StatePage]
  /\ gpregret \in Cmds
  /\ gpregret2 \in Rsps
  /\ resetreas \subseteq {"SREQ", "OFF"}
  /\ acl \subseteq Regions
  /\ pc \in SblLabels \union AppLabels \union {"off"}
  /\ cmd \in Cmds
  /\ ram \in Ram /\ (ram.dl # NoImage => ram.offset > 0)
  /\ accepted \in Nat
  /\ tried \in Signed \union {NoImage}

(* The boot loader never finds slot0 unusable when it wants to run it:     *)
(* shutdown() ("device is bricked") is never reached, and the jump without *)
(* a check after System OFF never lands in anything but a valid image,     *)
(* whatever the application programmed and wherever resets fell.           *)
NeverBricked == pc \notin {"shutdown", "wild"}

(* The image being replaced and the image being installed, wherever        *)
(* bl_swap() has moved their pages to.                                     *)
OldImage == [p \in Pages |->
  IF p < SwapPage(st) \/ (p = SwapPage(st) /\ SwapPhase(st) \in {ERASE0, COPY1})
  THEN slot1[p] ELSE slot0[p]]
InstalledImage == [p \in Pages |->
  IF p < SwapPage(st) THEN slot0[p] ELSE slot1[p + 1]]

(* No step of the swap loses a page of either image: both can be put       *)
(* together again from the two slots after every write, erase and reset.   *)
SwapPreserves ==
  [][Swapping /\ Swapping' => OldImage' = OldImage /\ InstalledImage' = InstalledImage]_vars

(* An image that ran with nothing left to restore is never followed by an  *)
(* older one (release build; README: "protects against rollback").         *)
AcceptedIsFinal == pc \in AppLabels => Header[slot0].date >= accepted

(* An image on trial runs once: unless it is accepted, no reset but the    *)
(* wake-up from System OFF starts it again (main.c:50-52).                 *)
OneTrial ==
  [][pc = "app_start" /\ pc' = "app_rsp" /\ OnTrial /\ "OFF" \notin resetreas
       => tried # slot0]_vars

(* The response the application reads is about this start: it reads        *)
(* NEW_FW_FIRST_RUN exactly when it is on trial and was not woken up from  *)
(* System OFF, and RESTORE_FIRST_RUN only when nothing is left to restore. *)
RspTruthful ==
  [][pc = "app_rsp" /\ pc' = "app" =>
       /\ gpregret2 = NEW_FW_FIRST_RUN <=> OnTrial /\ "OFF" \notin ram.reason
       /\ gpregret2 = RESTORE_FIRST_RUN => ~RestoreValid]_vars

(* While the application runs, the ACL locks the boot loader, its state    *)
(* and slot0, and for an AFI image the manufacturing data too.             *)
AppConfined ==
  pc \in AppLabels =>
    /\ {"bl", "bl_state", "slot0"} \subseteq acl
    /\ Header[slot0].type >= APP_TYPE_AFI => "mfidata" \in acl

(* The boot loader never writes to what it has locked, also after          *)
(* app_run() has returned to it.                                           *)
LockedUntouched ==
  [][/\ "slot0" \in acl => slot0' = slot0
     /\ "bl_state" \in acl => bl' = bl]_vars

(* Once nothing from outside resets the device and no command does, it     *)
(* comes to run an application and to stay in it, whatever it was in the   *)
(* middle of.                                                              *)
ResetStep == pc' = "main" /\ pc \notin {"restart", "wild", "off"}
Settles ==
  <>[][~ResetStep]_vars => [](pc \notin AppLabels \union {"off"} => <>(pc \in AppLabels))

(* A scheduled update is answered: the new image runs and is told so, or   *)
(* the old one is told why not.                                            *)
InstallAnswered ==
  pc = "main" /\ gpregret = INSTALL_APP
    ~> pc = "app" /\ ram.rsp \in {NEW_FW_FIRST_RUN, INSTALL_ERROR}

(* An application on trial that calls sbl_run(SBL_CMD_RUN_APP) rejects its *)
(* image, and the one before it comes back (doc/SblIntegration.md:28).     *)
RejectByRunApp ==
  pc = "main" /\ gpregret = RUN_APP /\ OnTrial /\ tried = slot0
    ~> pc = "app" /\ ram.rsp = RESTORE_FIRST_RUN

(* An image on trial that resets without being accepted gives way to the   *)
(* one before it, which is told so.                                        *)
RejectRestores ==
  pc = "main" /\ OnTrial /\ gpregret = NONE /\ "OFF" \notin resetreas
    ~> pc = "app" /\ ram.rsp = RESTORE_FIRST_RUN
-------------------------------------------------------------------------------
(* The device implements Update.tla.  From the moment the swap is recorded *)
(* as begun the new image is current, wherever its pages are; from the     *)
(* reset after which only the restore can follow the old one is again.     *)

(* Where the boot loader moves pages, and what takes it to the application *)
(* without a look at bl_state.                                             *)
MovingLabels == {"main", "process", "restart", "restore_erase", "restore_copy"}
Undisturbed == gpregret = NONE /\ cmd = NONE /\ "OFF" \notin resetreas

RestoreDue == st = RESTORE_0 /\ RestoreValid /\ pc \in MovingLabels /\ Undisturbed

CurrentImage ==
  IF Swapping THEN InstalledImage
  ELSE IF RestoreDue THEN RestoreImage
  ELSE slot0

FallbackImage ==
  IF Swapping THEN OldImage
  ELSE IF OnTrial /\ ~RestoreDue THEN RestoreImage
  ELSE NoImage

MayFollow(new, old) == TargetDev \/ Ratchet(new, old)

Upd == INSTANCE Update WITH
  Images <- Signed, Newer <- MayFollow, None <- NoImage,
  current <- CurrentImage, fallback <- FallbackImage

(* Installs and restores are atomic as far as the application can tell:    *)
(* whatever resets interrupt, the device moves from one settled image to a *)
(* newer one on trial, and from there stays or goes back.                  *)
ImplementsUpdate == Upd!UpdateSpec

(* What that takes of an image: none of the words of its first page that   *)
(* the model tells apart looks erased or like what an interruption leaves. *)
(* Two interrupted erases could otherwise bring back an image that was     *)
(* taken for erased between them.                                          *)
FirstPageTells == \A image \in Signed : \A w \in Words : image[0][w] \notin {Erased, Junk}

(* Where the boot loader is with the two state pages.                      *)
StatePlace ==
  CASE pc = "erase_state_0" -> "erase_0"
    [] pc = "erase_state_1" -> "erase_1"
    [] OTHER -> "ready"

StatePages == INSTANCE BlPages WITH at <- StatePlace

(* The two state pages, as the boot loader uses them between resets, do    *)
(* what BlPages.tla says, which BlState.tla shows the words to implement.  *)
UsesStatePages == StatePages!PagesSpec
-------------------------------------------------------------------------------
(* Why the device recovers: the inductive invariant behind NeverBricked.   *)

(* While the boot loader is moving pages, slot0 cannot be run.             *)
Moving == Swapping \/ ~Slot0Valid

(* Then no command and no wake-up can make it jump to slot0.               *)
MovingUndisturbed ==
  Moving => pc \in MovingLabels /\ Undisturbed

(* Both images are still whole during a swap, the old one during a restore.*)
SwapRecoverable == Swapping => OldImage \in Signed /\ InstalledImage \in Signed
RestoreRecoverable == ~Swapping /\ ~Slot0Valid => st = RESTORE_0 /\ RestoreValid

(* An interrupted erase of a state page is never mistaken for progress:    *)
(* the other page still tells.                                             *)
StatePagesGuarded ==
  /\ bl[1].top <= 1
  /\ bl[0].bad => bl[1] = [top |-> 1, bad |-> FALSE]
  /\ bl[1].bad => bl[0] = ClearPage

(* What each place in the code may rely on.                                *)
LabelsAgree ==
  /\ pc \in {"process", "idle_run", "restore_erase", "restore_copy"} => gpregret = NONE
  /\ pc \in {"process", "restore_erase", "restore_copy"} => "OFF" \notin resetreas
  /\ pc \in {"restore_erase", "restore_copy"} =>
       st = RESTORE_0 /\ RestoreValid /\ cmd = NONE
  /\ pc = "erase_state_0" => st \in {ERROR, TO_IDLE}
  /\ pc = "erase_state_1" => bl[0] = ClearPage

(* The application that runs is an image the boot loader accepted.         *)
AppRunsValid == pc \in AppLabels => Slot0Valid

Recoverable ==
  /\ NeverBricked
  /\ AppRunsValid
  /\ MovingUndisturbed
  /\ SwapRecoverable
  /\ RestoreRecoverable
  /\ StatePagesGuarded
  /\ LabelsAgree
===============================================================================
