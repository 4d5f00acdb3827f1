--------------------------------- MODULE Sbl ---------------------------------
(***************************************************************************)
(* The secure boot loader, prod-sbl/main.c: what main() and bl_process()   *)
(* do between a reset and the start of the application, one action per     *)
(* effect a reset could separate from the next (a register write, a word   *)
(* write, a page erase, the jump to the application).                      *)
(*                                                                         *)
(* pc names the place in the code.  The indices of the erase and copy      *)
(* loops are not kept: a loop's next effect is at the first place where    *)
(* the flash differs from what the loop establishes, which is where the    *)
(* code finds it.  Every pass over the loops starts again at "process",    *)
(* where main() calls bl_process().                                        *)
(***************************************************************************)
EXTENDS FlashMem, BlStateCode

CONSTANTS
  Signed,      \* the contents of a slot that app_image_valid accepts
  Header,      \* their signature block: type, certificate dates, image date
  TargetDev,   \* TARGET_DEV is defined: no ratchet in app_slot_valid
  ResetKinds,  \* the resets that come from outside the code
  TornData,    \* a reset may interrupt a write or erase of slot0 or slot1
  TornState    \* the operations on bl_state that a reset may interrupt

ResetCauses == {"soft", "watchdog", "pin", "power"}
AppTypes == 0 .. 2               \* APP_TYPE_EFI, APP_TYPE_MFI, APP_TYPE_AFI
APP_TYPE_AFI == 2
APP_TYPE_ERROR == 3

ASSUME SblAssumption ==
  /\ NPages <= MaxSwapPages
  /\ Signed \subseteq {c \in Contents : c[0] # ErasedPage}
  /\ Header \in [Signed -> [type : AppTypes, primary : Nat, secondary : Nat, date : Nat]]
  /\ TargetDev \in BOOLEAN
  /\ ResetKinds \subseteq ResetCauses
  /\ TornData \in BOOLEAN
  /\ TornState \subseteq {"write", "erase"}

NONE == "NONE"                   \* sbl_cmd_e
INSTALL_APP == "INSTALL_APP"
RUN_APP == "RUN_APP"
Cmds == {NONE, INSTALL_APP, RUN_APP}

NORMAL == "NORMAL"               \* sbl_rsp_e
NEW_FW_FIRST_RUN == "NEW_FW_FIRST_RUN"
RESTORE_FIRST_RUN == "RESTORE_FIRST_RUN"
INSTALL_ERROR == "INSTALL_ERROR"
INTERNAL_ERROR == "INTERNAL_ERROR"
Rsps == {NORMAL, NEW_FW_FIRST_RUN, RESTORE_FIRST_RUN, INSTALL_ERROR, INTERNAL_ERROR}

Regions == {"bl", "bl_state", "mfidata", "slot0"}

VARIABLES
  slot0,      \* flash: the image that runs
  slot1,      \* flash: a spare page, then the image to install
  bl,         \* flash: the two bl_state pages
  gpregret,   \* NRF_POWER->GPREGRET, the command to the boot loader
  gpregret2,  \* NRF_POWER->GPREGRET2, its response
  resetreas,  \* NRF_POWER->RESETREAS: SREQ (soft reset) and OFF (System OFF wake-up)
  acl,        \* the regions locked by the access control list until a reset
  pc,
  cmd         \* the command main() captured and bl_process() is given

flash == <<slot0, slot1, bl>>
regs == <<gpregret, gpregret2, resetreas, acl>>
sblVars == <<slot0, slot1, bl, gpregret, gpregret2, resetreas, acl, pc, cmd>>

st == BlGetState(bl)

(* app_image_for_slot: where the image to install and the one to restore   *)
(* lie in slot1.                                                           *)
NewImage == [p \in Pages |-> slot1[p + 1]]
RestoreImage == [p \in Pages |-> slot1[p]]
-------------------------------------------------------------------------------
(* apputils.c *)

(* "Bug" in a name marks a variant of the definition after it that has a   *)
(* plausible mistake in it, to show that a property notices.               *)

(* The release build's condition on the image to install: neither the type *)
(* nor a certificate goes back, and the image date moves forward.          *)
RatchetBugNoDate(new, old) ==
  /\ Header[new].type >= Header[old].type
  /\ Header[new].primary >= Header[old].primary
  /\ Header[new].secondary >= Header[old].secondary

Ratchet(new, old) ==
  /\ Header[new].type >= Header[old].type
  /\ Header[new].primary >= Header[old].primary
  /\ Header[new].secondary >= Header[old].secondary
  /\ Header[new].date > Header[old].date

Slot0Valid == slot0 \in Signed                         \* APP_SLOT_0
Slot1ValidBugNoRatchet == Slot0Valid /\ NewImage \in Signed
Slot1Valid ==                                          \* APP_SLOT_1
  /\ Slot0Valid
  /\ NewImage \in Signed
  /\ TargetDev \/ Ratchet(NewImage, slot0)
RestoreValid == RestoreImage \in Signed                \* APP_SLOT_1_RESTORE
-------------------------------------------------------------------------------
(* Resets *)

(* What a reset of each kind does to the registers and the program.  Soft  *)
(* resets keep the GPREGRETs and record SREQ, the others clear both; the   *)
(* start-up code clears RESETREAS after a pin reset, power-on does too.    *)
(* RESETREAS accumulates until somebody clears it.                         *)
Reset(kind) ==
  /\ gpregret' = IF kind = "soft" THEN gpregret ELSE NONE
  /\ gpregret2' = IF kind = "soft" THEN gpregret2 ELSE NORMAL
  /\ resetreas' = CASE kind = "soft" -> resetreas \union {"SREQ"}
                    [] kind = "watchdog" -> resetreas
                    [] OTHER -> {}
  /\ acl' = {}
  /\ pc' = "main"
  /\ cmd' = NONE

OutsideReset == \E kind \in ResetKinds : Reset(kind)

(* restart(), and the reset after a fault in what was jumped to.           *)
Restart ==
  /\ pc \in {"restart", "wild"}
  /\ Reset("soft")
  /\ UNCHANGED flash

KeepRegs == UNCHANGED regs
Goto(label) == pc' = label /\ UNCHANGED cmd

(* One flash operation: completed, or interrupted by a reset.              *)
WriteSlot0(p, pg, torn, next) ==
  /\ \/ slot0' = [slot0 EXCEPT ![p] = pg] /\ KeepRegs /\ Goto(next)
     \/ TornData /\ (\E q \in torn : slot0' = [slot0 EXCEPT ![p] = q]) /\ OutsideReset
  /\ UNCHANGED <<slot1, bl>>

WriteSlot1(p, pg, torn, next) ==
  /\ \/ slot1' = [slot1 EXCEPT ![p] = pg] /\ KeepRegs /\ Goto(next)
     \/ TornData /\ (\E q \in torn : slot1' = [slot1 EXCEPT ![p] = q]) /\ OutsideReset
  /\ UNCHANGED <<slot0, bl>>

EraseSlot0(p, next) == WriteSlot0(p, ErasedPage, TornErase(slot0[p]), next)
EraseSlot1(p, next) == WriteSlot1(p, ErasedPage, TornErase(slot1[p]), next)

(* bl_set_state.  Any state but TO_IDLE must follow the current one, or    *)
(* LOG_FATAL.  The caller then returns to main(), which goes on without    *)
(* the command.                                                            *)
BlSetState(s, next) ==
  LET n == SetPage(s)
  IN /\ s = TO_IDLE \/ s = st + 1
     /\ \/ /\ bl' = [bl EXCEPT ![n] = Zeroed(bl[n], SetWord(s))]
           /\ KeepRegs
           /\ pc' = next /\ cmd' = NONE
        \/ /\ "write" \in TornState
           /\ \E q \in TornZero(bl[n], SetWord(s)) : bl' = [bl EXCEPT ![n] = q]
           /\ OutsideReset
     /\ UNCHANGED <<slot0, slot1>>

BlSetRsp(r) == gpregret2' = r /\ UNCHANGED <<flash, gpregret, resetreas, acl>>
BlSetCmd(c) == gpregret' = c /\ UNCHANGED <<flash, gpregret2, resetreas, acl>>

(* The first word of a page, and the first page of an area, a loop over it *)
(* finds different from what it should be.                                 *)
FirstDiff(i, dst, src) ==
  dst[i] # src[i] /\ \A j \in Words : j < i => dst[j] = src[j]
FirstNonErased(p, area) ==
  area[p] # ErasedPage /\ \A q \in Pages : q < p => area[q] = ErasedPage

(* A copy loop at word i of a page: the page after the write, and after a  *)
(* reset in the middle of it.                                              *)
Copied(dst, src, i) == [dst EXCEPT ![i] = src[i]]
TornCopy(dst, src, i) == {[dst EXCEPT ![i] = v] : v \in TornWrite(dst[i], src[i])}
-------------------------------------------------------------------------------
(* main() *)

(* From reset to the first decision: the boot loader is locked, the        *)
(* command captured and cleared so that it is processed once.  A request   *)
(* to run the application is honoured after a soft reset only; waking from *)
(* System OFF runs it without a check; anything else is for bl_process().  *)
MainBugLocksEarly ==
  /\ pc = "main"
  /\ acl' = {"bl", "bl_state", "slot0"}
  /\ cmd' = gpregret
  /\ gpregret' = NONE
  /\ pc' = IF "SREQ" \in resetreas /\ gpregret = RUN_APP THEN "run_app"
           ELSE IF "OFF" \in resetreas THEN "run_nocheck"
           ELSE "process"
  /\ UNCHANGED <<flash, gpregret2, resetreas>>

Main ==
  /\ pc = "main"
  /\ acl' = {"bl"}
  /\ cmd' = gpregret
  /\ gpregret' = NONE
  /\ pc' = IF "SREQ" \in resetreas /\ gpregret = RUN_APP THEN "run_app"
           ELSE IF "OFF" \in resetreas THEN "run_nocheck"
           ELSE "process"
  /\ UNCHANGED <<flash, gpregret2, resetreas>>

(* What app_type() may return: the type of the image in slot0; whatever    *)
(* its byte holds when there is no valid one.                              *)
AppType == IF Slot0Valid THEN {Header[slot0].type} ELSE AppTypes \union {APP_TYPE_ERROR}

LockdownBugAfiOpen ==
  \E type \in AppType :
    acl' = acl \union {"bl_state", "slot0"}
               \union IF type > APP_TYPE_AFI THEN {"mfidata"} ELSE {}

Lockdown ==
  \E type \in AppType :
    acl' = acl \union {"bl_state", "slot0"}
               \union IF type >= APP_TYPE_AFI THEN {"mfidata"} ELSE {}

(* bl_run_app: lock down, then jump to slot0 if it is valid; "next" is     *)
(* where app_run() returning leads.                                        *)
BlRunApp(next) ==
  /\ Lockdown
  /\ Goto(IF Slot0Valid THEN "app_start" ELSE next)
  /\ UNCHANGED <<flash, gpregret, gpregret2, resetreas>>

RunRequested == pc = "run_app" /\ BlRunApp("restart")

(* bl_run_app_no_check: whatever slot0 holds is jumped to.                 *)
RunNoCheck == pc = "run_nocheck" /\ BlRunApp("wild")
-------------------------------------------------------------------------------
(* bl_process() *)

Process(s) == pc = "process" /\ st = s

IdleInstall ==
  /\ Process(IDLE)
  /\ "SREQ" \in resetreas /\ cmd = INSTALL_APP
  /\ BlSetState(INSTALL, "process")

IdleNormal ==
  /\ Process(IDLE)
  /\ ~("SREQ" \in resetreas /\ cmd = INSTALL_APP)
  /\ BlSetRsp(NORMAL)
  /\ Goto("idle_run")

(* No valid application: the device is bricked.                            *)
IdleRun == pc = "idle_run" /\ BlRunApp("shutdown")

InstallStart ==
  /\ Process(INSTALL)
  /\ Slot1Valid
  /\ BlSetState(SWAP_START, "process")

InstallError ==
  /\ Process(INSTALL)
  /\ ~Slot1Valid
  /\ BlSetRsp(INSTALL_ERROR)
  /\ Goto("set_run")

RunState ==
  /\ Process(RUN)
  /\ BlSetRsp(NEW_FW_FIRST_RUN)
  /\ Goto("set_run")

(* A command in RESTORE_0: the application wants a new install.            *)
RestoreChainBugDropsCmd ==
  /\ Process(RESTORE_0)
  /\ cmd # NONE
  /\ BlSetCmd(NONE)
  /\ Goto("set_state")

RestoreChain ==
  /\ Process(RESTORE_0)
  /\ cmd # NONE
  /\ BlSetCmd(cmd)
  /\ Goto("set_state")

(* The application erased the image to restore: the new one stays.         *)
RestoreAcceptedBugSlot ==
  /\ Process(RESTORE_0)
  /\ cmd = NONE
  /\ ~Slot1Valid
  /\ BlSetRsp(NORMAL)
  /\ Goto("set_none")

RestoreAccepted ==
  /\ Process(RESTORE_0)
  /\ cmd = NONE
  /\ ~RestoreValid
  /\ BlSetRsp(NORMAL)
  /\ Goto("set_none")

RestoreBeginBugUnchecked ==
  /\ Process(RESTORE_0)
  /\ cmd = NONE
  /\ Goto("restore_erase")
  /\ UNCHANGED <<flash, regs>>

RestoreBegin ==
  /\ Process(RESTORE_0)
  /\ cmd = NONE
  /\ RestoreValid
  /\ Goto("restore_erase")
  /\ UNCHANGED <<flash, regs>>

RestoreErase ==
  /\ pc = "restore_erase"
  /\ \E p \in Pages :
       FirstNonErased(p, slot0) /\ EraseSlot0(p, "restore_erase")

RestoreErased ==
  /\ pc = "restore_erase"
  /\ \A p \in Pages : slot0[p] = ErasedPage
  /\ Goto("restore_copy")
  /\ UNCHANGED <<flash, regs>>

(* The copy loop over the whole slot; a word that is neither erased nor    *)
(* right costs the page and a restart.                                     *)
RestoreCopy ==
  /\ pc = "restore_copy"
  /\ \E p \in Pages :
       /\ \A q \in Pages : q < p => slot0[q] = slot1[q]
       /\ \E i \in Words :
            /\ FirstDiff(i, slot0[p], slot1[p])
            /\ IF slot0[p][i] = Erased
               THEN WriteSlot0(p, Copied(slot0[p], slot1[p], i),
                               TornCopy(slot0[p], slot1[p], i), "restore_copy")
               ELSE EraseSlot0(p, "restart")

RestoreCopied ==
  /\ pc = "restore_copy"
  /\ \A p \in Pages : slot0[p] = slot1[p]
  /\ BlSetState(RESTORE_1, "process")

Restore1Erase ==
  /\ Process(RESTORE_1)
  /\ \E p \in Pages :
       FirstNonErased(p, slot1) /\ EraseSlot1(p, "process")

Restore1Done ==
  /\ Process(RESTORE_1)
  /\ \A p \in Pages : slot1[p] = ErasedPage
  /\ BlSetRsp(RESTORE_FIRST_RUN)
  /\ Goto("set_run")

ErrorState ==
  /\ Process(ERROR)
  /\ BlSetRsp(INTERNAL_ERROR)
  /\ Goto("set_run")

ToIdleNormal ==
  /\ Process(TO_IDLE)
  /\ cmd = NONE
  /\ BlSetRsp(NORMAL)
  /\ Goto("set_run")

ToIdleChain ==
  /\ Process(TO_IDLE)
  /\ cmd # NONE
  /\ BlSetCmd(cmd)
  /\ Goto("erase_state_0")

(* The rest of a branch of bl_process: bl_set_cmd after bl_set_rsp, then   *)
(* the new state, or the erase of the two state pages.                     *)
SetRunBugNoState ==
  /\ pc = "set_run"
  /\ BlSetCmd(RUN_APP)
  /\ Goto(IF st \in {ERROR, TO_IDLE} THEN "erase_state_0" ELSE "restart")

SetRun ==
  /\ pc = "set_run"
  /\ BlSetCmd(RUN_APP)
  /\ Goto(IF st \in {ERROR, TO_IDLE} THEN "erase_state_0" ELSE "set_state")

SetNone ==
  /\ pc = "set_none"
  /\ BlSetCmd(NONE)
  /\ Goto("set_state")

SetState ==
  /\ pc = "set_state"
  /\ BlSetState(IF st = RUN THEN RESTORE_0 ELSE TO_IDLE, "restart")

EraseStatePage(n, next) ==
  /\ \/ bl' = [bl EXCEPT ![n] = ClearPage] /\ KeepRegs /\ Goto(next)
     \/ /\ "erase" \in TornState
        /\ \E q \in TornClear(bl[n]) : bl' = [bl EXCEPT ![n] = q]
        /\ OutsideReset
  /\ UNCHANGED <<slot0, slot1>>

EraseState0BugOrder == pc = "erase_state_0" /\ EraseStatePage(1, "erase_state_1")
EraseState0 == pc = "erase_state_0" /\ EraseStatePage(0, "erase_state_1")
EraseState1 == pc = "erase_state_1" /\ EraseStatePage(1, "restart")
-------------------------------------------------------------------------------
(* bl_swap() *)

Swapping == SWAP_START <= st /\ st < RUN
SwapAt(phase) ==
  /\ pc = "process"
  /\ Swapping
  /\ SwapPage(st) < NPages
  /\ SwapPhase(st) = phase
SwapNext == BlSetState(st + 1, "process")

(* Past the last page of the slot: only count up to RUN.                   *)
SwapSkip ==
  /\ pc = "process"
  /\ Swapping
  /\ SwapPage(st) >= NPages
  /\ SwapNext

SwapErase1 ==
  LET n == SwapPage(st)
  IN /\ SwapAt(ERASE1)
     /\ IF slot1[n] = ErasedPage THEN SwapNext ELSE EraseSlot1(n, "process")

SwapCopy0BugEarlyState ==
  LET n == SwapPage(st)
  IN /\ SwapAt(COPY0)
     /\ \/ slot1[n][0] = slot0[n][0] /\ SwapNext
        \/ slot1[n][0] # slot0[n][0]
           /\ WriteSlot1(n, Copied(slot1[n], slot0[n], 0), {slot1[n]}, "process")

SwapCopy0BugNoErase ==
  LET n == SwapPage(st)
  IN /\ SwapAt(COPY0)
     /\ \/ slot1[n] = slot0[n] /\ SwapNext
        \/ \E i \in Words :
             /\ FirstDiff(i, slot1[n], slot0[n])
             /\ IF slot1[n][i] = Erased
                THEN WriteSlot1(n, Copied(slot1[n], slot0[n], i),
                                TornCopy(slot1[n], slot0[n], i), "process")
                ELSE Goto("restart") /\ UNCHANGED <<flash, regs>>

SwapCopy0 ==
  LET n == SwapPage(st)
  IN /\ SwapAt(COPY0)
     /\ \/ slot1[n] = slot0[n] /\ SwapNext
        \/ \E i \in Words :
             /\ FirstDiff(i, slot1[n], slot0[n])
             /\ IF slot1[n][i] = Erased
                THEN WriteSlot1(n, Copied(slot1[n], slot0[n], i),
                                TornCopy(slot1[n], slot0[n], i), "process")
                ELSE EraseSlot1(n, "restart")

SwapErase0 ==
  LET n == SwapPage(st)
  IN /\ SwapAt(ERASE0)
     /\ IF slot0[n] = ErasedPage THEN SwapNext ELSE EraseSlot0(n, "process")

SwapCopy1 ==
  LET n == SwapPage(st)
  IN /\ SwapAt(COPY1)
     /\ \/ slot0[n] = slot1[n + 1] /\ SwapNext
        \/ \E i \in Words :
             /\ FirstDiff(i, slot0[n], slot1[n + 1])
             /\ IF slot0[n][i] = Erased
                THEN WriteSlot0(n, Copied(slot0[n], slot1[n + 1], i),
                                TornCopy(slot0[n], slot1[n + 1], i), "process")
                ELSE EraseSlot0(n, "restart")
-------------------------------------------------------------------------------
SblInit ==
  /\ slot0 \in Signed
  /\ slot1 = [p \in Slot1Pages |-> ErasedPage]
  /\ bl = [n \in 0 .. 1 |-> ClearPage]
  /\ gpregret = NONE
  /\ gpregret2 = NORMAL
  /\ resetreas = {}
  /\ acl = {}
  /\ pc = "main"
  /\ cmd = NONE

BlSwap == SwapSkip \/ SwapErase1 \/ SwapCopy0 \/ SwapErase0 \/ SwapCopy1

BlProcess ==
  \/ IdleInstall \/ IdleNormal \/ IdleRun
  \/ InstallStart \/ InstallError
  \/ RunState
  \/ RestoreChain \/ RestoreAccepted \/ RestoreBegin
  \/ RestoreErase \/ RestoreErased \/ RestoreCopy \/ RestoreCopied
  \/ Restore1Erase \/ Restore1Done
  \/ ErrorState
  \/ ToIdleNormal \/ ToIdleChain
  \/ SetRun \/ SetNone \/ SetState \/ EraseState0 \/ EraseState1
  \/ BlSwap

(* Everything the boot loader does by itself.                              *)
SblNext == Main \/ RunRequested \/ RunNoCheck \/ BlProcess \/ Restart

SblLabels ==
  {"main", "run_app", "run_nocheck", "process", "idle_run", "set_run", "set_none",
   "set_state", "restore_erase", "restore_copy", "erase_state_0", "erase_state_1",
   "restart", "shutdown", "wild"}
===============================================================================
