---------------------------------- MODULE Fwu ----------------------------------
(***************************************************************************)
(* A download: fwu.py on the host, the link, and on the device fwu.c in    *)
(* the main loop of prod-app/main.c under the watchdog that the boot       *)
(* loader started.                                                         *)
(*                                                                         *)
(* A block is its number in the file and fills a page of slot1, whose page *)
(* 0 is left to the boot loader.  Time is told in erases of a page: no     *)
(* other thing keeps the device from its main loop for long.               *)
(***************************************************************************)
EXTENDS Integers, Sequences, SequencesExt

CONSTANTS
  Files,       \* the files: how many blocks, and the length of the last
  SlotPages,   \* the pages of slot1 that take an image
  WdtPages,    \* the watchdog's time-out, in page erases
  FeedPages,   \* the time between two feeds in the main loop, in page erases
  Troubles,    \* what may go wrong together: the values of "trouble"
  MaxFrames    \* bound: frames on their way when fwu.py starts

ASSUME FwuAssumption ==
  /\ Files \subseteq [blocks : Nat \ {0}, last : {"full", "short", "odd"}]
  /\ SlotPages \in Nat
  /\ WdtPages \in Nat /\ FeedPages \in 0 .. WdtPages - 2
  /\ Troubles \subseteq SUBSET {"loss", "quit", "reset"}
  /\ MaxFrames \in Nat

VARIABLES
  file,      \* the file that fwu.py is started with
  trouble,   \* "loss": frames are lost or damaged; "quit": fwu.py times out, or
             \* is stopped, with an answer still to come; "reset": resets from
             \* outside
  host,      \* what fwu.py waits for, or how it ended
  next,      \* the next block to send
  up, down,  \* the frames on their way to the device and from it
  state,     \* fwu_state.state
  offset,    \* fwu_state.offset, as a page
  index,     \* the page that erase_slot1() is at, NoPage outside
  since,     \* the time since the watchdog was fed
  slot1,     \* the pages: a block of the file, Erased, Old or Junk
  taken      \* history: slot1 when the last fw-schedule was accepted, since
             \* fwu.py was started

hostVars == <<host, next>>
devVars == <<state, offset, index, since, slot1>>
vars == <<file, trouble, hostVars, up, down, devVars, taken>>

Pages == 0 .. SlotPages
NoPage == -1
Erased == 0
Old == -1
Junk == -2

Data == 1 .. file.blocks
All(content) == [p \in Pages |-> content]
Whole == [p \in Pages |-> IF p \in Data THEN p ELSE Erased]

(* A command and what its arguments decode to: a block of full length, a   *)
(* shorter one or one that is not of whole words ("odd"), a time, or       *)
(* nothing ("bad").                                                        *)
Start == [cmd |-> "fw-start"]
Block(n) == [cmd |-> "fw-block", data |-> n,
             args |-> IF n = file.blocks THEN file.last ELSE "full"]
Schedule == [cmd |-> "fw-schedule", args |-> "time"]
Damaged(frame) == [frame EXCEPT !.args = "bad"]

Rsp(cmd) == [rsp |-> cmd, error |-> FALSE]
Invalid(cmd) == [rsp |-> cmd, error |-> TRUE]
-------------------------------------------------------------------------------
(* fwu.py *)

Waiting == {"start", "block", "schedule"}
Send(frame) == up' = Append(up, frame)

HostStart ==
  /\ host \notin Waiting
  /\ Len(up) + Len(down) < MaxFrames
  /\ Send(Start)
  /\ host' = "start" /\ next' = 1
  /\ taken' = "none"
  /\ UNCHANGED <<file, trouble, down, devVars>>

(* An answer.  An error ends the run, and so does an answer without the    *)
(* block size where fw-start was sent; any other is taken for the answer   *)
(* to what was sent last.                                                  *)
Unusable(rsp) == rsp.error \/ (host = "start" /\ rsp.rsp # "fw-start")

HostFails ==
  /\ Unusable(Head(down))
  /\ host' = "failed"
  /\ UNCHANGED <<next, up>>

HostBlock ==
  /\ ~Unusable(Head(down)) /\ host # "schedule" /\ next <= file.blocks
  /\ Send(Block(next))
  /\ host' = "block" /\ next' = next + 1

HostSchedule ==
  /\ ~Unusable(Head(down)) /\ host # "schedule" /\ next > file.blocks
  /\ Send(Schedule)
  /\ host' = "schedule" /\ UNCHANGED next

HostDone ==
  /\ ~Unusable(Head(down)) /\ host = "schedule"
  /\ host' = "done"
  /\ UNCHANGED <<next, up>>

HostAnswer ==
  /\ host \in Waiting /\ down # <<>>
  /\ down' = Tail(down)
  /\ HostFails \/ HostBlock \/ HostSchedule \/ HostDone
  /\ UNCHANGED <<file, trouble, devVars, taken>>

(* txrx() timed out and the run ends: no answer can come any more, or the  *)
(* wait was too short.                                                     *)
HostQuit ==
  /\ host \in Waiting
  /\ "quit" \in trouble \/ (up = <<>> /\ down = <<>> /\ index = NoPage)
  /\ host' = "failed"
  /\ UNCHANGED <<file, trouble, next, up, down, devVars, taken>>

(* An answer that nobody waits for.                                        *)
HostIgnores ==
  /\ host \notin Waiting /\ down # <<>>
  /\ down' = Tail(down)
  /\ UNCHANGED <<file, trouble, hostVars, up, devVars, taken>>

(* The link loses a frame, or damages it so that it is none any more, or   *)
(* one without a command.                                                  *)
Lose ==
  /\ "loss" \in trouble
  /\ \/ \E i \in 1 .. Len(up) : up' = RemoveAt(up, i) /\ UNCHANGED down
     \/ \E i \in 1 .. Len(down) : down' = RemoveAt(down, i) /\ UNCHANGED up
  /\ UNCHANGED <<file, trouble, hostVars, devVars, taken>>

(* Frames carry no checksum: one whose arguments alone are damaged arrives.*)
Damage ==
  /\ "loss" \in trouble
  /\ \E i \in 1 .. Len(up) :
       up[i].cmd # "fw-start" /\ up' = [up EXCEPT ![i] = Damaged(@)]
  /\ UNCHANGED <<file, trouble, hostVars, down, devVars, taken>>
-------------------------------------------------------------------------------
(* fwu_cmd() *)

(* The main loop takes a frame from the link.                              *)
Take(cmd) ==
  /\ index = NoPage
  /\ up # <<>> /\ Head(up).cmd = cmd
  /\ up' = Tail(up)
  /\ UNCHANGED <<file, trouble, hostVars, since>>
Answer(rsp) == down' = Append(down, rsp)

CmdStartBugNoErase ==
  /\ Take("fw-start")
  /\ offset' = 1
  /\ state' = "WAIT_BLOCK"
  /\ Answer(Rsp("fw-start"))
  /\ UNCHANGED <<index, slot1, taken>>

CmdStart ==
  /\ Take("fw-start")
  /\ offset' = 1
  /\ state' = "WAIT_BLOCK"
  /\ index' = 0
  /\ UNCHANGED <<slot1, down, taken>>

(* erase_slot1(): a page that is not erased costs its erase, and nobody    *)
(* feeds the watchdog meanwhile.                                           *)
ErasePageBugAll ==
  /\ index \in Pages
  /\ since + 1 < WdtPages
  /\ slot1' = [slot1 EXCEPT ![index] = Erased]
  /\ since' = since + 1
  /\ index' = index + 1
  /\ UNCHANGED <<file, trouble, hostVars, up, down, state, offset, taken>>

ErasePage ==
  /\ index \in Pages
  /\ \/ slot1[index] = Erased /\ UNCHANGED <<slot1, since>>
     \/ /\ slot1[index] # Erased /\ since + 1 < WdtPages
        /\ slot1' = [slot1 EXCEPT ![index] = Erased]
        /\ since' = since + 1
  /\ index' = index + 1
  /\ UNCHANGED <<file, trouble, hostVars, up, down, state, offset, taken>>

EraseEnds ==
  /\ index > SlotPages
  /\ index' = NoPage
  /\ Answer(Rsp("fw-start"))
  /\ UNCHANGED <<file, trouble, hostVars, up, state, offset, since, slot1, taken>>

(* program_data(): flash that is not erased would end up with bits of both.*)
Programmed(p, data) ==
  [slot1 EXCEPT ![p] = IF slot1[p] \in {Erased, data} THEN data ELSE Junk]

(* A block is of whole words, and one that is not full is the last.        *)
WholeWords == {"full", "short"}
StateAfter(block) == IF block.args = "short" THEN "WAIT_SCHEDULE" ELSE state

CmdBlockBugAnyState ==
  /\ Take("fw-block")
  /\ Head(up).args \in WholeWords
  /\ state' = StateAfter(Head(up))
  /\ slot1' = Programmed(offset, Head(up).data)
  /\ offset' = offset + 1
  /\ Answer(Rsp("fw-block"))
  /\ UNCHANGED <<index, taken>>

CmdBlockBugNoEnd ==
  /\ Take("fw-block")
  /\ state = "WAIT_BLOCK" /\ Head(up).args \in WholeWords
  /\ state' = StateAfter(Head(up))
  /\ slot1' = Programmed(offset, Head(up).data)
  /\ offset' = offset + 1
  /\ Answer(Rsp("fw-block"))
  /\ UNCHANGED <<index, taken>>

CmdBlock ==
  /\ Take("fw-block")
  /\ \/ /\ state = "WAIT_BLOCK" /\ Head(up).args \in WholeWords
        /\ state' = StateAfter(Head(up))
        /\ IF offset <= SlotPages
           THEN slot1' = Programmed(offset, Head(up).data) /\ offset' = offset + 1
           ELSE UNCHANGED <<slot1, offset>>
        /\ Answer(Rsp("fw-block"))
     \/ /\ state # "WAIT_BLOCK" \/ Head(up).args \notin WholeWords
        /\ state' = "WAIT_START"
        /\ Answer(Invalid("fw-block"))
        /\ UNCHANGED <<slot1, offset>>
  /\ UNCHANGED <<index, taken>>

CmdScheduleBugAnyState ==
  /\ Take("fw-schedule")
  /\ state' = "UPDATE"
  /\ Answer(Rsp("fw-schedule"))
  /\ taken' = IF slot1 = Whole THEN "file" ELSE "other"
  /\ UNCHANGED <<offset, index, slot1>>

CmdSchedule ==
  /\ Take("fw-schedule")
  /\ \/ /\ state \in {"WAIT_BLOCK", "WAIT_SCHEDULE"} /\ Head(up).args = "time"
        /\ state' = "UPDATE"
        /\ Answer(Rsp("fw-schedule"))
        /\ taken' = IF slot1 = Whole THEN "file" ELSE "other"
     \/ /\ state \notin {"WAIT_BLOCK", "WAIT_SCHEDULE"} \/ Head(up).args # "time"
        /\ state' = "WAIT_START"
        /\ Answer(Invalid("fw-schedule"))
        /\ UNCHANGED taken
  /\ UNCHANGED <<offset, index, slot1>>
-------------------------------------------------------------------------------
(* The main loop and resets *)

(* A second or so passes between two feeds.                                *)
Tick ==
  /\ index = NoPage /\ since < FeedPages
  /\ since' = since + 1
  /\ UNCHANGED <<file, trouble, hostVars, up, down, state, offset, index, slot1, taken>>

Feed ==
  /\ index = NoPage /\ since > 0
  /\ since' = 0
  /\ UNCHANGED <<file, trouble, hostVars, up, down, state, offset, index, slot1, taken>>

(* The application starts again: frames in its receive buffer are gone.    *)
Restart ==
  /\ state' = "WAIT_START" /\ offset' = 0 /\ index' = NoPage /\ since' = 0
  /\ \E k \in 0 .. Len(up) : up' = SubSeq(up, k + 1, Len(up))
  /\ UNCHANGED <<file, trouble, hostVars, taken>>

IsImage == file.blocks <= SlotPages /\ slot1 = Whole

(* fwu_process(), after log_flush(): the boot loader swaps the image in or *)
(* refuses it.                                                             *)
FwuProcess ==
  /\ index = NoPage /\ state = "UPDATE"
  /\ Restart
  /\ slot1' = slot1 \/ (IsImage /\ slot1' = All(Old))
  /\ UNCHANGED down

(* Answers in the transmit buffer are gone too.                            *)
Reset ==
  /\ Restart
  /\ \E k \in 0 .. Len(down) : down' = SubSeq(down, 1, k)
  /\ UNCHANGED slot1

WatchdogReset ==
  /\ index \in Pages /\ slot1[index] # Erased /\ since + 1 >= WdtPages
  /\ Reset

OutsideReset == "reset" \in trouble /\ Reset
-------------------------------------------------------------------------------
Init ==
  /\ file \in Files /\ trouble \in Troubles
  /\ host = "idle" /\ next = 1
  /\ up = <<>> /\ down = <<>>
  /\ state = "WAIT_START" /\ offset = 0 /\ index = NoPage /\ since = 0
  /\ slot1 \in {All(Old), All(Erased)}
  /\ taken = "none"

Device == CmdStart \/ ErasePage \/ EraseEnds \/ CmdBlock \/ CmdSchedule
          \/ FwuProcess \/ WatchdogReset
Host == HostStart \/ HostAnswer \/ HostQuit \/ HostIgnores

Next == Host \/ Lose \/ Damage \/ Device \/ Tick \/ Feed \/ OutsideReset

Spec == Init /\ [][Next]_vars

(* The device runs on and its main loop feeds; fwu.py takes an answer or   *)
(* gives up in the end, and its user runs it again.                        *)
FairSpec == Spec /\ WF_vars(Device) /\ WF_vars(Feed) /\ WF_vars(Host)
-------------------------------------------------------------------------------
(* Properties *)

Frames ==
  LET sent == {Schedule} \union {Block(n) : n \in Data}
  IN  {Start} \union sent \union {Damaged(frame) : frame \in sent}
Answers == [rsp : {"fw-start", "fw-block", "fw-schedule"}, error : BOOLEAN]

(* The type invariant of host, link and device.                            *)
TypeOK ==
  /\ file \in Files /\ trouble \in Troubles
  /\ host \in Waiting \union {"idle", "failed", "done"} /\ next \in 1 .. file.blocks + 1
  /\ up \in Seq(Frames) /\ down \in Seq(Answers)
  /\ state \in {"WAIT_START", "WAIT_BLOCK", "WAIT_SCHEDULE", "UPDATE"}
  /\ offset \in 0 .. SlotPages + 1 /\ index \in -1 .. SlotPages + 1
  /\ since \in 0 .. WdtPages
  /\ slot1 \in [Pages -> Data \union {Erased, Old, Junk}]
  /\ taken \in {"none", "file", "other"}

(* fw-schedule is never accepted with anything but the whole file in slot1 *)
(* (or as much as there is room for): blocks carry no offset, yet a lost   *)
(* frame or answer, a damaged one, a reset at any point, or answers of an  *)
(* earlier run taken for those of this one do not make the device skip or  *)
(* repeat one.                                                             *)
(* (A loss covered up by such an answer does: then only the boot loader's  *)
(* check of the image is left.)                                            *)
OnlyWhole == {"loss", "quit"} \subseteq trouble \/ taken # "other"

(* When fwu.py ends well, the device has taken the whole file, unless      *)
(* somebody stopped an earlier run.                                        *)
DoneIsTaken == "quit" \notin trouble /\ host = "done" => taken = "file"

(* Blocks go to erased flash only.                                         *)
ProgramsErased == \A p \in Pages : slot1[p] # Junk

(* Running fwu.py again and again succeeds, also when the watchdog cuts    *)
(* the erase of slot1 short every time: the pages already erased stay so.  *)
(* (A file that is not of whole words is never taken.)                     *)
RetriesSucceed == trouble = {} /\ file.last # "odd" => []<>(host = "done")

(* fw-start is answered: its erase is never cut short ("The sender needs   *)
(* to allow that long for the response", fwu.c:102-103).                   *)
StartAnswered == [][index # NoPage /\ index' = NoPage => Len(down') > Len(down)]_vars
===============================================================================
