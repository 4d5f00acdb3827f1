------------------------------- MODULE FwuProofs -------------------------------
(***************************************************************************)
(* Proofs about a download, for every file, slot and watchdog time-out and *)
(* any number of frames on their way.                                      *)
(*                                                                         *)
(* Two inductive invariants.  SlotInv is about the device alone: blocks go *)
(* to erased flash.  OrderInv is about both ends: fw-block carries no      *)
(* offset, so what makes the device put a block where the host means it is *)
(* that the frames on their way, with the one that the next answer will    *)
(* make the host send, continue what slot1 holds.                          *)
(***************************************************************************)
EXTENDS Fwu, TLAPS

-------------------------------------------------------------------------------
(* Sequences *)

LEMMA TailOf ==
  ASSUME NEW S, NEW s \in Seq(S), s # <<>>
  PROVE  /\ Head(s) \in S /\ Head(s) = s[1]
         /\ Tail(s) \in Seq(S) /\ Len(Tail(s)) = Len(s) - 1
         /\ \A j \in 1 .. Len(s) - 1 : Tail(s)[j] = s[j + 1]
  OBVIOUS

LEMMA AppendTo ==
  ASSUME NEW S, NEW s \in Seq(S), NEW x \in S
  PROVE  /\ Append(s, x) \in Seq(S) /\ Len(Append(s, x)) = Len(s) + 1
         /\ Append(s, x) # <<>>
         /\ \A j \in 1 .. Len(s) : Append(s, x)[j] = s[j]
         /\ Append(s, x)[Len(s) + 1] = x
  OBVIOUS

LEMMA SuffixOf ==
  ASSUME NEW S, NEW s \in Seq(S), NEW k \in 0 .. Len(s)
  PROVE  /\ SubSeq(s, k + 1, Len(s)) \in Seq(S)
         /\ Len(SubSeq(s, k + 1, Len(s))) = Len(s) - k
         /\ \A j \in 1 .. Len(s) - k : SubSeq(s, k + 1, Len(s))[j] = s[k + j]
  OBVIOUS

LEMMA PrefixOf ==
  ASSUME NEW S, NEW s \in Seq(S), NEW k \in 0 .. Len(s)
  PROVE  /\ SubSeq(s, 1, k) \in Seq(S)
         /\ Len(SubSeq(s, 1, k)) = k
         /\ \A j \in 1 .. k : SubSeq(s, 1, k)[j] = s[j]
  OBVIOUS

LEMMA RemoveFrom ==
  ASSUME NEW S, NEW s \in Seq(S), NEW i \in 1 .. Len(s)
  PROVE  /\ RemoveAt(s, i) \in Seq(S)
         /\ Len(RemoveAt(s, i)) = Len(s) - 1
  <1> DEFINE a == SubSeq(s, 1, i - 1)
             b == SubSeq(s, i + 1, Len(s))
  <1>1. a \in Seq(S) /\ Len(a) = i - 1
    BY PrefixOf, i - 1 \in 0 .. Len(s)
  <1>2. b \in Seq(S) /\ Len(b) = Len(s) - i
    BY SuffixOf
  <1>3. RemoveAt(s, i) = a \o b
    BY DEF RemoveAt
  <1>4. a \o b \in Seq(S) /\ Len(a \o b) = Len(a) + Len(b)
    <2> HIDE DEF a, b
    <2> QED BY <1>1, <1>2
  <1>5. (i - 1) + (Len(s) - i) = Len(s) - 1
    OBVIOUS
  <1> HIDE DEF a, b
  <1> QED BY <1>1, <1>2, <1>3, <1>4, <1>5

LEMMA EmptyIff ==
  ASSUME NEW S, NEW s \in Seq(S)
  PROVE  Len(s) \in Nat /\ (Len(s) = 0 <=> s = <<>>)
  OBVIOUS

LEMMA OneOfTwo ==
  ASSUME NEW S, NEW T, NEW s \in Seq(S), NEW t \in Seq(T), s # <<>>,
         Len(s) + Len(t) <= 1
  PROVE  Len(s) = 1 /\ Tail(s) = <<>> /\ t = <<>>
  <1>1. Len(s) \in Nat /\ Len(t) \in Nat /\ Len(s) # 0
    BY EmptyIff
  <1>2. \A a, b \in Nat : a # 0 /\ a + b <= 1 => a = 1 /\ b = 0
    OBVIOUS
  <1>3. Len(s) = 1 /\ Len(t) = 0
    BY <1>1, <1>2
  <1>4. Tail(s) \in Seq(S) /\ Len(Tail(s)) = 0
    BY <1>3, TailOf
  <1> QED BY <1>3, <1>4, EmptyIff
-------------------------------------------------------------------------------
(* The device: blocks go to erased flash *)

(* Where blocks go is erased: behind what erase_slot1() has passed, and    *)
(* from offset on once it is done.                                         *)
ErasedAhead ==
  /\ state = "WAIT_BLOCK" => offset > 0
  /\ state = "WAIT_BLOCK" /\ index = NoPage =>
       \A p \in Pages : p >= offset => slot1[p] = Erased
  /\ index # NoPage =>
       /\ state = "WAIT_BLOCK" /\ offset = 1
       /\ \A p \in Pages : p < index => slot1[p] = Erased

SlotInv == TypeOK /\ ErasedAhead /\ ProgramsErased

(* What a frame that may be on its way is, and what damage leaves of it.   *)
Alike(f, g) == f.cmd = g.cmd /\ (g.cmd = "fw-block" => f.data = g.data)

LEMMA FrameKinds ==
  ASSUME NEW f \in Frames
  PROVE  /\ f.cmd \in {"fw-start", "fw-block", "fw-schedule"}
         /\ f.cmd = "fw-block" => f.data \in Data
         /\ f.cmd # "fw-start" => Damaged(f) \in Frames /\ Alike(Damaged(f), f)
  <1>1. CASE f = Start
    BY <1>1 DEF Start
  <1>2. CASE f = Schedule \/ f = Damaged(Schedule)
    <2>1. /\ Schedule.cmd = "fw-schedule"
          /\ Damaged(Schedule).cmd = "fw-schedule"
          /\ Damaged(Damaged(Schedule)) = Damaged(Schedule)
      BY DEF Schedule, Damaged
    <2>2. Damaged(Schedule) \in Frames
      BY DEF Frames
    <2> QED BY <1>2, <2>1, <2>2 DEF Alike
  <1>3. CASE \E n \in Data : f = Block(n) \/ f = Damaged(Block(n))
    <2>1. PICK n \in Data : f = Block(n) \/ f = Damaged(Block(n))
      BY <1>3
    <2>2. /\ Block(n).cmd = "fw-block" /\ Block(n).data = n
          /\ Damaged(Block(n)).cmd = "fw-block" /\ Damaged(Block(n)).data = n
          /\ Damaged(Damaged(Block(n))) = Damaged(Block(n))
      BY DEF Block, Damaged
    <2>3. Damaged(Block(n)) \in Frames
      BY DEF Frames
    <2> QED BY <2>1, <2>2, <2>3 DEF Alike
  <1> QED BY <1>1, <1>2, <1>3 DEF Frames

(* The program: one file a run, with a block at least.                     *)
LEMMA FileStays ==
  ASSUME TypeOK, [Next]_vars
  PROVE  /\ file' = file /\ trouble' = trouble
         /\ Data' = Data /\ Frames' = Frames /\ Whole' = Whole
         /\ file.blocks \in Nat /\ file.blocks >= 1
  <1>1. file' = file /\ trouble' = trouble
    BY DEF Next, vars, Host, HostStart, HostAnswer, HostQuit, HostIgnores, Lose,
       Damage, Device, CmdStart, ErasePage, EraseEnds, CmdBlock, CmdSchedule, Take,
       FwuProcess, WatchdogReset, OutsideReset, Reset, Restart, Tick, Feed
  <1>2. file.blocks \in Nat /\ file.blocks >= 1
    BY FwuAssumption DEF TypeOK
  <1>3. Data' = Data
    BY <1>1 DEF Data
  <1>4. \A n : Block(n)' = Block(n)
    BY <1>1 DEF Block
  <1>5. Frames' = Frames
    BY <1>3, <1>4 DEF Frames, Start, Schedule, Damaged
  <1>6. Whole' = Whole
    BY <1>3 DEF Whole, Pages
  <1> QED BY <1>1, <1>2, <1>3, <1>5, <1>6

(* Restart keeps a part of the frames on their way.                        *)
LEMMA UpAfterRestart ==
  ASSUME TypeOK, Restart
  PROVE  \E k \in 0 .. Len(up) :
           /\ up' = SubSeq(up, k + 1, Len(up)) /\ up' \in Seq(Frames)
           /\ Len(up') = Len(up) - k
           /\ \A j \in 1 .. Len(up) - k : up'[j] = up[k + j]
  <1>1. up \in Seq(Frames)
    BY DEF TypeOK
  <1>2. PICK k \in 0 .. Len(up) : up' = SubSeq(up, k + 1, Len(up))
    BY DEF Restart
  <1> QED BY <1>1, <1>2, SuffixOf

(* And Reset a part of the answers.                                        *)
LEMMA DownAfterReset ==
  ASSUME TypeOK, Reset
  PROVE  \E k \in 0 .. Len(down) :
           /\ down' \in Seq(Answers) /\ Len(down') = k
           /\ \A j \in 1 .. k : down'[j] = down[j]
  <1>1. down \in Seq(Answers)
    BY DEF TypeOK
  <1>2. PICK k \in 0 .. Len(down) : down' = SubSeq(down, 1, k)
    BY DEF Reset
  <1> QED BY <1>1, <1>2, PrefixOf

(* The host keeps to the types.                                            *)
LEMMA HostTypes ==
  ASSUME TypeOK, Host
  PROVE  TypeOK'
  <1> USE DEF TypeOK
  <1>0. /\ file' = file /\ trouble' = trouble /\ Data' = Data /\ Frames' = Frames
        /\ file.blocks \in Nat /\ file.blocks >= 1
    BY FileStays DEF Next
  <1>a. Start \in Frames /\ Schedule \in Frames /\ \A n \in Data : Block(n) \in Frames
    BY DEF Frames
  <1>1. CASE HostStart
    <2>1. up' \in Seq(Frames)
      BY <1>1, <1>a, AppendTo DEF HostStart, Send
    <2>2. 1 \in 1 .. file.blocks + 1
      BY <1>0
    <2> QED BY <1>0, <1>1, <2>1, <2>2 DEF HostStart, devVars, Waiting
  <1>2. CASE HostAnswer
    <2>1. down' \in Seq(Answers)
      BY <1>2, TailOf DEF HostAnswer
    <2>2. up' \in Seq(Frames) /\ next' \in 1 .. file.blocks + 1
          /\ host' \in Waiting \union {"idle", "failed", "done"}
      <3>1. CASE HostFails
        BY <1>0, <3>1 DEF HostFails
      <3>2. CASE HostBlock
        <4>1. next \in Data /\ next + 1 \in 1 .. file.blocks + 1
          BY <1>0, <3>2 DEF HostBlock, Data
        <4> QED BY <1>a, <3>2, <4>1, AppendTo DEF HostBlock, Send, Waiting
      <3>3. CASE HostSchedule
        BY <1>0, <1>a, <3>3, AppendTo DEF HostSchedule, Send, Waiting
      <3>4. CASE HostDone
        BY <1>0, <3>4 DEF HostDone
      <3> QED BY <1>2, <3>1, <3>2, <3>3, <3>4 DEF HostAnswer
    <2> QED BY <1>0, <1>2, <2>1, <2>2 DEF HostAnswer, devVars
  <1>3. CASE HostQuit
    BY <1>0, <1>3 DEF HostQuit, devVars
  <1>4. CASE HostIgnores
    <2>1. down' \in Seq(Answers)
      BY <1>4, TailOf DEF HostIgnores
    <2> QED BY <1>0, <1>4, <2>1 DEF HostIgnores, devVars, hostVars
  <1> QED BY <1>1, <1>2, <1>3, <1>4 DEF Host

(* And so does the link.                                                   *)
LEMMA LossTypes ==
  ASSUME TypeOK, Lose
  PROVE  TypeOK'
  <1> USE DEF TypeOK
  <1>0. /\ file' = file /\ trouble' = trouble /\ Data' = Data /\ Frames' = Frames
    BY FileStays DEF Next
  <1>1. CASE \E i \in 1 .. Len(up) : up' = RemoveAt(up, i) /\ UNCHANGED down
    <2>1. up' \in Seq(Frames)
      BY <1>1, RemoveFrom
    <2> QED BY <1>0, <1>1, <2>1 DEF Lose, devVars, hostVars
  <1>2. CASE \E i \in 1 .. Len(down) : down' = RemoveAt(down, i) /\ UNCHANGED up
    <2>1. down' \in Seq(Answers)
      BY <1>2, RemoveFrom
    <2> QED BY <1>0, <1>2, <2>1 DEF Lose, devVars, hostVars
  <1> QED BY <1>1, <1>2 DEF Lose

(* A damaged frame is still one.                                           *)
LEMMA DamagedUp ==
  ASSUME up \in Seq(Frames), Damage
  PROVE  /\ up' \in Seq(Frames) /\ Len(up') = Len(up)
         /\ \A j \in 1 .. Len(up) : Alike(up'[j], up[j])
         /\ up' = <<>> <=> up = <<>>
  <1>1. PICK i \in 1 .. Len(up) :
          up[i].cmd # "fw-start" /\ up' = [up EXCEPT ![i] = Damaged(up[i])]
    BY DEF Damage
  <1>2. up[i] \in Frames
    OBVIOUS
  <1>3. Damaged(up[i]) \in Frames /\ Alike(Damaged(up[i]), up[i])
    BY <1>1, <1>2, FrameKinds
  <1>4. up' \in Seq(Frames) /\ Len(up') = Len(up)
    BY <1>1, <1>3
  <1>5. \A j \in 1 .. Len(up) : Alike(up'[j], up[j])
    <2> SUFFICES ASSUME NEW j \in 1 .. Len(up) PROVE Alike(up'[j], up[j])
      OBVIOUS
    <2>1. CASE j = i
      BY <1>1, <1>3, <2>1
    <2>2. CASE j # i
      BY <1>1, <2>2 DEF Alike
    <2> QED BY <2>1, <2>2
  <1> QED BY <1>4, <1>5, EmptyIff

LEMMA DamageTypes ==
  ASSUME TypeOK, Damage
  PROVE  TypeOK'
  <1>1. /\ file' = file /\ trouble' = trouble /\ Data' = Data /\ Frames' = Frames
    BY FileStays DEF Next
  <1>2. up' \in Seq(Frames)
    BY DamagedUp DEF TypeOK
  <1> QED BY <1>1, <1>2 DEF Damage, TypeOK, devVars, hostVars

(* A block programmed where flash is erased is that block, and the rest    *)
(* stays as it is.                                                         *)
LEMMA Programming ==
  ASSUME NEW p \in Pages, NEW data, slot1 \in [Pages -> Data \union {Erased, Old, Junk}],
         slot1[p] = Erased
  PROVE  Programmed(p, data) = [slot1 EXCEPT ![p] = data]
  BY DEF Programmed

(* fw-block keeps to the types, and to erased flash.                       *)
LEMMA BlockKeeps ==
  ASSUME SlotInv, CmdBlock
  PROVE  SlotInv'
  <1> USE DEF SlotInv, TypeOK
  <1>0. /\ file' = file /\ trouble' = trouble /\ Data' = Data /\ Frames' = Frames
    BY FileStays DEF Next, Device
  <1>1. /\ UNCHANGED <<file, trouble, host, next, since, index, taken>>
        /\ index = NoPage /\ Head(up).cmd = "fw-block" /\ up' = Tail(up)
    BY DEF CmdBlock, Take, hostVars
  <1>2. up' \in Seq(Frames) /\ Head(up) \in Frames
    BY TailOf DEF CmdBlock, Take
  <1>3. Head(up).data \in Data /\ Head(up).data \in Nat
    BY <1>1, <1>2, FrameKinds DEF Data
  <1>4. down' \in Seq(Answers)
    <2>1. Rsp("fw-block") \in Answers /\ Invalid("fw-block") \in Answers
      BY DEF Rsp, Invalid, Answers
    <2>2. /\ Append(down, Rsp("fw-block")) \in Seq(Answers)
          /\ Append(down, Invalid("fw-block")) \in Seq(Answers)
      BY <2>1, AppendTo
    <2> QED BY <2>2 DEF CmdBlock, Answer
  <1>5. state' \in {"WAIT_START", "WAIT_BLOCK", "WAIT_SCHEDULE", "UPDATE"}
    BY DEF CmdBlock, StateAfter
  <1>6. CASE UNCHANGED <<slot1, offset>>
    <2>1. state' = "WAIT_BLOCK" => state = "WAIT_BLOCK"
      BY DEF CmdBlock, StateAfter
    <2>2. TypeOK'
      BY <1>0, <1>1, <1>2, <1>4, <1>5, <1>6
    <2>3. ErasedAhead' /\ ProgramsErased'
      BY <1>1, <1>6, <2>1 DEF ErasedAhead, ProgramsErased, Pages
    <2> QED BY <2>2, <2>3
  <1>7. CASE /\ state = "WAIT_BLOCK" /\ offset <= SlotPages
             /\ slot1' = Programmed(offset, Head(up).data) /\ offset' = offset + 1
    <2>1. offset \in Pages /\ offset > 0 /\ offset + 1 \in 0 .. SlotPages + 1
      BY <1>7, FwuAssumption DEF ErasedAhead, Pages
    <2>2. slot1[offset] = Erased
      BY <1>1, <1>7, <2>1 DEF ErasedAhead, Pages
    <2>3. slot1' = [slot1 EXCEPT ![offset] = Head(up).data]
      BY <1>7, <2>1, <2>2, Programming
    <2>4. TypeOK'
      BY <1>0, <1>1, <1>2, <1>3, <1>4, <1>5, <1>7, <2>1, <2>3
    <2>5. ErasedAhead'
      <3>1. \A p \in Pages : p >= offset + 1 => p >= offset /\ p # offset
        BY <2>1 DEF Pages
      <3>2. \A p \in Pages : p >= offset + 1 => slot1'[p] = slot1[p]
        BY <2>3, <3>1
      <3>3. \A p \in Pages : p >= offset + 1 => slot1'[p] = Erased
        BY <1>1, <1>7, <3>1, <3>2 DEF ErasedAhead
      <3>4. offset + 1 > 0
        BY <2>1 DEF Pages
      <3> QED BY <1>1, <1>7, <3>3, <3>4 DEF ErasedAhead, Pages
    <2>6. ProgramsErased'
      BY <1>3, <2>1, <2>3 DEF ProgramsErased, Junk
    <2> QED BY <2>4, <2>5, <2>6
  <1> QED BY <1>6, <1>7 DEF CmdBlock

(* erase_slot1() erases what it passes.                                    *)
LEMMA EraseKeeps ==
  ASSUME SlotInv, ErasePage
  PROVE  SlotInv'
  <1> USE DEF SlotInv, TypeOK
  <1>0. /\ file' = file /\ trouble' = trouble /\ Data' = Data /\ Frames' = Frames
    BY FileStays DEF Next, Device
  <1>1. /\ UNCHANGED <<file, trouble, host, next, up, down, state, offset, taken>>
        /\ index \in Pages /\ index' = index + 1
    BY DEF ErasePage, hostVars
  <1>2. slot1' = [slot1 EXCEPT ![index] = Erased]
    BY <1>1 DEF ErasePage
  <1>3. since' \in 0 .. WdtPages
    <2>1. CASE since' = since
      BY <2>1
    <2>2. CASE since + 1 < WdtPages /\ since' = since + 1
      BY <2>2, FwuAssumption
    <2> QED BY <2>1, <2>2 DEF ErasePage
  <1>4. index + 1 \in -1 .. SlotPages + 1 /\ index # NoPage /\ index + 1 # NoPage
    BY <1>1, FwuAssumption DEF Pages, NoPage
  <1>5. TypeOK'
    BY <1>0, <1>1, <1>2, <1>3, <1>4
  <1>6. ErasedAhead'
    BY <1>1, <1>2, <1>4 DEF ErasedAhead, Pages
  <1>7. ProgramsErased'
    BY <1>2 DEF ProgramsErased, Junk, Erased
  <1> QED BY <1>5, <1>6, <1>7

(* The other commands and resets leave slot1 as it is, or the boot loader  *)
(* has put the old image there.                                            *)
LEMMA SlotInvInit == Init => SlotInv
  <1> SUFFICES ASSUME Init PROVE SlotInv
    OBVIOUS
  <1>1. file.blocks \in Nat /\ file.blocks >= 1
    BY FwuAssumption DEF Init
  <1>2. TypeOK
    <2>1. 1 \in 1 .. file.blocks + 1 /\ 0 \in 0 .. SlotPages + 1 /\ NoPage \in -1 .. SlotPages + 1
          /\ 0 \in 0 .. WdtPages
      BY <1>1, FwuAssumption DEF NoPage
    <2>2. slot1 \in [Pages -> Data \union {Erased, Old, Junk}]
      BY DEF Init, All
    <2>3. up \in Seq(Frames) /\ down \in Seq(Answers)
      BY DEF Init
    <2> QED BY <2>1, <2>2, <2>3 DEF Init, TypeOK
  <1>3. ErasedAhead /\ ProgramsErased
    BY DEF Init, ErasedAhead, ProgramsErased, All, Old, Erased, Junk
  <1> QED BY <1>2, <1>3 DEF SlotInv

LEMMA SlotInvNext == SlotInv /\ [Next]_vars => SlotInv'
  <1> SUFFICES ASSUME SlotInv, [Next]_vars PROVE SlotInv'
    OBVIOUS
  <1> USE DEF SlotInv
  <1>0. /\ file' = file /\ trouble' = trouble /\ Data' = Data /\ Frames' = Frames
    BY FileStays
  <1>a. \A cmd \in {"fw-start", "fw-block", "fw-schedule"} :
          Rsp(cmd) \in Answers /\ Invalid(cmd) \in Answers
    BY DEF Rsp, Invalid, Answers
  <1>b. ASSUME UNCHANGED devVars PROVE ErasedAhead' /\ ProgramsErased'
    BY <1>b DEF ErasedAhead, ProgramsErased, devVars, Pages
  <1>1. CASE Host
    <2>1. UNCHANGED devVars
      BY <1>1 DEF Host, HostStart, HostAnswer, HostQuit, HostIgnores
    <2> QED BY <1>1, <1>b, <2>1, HostTypes
  <1>2. CASE Lose \/ Damage
    BY <1>2, <1>b, LossTypes, DamageTypes DEF Lose, Damage
  <1>3. CASE CmdStart
    <2>1. up' \in Seq(Frames)
      BY <1>3, TailOf DEF CmdStart, Take, TypeOK
    <2>2. TypeOK'
      <3>1. 1 \in 0 .. SlotPages + 1 /\ 0 \in -1 .. SlotPages + 1
        BY FwuAssumption
      <3> QED BY <1>0, <1>3, <2>1, <3>1 DEF CmdStart, Take, TypeOK, hostVars
    <2>3. ErasedAhead' /\ ProgramsErased'
      BY <1>3 DEF CmdStart, ErasedAhead, ProgramsErased, Pages, NoPage
    <2> QED BY <2>2, <2>3
  <1>4. CASE ErasePage
    BY <1>4, EraseKeeps
  <1>5. CASE EraseEnds
    <2>1. down' \in Seq(Answers)
      BY <1>5, <1>a, AppendTo DEF EraseEnds, Answer, TypeOK
    <2>2. TypeOK'
      <3>1. NoPage \in -1 .. SlotPages + 1
        BY FwuAssumption DEF NoPage
      <3> QED BY <1>0, <1>5, <2>1, <3>1 DEF EraseEnds, TypeOK, hostVars
    <2>3. index # NoPage /\ \A p \in Pages : p < index
      BY <1>5, FwuAssumption DEF EraseEnds, Pages, NoPage, TypeOK
    <2>4. ErasedAhead' /\ ProgramsErased'
      BY <1>5, <2>3 DEF EraseEnds, ErasedAhead, ProgramsErased, Pages
    <2> QED BY <2>2, <2>4
  <1>6. CASE CmdBlock
    BY <1>6, BlockKeeps
  <1>7. CASE CmdSchedule
    <2>1. up' \in Seq(Frames)
      BY <1>7, TailOf DEF CmdSchedule, Take, TypeOK
    <2>2. down' \in Seq(Answers)
      <3>1. /\ Append(down, Rsp("fw-schedule")) \in Seq(Answers)
            /\ Append(down, Invalid("fw-schedule")) \in Seq(Answers)
        BY <1>a, AppendTo DEF TypeOK
      <3> QED BY <1>7, <3>1 DEF CmdSchedule, Answer
    <2>3. TypeOK'
      BY <1>0, <1>7, <2>1, <2>2 DEF CmdSchedule, Take, TypeOK, hostVars
    <2>4. ErasedAhead' /\ ProgramsErased'
      BY <1>7 DEF CmdSchedule, Take, ErasedAhead, ProgramsErased, Pages
    <2> QED BY <2>3, <2>4
  <1>8. ASSUME Restart, slot1' = slot1 \/ slot1' = All(Old), down' \in Seq(Answers)
        PROVE  SlotInv'
    <2>1. up' \in Seq(Frames)
      BY <1>8, UpAfterRestart
    <2>2. 0 \in 0 .. SlotPages + 1 /\ NoPage \in -1 .. SlotPages + 1 /\ 0 \in 0 .. WdtPages
      BY FwuAssumption DEF NoPage
    <2>3. slot1' \in [Pages -> Data \union {Erased, Old, Junk}]
      BY <1>8 DEF TypeOK, All
    <2>4. TypeOK'
      BY <1>0, <1>8, <2>1, <2>2, <2>3 DEF Restart, TypeOK, hostVars
    <2>5. ErasedAhead' /\ ProgramsErased'
      BY <1>8 DEF Restart, ErasedAhead, ProgramsErased, All, Old, Junk
    <2> QED BY <2>4, <2>5
  <1>9. CASE FwuProcess
    BY <1>8, <1>9 DEF FwuProcess, TypeOK
  <1>10. CASE WatchdogReset \/ OutsideReset
    <2>1. Reset
      BY <1>10 DEF WatchdogReset, OutsideReset
    <2> QED BY <1>8, <2>1, DownAfterReset DEF Reset
  <1>11. CASE Tick \/ Feed
    <2>1. since' \in 0 .. WdtPages
      BY <1>11, FwuAssumption DEF Tick, Feed, TypeOK
    <2>2. TypeOK'
      BY <1>0, <1>11, <2>1 DEF Tick, Feed, TypeOK, hostVars
    <2>3. ErasedAhead' /\ ProgramsErased'
      BY <1>11 DEF Tick, Feed, ErasedAhead, ProgramsErased, Pages
    <2> QED BY <2>2, <2>3
  <1>12. CASE UNCHANGED vars
    <2>1. TypeOK'
      BY <1>0, <1>12 DEF vars, hostVars, devVars, TypeOK
    <2> QED BY <1>12, <1>b, <2>1 DEF vars
  <1> QED
    BY <1>1, <1>2, <1>3, <1>4, <1>5, <1>6, <1>7, <1>9, <1>10, <1>11, <1>12
    DEF Next, Device

(* Host, link and device stay within the types: offset within slot1, the   *)
(* watchdog's time within its time-out.                                    *)
THEOREM TypeCorrect == Spec => []TypeOK
  <1>1. Spec => []SlotInv
    BY SlotInvInit, SlotInvNext, PTL DEF Spec
  <1>2. SlotInv => TypeOK
    BY DEF SlotInv
  <1> QED BY <1>1, <1>2, PTL

(* Whatever frames are lost, repeated by another run of fwu.py or cut off  *)
(* by a reset, fwu.c programs blocks to erased flash only.                 *)
THEOREM ErasedBeforeProgrammed == Spec => []ProgramsErased
  <1>1. Spec => []SlotInv
    BY SlotInvInit, SlotInvNext, PTL DEF Spec
  <1>2. SlotInv => ProgramsErased
    BY DEF SlotInv
  <1> QED BY <1>1, <1>2, PTL
-------------------------------------------------------------------------------
(* Host, link and device: frames arrive in order *)

(* slot1 before block n is programmed, once erased.                        *)
Prefix(n) == [p \in Pages |-> IF 0 < p /\ p < n THEN p ELSE Erased]

(* The device expects block n: it has programmed those before it, or is    *)
(* still erasing for the first one.                                        *)
At(n) ==
  /\ index = NoPage =>
       /\ offset = IF n <= SlotPages THEN n ELSE SlotPages + 1
       /\ slot1 = Prefix(n)
  /\ index # NoPage => n = 1

(* If the device takes the frame at all, it does what the host means.      *)
Ready(frame) ==
  /\ frame.cmd = "fw-block" /\ state = "WAIT_BLOCK" => At(frame.data)
  /\ frame.cmd = "fw-schedule" /\ state \in {"WAIT_BLOCK", "WAIT_SCHEDULE"} =>
       At(file.blocks + 1)

(* fwu.py may send g right after f.                                        *)
Follows(blocks, f, g) ==
  \/ g.cmd = "fw-start"
  \/ f.cmd = "fw-start" /\ g.cmd = "fw-block" /\ g.data = 1
  \/ f.cmd = "fw-block" /\ g.cmd = "fw-block" /\ g.data = f.data + 1
  \/ f.cmd = "fw-block" /\ g.cmd = "fw-schedule" /\ f.data = blocks

Linked(blocks, s) == \A i \in 1 .. Len(s) - 1 : Follows(blocks, s[i], s[i + 1])

(* The frames the device is still to get: those on their way, and the one  *)
(* that the host sends on the next answer, if there is one to come.        *)
NextFrame == IF next <= file.blocks THEN Block(next) ELSE Schedule
Pending == up # <<>> \/ down # <<>> \/ index # NoPage
Stream ==
  IF host \in {"start", "block"} /\ Pending THEN Append(up, NextFrame) ELSE up

InOrder ==
  /\ Stream # <<>> => Ready(Stream[1])
  /\ Linked(file.blocks, Stream)

(* Unless somebody stops fwu.py, one frame or answer is on its way at most.*)
OneFrame ==
  /\ Len(up) + Len(down) <= 1
  /\ Pending => host \in Waiting
  /\ index # NoPage => up = <<>> /\ down = <<>>
  /\ host = "schedule" => index = NoPage /\ \A i \in 1 .. Len(up) : up[i].cmd = "fw-schedule"
  /\ host = "schedule" /\ down # <<>> /\ ~down[1].error => taken = "file"

Uncovered == ~({"loss", "quit"} \subseteq trouble)

OrderInv ==
  /\ SlotInv
  /\ Uncovered => InOrder
  /\ "quit" \notin trouble => OneFrame
  /\ OnlyWhole
  /\ DoneIsTaken

(* t is what s has from the k-th of its elements on, or a part of that.    *)
PartOf(t, s, k) ==
  Len(t) + k <= Len(s) /\ \A j \in 1 .. Len(t) : t[j] = s[k + j]

LEMMA LinkedPart ==
  ASSUME NEW S, NEW s \in Seq(S), NEW t \in Seq(S), NEW k \in Nat, NEW blocks,
         Linked(blocks, s), PartOf(t, s, k)
  PROVE  Linked(blocks, t)
  <1> SUFFICES ASSUME NEW i \in 1 .. Len(t) - 1
               PROVE  Follows(blocks, t[i], t[i + 1])
    BY DEF Linked
  <1>1. /\ i \in 1 .. Len(t) /\ i + 1 \in 1 .. Len(t) /\ k + i \in 1 .. Len(s) - 1
        /\ (k + i) + 1 = k + (i + 1)
    BY DEF PartOf
  <1>2. t[i] = s[k + i] /\ t[i + 1] = s[k + (i + 1)]
    BY <1>1 DEF PartOf
  <1>3. Follows(blocks, s[k + i], s[(k + i) + 1])
    BY <1>1 DEF Linked
  <1> QED BY <1>1, <1>2, <1>3

LEMMA LinkedAppend ==
  ASSUME NEW S, NEW s \in Seq(S), NEW x \in S, NEW blocks, Linked(blocks, s),
         s # <<>> => Follows(blocks, s[Len(s)], x)
  PROVE  Linked(blocks, Append(s, x))
  <1> SUFFICES ASSUME NEW i \in 1 .. Len(s)
               PROVE  Follows(blocks, Append(s, x)[i], Append(s, x)[i + 1])
    BY AppendTo DEF Linked
  <1>1. Append(s, x)[i] = s[i]
    BY AppendTo
  <1>2. CASE i = Len(s)
    BY <1>1, <1>2, AppendTo
  <1>3. CASE i # Len(s)
    <2>1. i + 1 \in 1 .. Len(s) /\ i \in 1 .. Len(s) - 1
      BY <1>3
    <2>2. Append(s, x)[i + 1] = s[i + 1]
      BY <2>1, AppendTo
    <2> QED BY <1>1, <2>1, <2>2 DEF Linked
  <1> QED BY <1>2, <1>3

LEMMA StreamTypes ==
  ASSUME TypeOK
  PROVE  NextFrame \in Frames /\ up \in Seq(Frames) /\ Stream \in Seq(Frames)
  <1>1. file.blocks \in Nat
    BY FwuAssumption DEF TypeOK
  <1>2. next <= file.blocks => next \in Data
    BY <1>1 DEF TypeOK, Data
  <1>3. NextFrame \in Frames /\ up \in Seq(Frames)
    BY <1>2 DEF NextFrame, Frames, TypeOK
  <1> QED BY <1>3, AppendTo DEF Stream

(* What is still to come stays so when the device takes frames from the    *)
(* front of the link and the host does nothing.                            *)
LEMMA StreamPart ==
  ASSUME TypeOK, TypeOK', Frames' = Frames, NEW k \in Nat,
         UNCHANGED <<file, host, next>>, Pending' => Pending,
         k <= Len(up), Len(up') = Len(up) - k, \A j \in 1 .. Len(up') : up'[j] = up[k + j]
  PROVE  Stream' \in Seq(Frames) /\ PartOf(Stream', Stream, k)
  <1>1. /\ NextFrame \in Frames /\ up \in Seq(Frames) /\ Stream \in Seq(Frames)
        /\ up' \in Seq(Frames) /\ NextFrame' = NextFrame
    <2>1. NextFrame' = NextFrame
      BY DEF NextFrame, Block, Schedule
    <2>2. up' \in Seq(Frames)
      BY DEF TypeOK
    <2> QED BY <2>1, <2>2, StreamTypes
  <1>2. Len(Stream) >= Len(up) /\ \A j \in 1 .. Len(up) : Stream[j] = up[j]
    BY <1>1, AppendTo DEF Stream
  <1>3. \A j \in 1 .. Len(up') : k + j \in 1 .. Len(up)
    BY <1>1
  <1>4. CASE Stream' = up'
    BY <1>1, <1>2, <1>3, <1>4 DEF PartOf
  <1>5. CASE Stream' # up'
    <2>1. Stream' = Append(up', NextFrame) /\ Stream = Append(up, NextFrame)
      BY <1>1, <1>5 DEF Stream
    <2>2. /\ Len(Stream') = Len(up') + 1 /\ Len(Stream) = Len(up) + 1
          /\ \A j \in 1 .. Len(up') : Stream'[j] = up'[j]
          /\ Stream'[Len(up') + 1] = NextFrame /\ Stream[Len(up) + 1] = NextFrame
          /\ Stream' \in Seq(Frames)
      BY <1>1, <2>1, AppendTo
    <2>3. \A j \in 1 .. Len(Stream') : j \in 1 .. Len(up') \/ j = Len(up') + 1
      BY <1>1, <2>2
    <2>4. k + (Len(up') + 1) = Len(up) + 1 /\ Len(Stream') + k <= Len(Stream)
      BY <1>1, <2>2
    <2>5. \A j \in 1 .. Len(up') : Stream'[j] = Stream[k + j]
      BY <1>2, <1>3, <2>2
    <2>6. \A j \in 1 .. Len(Stream') : Stream'[j] = Stream[k + j]
      BY <2>2, <2>3, <2>4, <2>5
    <2> QED BY <2>2, <2>4, <2>6 DEF PartOf
  <1> QED BY <1>4, <1>5

(* While device and file stay as they are, so does what is in order: of    *)
(* the stream a front part remains, or it grows by what may follow.        *)
LEMMA FrontInOrder ==
  ASSUME TypeOK, InOrder, UNCHANGED <<file, state, offset, index, slot1>>,
         Stream' \in Seq(Frames), PartOf(Stream', Stream, 0)
  PROVE  InOrder'
  <1>1. Stream \in Seq(Frames)
    BY StreamTypes
  <1>2. Linked(file.blocks, Stream')
    BY <1>1, LinkedPart DEF InOrder
  <1>3. ASSUME Stream' # <<>> PROVE Stream # <<>> /\ Stream'[1] = Stream[1]
    <2>1. 1 \in 1 .. Len(Stream') /\ Len(Stream') <= Len(Stream) /\ 0 + 1 = 1
      BY <1>1, <1>3 DEF PartOf
    <2> QED BY <1>1, <2>1 DEF PartOf
  <1>4. ASSUME Stream' # <<>> PROVE Ready(Stream[1])'
    <2>1. Ready(Stream[1]) /\ Stream'[1] = Stream[1]
      BY <1>3, <1>4 DEF InOrder
    <2> QED BY <2>1 DEF Ready, At, Prefix
  <1> QED BY <1>2, <1>4 DEF InOrder

LEMMA GrowsInOrder ==
  ASSUME TypeOK, InOrder, UNCHANGED <<file, state, offset, index, slot1>>,
         NEW x \in Frames, Stream' = Append(Stream, x),
         IF Stream = <<>> THEN x.cmd = "fw-start"
                          ELSE Follows(file.blocks, Stream[Len(Stream)], x)
  PROVE  InOrder'
  <1>1. Stream \in Seq(Frames)
    BY StreamTypes
  <1>2. Linked(file.blocks, Stream')
    BY <1>1, LinkedAppend DEF InOrder
  <1>3. CASE Stream = <<>>
    <2>1. Stream'[1].cmd = "fw-start"
      BY <1>3, AppendTo
    <2> QED BY <1>2, <2>1 DEF InOrder, Ready
  <1>4. CASE Stream # <<>>
    <2>1. Stream'[1] = Stream[1] /\ Ready(Stream[1])
      BY <1>1, <1>4, AppendTo DEF InOrder
    <2>2. Ready(Stream[1])'
      BY <2>1 DEF Ready, At, Prefix
    <2> QED BY <1>2, <2>2 DEF InOrder
  <1> QED BY <1>3, <1>4

(* The host sends what continues the stream, and ends it where it ends.    *)
LEMMA HostInOrder ==
  ASSUME TypeOK, TypeOK', InOrder, Host
  PROVE  InOrder'
  <1>0. /\ Frames' = Frames /\ file.blocks \in Nat /\ file.blocks >= 1
        /\ UNCHANGED <<file, state, offset, index, slot1>>
        /\ up \in Seq(Frames) /\ up' \in Seq(Frames)
        /\ Stream \in Seq(Frames) /\ NextFrame \in Frames /\ NextFrame' \in Frames
    <2>1. UNCHANGED devVars
      BY DEF Host, HostStart, HostAnswer, HostQuit, HostIgnores
    <2>2. file' = file /\ Frames' = Frames /\ file.blocks \in Nat /\ file.blocks >= 1
      BY FileStays DEF Next
    <2>3. NextFrame' \in Frames
      <3>1. next' <= file.blocks => next' \in Data
        BY <2>2 DEF TypeOK, Data
      <3>2. \A n : Block(n)' = Block(n)
        BY <2>2 DEF Block
      <3> QED BY <2>2, <3>1, <3>2 DEF NextFrame, Frames, Schedule
    <2> QED BY <2>1, <2>2, <2>3, StreamTypes DEF devVars, TypeOK
  <1>a. PartOf(up, Stream, 0)
    <2>1. Len(Stream) >= Len(up) /\ \A j \in 1 .. Len(up) : Stream[j] = up[j]
      BY <1>0, AppendTo DEF Stream
    <2>2. \A j \in 1 .. Len(up) : 0 + j = j
      OBVIOUS
    <2> QED BY <1>0, <2>1, <2>2 DEF PartOf
  <1>b. ASSUME Stream' = up PROVE InOrder'
    BY <1>0, <1>a, <1>b, FrontInOrder
  <1>c. ASSUME Stream' = Stream PROVE InOrder'
    <2>1. PartOf(Stream, Stream, 0)
      <3>1. \A j \in 1 .. Len(Stream) : 0 + j = j
        OBVIOUS
      <3> QED BY <1>0, <3>1 DEF PartOf
    <2> QED BY <1>0, <1>c, <2>1, FrontInOrder
  <1>1. CASE HostStart
    <2>1. Stream = up /\ host' = "start" /\ next' = 1 /\ up' = Append(up, Start)
      BY <1>1 DEF HostStart, Stream, Waiting, Send
    <2>2. NextFrame' = Block(1) /\ Block(1) \in Frames /\ Start \in Frames
      <3>1. 1 \in Data /\ Block(1)' = Block(1)
        BY <1>0 DEF Data, Block
      <3> QED BY <1>0, <2>1, <3>1 DEF NextFrame, Block, Frames
    <2>3. up' # <<>> /\ up' \in Seq(Frames) /\ up'[Len(up')] = Start
      BY <1>0, <2>1, <2>2, AppendTo
    <2>4. Stream' = Append(up', Block(1))
      BY <2>1, <2>2, <2>3 DEF Stream, Pending
    <2>5. Linked(file.blocks, up')
      <3>1. Linked(file.blocks, up)
        BY <2>1 DEF InOrder
      <3>2. Start.cmd = "fw-start"
        BY DEF Start
      <3>3. up # <<>> => Follows(file.blocks, up[Len(up)], Start)
        BY <3>2 DEF Follows
      <3> QED BY <1>0, <2>1, <2>2, <3>1, <3>3, LinkedAppend
    <2>6. Linked(file.blocks, Stream')
      <3>1. Follows(file.blocks, Start, Block(1))
        BY DEF Follows, Start, Block
      <3> QED BY <2>2, <2>3, <2>4, <2>5, <3>1, LinkedAppend
    <2>7. Stream' # <<>> /\ Stream'[1] = IF up = <<>> THEN Start ELSE Stream[1]
      <3>1. Stream'[1] = up'[1] /\ Stream' # <<>>
        BY <2>2, <2>3, <2>4, AppendTo
      <3>2. up'[1] = IF up = <<>> THEN Start ELSE up[1]
        BY <1>0, <2>1, <2>2, AppendTo
      <3> QED BY <2>1, <3>1, <3>2
    <2>8. CASE up = <<>>
      <3>1. Stream'[1].cmd = "fw-start"
        BY <2>7, <2>8 DEF Start
      <3> QED BY <1>0, <2>6, <3>1 DEF InOrder, Ready
    <2>9. CASE up # <<>>
      <3>1. Ready(Stream[1]) /\ Stream'[1] = Stream[1]
        BY <2>1, <2>7, <2>9 DEF InOrder
      <3>2. Ready(Stream[1])'
        BY <1>0, <3>1 DEF Ready, At, Prefix
      <3> QED BY <1>0, <2>6, <3>2 DEF InOrder
    <2> QED BY <2>8, <2>9
  <1>2. CASE HostAnswer
    <2>0. Pending /\ host \in Waiting
      BY <1>2 DEF HostAnswer, Pending
    <2>1. CASE HostFails
      <3>1. Stream' = up
        BY <2>1 DEF HostFails, Stream
      <3> QED BY <1>b, <3>1
    <2>2. CASE HostBlock
      <3>1. /\ Stream = Append(up, Block(next)) /\ up' = Stream /\ host' = "block"
            /\ next' = next + 1 /\ next \in Data
        BY <1>0, <2>0, <2>2 DEF HostBlock, Stream, Send, NextFrame, Waiting, Data, TypeOK
      <3>2. Stream # <<>> /\ Stream[Len(Stream)] = Block(next)
        <4>1. Block(next) \in Frames
          BY <3>1 DEF Frames
        <4> QED BY <1>0, <3>1, <4>1, AppendTo
      <3>3. Stream' = Append(Stream, NextFrame')
        BY <3>1, <3>2 DEF Stream, Pending
      <3>4. Follows(file.blocks, Block(next), NextFrame')
        <4>1. CASE next + 1 <= file.blocks
          BY <1>0, <3>1, <4>1 DEF NextFrame, Follows, Block
        <4>2. CASE ~(next + 1 <= file.blocks)
          <5>1. next = file.blocks
            BY <1>0, <3>1, <4>2 DEF Data
          <5>2. NextFrame' = Schedule
            BY <1>0, <3>1, <4>2 DEF NextFrame, Schedule
          <5> QED BY <5>1, <5>2 DEF Follows, Block, Schedule
        <4> QED BY <4>1, <4>2
      <3> QED BY <1>0, <3>2, <3>3, <3>4, GrowsInOrder
    <2>3. CASE HostSchedule
      <3>1. Stream = Append(up, Schedule) /\ up' = Stream /\ host' = "schedule"
        BY <1>0, <2>0, <2>3 DEF HostSchedule, Stream, Send, NextFrame, Waiting, TypeOK
      <3>2. Stream' = Stream
        BY <3>1 DEF Stream
      <3> QED BY <1>c, <3>2
    <2>4. CASE HostDone
      <3>1. Stream' = up
        BY <2>4 DEF HostDone, Stream
      <3> QED BY <1>b, <3>1
    <2> QED BY <1>2, <2>1, <2>2, <2>3, <2>4 DEF HostAnswer
  <1>3. CASE HostQuit
    <2>1. Stream' = up
      BY <1>3 DEF HostQuit, Stream
    <2> QED BY <1>b, <2>1
  <1>4. CASE HostIgnores
    <2>1. Stream' = up
      BY <1>4 DEF HostIgnores, Stream, hostVars, Waiting
    <2> QED BY <1>b, <2>1
  <1> QED BY <1>1, <1>2, <1>3, <1>4 DEF Host

(* Damage to arguments changes neither.                                    *)
LEMMA DamageInOrder ==
  ASSUME TypeOK, InOrder, Damage
  PROVE  InOrder'
  <1>1. /\ UNCHANGED <<file, host, next, down, state, offset, index, slot1>>
        /\ NextFrame' = NextFrame /\ NextFrame \in Frames /\ up \in Seq(Frames)
        /\ Stream \in Seq(Frames)
    BY StreamTypes DEF Damage, hostVars, devVars, NextFrame, Block, Schedule
  <1>2. /\ up' \in Seq(Frames) /\ Len(up') = Len(up)
        /\ \A j \in 1 .. Len(up) : Alike(up'[j], up[j])
        /\ Pending' = Pending
    BY <1>1, DamagedUp DEF Pending
  <1>3. /\ Len(Stream') = Len(Stream)
        /\ \A j \in 1 .. Len(Stream) : Alike(Stream'[j], Stream[j])
    <2>1. CASE host \in {"start", "block"} /\ Pending
      <3>1. Stream = Append(up, NextFrame) /\ Stream' = Append(up', NextFrame)
        BY <1>1, <1>2, <2>1 DEF Stream
      <3>2. Alike(NextFrame, NextFrame)
        BY DEF Alike
      <3>3. /\ Len(Stream) = Len(up) + 1 /\ Len(Stream') = Len(up) + 1
            /\ Stream[Len(up) + 1] = NextFrame /\ Stream'[Len(up) + 1] = NextFrame
            /\ \A j \in 1 .. Len(up) : Stream[j] = up[j] /\ Stream'[j] = up'[j]
        BY <1>1, <1>2, <3>1, AppendTo
      <3>4. \A j \in 1 .. Len(up) + 1 : j \in 1 .. Len(up) \/ j = Len(up) + 1
        BY <1>1
      <3> QED BY <1>2, <3>2, <3>3, <3>4
    <2>2. CASE ~(host \in {"start", "block"} /\ Pending)
      BY <1>1, <1>2, <2>2 DEF Stream
    <2> QED BY <2>1, <2>2
  <1>4. Linked(file.blocks, Stream')
    <2> SUFFICES ASSUME NEW i \in 1 .. Len(Stream) - 1
                 PROVE  Follows(file.blocks, Stream'[i], Stream'[i + 1])
      BY <1>3 DEF Linked
    <2>1. i \in 1 .. Len(Stream) /\ i + 1 \in 1 .. Len(Stream)
      BY <1>1
    <2>2. Follows(file.blocks, Stream[i], Stream[i + 1])
      BY DEF InOrder, Linked
    <2>3. Alike(Stream'[i], Stream[i]) /\ Alike(Stream'[i + 1], Stream[i + 1])
      BY <1>3, <2>1
    <2> QED BY <2>2, <2>3 DEF Follows, Alike
  <1>5. ASSUME Stream' # <<>> PROVE Ready(Stream[1])'
    <2>1. Stream # <<>> /\ 1 \in 1 .. Len(Stream)
      <3>1. Stream' # <<>> => Len(Stream') # 0
        <4>1. Stream' \in Seq(Frames)
          BY <1>1, <1>2, AppendTo DEF Stream
        <4> QED BY <4>1, EmptyIff
      <3> QED BY <1>1, <1>3, <1>5, <3>1, EmptyIff
    <2>2. Ready(Stream[1]) /\ Alike(Stream'[1], Stream[1])
      BY <1>3, <2>1 DEF InOrder
    <2> QED BY <1>1, <2>2 DEF Ready, At, Prefix, Alike
  <1> QED BY <1>1, <1>4, <1>5 DEF InOrder

(* The frame the device takes is the first of the stream.                  *)
LEMMA FirstReady ==
  ASSUME TypeOK, InOrder, up # <<>>
  PROVE  /\ Stream \in Seq(Frames) /\ Stream # <<>> /\ Head(up) \in Frames
         /\ Stream[1] = Head(up) /\ Ready(Head(up))
  <1>1. NextFrame \in Frames /\ up \in Seq(Frames) /\ Stream \in Seq(Frames)
    BY StreamTypes
  <1>2. Stream # <<>> /\ Stream[1] = up[1]
    BY <1>1, AppendTo DEF Stream
  <1>3. up[1] = Head(up) /\ Head(up) \in Frames
    BY <1>1, TailOf
  <1> QED BY <1>1, <1>2, <1>3 DEF InOrder

(* If that leaves the device ready for whatever may follow the frame, the  *)
(* rest is in order.                                                       *)
LEMMA TakeInOrder ==
  ASSUME TypeOK, TypeOK', Frames' = Frames, InOrder, up # <<>>, up' = Tail(up),
         UNCHANGED <<file, host, next>>,
         \A g \in Frames : Follows(file.blocks, Head(up), g) => Ready(g)'
  PROVE  InOrder'
  <1>1. /\ up \in Seq(Frames) /\ Stream \in Seq(Frames) /\ Stream # <<>>
        /\ Stream[1] = Head(up)
    BY FirstReady, StreamTypes
  <1>2. Stream' \in Seq(Frames) /\ PartOf(Stream', Stream, 1)
    <2>1. 1 <= Len(up) /\ Len(up') = Len(up) - 1
          /\ \A j \in 1 .. Len(up') : up'[j] = up[1 + j]
      <3>1. \A j \in 1 .. Len(up) - 1 : 1 + j = j + 1
        BY <1>1
      <3> QED BY <1>1, <3>1, TailOf
    <2>2. Pending
      BY DEF Pending
    <2> QED BY <2>1, <2>2, StreamPart
  <1>3. Linked(file.blocks, Stream')
    BY <1>1, <1>2, LinkedPart DEF InOrder
  <1>4. ASSUME Stream' # <<>> PROVE Ready(Stream[1])'
    <2>1. 1 \in 1 .. Len(Stream') /\ 1 + 1 = 2 /\ 2 \in 1 .. Len(Stream) /\ 1 \in 1 .. Len(Stream) - 1
      BY <1>1, <1>2, <1>4 DEF PartOf
    <2>2. Stream'[1] = Stream[2]
      BY <1>2, <2>1 DEF PartOf
    <2>3. Follows(file.blocks, Head(up), Stream[2]) /\ Stream[2] \in Frames
      BY <1>1, <2>1 DEF InOrder, Linked
    <2>4. \E g \in Frames : g = Stream'[1] /\ Ready(g)'
      BY <2>2, <2>3
    <2> QED BY <2>4 DEF Ready, At, Prefix
  <1> QED BY <1>3, <1>4 DEF InOrder

(* fw-start: the erase ends ready for block 1.                             *)
LEMMA StartInOrder ==
  ASSUME TypeOK, TypeOK', InOrder, CmdStart
  PROVE  InOrder'
  <1>1. /\ up # <<>> /\ up' = Tail(up) /\ UNCHANGED <<file, host, next>>
        /\ Head(up).cmd = "fw-start" /\ index' # NoPage
    BY DEF CmdStart, Take, hostVars, NoPage
  <1>2. Frames' = Frames
    BY FileStays DEF Next, Device
  <1>3. ASSUME NEW g \in Frames, Follows(file.blocks, Head(up), g)
        PROVE  Ready(g)'
    <2>1. g.cmd = "fw-start" \/ (g.cmd = "fw-block" /\ g.data = 1)
      BY <1>1, <1>3 DEF Follows
    <2> QED BY <1>1, <2>1 DEF Ready, At
  <1> QED BY <1>1, <1>2, <1>3, TakeInOrder

(* A step of the device that takes no frame.                               *)
LEMMA SameUpInOrder ==
  ASSUME TypeOK, TypeOK', Frames' = Frames, InOrder,
         UNCHANGED <<file, host, next, up>>, Pending' => Pending,
         \A g \in Frames : Stream # <<>> /\ g = Stream[1] => Ready(g)'
  PROVE  InOrder'
  <1>1. Stream \in Seq(Frames) /\ up \in Seq(Frames)
    BY StreamTypes
  <1>2. Stream' \in Seq(Frames) /\ PartOf(Stream', Stream, 0)
    <2>1. \A j \in 1 .. Len(up) : 0 + j = j
      OBVIOUS
    <2> QED BY <1>1, <2>1, StreamPart
  <1>3. Linked(file.blocks, Stream')
    BY <1>1, <1>2, LinkedPart DEF InOrder
  <1>4. ASSUME Stream' # <<>> PROVE Ready(Stream[1])'
    <2>1. 1 \in 1 .. Len(Stream') /\ 1 \in 1 .. Len(Stream) /\ 0 + 1 = 1
      BY <1>1, <1>2, <1>4 DEF PartOf
    <2>2. Stream # <<>> /\ Stream'[1] = Stream[1] /\ Stream[1] \in Frames
      BY <1>1, <1>2, <2>1 DEF PartOf
    <2>3. \E g \in Frames : g = Stream'[1] /\ Ready(g)'
      BY <2>2
    <2> QED BY <2>3 DEF Ready, At, Prefix
  <1> QED BY <1>3, <1>4 DEF InOrder

(* erase_slot1() keeps block 1 the one expected.                           *)
LEMMA EraseInOrder ==
  ASSUME SlotInv, TypeOK', InOrder, ErasePage \/ EraseEnds
  PROVE  InOrder'
  <1>1. /\ UNCHANGED <<file, host, next, up, state, offset>>
        /\ index # NoPage /\ Frames' = Frames
        /\ file.blocks \in Nat /\ file.blocks >= 1
    <2>1. Frames' = Frames /\ file.blocks \in Nat /\ file.blocks >= 1
      BY FileStays DEF Next, Device, SlotInv
    <2> QED BY <2>1, FwuAssumption DEF ErasePage, EraseEnds, hostVars, Pages, NoPage
  <1>2. Pending
    BY <1>1 DEF Pending
  <1>3. At(1)'
    <2>1. CASE ErasePage
      <3>1. index' # NoPage
        BY <2>1 DEF ErasePage, Pages, NoPage
      <3> QED BY <3>1 DEF At
    <2>2. CASE EraseEnds
      <3>1. offset = 1 /\ \A p \in Pages : slot1[p] = Erased
        <4>1. \A p \in Pages : p < index
          BY <2>2, FwuAssumption DEF EraseEnds, Pages, SlotInv, TypeOK
        <4> QED BY <1>1, <4>1 DEF SlotInv, ErasedAhead
      <3>2. \A p \in Pages : ~(0 < p /\ p < 1)
        BY DEF Pages
      <3>3. slot1 = Prefix(1)
        BY <3>1, <3>2 DEF Prefix, SlotInv, TypeOK
      <3>4. slot1' = Prefix(1)' /\ offset' = 1
        BY <2>2, <3>1, <3>3 DEF EraseEnds, Prefix, Pages
      <3>5. 1 = IF 1 <= SlotPages THEN 1 ELSE SlotPages + 1
        BY FwuAssumption
      <3>6. index' = NoPage
        BY <2>2 DEF EraseEnds
      <3> QED BY <3>4, <3>5, <3>6 DEF At
    <2> QED BY <2>1, <2>2
  <1>4. ASSUME NEW g \in Frames, Stream # <<>>, g = Stream[1] PROVE Ready(g)'
    <2>1. \A n : At(n) => n = 1
      BY <1>1 DEF At
    <2>2. Ready(g) /\ file.blocks + 1 # 1
      BY <1>1, <1>4 DEF InOrder
    <2>3. g.cmd = "fw-block" /\ state = "WAIT_BLOCK" => g.data = 1
      BY <2>1, <2>2 DEF Ready
    <2>4. g.cmd = "fw-schedule" => state \notin {"WAIT_BLOCK", "WAIT_SCHEDULE"}
      BY <2>1, <2>2 DEF Ready
    <2> QED BY <1>1, <1>3, <2>3, <2>4 DEF Ready, At, Prefix
  <1> QED BY <1>1, <1>2, <1>4, SameUpInOrder DEF SlotInv

(* fw-block: the block that is expected leaves the next one expected.      *)
LEMMA BlockInOrder ==
  ASSUME SlotInv, TypeOK', InOrder, CmdBlock
  PROVE  InOrder'
  <1> DEFINE n == Head(up).data
  <1>1. /\ up # <<>> /\ up' = Tail(up) /\ UNCHANGED <<file, host, next>>
        /\ Head(up).cmd = "fw-block" /\ index = NoPage /\ index' = NoPage
        /\ Frames' = Frames
    <2>1. Frames' = Frames
      BY FileStays DEF Next, Device, SlotInv
    <2> QED BY <2>1 DEF CmdBlock, Take, hostVars
  <1>2. Ready(Head(up)) /\ n \in Nat /\ n > 0
    <2>1. Head(up) \in Frames /\ Ready(Head(up))
      BY <1>1, FirstReady DEF SlotInv
    <2> QED BY <1>1, <2>1, FrameKinds DEF Data
  <1>3. CASE state = "WAIT_BLOCK" /\ Head(up).args \in WholeWords
    <2>1. /\ offset = IF n <= SlotPages THEN n ELSE SlotPages + 1
          /\ slot1 = Prefix(n)
      BY <1>1, <1>2, <1>3 DEF Ready, At
    <2>2. /\ offset' = IF n + 1 <= SlotPages THEN n + 1 ELSE SlotPages + 1
          /\ slot1' = Prefix(n + 1)
      <3> HIDE DEF n
      <3>1. CASE n <= SlotPages
        <4>1. n \in Pages /\ offset = n /\ slot1[n] = Erased
          BY <1>2, <2>1, <3>1, FwuAssumption DEF Pages, Prefix
        <4>2. slot1' = Programmed(offset, n) /\ offset' = offset + 1
          BY <1>3, <3>1, <4>1 DEF CmdBlock, n
        <4>3. slot1' = [slot1 EXCEPT ![n] = n]
          BY <4>1, <4>2, Programming DEF SlotInv, TypeOK
        <4>4. \A p \in Pages : (0 < p /\ p < n + 1) <=> (p = n \/ (0 < p /\ p < n))
          BY <1>2 DEF Pages
        <4>5. slot1' = Prefix(n + 1)
          BY <2>1, <4>1, <4>3, <4>4 DEF Prefix
        <4>6. n + 1 = IF n + 1 <= SlotPages THEN n + 1 ELSE SlotPages + 1
          BY <1>2, <3>1, FwuAssumption
        <4> QED BY <4>1, <4>2, <4>5, <4>6
      <3>2. CASE ~(n <= SlotPages)
        <4>1. offset = SlotPages + 1 /\ ~(offset <= SlotPages)
          BY <2>1, <3>2, FwuAssumption
        <4>2. UNCHANGED <<slot1, offset>>
          BY <1>3, <4>1 DEF CmdBlock
        <4>3. \A p \in Pages : p < n + 1 /\ p < n
          BY <1>2, <3>2, FwuAssumption DEF Pages
        <4>4. Prefix(n + 1) = Prefix(n)
          BY <4>3 DEF Prefix
        <4>5. ~(n + 1 <= SlotPages)
          BY <1>2, <3>2, FwuAssumption
        <4> QED BY <2>1, <4>1, <4>2, <4>4, <4>5
      <3> QED BY <3>1, <3>2
    <2>3. \A m : m = n + 1 => At(m)'
      BY <1>1, <2>2 DEF At, Prefix, Pages
    <2>4. ASSUME NEW g \in Frames, Follows(file.blocks, Head(up), g)
          PROVE  Ready(g)'
      <3>1. CASE g.cmd = "fw-start"
        BY <3>1 DEF Ready
      <3>2. CASE g.cmd = "fw-block" /\ g.data = n + 1
        <4>1. At(g.data)'
          BY <2>3, <3>2
        <4> QED BY <3>2, <4>1 DEF Ready
      <3>3. CASE g.cmd = "fw-schedule" /\ n = file.blocks
        <4>1. At(file.blocks + 1)'
          BY <1>1, <2>2, <3>3 DEF At, Prefix, Pages
        <4> QED BY <3>3, <4>1 DEF Ready
      <3> QED BY <1>1, <2>4, <3>1, <3>2, <3>3 DEF Follows
    <2> QED BY <1>1, <2>4, TakeInOrder DEF SlotInv
  <1>4. CASE ~(state = "WAIT_BLOCK" /\ Head(up).args \in WholeWords)
    <2>1. state' = "WAIT_START"
      BY <1>4 DEF CmdBlock
    <2>2. \A g \in Frames : Ready(g)'
      BY <2>1 DEF Ready
    <2> QED BY <1>1, <2>2, TakeInOrder DEF SlotInv
  <1> QED BY <1>3, <1>4

(* fw-schedule: what is taken is the whole file.                           *)
LEMMA ScheduleInOrder ==
  ASSUME SlotInv, TypeOK', InOrder, CmdSchedule
  PROVE  /\ InOrder'
         /\ \/ taken' = "file" /\ down' = Append(down, Rsp("fw-schedule"))
            \/ taken' = taken /\ down' = Append(down, Invalid("fw-schedule"))
  <1>1. /\ up # <<>> /\ up' = Tail(up) /\ UNCHANGED <<file, host, next>>
        /\ Head(up).cmd = "fw-schedule" /\ index = NoPage /\ Frames' = Frames
        /\ file.blocks \in Nat
    <2>1. Frames' = Frames /\ file.blocks \in Nat
      BY FileStays DEF Next, Device, SlotInv
    <2> QED BY <2>1 DEF CmdSchedule, Take, hostVars
  <1>2. state' \in {"UPDATE", "WAIT_START"}
    BY DEF CmdSchedule
  <1>3. InOrder'
    <2>1. \A g \in Frames : Ready(g)'
      BY <1>2 DEF Ready
    <2> QED BY <1>1, <2>1, TakeInOrder DEF SlotInv
  <1>4. CASE state \in {"WAIT_BLOCK", "WAIT_SCHEDULE"} /\ Head(up).args = "time"
    <2>1. Ready(Head(up))
      BY <1>1, FirstReady DEF SlotInv
    <2>2. slot1 = Prefix(file.blocks + 1)
      BY <1>1, <1>4, <2>1 DEF Ready, At
    <2>3. \A p \in Pages : (0 < p /\ p < file.blocks + 1) <=> p \in Data
      BY <1>1, FwuAssumption DEF Pages, Data
    <2>4. slot1 = Whole
      BY <2>2, <2>3 DEF Prefix, Whole
    <2> QED BY <1>3, <1>4, <2>4 DEF CmdSchedule, Answer
  <1>5. CASE ~(state \in {"WAIT_BLOCK", "WAIT_SCHEDULE"} /\ Head(up).args = "time")
    BY <1>3, <1>5 DEF CmdSchedule, Answer
  <1> QED BY <1>4, <1>5

(* A restart takes frames from the front, and then only fw-start counts.   *)
LEMMA RestartInOrder ==
  ASSUME TypeOK, TypeOK', Frames' = Frames, InOrder, Restart,
         down' # <<>> => down # <<>>
  PROVE  InOrder'
  <1>1. PICK k \in 0 .. Len(up) :
           /\ Len(up') = Len(up) - k
           /\ \A j \in 1 .. Len(up) - k : up'[j] = up[k + j]
    BY UpAfterRestart
  <1>2. up \in Seq(Frames) /\ up' \in Seq(Frames) /\ Stream \in Seq(Frames)
    BY StreamTypes DEF TypeOK
  <1>3. Pending' => Pending
    <2>1. up' # <<>> => up # <<>>
      BY <1>1, <1>2
    <2> QED BY <2>1 DEF Pending, Restart
  <1>4. Stream' \in Seq(Frames) /\ PartOf(Stream', Stream, k)
    <2>1. k \in Nat /\ k <= Len(up) /\ \A j \in 1 .. Len(up') : up'[j] = up[k + j]
      BY <1>1, <1>2
    <2> QED BY <1>1, <1>3, <2>1, StreamPart DEF Restart, hostVars
  <1>5. Linked(file.blocks, Stream')
    BY <1>1, <1>2, <1>4, LinkedPart DEF InOrder
  <1>6. file' = file /\ state' = "WAIT_START"
    BY DEF Restart
  <1> QED BY <1>5, <1>6 DEF InOrder, Ready

(* With nobody to stop it, fwu.py has one frame or answer on its way.      *)
LEMMA HostOneFrame ==
  ASSUME TypeOK, TypeOK', "quit" \notin trouble, OneFrame, DoneIsTaken, Host
  PROVE  OneFrame' /\ DoneIsTaken'
  <1>1. /\ trouble' = trouble /\ index' = index
        /\ up \in Seq(Frames) /\ down \in Seq(Answers)
        /\ Start \in Frames /\ Schedule \in Frames
    <2>1. trouble' = trouble
      BY FileStays DEF Next
    <2>2. UNCHANGED devVars
      BY DEF Host, HostStart, HostAnswer, HostQuit, HostIgnores
    <2> QED BY <2>1, <2>2 DEF devVars, TypeOK, Frames
  <1>2. CASE HostStart
    <2>1. up = <<>> /\ down = <<>> /\ index = NoPage
      BY <1>2 DEF HostStart, OneFrame, Pending
    <2>2. up' = Append(up, Start) /\ down' = <<>> /\ host' = "start"
      BY <1>2, <2>1 DEF HostStart, Send
    <2>3. Len(up') = 1
      BY <1>1, <2>1, <2>2, AppendTo
    <2> QED BY <1>1, <2>1, <2>2, <2>3 DEF OneFrame, DoneIsTaken, Waiting
  <1>3. CASE HostAnswer
    <2>1. up = <<>> /\ Len(down) = 1 /\ index = NoPage /\ down # <<>>
      <3>1. Len(up) + Len(down) <= 1 /\ down # <<>> /\ index = NoPage
        BY <1>3 DEF HostAnswer, OneFrame
      <3>2. Len(down) + Len(up) <= 1
        BY <1>1, <3>1
      <3> QED BY <1>1, <3>1, <3>2, OneOfTwo
    <2>2. down' = <<>> /\ Len(down') = 0 /\ Head(down) = down[1]
      <3>1. down' = Tail(down)
        BY <1>3 DEF HostAnswer
      <3>2. Len(Tail(down)) = 0 /\ Tail(down) \in Seq(Answers) /\ Head(down) = down[1]
        BY <1>1, <2>1, TailOf
      <3> QED BY <3>1, <3>2
    <2>3. CASE HostFails
      <3>1. up' = <<>> /\ host' = "failed"
        BY <2>1, <2>3 DEF HostFails
      <3> QED BY <1>1, <2>1, <2>2, <3>1 DEF OneFrame, DoneIsTaken, Pending
    <2>4. CASE HostBlock
      <3>1. Len(up') = 1 /\ host' = "block"
        <4>1. next \in Data
          BY <2>4, FwuAssumption DEF HostBlock, TypeOK, Data
        <4>2. Block(next) \in Frames
          BY <4>1 DEF Frames
        <4> QED BY <1>1, <2>1, <2>4, <4>2, AppendTo DEF HostBlock, Send
      <3> QED BY <1>1, <2>1, <2>2, <3>1 DEF OneFrame, DoneIsTaken, Waiting
    <2>5. CASE HostSchedule
      <3>1. up' = Append(up, Schedule) /\ host' = "schedule"
        BY <2>5 DEF HostSchedule, Send
      <3>2. Len(up') = 1 /\ up'[1] = Schedule
        BY <1>1, <2>1, <3>1, AppendTo
      <3>3. \A i \in 1 .. Len(up') : up'[i].cmd = "fw-schedule"
        BY <3>2 DEF Schedule
      <3> QED BY <1>1, <2>1, <2>2, <3>1, <3>2, <3>3 DEF OneFrame, DoneIsTaken, Waiting
    <2>6. CASE HostDone
      <3>1. up' = <<>> /\ host' = "done"
        BY <2>1, <2>6 DEF HostDone
      <3>2. taken = "file" /\ taken' = taken
        BY <1>3, <2>1, <2>2, <2>6 DEF HostAnswer, HostDone, Unusable, OneFrame
      <3> QED BY <1>1, <2>1, <2>2, <3>1, <3>2 DEF OneFrame, DoneIsTaken, Pending
    <2> QED BY <1>3, <2>3, <2>4, <2>5, <2>6 DEF HostAnswer
  <1>4. CASE HostQuit
    <2>1. up = <<>> /\ down = <<>> /\ index = NoPage /\ host' = "failed" /\ UNCHANGED <<up, down>>
      BY <1>4 DEF HostQuit
    <2> QED BY <1>1, <2>1 DEF OneFrame, DoneIsTaken, Pending
  <1>5. CASE HostIgnores
    BY <1>5 DEF HostIgnores, OneFrame, Pending
  <1> QED BY <1>2, <1>3, <1>4, <1>5 DEF Host

LEMMA LossOneFrame ==
  ASSUME TypeOK, TypeOK', "quit" \notin trouble, OneFrame, DoneIsTaken, Lose
  PROVE  OneFrame' /\ DoneIsTaken' /\ ~Pending'
  <1>1. up \in Seq(Frames) /\ down \in Seq(Answers) /\ Len(up) + Len(down) <= 1
    BY DEF TypeOK, OneFrame
  <1>2. UNCHANGED <<trouble, host, next, index, taken>>
    BY DEF Lose, hostVars, devVars
  <1>3. up' = <<>> /\ down' = <<>> /\ index = NoPage
    <2>1. CASE \E i \in 1 .. Len(up) : up' = RemoveAt(up, i) /\ UNCHANGED down
      <3>1. up' \in Seq(Frames) /\ Len(up') = Len(up) - 1 /\ down' = down /\ Len(up) >= 1
        BY <1>1, <2>1, RemoveFrom
      <3>2. Len(up') = 0 /\ Len(down) = 0 /\ up # <<>>
        BY <1>1, <3>1
      <3> QED BY <1>1, <3>1, <3>2 DEF OneFrame
    <2>2. CASE \E i \in 1 .. Len(down) : down' = RemoveAt(down, i) /\ UNCHANGED up
      <3>1. down' \in Seq(Answers) /\ Len(down') = Len(down) - 1 /\ up' = up /\ Len(down) >= 1
        BY <1>1, <2>2, RemoveFrom
      <3>2. Len(down') = 0 /\ Len(up) = 0 /\ down # <<>>
        BY <1>1, <3>1
      <3> QED BY <1>1, <3>1, <3>2 DEF OneFrame
    <2> QED BY <2>1, <2>2 DEF Lose
  <1>4. Len(up') + Len(down') <= 1 /\ ~Pending'
    BY <1>2, <1>3 DEF Pending
  <1> QED BY <1>2, <1>3, <1>4 DEF OneFrame, DoneIsTaken

(* Damage leaves the frame on its way.                                     *)
LEMMA DamageOneFrame ==
  ASSUME TypeOK, OneFrame, DoneIsTaken, Damage
  PROVE  OneFrame' /\ DoneIsTaken'
  <1>1. /\ Len(up') = Len(up) /\ \A j \in 1 .. Len(up) : Alike(up'[j], up[j])
        /\ up' = <<>> <=> up = <<>>
    BY DamagedUp DEF TypeOK
  <1>2. UNCHANGED <<trouble, host, next, down, index, taken>>
    BY DEF Damage, hostVars, devVars
  <1>3. \A j \in 1 .. Len(up) : up'[j].cmd = up[j].cmd
    BY <1>1 DEF Alike
  <1> QED BY <1>1, <1>2, <1>3 DEF OneFrame, DoneIsTaken, Pending

(* The device takes the frame and answers it, or a reset loses either.     *)
LEMMA DeviceOneFrame ==
  ASSUME TypeOK, TypeOK', "quit" \notin trouble, OneFrame, DoneIsTaken,
         Device \/ Tick \/ Feed \/ OutsideReset,
         CmdSchedule => \/ taken' = "file" /\ down' = Append(down, Rsp("fw-schedule"))
                        \/ taken' = taken /\ down' = Append(down, Invalid("fw-schedule"))
  PROVE  OneFrame' /\ DoneIsTaken'
  <1>1. /\ UNCHANGED <<trouble, host, next>>
        /\ up \in Seq(Frames) /\ down \in Seq(Answers) /\ Len(up) + Len(down) <= 1
    BY DEF Device, CmdStart, ErasePage, EraseEnds, CmdBlock, CmdSchedule, Take,
       FwuProcess, WatchdogReset, OutsideReset, Reset, Restart, Tick, Feed,
       TypeOK, OneFrame, hostVars
  <1>2. ASSUME NEW cmd \in {"fw-start", "fw-block", "fw-schedule"}, Take(cmd)
        PROVE  /\ up' = <<>> /\ down = <<>> /\ host \in Waiting
               /\ host = "schedule" => cmd = "fw-schedule"
    <2>1. up # <<>> /\ up' = Tail(up) /\ Head(up) = up[1] /\ up[1].cmd = cmd
      BY <1>1, <1>2, TailOf DEF Take
    <2>2. Len(up) = 1
      BY <1>1, <2>1, OneOfTwo
    <2>3. up' = <<>> /\ down = <<>>
      BY <1>1, <2>1, OneOfTwo
    <2>4. host \in Waiting
      BY <2>1 DEF OneFrame, Pending
    <2>5. host = "schedule" => up[1].cmd = "fw-schedule"
      BY <2>2 DEF OneFrame
    <2> QED BY <2>1, <2>3, <2>4, <2>5
  <1>3. ASSUME NEW rsp, down = <<>>, down' = Append(down, rsp)
        PROVE  Len(down') = 1 /\ down'[1] = rsp
    BY <1>3
  <1>4. CASE CmdStart
    <2>1. up' = <<>> /\ down' = <<>> /\ host \in {"start", "block"}
      BY <1>2, <1>4 DEF CmdStart, Waiting
    <2> QED BY <1>1, <1>4, <2>1 DEF CmdStart, OneFrame, DoneIsTaken, Waiting
  <1>5. CASE ErasePage
    <2>1. index # NoPage /\ UNCHANGED <<up, down, taken>>
      BY <1>5 DEF ErasePage, Pages, NoPage
    <2>2. up = <<>> /\ down = <<>> /\ host \in Waiting /\ host # "schedule"
      BY <2>1 DEF OneFrame, Pending
    <2> QED BY <1>1, <2>1, <2>2 DEF OneFrame, DoneIsTaken, Waiting
  <1>6. CASE EraseEnds
    <2>1. index # NoPage
      BY <1>6, FwuAssumption DEF EraseEnds, NoPage
    <2>2. up = <<>> /\ down = <<>> /\ host \in Waiting /\ host # "schedule"
      BY <2>1 DEF OneFrame, Pending
    <2>3. up' = <<>> /\ Len(down') = 1 /\ index' = NoPage /\ taken' = taken
      BY <1>3, <1>6, <2>2 DEF EraseEnds, Answer
    <2> QED BY <1>1, <2>2, <2>3 DEF OneFrame, DoneIsTaken, Waiting
  <1>7. CASE CmdBlock
    <2>1. up' = <<>> /\ down = <<>> /\ host \in Waiting /\ host # "schedule" /\ index' = NoPage
      BY <1>2, <1>7 DEF CmdBlock, Take
    <2>2. Len(down') = 1 /\ taken' = taken
      BY <1>3, <1>7, <2>1 DEF CmdBlock, Answer
    <2> QED BY <1>1, <2>1, <2>2 DEF OneFrame, DoneIsTaken, Waiting
  <1>8. CASE CmdSchedule
    <2>1. up' = <<>> /\ down = <<>> /\ host \in Waiting /\ index' = NoPage
      BY <1>2, <1>8 DEF CmdSchedule, Take
    <2>2. Len(down') = 1 /\ (~down'[1].error => taken' = "file")
      BY <1>3, <1>8, <2>1 DEF Rsp, Invalid
    <2> QED BY <1>1, <2>1, <2>2 DEF OneFrame, DoneIsTaken, Waiting
  <1>9. ASSUME Restart,
               \E j \in 0 .. Len(down) : /\ Len(down') = j
                                         /\ \A i \in 1 .. j : down'[i] = down[i]
        PROVE  OneFrame' /\ DoneIsTaken'
    <2>1. PICK k \in 0 .. Len(up) :
             /\ up' \in Seq(Frames) /\ Len(up') = Len(up) - k
             /\ \A i \in 1 .. Len(up) - k : up'[i] = up[k + i]
      BY <1>9, UpAfterRestart
    <2>2. PICK j \in 0 .. Len(down) : Len(down') = j /\ \A i \in 1 .. j : down'[i] = down[i]
      BY <1>9
    <2>3. /\ up' # <<>> => up # <<>>
          /\ down' # <<>> => down # <<>> /\ down'[1] = down[1]
          /\ Len(up') + Len(down') <= 1
      <3>1. down' \in Seq(Answers)
        BY DEF TypeOK
      <3> QED BY <1>1, <2>1, <2>2, <3>1
    <2>4. host = "schedule" => \A i \in 1 .. Len(up') : up'[i].cmd = "fw-schedule"
      <3>1. Len(up') = Len(up) - k /\ Len(up) \in Nat
        BY <1>1, <2>1
      <3>2. \A i \in 1 .. Len(up') : k + i \in 1 .. Len(up)
        BY <3>1
      <3>3. \A i \in 1 .. Len(up') : up'[i] = up[k + i]
        BY <2>1, <3>1
      <3> QED BY <3>2, <3>3 DEF OneFrame
    <2>5. index' = NoPage /\ taken' = taken
      BY <1>9 DEF Restart
    <2>6. Pending' => host \in Waiting
      BY <2>3, <2>5 DEF Pending, OneFrame
    <2>7. host = "schedule" /\ down' # <<>> /\ ~down'[1].error => taken = "file"
      BY <2>3 DEF OneFrame
    <2> QED BY <1>1, <2>3, <2>4, <2>5, <2>6, <2>7 DEF OneFrame, DoneIsTaken, Waiting
  <1>10. CASE FwuProcess
    <2>1. Len(down) \in 0 .. Len(down) /\ down' = down
      BY <1>1, <1>10 DEF FwuProcess
    <2> QED BY <1>9, <1>10, <2>1 DEF FwuProcess
  <1>11. CASE WatchdogReset \/ OutsideReset
    <2>1. Reset
      BY <1>11 DEF WatchdogReset, OutsideReset
    <2> QED BY <1>9, <2>1, DownAfterReset DEF Reset
  <1>12. CASE Tick \/ Feed
    BY <1>1, <1>12 DEF Tick, Feed, OneFrame, DoneIsTaken, Pending, Waiting
  <1> QED BY <1>4, <1>5, <1>6, <1>7, <1>8, <1>10, <1>11, <1>12 DEF Device
-------------------------------------------------------------------------------
LEMMA OrderInvInit == Init => OrderInv
  <1> SUFFICES ASSUME Init PROVE OrderInv
    OBVIOUS
  <1>1. SlotInv
    BY SlotInvInit
  <1>2. Stream = <<>> /\ up = <<>> /\ down = <<>> /\ index = NoPage
    BY DEF Init, Stream
  <1>3. InOrder
    BY <1>2 DEF InOrder, Linked
  <1>4. OneFrame
    BY <1>2 DEF Init, OneFrame, Pending, Waiting
  <1>5. OnlyWhole /\ DoneIsTaken
    BY DEF Init, OnlyWhole, DoneIsTaken
  <1> QED BY <1>1, <1>3, <1>4, <1>5 DEF OrderInv

LEMMA OrderInvNext == OrderInv /\ [Next]_vars => OrderInv'
  <1> SUFFICES ASSUME OrderInv, [Next]_vars PROVE OrderInv'
    OBVIOUS
  <1>1. SlotInv /\ SlotInv' /\ TypeOK /\ TypeOK'
    BY SlotInvNext DEF OrderInv, SlotInv
  <1>2. trouble' = trouble /\ Frames' = Frames /\ Uncovered' = Uncovered
    BY <1>1, FileStays DEF Uncovered
  <1>3. CASE UNCHANGED vars
    <2>1. InOrder => InOrder'
      BY <1>3 DEF vars, hostVars, devVars, InOrder, Stream, NextFrame, Pending, Block,
         Schedule, Ready, At, Prefix
    <2>2. OneFrame => OneFrame'
      BY <1>3 DEF vars, hostVars, devVars, OneFrame, Pending, Schedule
    <2>3. OnlyWhole' /\ DoneIsTaken'
      BY <1>3 DEF vars, hostVars, OrderInv, OnlyWhole, DoneIsTaken
    <2> QED BY <1>1, <1>2, <2>1, <2>2, <2>3 DEF OrderInv
  <1> SUFFICES ASSUME Next PROVE OrderInv'
    BY <1>3
  <1>4. CASE Host
    <2>1. Uncovered => InOrder'
      BY <1>1, <1>4, HostInOrder DEF OrderInv
    <2>2. "quit" \notin trouble => OneFrame' /\ DoneIsTaken'
      BY <1>1, <1>4, HostOneFrame DEF OrderInv
    <2>3. taken' \in {taken, "none"}
      BY <1>4 DEF Host, HostStart, HostAnswer, HostQuit, HostIgnores
    <2> QED BY <1>1, <1>2, <2>1, <2>2, <2>3 DEF OrderInv, OnlyWhole, DoneIsTaken
  <1>5. CASE Lose
    <2>1. "quit" \notin trouble => OneFrame' /\ DoneIsTaken' /\ ~Pending'
      BY <1>1, <1>5, LossOneFrame DEF OrderInv
    <2>2. ASSUME ~Pending' PROVE InOrder'
      <3>1. Stream' = <<>>
        BY <2>2 DEF Stream, Pending
      <3> QED BY <3>1 DEF InOrder, Linked
    <2>3. "loss" \in trouble /\ taken' = taken
      BY <1>5 DEF Lose
    <2>4. Uncovered => InOrder'
      BY <2>1, <2>2, <2>3 DEF Uncovered
    <2> QED BY <1>1, <1>2, <2>1, <2>3, <2>4 DEF OrderInv, OnlyWhole, DoneIsTaken
  <1>d. CASE Damage
    <2>1. taken' = taken /\ "loss" \in trouble
      BY <1>d DEF Damage
    <2>2. Uncovered => InOrder'
      BY <1>1, <1>d, DamageInOrder DEF OrderInv
    <2>3. "quit" \notin trouble => OneFrame' /\ DoneIsTaken'
      BY <1>1, <1>d, DamageOneFrame DEF OrderInv
    <2> QED BY <1>1, <1>2, <2>1, <2>2, <2>3 DEF OrderInv, OnlyWhole, DoneIsTaken
  <1>6. CASE Device \/ Tick \/ Feed \/ OutsideReset
    <2>1. ASSUME InOrder
          PROVE  /\ InOrder'
                 /\ CmdSchedule =>
                      \/ taken' = "file" /\ down' = Append(down, Rsp("fw-schedule"))
                      \/ taken' = taken /\ down' = Append(down, Invalid("fw-schedule"))
                 /\ taken' \in {taken, "file"}
      <3>1. CASE CmdSchedule
        BY <1>1, <2>1, <3>1, ScheduleInOrder
      <3>2. CASE ~CmdSchedule
        <4>1. taken' = taken
          BY <1>6, <3>2 DEF Device, CmdStart, ErasePage, EraseEnds, CmdBlock,
             FwuProcess, WatchdogReset, OutsideReset, Reset, Restart, Tick, Feed
        <4>2. ASSUME Restart, down' # <<>> => down # <<>> PROVE InOrder'
          BY <1>1, <1>2, <2>1, <4>2, RestartInOrder
        <4>3. ASSUME FwuProcess PROVE InOrder'
          BY <4>2, <4>3 DEF FwuProcess
        <4>4. ASSUME WatchdogReset \/ OutsideReset PROVE InOrder'
          <5>1. Reset
            BY <4>4 DEF WatchdogReset, OutsideReset
          <5>2. PICK j \in 0 .. Len(down) : down' \in Seq(Answers) /\ Len(down') = j
            BY <1>1, <5>1, DownAfterReset
          <5>3. down' # <<>> => down # <<>>
            BY <1>1, <5>2 DEF TypeOK
          <5> QED BY <4>2, <5>1, <5>3 DEF Reset
        <4>5. ASSUME Tick \/ Feed PROVE InOrder'
          <5>1. /\ UNCHANGED <<file, host, next, up, down, state, offset, index, slot1>>
            BY <4>5 DEF Tick, Feed, hostVars
          <5>2. InOrder'
            BY <2>1, <5>1 DEF InOrder, Stream, NextFrame, Pending, Block, Schedule,
               Ready, At, Prefix
          <5> QED BY <5>2
        <4> QED
          BY <1>1, <1>6, <2>1, <3>2, <4>1, <4>3, <4>4, <4>5, StartInOrder, EraseInOrder,
             BlockInOrder DEF Device
      <3> QED BY <3>1, <3>2
    <2>2. "quit" \notin trouble => OneFrame' /\ DoneIsTaken'
      <3>1. "quit" \notin trouble => Uncovered
        BY DEF Uncovered
      <3> QED BY <1>1, <1>6, <2>1, <3>1, DeviceOneFrame DEF OrderInv
    <2>3. Uncovered => InOrder' /\ taken' \in {taken, "file"}
      BY <2>1 DEF OrderInv
    <2> QED BY <1>1, <1>2, <2>2, <2>3 DEF OrderInv, OnlyWhole, DoneIsTaken, Uncovered
  <1> QED BY <1>4, <1>5, <1>d, <1>6 DEF Next

(* The device never accepts fw-schedule with anything but the whole file   *)
(* in slot1, however many runs of fwu.py follow each other, wherever the   *)
(* device is reset, and whichever frames are lost or answers taken for     *)
(* those of a later run, as long as not both of these happen.              *)
THEOREM WholeOrNothing == Spec => []OnlyWhole
  <1>1. Spec => []OrderInv
    BY OrderInvInit, OrderInvNext, PTL DEF Spec
  <1>2. OrderInv => OnlyWhole
    BY DEF OrderInv
  <1> QED BY <1>1, <1>2, PTL

(* Unless somebody stops a run of fwu.py, one that ends well has had the   *)
(* whole file taken, frames lost and resets included.                      *)
THEOREM DoneMeansTaken == Spec => []DoneIsTaken
  <1>1. Spec => []OrderInv
    BY OrderInvInit, OrderInvNext, PTL DEF Spec
  <1>2. OrderInv => DoneIsTaken
    BY DEF OrderInv
  <1> QED BY <1>1, <1>2, PTL
===============================================================================
