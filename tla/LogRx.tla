--------------------------------- MODULE LogRx ---------------------------------
(***************************************************************************)
(* Frames from the host to a handler of the application and back: the      *)
(* sending side of uclog.py, the line, the UARTE that fills the receive    *)
(* buffer by DMA, the receive half of uart.c, log_process_internal() of    *)
(* log.c with the handler it calls, and the receiving side of uclog.py.    *)
(*                                                                         *)
(* A byte is written to the ring when it arrives, whatever the program     *)
(* does; the interrupt handler that counts it comes later, and may come    *)
(* once for several bytes.                                                 *)
(***************************************************************************)
EXTENDS Cobs

CONSTANTS
  RxSize,      \* bytes of rx_buf
  MaxPacket,   \* LOG_MAX_PACKET_SIZE
  MaxPorts,    \* LOG_MAX_PORTS
  Handlers,    \* the ports log_notify() was called for
  Payloads,    \* what the host sends: a header byte and data
  Responses,   \* what a handler may answer; <<>> is no answer
  Noise,       \* what a byte may turn into on the line
  MaxFrames,   \* bound: frames the host sends
  MaxTrouble,  \* bound: bytes altered or lost on the line, or not counted in time
  HostChunk,   \* the most the host reads at once
  HostMax      \* what CobsDecode keeps

(* sizeof(log_data.buf)                                                    *)
BufSize == EncSize(MaxPacket) + 3

ASSUME LogRxAssumption ==
  /\ RxSize \in Nat /\ RxSize > 1
  /\ MaxPacket \in Nat \ {0}
  /\ EncSize(MaxPacket + 1) + 2 <= BufSize
  /\ MaxPorts \in Nat /\ 4 * MaxPorts <= MaxCode + 1
  /\ Handlers \subseteq 0 .. MaxPorts - 1
  /\ \A p \in Payloads : p \in Seq(Byte) /\ p # <<>>
  /\ \A r \in Responses : r \in Seq(Byte) /\ Len(r) <= MaxPacket
  /\ Noise \subseteq Byte
  /\ MaxFrames \in Nat /\ MaxTrouble \in Nat
  /\ HostChunk \in Nat \ {0} /\ HostMax \in Nat

VARIABLES
  wire,              \* what the host has sent and has not arrived
  sending,           \* the payload of it, if nothing of it was damaged
  ring, read, write, \* rx_cb
  dma,               \* where the UARTE puts the next byte
  rxdrdy,            \* its event RXDRDY
  state,             \* of log_process_internal: between frames or in one
  buf, fill,         \* log_data.buf and the write index of log_data.cb
  overrun,
  line,              \* what uart_tx() was given and the host has not read
  indata,            \* of CobsDecode
  stream, taken,     \* history: the bytes that arrived, and how many were taken
  frames, damaged, missed,  \* counts: of Send, of damage, of uncounted bytes
  due,               \* history: the frames that arrived whole
  calls,             \* history: what handlers were called with
  replies, answers   \* history: what they answered, and what the host got

host == <<wire, sending, frames>>
rx == <<ring, read, write, dma, rxdrdy>>
log == <<state, buf, fill, overrun>>
back == <<line, indata, replies, answers>>
counts == <<damaged, missed>>
vars == <<host, rx, log, back, counts, stream, taken, due, calls>>

Slots == 0 .. RxSize - 1
Undamaged == sending # <<>>
-------------------------------------------------------------------------------
(* The host: CobsEncode *)

Framed(payload) == <<0>> \o PyEnc(payload) \o <<0>>

Send ==
  /\ wire = <<>> /\ frames < MaxFrames
  /\ \E p \in Payloads : wire' = Framed(p) /\ sending' = p
  /\ frames' = frames + 1
  /\ UNCHANGED <<rx, log, back, counts, stream, taken, due, calls>>
-------------------------------------------------------------------------------
(* The line and the UARTE *)

WrapBugPast(i) == IF i > RxSize THEN i - RxSize ELSE i
Wrap(i) == IF i >= RxSize THEN i - RxSize ELSE i

(* A byte arrives.  RXDRDY is one event: it is not counted how often it    *)
(* was raised.  Bound: the device never falls a whole ring behind.         *)
Receive(b) ==
  /\ Len(stream) - taken < RxSize - 1
  /\ rxdrdy => damaged + missed < MaxTrouble
  /\ ring' = [ring EXCEPT ![dma] = b]
  /\ dma' = Wrap(dma + 1)
  /\ rxdrdy' = TRUE
  /\ missed' = missed + IF rxdrdy THEN 1 ELSE 0
  /\ stream' = Append(stream, b)
  /\ UNCHANGED <<read, write, log, back, taken, calls, frames>>

Deliver ==
  /\ wire # <<>>
  /\ Receive(Head(wire))
  /\ wire' = Tail(wire)
  /\ due' = IF Tail(wire) = <<>> /\ Undamaged
            THEN Append(due, [at |-> Len(stream), rx |-> sending]) ELSE due
  /\ UNCHANGED <<sending, damaged>>

Damage ==
  /\ wire # <<>> /\ damaged + missed < MaxTrouble
  /\ damaged' = damaged + 1
  /\ wire' = Tail(wire) /\ sending' = <<>>
  /\ UNCHANGED due
  /\ \/ \E b \in Noise \ {Head(wire)} : Receive(b)
     \/ UNCHANGED <<rx, log, back, missed, stream, taken, calls, frames>>

(* uart_handler *)
OnRxdRdy ==
  /\ rxdrdy
  /\ rxdrdy' = FALSE
  /\ write' = Wrap(write + 1)
  /\ UNCHANGED <<host, ring, read, dma, log, back, counts, stream, taken, due, calls>>
-------------------------------------------------------------------------------
(* log_process_internal: one action for what follows each wait             *)

RxAvailBugFull == IF read < write THEN write - read ELSE RxSize - read
RxAvail == IF read <= write THEN write - read ELSE RxSize - read
Peeked == [i \in 1 .. RxAvail |-> ring[read + i - 1]]

Skip(n) ==
  /\ read' = Wrap(read + n)
  /\ taken' = taken + n
  /\ UNCHANGED <<ring, write, dma, rxdrdy>>

SkipZero ==
  /\ state = "start" /\ RxAvail > 0 /\ Head(Peeked) = 0
  /\ Skip(1)
  /\ UNCHANGED <<host, log, back, counts, stream, due, calls>>

BeginFrameBugKeeps ==
  /\ state = "start" /\ RxAvail > 0 /\ Head(Peeked) # 0
  /\ state' = "frame"
  /\ UNCHANGED <<buf, host, rx, back, counts, stream, taken, due, calls, fill, overrun>>

BeginFrame ==
  /\ state = "start" /\ RxAvail > 0 /\ Head(Peeked) # 0
  /\ state' = "frame"
  /\ fill' = 0 /\ overrun' = FALSE
  /\ UNCHANGED <<buf, host, rx, back, counts, stream, taken, due, calls>>

(* As much of a chunk as there is room for.                                *)
Room == BufSize - 1 - fill
Stored(n) == IF n > Room THEN Room ELSE n
Filled(n) == [i \in 0 .. BufSize - 1 |->
  IF i \in fill .. fill + Stored(n) - 1 THEN Peeked[i - fill + 1] ELSE buf[i]]

(* No terminator yet.                                                      *)
More ==
  /\ state = "frame" /\ RxAvail > 0
  /\ \A i \in DOMAIN Peeked : Peeked[i] # 0
  /\ buf' = Filled(RxAvail)
  /\ fill' = fill + Stored(RxAvail)
  /\ overrun' = (overrun \/ RxAvail > Room)
  /\ Skip(RxAvail)
  /\ UNCHANGED <<state, host, back, counts, stream, due, calls>>

(* The handler puts its answer at the end of the buffer; with the header   *)
(* before it, it is encoded in place into the front of it.                 *)
Answered(mem, r, header) ==
  LET at == BufSize - MaxPacket
  IN [i \in 0 .. BufSize - 1 |->
        CASE i = at - 1 -> header
          [] i \in at .. at + Len(r) - 1 -> r[i - at + 1]
          [] OTHER -> mem[i]]

Respond(mem, port) ==
  \E r \in Responses :
    IF r = <<>> THEN buf' = mem /\ UNCHANGED back
    ELSE LET header == 4 * port + 3
             e == Enc(Answered(mem, r, header), 1, BufSize - MaxPacket - 1, Len(r) + 1)
         IN /\ buf' = [e.mem EXCEPT ![0] = 0, ![e.n + 1] = 0]
            /\ line' = line \o [i \in 1 .. e.n + 2 |-> buf'[i - 1]]
            /\ replies' = Append(replies, <<header>> \o r)
            /\ UNCHANGED <<indata, answers>>

(* What is in the buffer is a frame for a handler.                         *)
Accepted(d) ==
  /\ d.n > 0
  /\ d.mem[0] % 4 = 3
  /\ d.mem[0] \div 4 \in Handlers

(* The terminator: it is left where it is.                                 *)
EndFrameBugOverrun ==
  /\ state = "frame" /\ RxAvail > 0
  /\ \E e \in DOMAIN Peeked :
       /\ Peeked[e] = 0 /\ \A i \in 1 .. e - 1 : Peeked[i] # 0
       /\ Skip(e - 1)
       /\ fill' = fill + Stored(e - 1)
       /\ overrun' = (overrun \/ e - 1 > Room)
       /\ LET d == Dec(Filled(e - 1), fill')
          IN IF Accepted(d)
             THEN /\ calls' = Append(calls, [at |-> taken',
                                             rx |-> [i \in 1 .. d.n |-> d.mem[i - 1]]])
                  /\ Respond(d.mem, d.mem[0] \div 4)
             ELSE buf' = d.mem /\ UNCHANGED <<calls, back>>
  /\ state' = "start"
  /\ UNCHANGED <<host, counts, stream, due>>

EndFrame ==
  /\ state = "frame" /\ RxAvail > 0
  /\ \E e \in DOMAIN Peeked :
       /\ Peeked[e] = 0 /\ \A i \in 1 .. e - 1 : Peeked[i] # 0
       /\ Skip(e - 1)
       /\ fill' = fill + Stored(e - 1)
       /\ overrun' = (overrun \/ e - 1 > Room)
       /\ LET d == Dec(Filled(e - 1), fill')
          IN IF ~overrun' /\ Accepted(d)
             THEN /\ calls' = Append(calls, [at |-> taken',
                                             rx |-> [i \in 1 .. d.n |-> d.mem[i - 1]]])
                  /\ Respond(d.mem, d.mem[0] \div 4)
             ELSE buf' = d.mem /\ UNCHANGED <<calls, back>>
  /\ state' = "start"
  /\ UNCHANGED <<host, counts, stream, due>>

LogProcess == SkipZero \/ BeginFrame \/ More \/ EndFrame
-------------------------------------------------------------------------------
(* The host: CobsDecode, called with what one recv() returned *)

Zeros(s) == {i \in DOMAIN s : s[i] = 0}

(* What no zero has ended yet.                                             *)
AfterLast(s) ==
  IF Zeros(s) = {} THEN s
  ELSE SubSeq(s, (CHOOSE i \in Zeros(s) : \A j \in Zeros(s) : j <= i) + 1, Len(s))

(* The parts of s that a zero ended, without the empty ones: the bytes of  *)
(* each, and where the last of them is.                                    *)
FramesIn(s) ==
  LET before(i) == AfterLast(SubSeq(s, 1, i - 1))
      found[i \in 0 .. Len(s)] ==
        IF i = 0 THEN <<>>
        ELSE IF s[i] # 0 \/ before(i) = <<>> THEN found[i - 1]
        ELSE Append(found[i - 1], [at |-> i - 1, bytes |-> before(i)])
  IN found[Len(s)]

Decoded(s) == [i \in DOMAIN FramesIn(s) |-> PyDec(FramesIn(s)[i].bytes)]

Cut(s) == IF Len(s) > HostMax THEN SubSeq(s, 1, HostMax) ELSE s

HostReceive ==
  /\ line # <<>>
  /\ \E n \in 1 .. HostChunk :
       /\ n <= Len(line)
       /\ LET data == Cut(indata \o SubSeq(line, 1, n))
          IN /\ answers' = answers \o Decoded(data)
             /\ indata' = AfterLast(data)
       /\ line' = SubSeq(line, n + 1, Len(line))
  /\ UNCHANGED <<host, rx, log, counts, stream, taken, due, calls, replies>>
-------------------------------------------------------------------------------
Init ==
  /\ wire = <<>> /\ sending = <<>> /\ frames = 0
  /\ ring = [i \in Slots |-> 0] /\ read = 0 /\ write = 0
  /\ dma = 0 /\ rxdrdy = FALSE
  /\ state = "start"
  /\ buf = [i \in 0 .. BufSize - 1 |-> 0] /\ fill = 0 /\ overrun = FALSE
  /\ line = <<>> /\ indata = <<>> /\ replies = <<>> /\ answers = <<>>
  /\ damaged = 0 /\ missed = 0
  /\ stream = <<>> /\ taken = 0 /\ due = <<>> /\ calls = <<>>

Next == Send \/ Deliver \/ Damage \/ OnRxdRdy \/ LogProcess \/ HostReceive

(* The interrupt is taken and the main loop calls log_process() again and  *)
(* again; nobody has to send or to listen.                                 *)
Spec == Init /\ [][Next]_vars /\ WF_vars(OnRxdRdy) /\ WF_vars(LogProcess)
-------------------------------------------------------------------------------
(* Properties *)

TypeOK ==
  /\ wire \in Seq(Byte) /\ sending \in Payloads \union {<<>>}
  /\ ring \in [Slots -> Byte] /\ {read, write, dma} \subseteq Slots
  /\ rxdrdy \in BOOLEAN /\ overrun \in BOOLEAN
  /\ state \in {"start", "frame"}
  /\ buf \in [0 .. BufSize - 1 -> Byte] /\ fill \in 0 .. BufSize - 1
  /\ {line, indata, stream} \subseteq Seq(Byte)
  /\ taken \in 0 .. Len(stream)
  /\ frames \in 0 .. MaxFrames /\ {damaged, missed} \subseteq 0 .. MaxTrouble + 1

(* What the program looks at are the bytes that arrived next, although the *)
(* UARTE writes on, the handler counts later, and never those it missed,   *)
(* and the ring ends anywhere.                                             *)
RingTold ==
  /\ taken + RxAvail <= Len(stream)
  /\ Peeked = SubSeq(stream, taken + 1, taken + RxAvail)

(* Nothing changes them between uart_rx_peek() and uart_rx_skip(): neither *)
(* a byte that arrives nor the handler.                                    *)
PeekStays ==
  [][taken' = taken =>
       \A i \in DOMAIN Peeked : i \in DOMAIN Peeked' /\ Peeked'[i] = Peeked[i]]_vars

Acceptable(payload) ==
  /\ payload # <<>>
  /\ Head(payload) % 4 = 3
  /\ Head(payload) \div 4 \in Handlers

(* The calls that frames ask for, as tools/cobs.py decodes them.           *)
Wanted(found) ==
  LET wanted[i \in 0 .. Len(found)] ==
        IF i = 0 THEN <<>>
        ELSE IF /\ Len(found[i].bytes) < BufSize
                /\ WellFormed(found[i].bytes)
                /\ Acceptable(PyDec(found[i].bytes))
        THEN Append(wanted[i - 1], [at |-> found[i].at, rx |-> PyDec(found[i].bytes)])
        ELSE wanted[i - 1]
  IN wanted[Len(found)]

(* Handlers are called with exactly the frames in the bytes taken so far,  *)
(* each once and in order: however the bytes were split over chunks and    *)
(* over the end of the ring, whatever was damaged before, and never with   *)
(* part of a frame that was too long.  The zero that ended the last of     *)
(* them is still to be taken.                                              *)
CallsMatchStream ==
  LET came == SubSeq(stream, 1, taken)
  IN calls = Wanted(FramesIn(IF state = "start" THEN Append(came, 0) ELSE came))

(* The host decodes exactly what the handlers answered, in order: the      *)
(* encoding in place in log_data.buf never overtakes what it has to read,  *)
(* and a frame may come in any pieces.                                     *)
AnswersTrue == answers \o Decoded(indata \o line) = replies

(* A frame that arrived whole is handled, whatever was lost or altered     *)
(* before it and although no zero of the frame before may have arrived:    *)
(* the receiver finds the next frame again.  Bytes that the handler did    *)
(* not count hold it up until as many bytes more have come, for good.      *)
Served(k) == k <= Len(due) /\ \E i \in DOMAIN calls : calls[i].at = due[k].at /\ calls[i].rx = due[k].rx
FramesServed ==
  \A k \in 1 .. MaxFrames :
    (/\ k <= Len(due)
     /\ Acceptable(due[k].rx) /\ Len(PyEnc(due[k].rx)) < BufSize
     /\ due[k].at + missed < Len(stream))
    ~> Served(k)
===============================================================================
