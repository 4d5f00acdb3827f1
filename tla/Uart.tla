--------------------------------- MODULE Uart ---------------------------------
(***************************************************************************)
(* Log output: the circular buffer of cb.c, the transmit half of uart.c    *)
(* and the UARTE that reads the buffer by DMA.  Three actors: the program  *)
(* (tx_buffer() of log.c, uart_tx_schedule, uart_tx_flush, and after a     *)
(* fault uart_tx_panic), the interrupt handler, which preempts it, and the *)
(* UARTE, which runs beside both.                                          *)
(*                                                                         *)
(* A byte is its number in the order in which bytes are written.           *)
(***************************************************************************)
EXTENDS Integers

CONSTANTS
  Size,       \* cb.n, the bytes of the buffer
  MaxBytes,   \* bound: bytes written altogether
  MaxMessage, \* bound: bytes of one message
  Room,       \* what the program looks at before it writes
  FaultAt     \* the places of the program where a fault may strike

ProgramPlaces == {"idle", "publish", "check", "start", "flush"}
PanicPlaces == {"panic", "panic_peek", "panic_end", "panic_stop"}

ASSUME UartAssumption ==
  /\ Size \in Nat /\ Size > 1
  /\ MaxBytes \in Nat
  /\ MaxMessage \in 1 .. Size - 1
  /\ Room \in {"sent", "indices"}
  /\ FaultAt \subseteq ProgramPlaces

VARIABLES
  buf, read, write,   \* tx_cb
  tx_active, panic,   \* of uart_t
  irq,                \* the interrupt is enabled
  events,             \* ENDTX, TXSTOPPED
  hw,                 \* the transmitter of the UARTE
  dma,                \* what it still has to send
  main, isr,          \* where the program and the handler are
  enabled,            \* log_data.tx_enabled, and log_data.uart is set
  len,                \* the bytes of the message being written
  written, sent       \* the last byte in the buffer, and on the wire

cb == <<buf, read, write>>
vars == <<buf, read, write, tx_active, panic, irq, events, hw, dma, main, isr,
          enabled, len, written, sent>>

Slots == 0 .. Size - 1
-------------------------------------------------------------------------------
(* cb.c *)

WrapBugPast(i) == IF i > Size THEN i - Size ELSE i
Wrap(i) == IF i >= Size THEN i - Size ELSE i

CbPeekAvail == IF read <= write THEN write - read ELSE Size - read
CbWriteAvail == (IF read > write THEN read - write ELSE Size - write + read) - 1

(* nrf_uarte_tx_buffer_set, cb_skip and STARTTX with all that can be read  *)
(* in one piece.                                                           *)
SendAllBugSkipsRest ==
  /\ dma' = [at |-> read, left |-> CbPeekAvail]
  /\ read' = write
  /\ hw' = "sending"
  /\ UNCHANGED <<buf, write>>

SendAll ==
  /\ dma' = [at |-> read, left |-> CbPeekAvail]
  /\ read' = Wrap(read + CbPeekAvail)
  /\ hw' = "sending"
  /\ UNCHANGED <<buf, write>>
-------------------------------------------------------------------------------
(* The UARTE *)

SendByte ==
  /\ hw = "sending" /\ dma.left > 0
  /\ sent' = buf[dma.at]
  /\ dma' = [at |-> dma.at + 1, left |-> dma.left - 1]
  /\ UNCHANGED <<cb, tx_active, panic, irq, events, hw, main, isr, len, written, enabled>>

EndTx ==
  /\ hw = "sending" /\ dma.left = 0
  /\ hw' = "ended"
  /\ events' = events \union {"ENDTX"}
  /\ UNCHANGED <<cb, tx_active, panic, irq, dma, main, isr, len, written, sent, enabled>>

Stopped ==
  /\ hw = "stopping"
  /\ hw' = "stopped"
  /\ events' = events \union {"TXSTOPPED"}
  /\ UNCHANGED <<cb, tx_active, panic, irq, dma, main, isr, len, written, sent, enabled>>

Hardware == SendByte \/ EndTx \/ Stopped
-------------------------------------------------------------------------------
(* uart_handler *)

Interrupt ==
  /\ irq /\ events # {} /\ isr = "none"
  /\ isr' = "end"
  /\ UNCHANGED <<cb, tx_active, panic, irq, events, hw, dma, main, len, written, sent, enabled>>

(* ENDTX, with nothing else: the same in the handler and in a panic.       *)
OnEndTx == events' = events \ {"ENDTX"} /\ hw' = "stopping"

(* TXSTOPPED: send what has been written meanwhile, or be done.            *)
OnTxStoppedBugDone ==
  /\ events' = events \ {"TXSTOPPED"}
  /\ tx_active' = FALSE
  /\ UNCHANGED <<cb, hw, dma>>

OnTxStopped ==
  /\ events' = events \ {"TXSTOPPED"}
  /\ \/ CbPeekAvail > 0 /\ SendAll /\ UNCHANGED tx_active
     \/ CbPeekAvail = 0 /\ tx_active' = FALSE /\ UNCHANGED <<cb, hw, dma>>

HandlerEndTx ==
  /\ isr = "end"
  /\ IF "ENDTX" \in events THEN OnEndTx ELSE UNCHANGED <<events, hw>>
  /\ isr' = "stopped"
  /\ UNCHANGED <<cb, tx_active, panic, irq, dma, main, len, written, sent, enabled>>

HandlerTxStopped ==
  /\ isr = "stopped"
  /\ IF "TXSTOPPED" \in events THEN OnTxStopped
     ELSE UNCHANGED <<cb, tx_active, events, hw, dma>>
  /\ isr' = "none"
  /\ UNCHANGED <<panic, irq, main, len, written, sent, enabled>>

Handler == HandlerEndTx \/ HandlerTxStopped
-------------------------------------------------------------------------------
(* The program *)

At(place) == main = place /\ isr = "none"
Goto(place) == main' = place /\ UNCHANGED <<irq, isr>>
KeepUart == UNCHANGED <<tx_active, panic, events, hw, dma>>

(* What a caller of cb_write has to make sure of.                          *)
Fits(n) ==
  CASE Room = "sent"    -> written - sent + n < Size
    [] Room = "indices" -> n <= CbWriteAvail

(* tx_buffer(): cb_write copies the bytes, then moves the index.           *)
Write(n) ==
  /\ At("idle")
  /\ written + n <= MaxBytes /\ Fits(n)
  /\ buf' = [i \in Slots |-> LET k == (i - write) % Size
                             IN IF k < n THEN written + 1 + k ELSE buf[i]]
  /\ len' = n
  /\ Goto("publish")
  /\ KeepUart
  /\ UNCHANGED <<read, write, written, sent, enabled>>

Publish ==
  /\ At("publish")
  /\ write' = Wrap(write + len)
  /\ written' = written + len
  /\ Goto(IF enabled THEN "check" ELSE "idle")
  /\ KeepUart
  /\ UNCHANGED <<buf, read, len, sent, enabled>>

(* log_init() and resume_tx(), once: what was logged before was only kept. *)
LogInit ==
  /\ At("idle") /\ ~enabled
  /\ enabled' = TRUE /\ irq' = TRUE
  /\ main' = "check"
  /\ KeepUart
  /\ UNCHANGED <<cb, isr, len, written, sent>>

(* uart_tx_schedule: leave it to the handler, have nothing to send, or     *)
(* claim the transmitter and start it.                                     *)
CheckBugNotActive ==
  /\ At("check") /\ ~panic
  /\ \/ CbPeekAvail = 0 /\ Goto("idle") /\ UNCHANGED tx_active
     \/ CbPeekAvail > 0 /\ tx_active' = TRUE /\ Goto("start")
  /\ UNCHANGED <<cb, panic, events, hw, dma, len, written, sent, enabled>>

Check ==
  /\ At("check") /\ ~panic
  /\ \/ (tx_active \/ CbPeekAvail = 0) /\ Goto("idle") /\ UNCHANGED tx_active
     \/ ~tx_active /\ CbPeekAvail > 0 /\ tx_active' = TRUE /\ Goto("start")
  /\ UNCHANGED <<cb, panic, events, hw, dma, len, written, sent, enabled>>

Start ==
  /\ At("start")
  /\ events' = {}
  /\ SendAll
  /\ Goto("idle")
  /\ UNCHANGED <<tx_active, panic, len, written, sent, enabled>>

(* uart_tx_flush; log_flush() does not call it before log_init().         *)
Flush ==
  /\ At("idle") /\ enabled
  /\ Goto("flush")
  /\ KeepUart
  /\ UNCHANGED <<cb, len, written, sent, enabled>>

FlushedBugEmpty ==
  /\ At("flush") /\ read = write
  /\ Goto("idle")
  /\ KeepUart
  /\ UNCHANGED <<cb, len, written, sent, enabled>>

Flushed ==
  /\ At("flush") /\ ~tx_active
  /\ Goto("idle")
  /\ KeepUart
  /\ UNCHANGED <<cb, len, written, sent, enabled>>
-------------------------------------------------------------------------------
(* uart_tx_panic, from the fault handler or LOG_FATAL: what the program    *)
(* was doing is not resumed.  Before log_init() there is only a reset.     *)
Fault ==
  /\ enabled
  /\ main \in FaultAt /\ isr = "none" /\ ~panic
  /\ main' = "panic"
  /\ irq' = FALSE
  /\ UNCHANGED <<cb, tx_active, panic, events, hw, dma, isr, len, written, sent, enabled>>

PanicEndTx ==
  /\ At("panic") /\ tx_active /\ "ENDTX" \in events
  /\ OnEndTx
  /\ UNCHANGED <<cb, tx_active, panic, irq, dma, main, isr, len, written, sent, enabled>>

PanicTxStoppedBugKeep ==
  /\ At("panic") /\ tx_active /\ "ENDTX" \notin events /\ "TXSTOPPED" \in events
  /\ events' = events \ {"TXSTOPPED"}
  /\ UNCHANGED <<cb, tx_active, panic, irq, hw, dma, main, isr, len, written, sent, enabled>>

PanicTxStopped ==
  /\ At("panic") /\ tx_active /\ "ENDTX" \notin events /\ "TXSTOPPED" \in events
  /\ OnTxStopped
  /\ UNCHANGED <<panic, irq, main, isr, len, written, sent, enabled>>

(* Something is always logged next, and schedules what is in the buffer.   *)
PanicMode ==
  /\ At("panic") /\ ~tx_active
  /\ panic' = TRUE
  /\ Goto("check")
  /\ UNCHANGED <<cb, tx_active, events, hw, dma, len, written, sent, enabled>>

(* tx_panic: send and wait for both events, until the buffer is empty.     *)
CheckPanic ==
  /\ At("check") /\ panic
  /\ Goto("panic_peek")
  /\ KeepUart
  /\ UNCHANGED <<cb, len, written, sent, enabled>>

PanicPeek ==
  /\ At("panic_peek")
  /\ \/ CbPeekAvail > 0 /\ SendAll /\ Goto("panic_end")
     \/ CbPeekAvail = 0 /\ Goto("idle") /\ UNCHANGED <<cb, hw, dma>>
  /\ UNCHANGED <<tx_active, panic, events, len, written, sent, enabled>>

PanicEnd ==
  /\ At("panic_end") /\ "ENDTX" \in events
  /\ OnEndTx
  /\ Goto("panic_stop")
  /\ UNCHANGED <<cb, tx_active, panic, dma, len, written, sent, enabled>>

PanicStop ==
  /\ At("panic_stop") /\ "TXSTOPPED" \in events
  /\ events' = events \ {"TXSTOPPED"}
  /\ Goto("panic_peek")
  /\ UNCHANGED <<cb, tx_active, panic, hw, dma, len, written, sent, enabled>>

Panic == PanicEndTx \/ PanicTxStopped \/ PanicMode
         \/ CheckPanic \/ PanicPeek \/ PanicEnd \/ PanicStop
-------------------------------------------------------------------------------
Init ==
  /\ buf = [i \in Slots |-> 0] /\ read = 0 /\ write = 0
  /\ tx_active = FALSE /\ panic = FALSE /\ irq = FALSE
  /\ events = {} /\ hw = "stopped" /\ dma = [at |-> 0, left |-> 0]
  /\ main = "idle" /\ isr = "none"
  /\ enabled = FALSE
  /\ len = 0 /\ written = 0 /\ sent = 0

Schedule == LogInit \/ Publish \/ Check \/ Start \/ Flushed

Next ==
  \/ Hardware
  \/ Interrupt \/ Handler
  \/ Schedule
  \/ Flush
  \/ \E n \in 1 .. MaxMessage : Write(n)
  \/ Fault
  \/ Panic

Spec == Init /\ [][Next]_vars

(* The UARTE sends, the handler is run when it is due, and the program     *)
(* gets to log_init() and on with what it has begun.                       *)
FairSpec ==
  Spec /\ WF_vars(Hardware) /\ WF_vars(Interrupt \/ Handler) /\ WF_vars(Schedule \/ Panic)
-------------------------------------------------------------------------------
(* Properties *)

(* The type invariant of the buffer, the UARTE and the two places.         *)
TypeOK ==
  /\ buf \in [Slots -> 0 .. MaxBytes]
  /\ read \in Slots /\ write \in Slots
  /\ tx_active \in BOOLEAN /\ panic \in BOOLEAN /\ irq \in BOOLEAN /\ enabled \in BOOLEAN
  /\ events \subseteq {"ENDTX", "TXSTOPPED"}
  /\ hw \in {"stopped", "sending", "ended", "stopping"}
  /\ dma \in [at : 0 .. Size, left : 0 .. Size]
  /\ main \in ProgramPlaces \union PanicPlaces
  /\ isr \in {"none", "end", "stopped"}
  /\ len \in 0 .. MaxMessage
  /\ written \in 0 .. MaxBytes /\ sent \in 0 .. MaxBytes

(* The bytes leave in the order they were written in, each once: nothing   *)
(* is sent twice, skipped, or overwritten in the buffer while the DMA      *)
(* still has to read it.                                                   *)
InOrder == [][sent' # sent => sent' = sent + 1]_vars

(* The buffer is handed to the UARTE by one actor at a time, and only      *)
(* while it is stopped: program and handler never start it together.       *)
StartsWhenStopped == [][read' # read => hw = "stopped"]_vars

(* When log_flush() returns, every byte is on the wire - not only out of   *)
(* the buffer - so that the reset or System OFF that follows loses none.   *)
FlushDrains == [][main = "flush" /\ main' = "idle" => sent = written]_vars

(* Every byte written is sent, also when the handler finds the buffer      *)
(* empty just before the program writes, also after a fault, and also what *)
(* was logged before log_init() if nothing is logged after it.             *)
EverythingSent == \A k \in 1 .. MaxBytes : written >= k ~> sent >= k

(* uart_tx_panic() returns: one of the events it waits for always comes.   *)
PanicEnds == main = "panic" ~> panic
-------------------------------------------------------------------------------
(* Why it is right: the two inductive invariants behind these properties.  *)

(* Which events can be pending, and where the transmitter is not owned.    *)
EventsTold ==
  /\ "ENDTX" \in events <=> hw = "ended"
  /\ "TXSTOPPED" \in events => hw = "stopped"
  /\ isr # "none" => irq /\ tx_active
  /\ panic => enabled /\ ~tx_active
  /\ main \in PanicPlaces \union {"check", "start", "flush"} => enabled
  /\ main \in PanicPlaces \ {"panic"} => panic
  /\ panic \/ main \in PanicPlaces => ~irq

(* Whose the transmitter is at each place: it is stopped, with no event to *)
(* come, unless tx_active says that it belongs to the handler or the       *)
(* program waits for it in a panic; and when nobody has it, nothing is     *)
(* left in the buffer but for what the program is about to look at.        *)
TransmitterOwned ==
  /\ EventsTold
  /\ ~tx_active /\ main \notin {"panic_end", "panic_stop"} => hw = "stopped" /\ events = {}
  /\ main = "start" => tx_active /\ ~panic /\ hw = "stopped" /\ events = {} /\ isr = "none"
  /\ main = "panic_end" => hw \in {"sending", "ended"}
  /\ main = "panic_stop" => hw = "stopping" \/ "TXSTOPPED" \in events
  /\ enabled /\ ~tx_active /\ main \in {"idle", "flush"} => read = write

(* The slots from i on to before j, around the end of the buffer: none if  *)
(* they are the same, where a slot that is written over counts a round.    *)
Span(i, j) == IF i <= j THEN j - i ELSE Size - i + j
Round(i, j) == IF i < j THEN j - i ELSE Size - i + j

(* How many writes ago the byte in slot i was written, if it still counts. *)
Age(i) == Round(i, write)

(* The buffer holds what is not sent yet, each byte in its slot: up to     *)
(* where the DMA is and beyond "read", which has gone past it already.     *)
BufferTold ==
  /\ hw # "sending" => dma.left = 0
  /\ hw = "sending" => dma.at + dma.left <= Size /\ read = Wrap(dma.at + dma.left)
  /\ written - sent = dma.left + Span(read, write)
  /\ written - sent < Size
  /\ \A i \in Slots : Age(i) <= written - sent => buf[i] = written + 1 - Age(i)
  /\ main = "publish" =>
       /\ written - sent + len < Size
       /\ \A i \in Slots : Size - Age(i) < len => buf[i] = written + 1 + Size - Age(i)
===============================================================================
