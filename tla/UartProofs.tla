------------------------------ MODULE UartProofs ------------------------------
(***************************************************************************)
(* What holds of Uart.tla for every size of the buffer, every number of    *)
(* bytes and messages and every place where a fault may strike: types, who *)
(* owns the transmitter, and, for a program that never has more unsent     *)
(* bytes than fit (Room = "sent"), what is in the buffer.                  *)
(***************************************************************************)
EXTENDS Uart, TLAPS

(* The type invariant with what keeps it: the DMA stays in the buffer, and *)
(* the bytes to be published are counted.                                  *)
Typed ==
  /\ TypeOK
  /\ hw = "sending" => dma.at + dma.left <= Size
  /\ main = "publish" => written + len <= MaxBytes

LEMMA SendAllType ==
  ASSUME Typed, SendAll
  PROVE  /\ dma' \in [at : 0 .. Size, left : 0 .. Size]
         /\ dma'.at + dma'.left <= Size
         /\ read' \in Slots /\ buf' = buf /\ write' = write /\ hw' = "sending"
         /\ dma' = [at |-> read, left |-> CbPeekAvail]
  BY UartAssumption DEF Typed, TypeOK, SendAll, Slots, CbPeekAvail, Wrap

LEMMA OnTxStoppedType ==
  ASSUME Typed, OnTxStopped, UNCHANGED <<main, written, len, isr, panic, irq, sent, enabled>>
  PROVE  Typed'
<1>1. CASE CbPeekAvail > 0 /\ SendAll /\ UNCHANGED tx_active
  BY <1>1, SendAllType DEF OnTxStopped, Typed, TypeOK
<1>2. CASE UNCHANGED <<cb, hw, dma>> /\ tx_active' = FALSE
  BY <1>2 DEF OnTxStopped, Typed, TypeOK, cb
<1> QED
  BY <1>1, <1>2 DEF OnTxStopped

LEMMA HardwareTypes ==
  ASSUME Typed, Hardware
  PROVE  Typed'
<1>1. CASE SendByte
  <2>1. dma.at \in Slots /\ dma.at + 1 \in 0 .. Size /\ dma.left - 1 \in 0 .. Size
    <3>1. /\ dma.at \in Int /\ dma.left \in Int /\ Size \in Int
          /\ 0 <= dma.at /\ 0 <= dma.left /\ dma.left <= Size
      BY UartAssumption DEF Typed, TypeOK
    <3>2. dma.left > 0 /\ dma.at + dma.left <= Size
      BY <1>1 DEF SendByte, Typed
    <3> QED BY <3>1, <3>2 DEF Slots
  <2>2. dma' \in [at : 0 .. Size, left : 0 .. Size] /\ dma'.at + dma'.left <= Size
    BY <1>1, <2>1, UartAssumption DEF SendByte, Typed, TypeOK
  <2>3. sent' \in 0 .. MaxBytes
    BY <1>1, <2>1 DEF SendByte, Typed, TypeOK
  <2> QED
    BY <1>1, <2>2, <2>3 DEF SendByte, Typed, TypeOK, cb
<1>2. CASE EndTx
  BY <1>2 DEF EndTx, Typed, TypeOK, cb
<1>3. CASE Stopped
  BY <1>3 DEF Stopped, Typed, TypeOK, cb
<1> QED
  BY <1>1, <1>2, <1>3 DEF Hardware

LEMMA HandlerTypes ==
  ASSUME Typed, Interrupt \/ Handler
  PROVE  Typed'
<1>1. CASE Interrupt
  BY <1>1 DEF Interrupt, Typed, TypeOK, cb
<1>2. CASE HandlerEndTx
  BY <1>2 DEF HandlerEndTx, OnEndTx, Typed, TypeOK, cb
<1>3. CASE HandlerTxStopped /\ "TXSTOPPED" \in events
  <2>1. CASE CbPeekAvail > 0 /\ SendAll /\ UNCHANGED tx_active
    BY <1>3, <2>1, SendAllType DEF HandlerTxStopped, OnTxStopped, Typed, TypeOK
  <2>2. CASE UNCHANGED <<cb, hw, dma>> /\ tx_active' = FALSE
    BY <1>3, <2>2 DEF HandlerTxStopped, OnTxStopped, Typed, TypeOK, cb
  <2> QED
    BY <1>3, <2>1, <2>2 DEF HandlerTxStopped, OnTxStopped
<1>4. CASE HandlerTxStopped /\ "TXSTOPPED" \notin events
  BY <1>4 DEF HandlerTxStopped, Typed, TypeOK, cb
<1> QED
  BY <1>1, <1>2, <1>3, <1>4 DEF Handler

LEMMA ProgramTypes ==
  ASSUME Typed, Schedule \/ Flush \/ Fault \/ (\E n \in 1 .. MaxMessage : Write(n))
  PROVE  Typed'
<1>1. CASE \E n \in 1 .. MaxMessage : Write(n)
  <2>1. PICK n \in 1 .. MaxMessage : Write(n)
    BY <1>1
  <2>2. buf' \in [Slots -> 0 .. MaxBytes]
    <3> SUFFICES ASSUME NEW i \in Slots,
                        NEW k \in Int, k = (i - write) % Size, k < n
                 PROVE  written + 1 + k \in 0 .. MaxBytes
      BY <2>1, UartAssumption DEF Write, Typed, TypeOK, Slots
    <3>1. k \in 0 .. Size - 1
      BY UartAssumption DEF Typed, TypeOK, Slots
    <3> QED
      BY <2>1, <3>1, UartAssumption DEF Write, Typed, TypeOK
  <2> QED
    BY <2>1, <2>2, UartAssumption DEF Write, Goto, At, KeepUart, Typed, TypeOK, ProgramPlaces
<1>2. CASE Publish
  <2>1. write' \in Slots
    BY <1>2, UartAssumption DEF Publish, Typed, TypeOK, Slots, Wrap
  <2>2. written' \in 0 .. MaxBytes
    BY <1>2, UartAssumption DEF Publish, At, Typed, TypeOK
  <2> QED
    BY <1>2, <2>1, <2>2 DEF Publish, Goto, KeepUart, Typed, TypeOK, ProgramPlaces
<1>3. CASE LogInit \/ Flush \/ Flushed \/ Check
  BY <1>3 DEF LogInit, Flush, Flushed, Check, Goto, KeepUart, Typed, TypeOK, ProgramPlaces, cb
<1>4. CASE Start
  BY <1>4, SendAllType DEF Start, Goto, Typed, TypeOK, ProgramPlaces
<1>5. CASE Fault
  BY <1>5 DEF Fault, Typed, TypeOK, PanicPlaces, cb
<1> QED
  BY <1>1, <1>2, <1>3, <1>4, <1>5 DEF Schedule

LEMMA PanicTypes ==
  ASSUME Typed, Panic
  PROVE  Typed'
<1>1. CASE PanicEndTx
  BY <1>1 DEF PanicEndTx, OnEndTx, Typed, TypeOK, cb
<1>2. CASE PanicTxStopped
  BY <1>2, OnTxStoppedType DEF PanicTxStopped
<1>3. CASE PanicMode \/ CheckPanic
  BY <1>3 DEF PanicMode, CheckPanic, Goto, KeepUart, Typed, TypeOK, ProgramPlaces, PanicPlaces, cb
<1>4. CASE PanicPeek
  <2>1. CASE SendAll /\ Goto("panic_end")
    BY <1>4, <2>1, SendAllType DEF PanicPeek, Goto, Typed, TypeOK, PanicPlaces
  <2>2. CASE Goto("idle") /\ UNCHANGED <<cb, hw, dma>>
    BY <1>4, <2>2 DEF PanicPeek, Goto, Typed, TypeOK, ProgramPlaces, cb
  <2> QED
    BY <1>4, <2>1, <2>2 DEF PanicPeek
<1>5. CASE PanicEnd
  BY <1>5 DEF PanicEnd, OnEndTx, Goto, Typed, TypeOK, PanicPlaces, cb
<1>6. CASE PanicStop
  BY <1>6 DEF PanicStop, Goto, Typed, TypeOK, PanicPlaces, cb
<1> QED
  BY <1>1, <1>2, <1>3, <1>4, <1>5, <1>6 DEF Panic

LEMMA TypedInit == Init => Typed
<1> SUFFICES ASSUME Init PROVE Typed
  OBVIOUS
<1>1. 0 \in Slots /\ buf \in [Slots -> 0 .. MaxBytes] /\ dma \in [at : 0 .. Size, left : 0 .. Size]
  BY UartAssumption DEF Init, Slots
<1>2. read \in Slots /\ write \in Slots
  BY <1>1 DEF Init
<1>3. 0 \in 0 .. MaxMessage /\ 0 \in 0 .. MaxBytes
  BY UartAssumption
<1> QED
  BY <1>1, <1>2, <1>3 DEF Init, Typed, TypeOK, ProgramPlaces

LEMMA TypedStep == Typed /\ [Next]_vars => Typed'
<1>1. Typed /\ UNCHANGED vars => Typed'
  BY DEF vars, Typed, TypeOK
<1> QED
  BY <1>1, HardwareTypes, HandlerTypes, ProgramTypes, PanicTypes DEF Next

(* Every variable keeps its type: the DMA and the indices stay within the  *)
(* buffer, whatever the program looks at before it writes.                 *)
THEOREM TypeCorrect == Spec => []TypeOK
<1>1. Typed => TypeOK
  BY DEF Typed
<1> QED
  BY <1>1, TypedInit, TypedStep, PTL DEF Spec
-------------------------------------------------------------------------------
(* Who owns the transmitter *)

(* What an index that is equal to the other says.                          *)
LEMMA NothingToRead ==
  ASSUME TypeOK
  PROVE  CbPeekAvail = 0 <=> read = write
  BY UartAssumption DEF TypeOK, Slots, CbPeekAvail

LEMMA OnTxStoppedOwned ==
  ASSUME TypeOK, TransmitterOwned, OnTxStopped, "TXSTOPPED" \in events, main # "start",
         tx_active, isr' = "none",
         UNCHANGED <<panic, irq, main, enabled>>
  PROVE  TransmitterOwned' /\ hw = "stopped"
<1>1. hw = "stopped" /\ "ENDTX" \notin events /\ events' = {} /\ ~panic
  BY DEF TypeOK, TransmitterOwned, EventsTold, OnTxStopped
<1>2. CASE hw' = "sending" /\ UNCHANGED tx_active
  BY <1>1, <1>2 DEF TransmitterOwned, EventsTold, PanicPlaces
<1>3. CASE CbPeekAvail = 0 /\ tx_active' = FALSE /\ UNCHANGED <<cb, hw, dma>>
  BY <1>1, <1>3, NothingToRead DEF TransmitterOwned, EventsTold, cb, PanicPlaces
<1> QED
  BY <1>1, <1>2, <1>3 DEF OnTxStopped, SendAll

LEMMA OwnedInit == Init => TransmitterOwned
  BY DEF Init, TransmitterOwned, EventsTold, PanicPlaces

LEMMA OwnedStep ==
  ASSUME TypeOK, TransmitterOwned, [Next]_vars
  PROVE  TransmitterOwned' /\ (read' # read => hw = "stopped")
<1> USE DEF PanicPlaces
<1>1. CASE Hardware
  BY <1>1 DEF Hardware, SendByte, EndTx, Stopped, cb, TransmitterOwned, EventsTold
<1>2. CASE Interrupt \/ HandlerEndTx
  <2>1. CASE Interrupt
    BY <2>1 DEF Interrupt, cb, TransmitterOwned, EventsTold
  <2>2. CASE HandlerEndTx /\ "ENDTX" \in events
    BY <2>2 DEF HandlerEndTx, OnEndTx, cb, TransmitterOwned, EventsTold
  <2>3. CASE HandlerEndTx /\ "ENDTX" \notin events
    BY <2>3 DEF HandlerEndTx, cb, TransmitterOwned, EventsTold
  <2> QED
    BY <1>2, <2>1, <2>2, <2>3
<1>3. CASE HandlerTxStopped
  <2>1. CASE "TXSTOPPED" \in events
    <3>1. isr = "stopped" /\ tx_active /\ main # "start"
      BY <1>3 DEF HandlerTxStopped, TransmitterOwned, EventsTold
    <3>2. OnTxStopped /\ isr' = "none" /\ UNCHANGED <<panic, irq, main, enabled>>
      BY <1>3, <2>1 DEF HandlerTxStopped
    <3> QED
      BY <2>1, <3>1, <3>2, OnTxStoppedOwned
  <2>2. CASE "TXSTOPPED" \notin events
    BY <1>3, <2>2 DEF HandlerTxStopped, cb, TransmitterOwned, EventsTold
  <2> QED
    BY <2>1, <2>2
<1>4. CASE \E n \in 1 .. MaxMessage : Write(n)
  BY <1>4 DEF Write, At, Goto, KeepUart, TransmitterOwned, EventsTold
<1>5. CASE LogInit \/ Publish \/ Flush \/ Flushed
  <2>1. CASE LogInit
    BY <1>5, <2>1 DEF LogInit, At, KeepUart, cb, TransmitterOwned, EventsTold
  <2>2. CASE Publish
    BY <1>5, <2>2 DEF Publish, At, Goto, KeepUart, cb, TransmitterOwned, EventsTold
  <2>3. CASE Flush \/ Flushed
    BY <1>5, <2>3 DEF Flush, Flushed, At, Goto, KeepUart, cb, TransmitterOwned, EventsTold
  <2> QED
    BY <1>5, <2>1, <2>2, <2>3
<1>6. CASE Check
  BY <1>6, NothingToRead DEF Check, At, Goto, cb, TransmitterOwned, EventsTold
<1>7. CASE Start
  BY <1>7 DEF Start, SendAll, At, Goto, TransmitterOwned, EventsTold
<1>8. CASE Fault
  BY <1>8, UartAssumption DEF Fault, ProgramPlaces, cb, TransmitterOwned, EventsTold
<1>9. CASE PanicEndTx \/ PanicMode \/ CheckPanic
  <2>1. CASE PanicEndTx
    BY <2>1 DEF PanicEndTx, OnEndTx, At, cb, TransmitterOwned, EventsTold
  <2>2. CASE PanicMode
    BY <2>2 DEF PanicMode, At, Goto, KeepUart, cb, TransmitterOwned, EventsTold
  <2>3. CASE CheckPanic
    BY <2>3 DEF CheckPanic, At, Goto, KeepUart, cb, TransmitterOwned, EventsTold
  <2> QED
    BY <1>9, <2>1, <2>2, <2>3
<1>10. CASE PanicTxStopped
  BY <1>10, OnTxStoppedOwned DEF PanicTxStopped, At
<1>11. CASE PanicPeek
  BY <1>11, NothingToRead DEF PanicPeek, SendAll, At, Goto, cb, TransmitterOwned, EventsTold
<1>12. CASE PanicEnd \/ PanicStop
  <2>1. CASE PanicEnd
    BY <2>1 DEF PanicEnd, OnEndTx, At, Goto, cb, TransmitterOwned, EventsTold
  <2>2. CASE PanicStop
    <3>1. hw = "stopped" /\ events' = {}
      BY <2>2 DEF TypeOK, PanicStop, TransmitterOwned, EventsTold
    <3> QED
      BY <2>2, <3>1 DEF PanicStop, At, Goto, cb, TransmitterOwned, EventsTold
  <2> QED
    BY <1>12, <2>1, <2>2
<1>13. CASE UNCHANGED vars
  BY <1>13 DEF vars, TransmitterOwned, EventsTold
<1> QED
  BY <1>1, <1>2, <1>3, <1>4, <1>5, <1>6, <1>7, <1>8, <1>9, <1>10, <1>11, <1>12, <1>13
  DEF Next, Handler, Schedule, Panic

(* At every place of the program and of the handler it is known whose the  *)
(* transmitter is and which event can still come.                          *)
THEOREM AlwaysOwned == Spec => []TransmitterOwned
<1>1. Typed => TypeOK
  BY DEF Typed
<1>2. Typed /\ TransmitterOwned /\ [Next]_vars => TransmitterOwned'
  BY <1>1, OwnedStep
<1> QED
  BY <1>2, TypedInit, TypedStep, OwnedInit, PTL DEF Spec

(* Program, handler and panic never start the UARTE while it is running.   *)
THEOREM NeverStartedTwice == Spec => StartsWhenStopped
<1>1. TypeOK /\ TransmitterOwned /\ [Next]_vars => [read' # read => hw = "stopped"]_vars
  BY OwnedStep
<1> QED
  BY <1>1, TypeCorrect, AlwaysOwned, PTL DEF Spec, StartsWhenStopped
-------------------------------------------------------------------------------
(* What is in the buffer *)

LEMMA SmallModulo ==
  ASSUME NEW i \in Slots, NEW j \in Slots
  PROVE  (i - j) % Size = Size - Round(i, j)
<1>1. (i - j) % Size = IF i < j THEN i - j + Size ELSE i - j
  BY UartAssumption DEF Slots
<1> QED
  BY <1>1, UartAssumption DEF Slots, Round

LEMMA IndexTypes ==
  ASSUME NEW i \in Slots, NEW j \in Slots
  PROVE  /\ Span(i, j) \in Nat /\ Span(i, j) < Size
         /\ Round(i, j) \in Nat /\ Round(i, j) > 0 /\ Round(i, j) <= Size
  BY UartAssumption DEF Slots, Span, Round

(* An index moved on by n: what was before it is n further away, what it   *)
(* has passed counts from where it is now.                                 *)
LEMMA IndexMoves ==
  ASSUME NEW i \in Slots, NEW j \in Slots, NEW n \in Nat, n < Size
  PROVE  /\ Wrap(j + n) \in Slots
         /\ Span(i, j) + n < Size => Span(i, Wrap(j + n)) = Span(i, j) + n
         /\ Size - Round(i, j) >= n => Round(i, Wrap(j + n)) = Round(i, j) + n
         /\ Size - Round(i, j) < n => Round(i, Wrap(j + n)) = n - (Size - Round(i, j))
  BY UartAssumption DEF Slots, Span, Round, Wrap

(* What the DMA is given ends where the rest begins.                       *)
LEMMA PieceEnds ==
  ASSUME NEW i \in Slots, NEW j \in Slots, NEW n \in Nat, i + n <= Size
  PROVE  /\ Wrap(i + n) \in Slots
         /\ n > 0 /\ n + Span(Wrap(i + n), j) < Size => Round(i, j) = n + Span(Wrap(i + n), j)
         /\ n <= Span(i, j) => Span(i, j) = n + Span(Wrap(i + n), j)
  BY UartAssumption DEF Slots, Span, Round, Wrap

(* The numbers that the indices and counters are.                          *)
LEMMA Numbers ==
  ASSUME Typed
  PROVE  /\ Size \in Nat /\ Size > 1
         /\ read \in Slots /\ write \in Slots
         /\ dma.at \in Nat /\ dma.left \in Nat
         /\ written \in Nat /\ sent \in Nat /\ len \in Nat /\ len < Size
  BY UartAssumption DEF Typed, TypeOK

LEMMA ToldInit == Init => BufferTold
<1> SUFFICES ASSUME Init PROVE BufferTold
  OBVIOUS
<1>1. /\ read = 0 /\ write = 0 /\ written = 0 /\ sent = 0
      /\ hw = "stopped" /\ main = "idle" /\ dma.left = 0
  BY DEF Init
<1>2. Span(0, 0) = 0 /\ \A i \in Slots : Age(i) > 0 /\ Age(i) \in Nat
  BY <1>1, UartAssumption DEF Span, Age, Round, Slots
<1> QED
  BY <1>1, <1>2, UartAssumption DEF BufferTold

(* The bytes from "read" up to where they wrap around go to the DMA.       *)
LEMMA SendAllTold ==
  ASSUME Typed, BufferTold, hw = "stopped", SendAll,
         UNCHANGED <<written, sent>>, main' # "publish" \/ UNCHANGED <<main, len>>
  PROVE  BufferTold'
<1>1. /\ dma.left = 0 /\ dma'.at = read /\ dma'.left = CbPeekAvail
      /\ read' = Wrap(read + CbPeekAvail) /\ UNCHANGED <<buf, write>>
  BY DEF SendAll, BufferTold
<1>2. CbPeekAvail \in Nat /\ read + CbPeekAvail <= Size /\ CbPeekAvail <= Span(read, write)
  BY UartAssumption DEF Typed, TypeOK, Slots, CbPeekAvail, Span
<1>3. Span(read, write) = dma'.left + Span(read', write')
  BY <1>1, <1>2, Numbers, PieceEnds
<1>4. written - sent = Span(read, write) /\ written - sent < Size
  BY <1>1, Numbers, IndexTypes DEF BufferTold
<1>5. \A i : Age(i)' = Age(i)
  BY <1>1 DEF Age
<1> QED
  BY <1>1, <1>2, <1>3, <1>4, <1>5 DEF SendAll, BufferTold, Wrap

(* Steps that leave the buffer and the DMA alone.                          *)
LEMMA QuietTold ==
  ASSUME BufferTold, UNCHANGED <<cb, dma, written, sent>>,
         UNCHANGED hw \/ (dma.left = 0 /\ hw' # "sending"),
         main' # "publish" \/ UNCHANGED <<main, len>>
  PROVE  BufferTold'
<1>1. \A i : Age(i)' = Age(i)
  BY DEF cb, Age
<1> QED
  BY <1>1 DEF BufferTold, cb

(* The byte the DMA sends is the next one.                                 *)
LEMMA SendByteTold ==
  ASSUME Typed, BufferTold, SendByte
  PROVE  BufferTold' /\ sent' = sent + 1
<1>1. /\ hw = "sending" /\ dma.left > 0 /\ sent' = buf[dma.at]
      /\ dma'.at = dma.at + 1 /\ dma'.left = dma.left - 1
      /\ UNCHANGED <<buf, read, write, hw, main, len, written>>
  BY DEF SendByte, cb
<1>2. /\ dma.at + dma.left <= Size /\ read = Wrap(dma.at + dma.left)
      /\ written - sent = dma.left + Span(read, write)
      /\ written - sent < Size
  BY <1>1 DEF BufferTold
<1>3. /\ written \in Nat /\ sent \in Nat /\ dma.at \in Nat /\ dma.left \in Nat
      /\ dma.at \in Slots /\ read \in Slots /\ write \in Slots
      /\ Span(read, write) \in Nat /\ Age(dma.at) \in Nat
  BY <1>1, <1>2, Numbers, IndexTypes DEF Slots, Age
<1>4. Age(dma.at) = written - sent
  BY <1>1, <1>2, <1>3, PieceEnds DEF Age
<1>5. sent' = sent + 1
  <2>1. buf[dma.at] = written + 1 - Age(dma.at)
    BY <1>3, <1>4 DEF BufferTold
  <2> QED
    BY <1>1, <1>3, <1>4, <2>1
<1>6. \A i : Age(i)' = Age(i)
  BY <1>1 DEF Age
<1>7. \A i \in Slots : Age(i)' <= written' - sent' => buf'[i] = written' + 1 - Age(i)'
  <2> SUFFICES ASSUME NEW i \in Slots, Age(i) <= written - (sent + 1)
               PROVE  buf[i] = written + 1 - Age(i)
    BY <1>1, <1>5, <1>6
  <2>1. Age(i) \in Nat
    BY <1>3, IndexTypes DEF Age
  <2>2. Age(i) <= written - sent
    BY <1>3, <2>1
  <2> QED
    BY <2>2 DEF BufferTold
<1>8. main' = "publish" =>
        /\ written' - sent' + len' < Size
        /\ \A i \in Slots : Size - Age(i)' < len' => buf'[i] = written' + 1 + Size - Age(i)'
  <2> SUFFICES ASSUME main = "publish"
               PROVE  /\ written - (sent + 1) + len < Size
                      /\ \A i \in Slots : Size - Age(i) < len => buf[i] = written + 1 + Size - Age(i)
    BY <1>1, <1>5, <1>6
  <2>1. written - sent + len < Size
    BY DEF BufferTold
  <2> QED
    BY <2>1, Numbers DEF BufferTold
<1>9. /\ dma'.at + dma'.left <= Size /\ read' = Wrap(dma'.at + dma'.left)
      /\ written' - sent' = dma'.left + Span(read', write')
      /\ written' - sent' < Size
  <2>1. dma'.at + dma'.left = dma.at + dma.left
    BY <1>1, <1>3
  <2>2. read' = Wrap(dma'.at + dma'.left)
    BY <1>1, <1>2, <2>1
  <2>3. Span(read', write') = Span(read, write)
    BY <1>1
  <2>4. written' - sent' = dma.left - 1 + Span(read', write')
    BY <1>1, <1>2, <1>3, <1>5, <2>3
  <2>5. written' - sent' < Size
    BY <1>1, <1>2, <1>3, <1>5, UartAssumption
  <2> QED
    BY <1>1, <1>2, <2>1, <2>2, <2>4, <2>5
<1> QED
  BY <1>1, <1>5, <1>7, <1>8, <1>9 DEF BufferTold, Wrap, Span

(* Bytes are copied to where nothing lies that is not sent.                *)
LEMMA WriteTold ==
  ASSUME Typed, BufferTold, Room = "sent", NEW n \in 1 .. MaxMessage, Write(n)
  PROVE  BufferTold'
<1>1. /\ main' = "publish" /\ len' = n
      /\ UNCHANGED <<read, write, written, sent, dma, hw>>
      /\ written - sent + n < Size
  BY DEF Write, Goto, KeepUart, Fits
<1>2. \A i \in Slots : (i - write) % Size = Size - Age(i)
  BY SmallModulo, Numbers DEF Age
<1>3. \A i \in Slots : buf'[i] = IF Size - Age(i) < n THEN written + 1 + (Size - Age(i)) ELSE buf[i]
  BY <1>2 DEF Write
<1>4. \A i : Age(i)' = Age(i)
  BY <1>1 DEF Age
<1>5. \A i \in Slots : Age(i) \in Nat
  BY Numbers, IndexTypes DEF Age
<1>6. ASSUME NEW i \in Slots, Age(i) <= written - sent
      PROVE  buf'[i] = written + 1 - Age(i)
  <2>1. ~(Size - Age(i) < n)
    BY <1>1, <1>5, <1>6, Numbers
  <2> QED
    BY <1>3, <1>6, <2>1 DEF BufferTold
<1>7. ASSUME NEW i \in Slots, Size - Age(i) < n
      PROVE  buf'[i] = written + 1 + Size - Age(i)
  BY <1>3, <1>5, <1>7, Numbers
<1> QED
  BY <1>1, <1>4, <1>6, <1>7 DEF BufferTold, Wrap, Span

(* Moving the index makes them the last ones that count.                   *)
LEMMA PublishTold ==
  ASSUME Typed, BufferTold, Publish
  PROVE  BufferTold'
<1>1. /\ main = "publish" /\ main' # "publish"
      /\ write' = Wrap(write + len) /\ written' = written + len
      /\ UNCHANGED <<buf, read, sent, dma, hw>>
  BY DEF Publish, At, Goto, KeepUart
<1>2. /\ written - sent + len < Size
      /\ written - sent = dma.left + Span(read, write)
  BY <1>1 DEF BufferTold
<1>3. /\ Size \in Nat /\ written \in Nat /\ sent \in Nat /\ dma.left \in Nat
      /\ len \in Nat /\ len < Size /\ Span(read, write) \in Nat
  BY Numbers, IndexTypes
<1>4. Span(read, write) + len < Size
  BY <1>2, <1>3
<1>5. Span(read', write') = Span(read, write) + len
  BY <1>1, <1>3, <1>4, Numbers, IndexMoves
<1>6. /\ written' - sent' < Size
      /\ written' - sent' = dma'.left + Span(read', write')
  BY <1>1, <1>2, <1>3, <1>5
<1>7. ASSUME NEW i \in Slots, Age(i)' <= written' - sent'
      PROVE  buf'[i] = written' + 1 - Age(i)'
  <2>1. Age(i) \in Nat
    BY Numbers, IndexTypes DEF Age
  <2>2. CASE Size - Age(i) < len
    <3>1. Age(i)' = len - (Size - Age(i))
      BY <1>1, <1>3, <2>2, Numbers, IndexMoves DEF Age
    <3>2. buf[i] = written + 1 + Size - Age(i)
      BY <1>1, <2>2 DEF BufferTold
    <3> QED
      BY <1>1, <1>3, <2>1, <3>1, <3>2
  <2>3. CASE Size - Age(i) >= len
    <3>1. Age(i)' = Age(i) + len
      BY <1>1, <1>3, <2>3, Numbers, IndexMoves DEF Age
    <3>2. Age(i) <= written - sent
      BY <1>1, <1>3, <1>7, <2>1, <3>1
    <3>3. buf[i] = written + 1 - Age(i)
      BY <3>2 DEF BufferTold
    <3> QED
      BY <1>1, <1>3, <2>1, <3>1, <3>3
  <2> QED
    BY <1>3, <2>1, <2>2, <2>3
<1> QED
  BY <1>1, <1>6, <1>7 DEF BufferTold, Wrap, Span

LEMMA ToldStep ==
  ASSUME Typed, TransmitterOwned, BufferTold, Room = "sent", [Next]_vars
  PROVE  BufferTold' /\ (sent' # sent => sent' = sent + 1)
<1>1. CASE SendByte
  BY <1>1, SendByteTold
<1>2. CASE EndTx \/ Stopped
  <2>1. UNCHANGED <<cb, dma, written, sent, main, len>> /\ hw' # "sending"
    BY <1>2 DEF EndTx, Stopped
  <2>2. dma.left = 0
    BY <1>2 DEF EndTx, Stopped, BufferTold
  <2> QED
    BY <2>1, <2>2, QuietTold
<1>3. CASE Interrupt \/ HandlerEndTx
  <2>1. hw' = hw \/ (hw = "ended" /\ hw' = "stopping")
    BY <1>3 DEF Interrupt, HandlerEndTx, OnEndTx, TransmitterOwned, EventsTold
  <2>2. UNCHANGED <<cb, dma, written, sent, main, len>>
    BY <1>3 DEF Interrupt, HandlerEndTx
  <2>3. hw = "ended" => dma.left = 0
    BY DEF BufferTold
  <2> QED
    BY <2>1, <2>2, <2>3, QuietTold
<1>4. CASE HandlerTxStopped \/ PanicTxStopped
  <2>1. UNCHANGED <<written, sent, main, len>>
    BY <1>4 DEF HandlerTxStopped, PanicTxStopped
  <2>2. CASE "TXSTOPPED" \in events /\ SendAll
    <3>1. hw = "stopped"
      BY <2>2 DEF TransmitterOwned, EventsTold
    <3> QED
      BY <2>1, <2>2, <3>1, SendAllTold
  <2>3. CASE UNCHANGED <<cb, hw, dma>>
    BY <2>1, <2>3, QuietTold
  <2> QED
    BY <1>4, <2>1, <2>2, <2>3 DEF HandlerTxStopped, PanicTxStopped, OnTxStopped
<1>5. CASE \E n \in 1 .. MaxMessage : Write(n)
  <2>1. PICK n \in 1 .. MaxMessage : Write(n)
    BY <1>5
  <2> QED
    BY <2>1, WriteTold DEF Write
<1>6. CASE Publish
  BY <1>6, PublishTold DEF Publish
<1>7. CASE LogInit \/ Check \/ Flush \/ Flushed \/ Fault
  BY <1>7, QuietTold
  DEF LogInit, Check, Flush, Flushed, Fault, At, Goto, KeepUart, PanicPlaces
<1>8. CASE Start
  <2>1. hw = "stopped" /\ SendAll /\ UNCHANGED <<written, sent>> /\ main' # "publish"
    BY <1>8 DEF Start, At, Goto, TransmitterOwned
  <2> QED
    BY <2>1, SendAllTold
<1>9. CASE PanicMode \/ CheckPanic
  BY <1>9, QuietTold DEF PanicMode, CheckPanic, Goto, KeepUart
<1>10. CASE PanicPeek
  <2>1. main' # "publish" /\ UNCHANGED <<written, sent>>
    BY <1>10 DEF PanicPeek, Goto
  <2>2. CASE SendAll
    <3>1. hw = "stopped"
      BY <1>10 DEF PanicPeek, At, PanicPlaces, TransmitterOwned, EventsTold
    <3> QED
      BY <2>1, <2>2, <3>1, SendAllTold
  <2>3. CASE UNCHANGED <<cb, hw, dma>>
    BY <2>1, <2>3, QuietTold
  <2> QED
    BY <1>10, <2>2, <2>3 DEF PanicPeek
<1>11. CASE PanicEndTx \/ PanicEnd \/ PanicStop
  <2>1. hw' = hw \/ (hw = "ended" /\ hw' = "stopping")
    BY <1>11 DEF PanicEndTx, PanicEnd, PanicStop, OnEndTx, TransmitterOwned, EventsTold
  <2>2. UNCHANGED <<cb, dma, written, sent, len>> /\ main' # "publish"
    BY <1>11 DEF PanicEndTx, PanicEnd, PanicStop, Goto, At
  <2>3. hw = "ended" => dma.left = 0
    BY DEF BufferTold
  <2> QED
    BY <2>1, <2>2, <2>3, QuietTold
<1>12. CASE UNCHANGED vars
  BY <1>12, QuietTold DEF vars, cb
<1> QED
  BY <1>1, <1>2, <1>3, <1>4, <1>5, <1>6, <1>7, <1>8, <1>9, <1>10, <1>11, <1>12
  DEF Next, Hardware, Handler, Schedule, Panic

(* A program that waits until there is room for what is not sent yet never *)
(* overwrites any of it: the buffer and the DMA hold exactly those bytes.  *)
THEOREM BufferHoldsUnsent ==
  ASSUME Room = "sent"
  PROVE  Spec => []BufferTold
<1>1. Typed => TypeOK
  BY DEF Typed
<1>2. Typed /\ TransmitterOwned /\ BufferTold /\ [Next]_vars => BufferTold'
  BY ToldStep
<1> QED
  BY <1>1, <1>2, TypedInit, TypedStep, AlwaysOwned, ToldInit, PTL DEF Spec

(* Every byte such a program writes leaves once, in the order of writing,  *)
(* wherever handler, panic and DMA interleave with it.                     *)
THEOREM BytesInOrder ==
  ASSUME Room = "sent"
  PROVE  Spec => InOrder
<1>1. Typed /\ TransmitterOwned /\ BufferTold /\ [Next]_vars
        => [sent' # sent => sent' = sent + 1]_vars
  BY ToldStep
<1> QED
  BY <1>1, TypedInit, TypedStep, AlwaysOwned, BufferHoldsUnsent, PTL DEF Spec, InOrder

(* log_flush() returns only when the last byte is on the wire.             *)
THEOREM FlushLosesNothing ==
  ASSUME Room = "sent"
  PROVE  Spec => FlushDrains
<1>1. ASSUME Typed, TransmitterOwned, BufferTold, [Next]_vars
      PROVE  [main = "flush" /\ main' = "idle" => sent = written]_vars
  <2> SUFFICES ASSUME main = "flush", main' = "idle", Next
               PROVE  sent = written
    BY <1>1
  <2>1. ~tx_active
    BY DEF Next, Hardware, SendByte, EndTx, Stopped, Interrupt, Handler, HandlerEndTx,
           HandlerTxStopped, Schedule, LogInit, Publish, Check, Start, Flushed, Flush, Write,
           Fault, Panic, PanicEndTx, PanicTxStopped, PanicMode, CheckPanic, PanicPeek,
           PanicEnd, PanicStop, At, Goto
  <2>2. hw = "stopped" /\ read = write
    BY <1>1, <2>1 DEF TransmitterOwned, EventsTold
  <2>3. dma.left = 0 /\ Span(read, write) = 0
    BY <1>1, <2>2, Numbers DEF BufferTold, Span, Slots
  <2> QED
    BY <1>1, <2>3, Numbers DEF BufferTold
<1> QED
  BY <1>1, TypedInit, TypedStep, AlwaysOwned, BufferHoldsUnsent, PTL DEF Spec, FlushDrains
===============================================================================
