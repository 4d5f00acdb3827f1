------------------------------ MODULE LogRxProofs ------------------------------
(***************************************************************************)
(* Proofs about the receive ring and the buffer of log.c, for every size   *)
(* of them, whatever is sent, lost or not counted in time: what            *)
(* log_process() looks at are the bytes that arrived next, handlers are    *)
(* called with the frames in them, and the host decodes what they answered.*)
(* A frame that arrived whole is among them.                               *)
(*                                                                         *)
(* The argument counts.  Between read and dma lie the bytes that arrived   *)
(* and were not taken, and the last Unseen of them lie between write and   *)
(* dma.  They are fewer than the ring has places, so dma and write may be  *)
(* told from read although both wrap.                                      *)
(*                                                                         *)
(* On both sides a frame is what AfterLast says just before a zero.  How   *)
(* AfterLast and FramesIn change with one byte more and with a run of      *)
(* bytes more tells what they are for any pieces; CobsProofs tells what    *)
(* is decoded from them.                                                   *)
(***************************************************************************)
EXTENDS LogRx, CobsProofs
-------------------------------------------------------------------------------
(* Places in the ring *)

LEMMA Sizes == RxSize \in Nat /\ RxSize > 1 /\ Slots = 0 .. RxSize - 1
  BY LogRxAssumption DEF Slots

LEMMA WrapIs ==
  ASSUME NEW i \in 0 .. 2 * RxSize - 1
  PROVE  /\ Wrap(i) \in Slots
         /\ i < RxSize => Wrap(i) = i
         /\ ~(i < RxSize) => Wrap(i) = i - RxSize
  BY Sizes DEF Wrap

(* Wrapping on the way is as good as wrapping in the end.                  *)
LEMMA WrapOn ==
  ASSUME NEW i \in Nat, NEW k \in Nat, i + k <= 2 * RxSize - 1
  PROVE  Wrap(Wrap(i) + k) = Wrap(i + k)
  <1>1. i \in 0 .. 2 * RxSize - 1 /\ i + k \in 0 .. 2 * RxSize - 1
    BY Sizes
  <1>2. CASE i < RxSize
    BY <1>1, <1>2, WrapIs
  <1>3. CASE ~(i < RxSize)
    <2>1. Wrap(i) = i - RxSize /\ ~(i + k < RxSize) /\ Wrap(i + k) = i + k - RxSize
      BY <1>1, <1>3, Sizes, WrapIs
    <2>2. /\ (i - RxSize) + k = i + k - RxSize
          /\ (i - RxSize) + k < RxSize /\ (i - RxSize) + k \in 0 .. 2 * RxSize - 1
      BY <1>1, <1>3, Sizes
    <2>3. Wrap((i - RxSize) + k) = (i - RxSize) + k
      BY <2>2, WrapIs
    <2> QED BY <2>1, <2>2, <2>3
  <1> QED BY <1>2, <1>3

(* Less than a ring apart is apart.                                        *)
LEMMA WrapApart ==
  ASSUME NEW r \in Slots, NEW i \in Slots, NEW j \in Slots, i # j
  PROVE  Wrap(r + i) # Wrap(r + j)
  <1>1. /\ r + i \in 0 .. 2 * RxSize - 1 /\ r + j \in 0 .. 2 * RxSize - 1
        /\ r \in Int /\ i \in Int /\ j \in Int /\ RxSize \in Int
        /\ 0 <= i /\ i < RxSize /\ 0 <= j /\ j < RxSize
    BY Sizes
  <1>2. CASE r + i < RxSize /\ r + j < RxSize
    BY <1>1, <1>2, WrapIs
  <1>3. CASE r + i < RxSize /\ ~(r + j < RxSize)
    BY <1>1, <1>3, WrapIs
  <1>4. CASE ~(r + i < RxSize) /\ r + j < RxSize
    BY <1>1, <1>4, WrapIs
  <1>5. CASE ~(r + i < RxSize) /\ ~(r + j < RxSize)
    BY <1>1, <1>5, WrapIs
  <1> QED BY <1>2, <1>3, <1>4, <1>5
-------------------------------------------------------------------------------
(* What the ring holds *)

Values(s) == {s[i] : i \in DOMAIN s}

(* The bytes that arrived and were not taken, and those of them that the   *)
(* handler has not counted: the last one may still be, the others never.   *)
Behind == Len(stream) - taken
Unseen == missed + IF rxdrdy THEN 1 ELSE 0

RingInv ==
  /\ stream \in Seq(Values(stream)) /\ taken \in Nat
  /\ missed \in Nat /\ rxdrdy \in BOOLEAN
  /\ Behind \in Unseen .. RxSize - 1
  /\ ring = [i \in Slots |-> ring[i]] /\ read \in Slots
  /\ dma = Wrap(read + Behind)
  /\ write = Wrap(read + (Behind - Unseen))
  /\ \A j \in 0 .. Behind - 1 : ring[Wrap(read + j)] = stream[taken + j + 1]

(* From where reading stands, what is counted lies in one piece or ends    *)
(* with the ring.                                                          *)
LEMMA AvailIs ==
  ASSUME NEW r \in Slots, NEW n \in 0 .. RxSize - 1
  PROVE  (IF r <= Wrap(r + n) THEN Wrap(r + n) - r ELSE RxSize - r)
           = IF r + n < RxSize THEN n ELSE RxSize - r
  <1>1. /\ r \in Int /\ n \in Int /\ RxSize \in Int /\ 0 <= r /\ r < RxSize
        /\ 0 <= n /\ n < RxSize /\ r + n \in 0 .. 2 * RxSize - 1
    BY Sizes
  <1> DEFINE i == r + n
  <1>2. /\ i < RxSize => Wrap(i) = i
        /\ ~(i < RxSize) => Wrap(i) = i - RxSize
    BY <1>1, WrapIs
  <1>3. CASE i < RxSize
    BY <1>1, <1>2, <1>3
  <1>4. CASE ~(i < RxSize)
    BY <1>1, <1>2, <1>4
  <1> QED BY <1>3, <1>4

(* The counts are numbers, and a place read on from read is in the ring.   *)
LEMMA Counts ==
  ASSUME RingInv
  PROVE  /\ Behind \in Nat /\ Unseen \in Nat /\ Unseen <= Behind /\ Behind < RxSize
         /\ Behind - Unseen \in 0 .. RxSize - 1
         /\ read \in 0 .. RxSize - 1 /\ RxSize \in Nat
         /\ Len(stream) \in Nat /\ taken \in Nat /\ Len(stream) = taken + Behind
  <1>1. /\ Behind \in Unseen .. RxSize - 1 /\ read \in Slots
        /\ stream \in Seq(Values(stream)) /\ taken \in Nat
    BY DEF RingInv
  <1>2. Len(stream) \in Nat
    BY <1>1
  <1>3. Unseen \in Nat
    BY DEF RingInv, Unseen
  <1>4. Behind = Len(stream) - taken
    BY DEF Behind
  <1> QED BY <1>1, <1>2, <1>3, <1>4, Sizes

(* The bytes to look at are counted ones.                                  *)
LEMMA AvailCounted ==
  ASSUME RingInv
  PROVE  /\ RxAvail = IF read + (Behind - Unseen) < RxSize
                      THEN Behind - Unseen ELSE RxSize - read
         /\ RxAvail \in 0 .. Behind - Unseen /\ read + RxAvail <= RxSize
  <1>1. RxAvail = IF read + (Behind - Unseen) < RxSize
                  THEN Behind - Unseen ELSE RxSize - read
    BY Counts, AvailIs DEF RxAvail, RingInv
  <1> QED BY <1>1, Counts

(* Each of them is where it is looked for.                                 *)
LEMMA LooksAt ==
  ASSUME RingInv, NEW i \in 1 .. RxAvail
  PROVE  /\ i - 1 \in 0 .. Behind - 1
         /\ Wrap(read + (i - 1)) = read + i - 1
         /\ Peeked[i] = ring[read + i - 1]
  <1>1. /\ Behind \in Int /\ Unseen \in Int /\ 0 <= Unseen /\ RxSize \in Int
        /\ read \in Int /\ 0 <= read /\ read < RxSize
    BY Counts
  <1>2. /\ i \in Int /\ RxAvail \in Int /\ 1 <= i /\ i <= RxAvail
        /\ RxAvail <= Behind - Unseen /\ read + RxAvail <= RxSize
    BY <1>1, AvailCounted
  <1>3. i - 1 \in 0 .. Behind - 1
    BY <1>1, <1>2
  <1>4. /\ read + (i - 1) \in 0 .. 2 * RxSize - 1 /\ read + (i - 1) < RxSize
        /\ read + (i - 1) = read + i - 1
    BY <1>1, <1>2
  <1>5. Wrap(read + (i - 1)) = read + (i - 1)
    BY <1>4, WrapIs
  <1> QED BY <1>3, <1>4, <1>5 DEF Peeked
-------------------------------------------------------------------------------
(* The steps *)

LEMMA InitRing == Init => RingInv
  <1> SUFFICES ASSUME Init PROVE RingInv
    OBVIOUS
  <1>1. Len(stream) = 0 /\ stream \in Seq(Values(stream)) /\ Behind = 0 /\ Unseen = 0
    BY DEF Init, Behind, Unseen
  <1>2. 0 \in Slots /\ 0 \in 0 .. 2 * RxSize - 1 /\ 0 < RxSize
    BY Sizes
  <1>3. Wrap(0) = 0
    BY <1>2, WrapIs
  <1>4. taken = 0 /\ missed = 0 /\ rxdrdy = FALSE /\ read = 0 /\ dma = 0 /\ write = 0
    BY DEF Init
  <1>5. ring = [i \in Slots |-> ring[i]]
    BY DEF Init
  <1>6. Behind \in Unseen .. RxSize - 1 /\ read + Behind = 0 /\ read + (Behind - Unseen) = 0
    BY <1>1, <1>4, Sizes
  <1>7. \A j \in 0 .. Behind - 1 : ring[Wrap(read + j)] = stream[taken + j + 1]
    BY <1>1
  <1> QED BY <1>1, <1>2, <1>3, <1>4, <1>5, <1>6, <1>7 DEF RingInv

(* A byte more arrives.                                                    *)
LEMMA Arrived ==
  ASSUME NEW s, s \in Seq(Values(s)), NEW b
  PROVE  /\ Append(s, b) \in Seq(Values(Append(s, b)))
         /\ Len(Append(s, b)) = Len(s) + 1 /\ Append(s, b)[Len(s) + 1] = b
         /\ \A i \in 1 .. Len(s) : Append(s, b)[i] = s[i]
  <1> DEFINE V == Values(s) \union {b}
             t == Append(s, b)
  <1>1. s \in Seq(V) /\ b \in V
    OBVIOUS
  <1> HIDE DEF V
  <1>2. /\ t \in Seq(V) /\ Len(t) = Len(s) + 1 /\ t[Len(s) + 1] = b
        /\ \A i \in 1 .. Len(s) : t[i] = s[i]
    BY <1>1
  <1> HIDE DEF t
  <1>3. t \in Seq(Values(t))
    BY <1>2 DEF Values
  <1> QED BY <1>2, <1>3 DEF t

LEMMA ReceiveRing ==
  ASSUME RingInv, NEW b, Receive(b)
  PROVE  RingInv'
  <1>1. /\ Behind \in Int /\ Unseen \in Int /\ 0 <= Unseen /\ Unseen <= Behind
        /\ Behind < RxSize /\ read \in Int /\ 0 <= read /\ read < RxSize
        /\ RxSize \in Int /\ Len(stream) \in Int /\ taken \in Int /\ 0 <= taken
        /\ Len(stream) = taken + Behind
    BY Counts
  <1>2. /\ stream' = Append(stream, b) /\ taken' = taken /\ read' = read /\ write' = write
        /\ rxdrdy' = TRUE /\ missed' = missed + (IF rxdrdy THEN 1 ELSE 0)
        /\ dma' = Wrap(dma + 1) /\ ring' = [ring EXCEPT ![dma] = b]
        /\ Len(stream) - taken < RxSize - 1
    BY DEF Receive
  <1>3. /\ stream' \in Seq(Values(stream')) /\ Len(stream') = Len(stream) + 1
        /\ stream'[Len(stream) + 1] = b
        /\ \A i \in 1 .. Len(stream) : stream'[i] = stream[i]
    BY <1>2, Arrived DEF RingInv
  <1>4. missed' \in Nat /\ Unseen' = Unseen + 1
    BY <1>2 DEF RingInv, Unseen
  <1>5. Behind' = Behind + 1 /\ Behind + 1 < RxSize
    BY <1>1, <1>2, <1>3 DEF Behind
  <1>6. Behind' \in Unseen' .. RxSize - 1 /\ Behind' - Unseen' = Behind - Unseen
    BY <1>4, <1>5, <1>1
  <1>7. dma = Wrap(read + Behind) /\ dma \in Slots
    <2>1. read + Behind \in 0 .. 2 * RxSize - 1
      BY <1>1
    <2> QED BY <2>1, WrapIs DEF RingInv
  <1>8. dma' = Wrap(read' + Behind')
    <2>1. read + Behind \in Nat /\ (read + Behind) + 1 <= 2 * RxSize - 1 /\ 1 \in Nat
      BY <1>5, <1>1
    <2>2. Wrap(Wrap(read + Behind) + 1) = Wrap((read + Behind) + 1)
      BY <2>1, WrapOn
    <2>3. (read + Behind) + 1 = read + (Behind + 1)
      BY <1>1
    <2> QED BY <1>2, <1>5, <1>7, <2>2, <2>3
  <1>9. ASSUME NEW j \in 0 .. Behind
        PROVE  ring'[Wrap(read + j)] = stream'[taken + j + 1]
    <2>1. /\ j \in Slots /\ Behind \in Slots /\ read \in Slots
          /\ taken + j + 1 \in 1 .. Len(stream) + 1
          /\ j # Behind => j \in 0 .. Behind - 1 /\ taken + j + 1 \in 1 .. Len(stream)
          /\ taken + Behind + 1 = Len(stream) + 1
          /\ read + j \in 0 .. 2 * RxSize - 1
      BY <1>1, Sizes
    <2>2. Wrap(read + j) \in Slots
      BY <2>1, WrapIs
    <2>3. CASE j = Behind
      BY <1>2, <1>3, <1>7, <2>1, <2>3 DEF RingInv
    <2>4. CASE j # Behind
      <3>1. Wrap(read + j) # dma
        BY <1>7, <2>1, <2>4, WrapApart
      <3>2. ring'[Wrap(read + j)] = ring[Wrap(read + j)]
        BY <1>2, <2>2, <3>1 DEF RingInv
      <3>3. ring[Wrap(read + j)] = stream[taken + j + 1]
        BY <2>1, <2>4 DEF RingInv
      <3> QED BY <1>3, <2>1, <2>4, <3>2, <3>3
    <2> QED BY <2>3, <2>4
  <1>10. \A j \in 0 .. Behind' - 1 : ring'[Wrap(read' + j)] = stream'[taken' + j + 1]
    BY <1>2, <1>5, <1>9, <1>1
  <1>11. /\ ring' = [i \in Slots |-> ring'[i]] /\ read' \in Slots
         /\ taken' \in Nat /\ rxdrdy' \in BOOLEAN
    BY <1>2 DEF RingInv
  <1>12. write' = Wrap(read' + (Behind' - Unseen'))
    BY <1>2, <1>6 DEF RingInv
  <1> QED
    BY <1>3, <1>4, <1>6, <1>8, <1>10, <1>11, <1>12 DEF RingInv

LEMMA CountRing ==
  ASSUME RingInv, OnRxdRdy
  PROVE  RingInv' /\ Unseen' = Unseen - 1 /\ Behind' = Behind
  <1>1. /\ Behind \in Int /\ Unseen \in Int /\ 0 <= Unseen /\ Unseen <= Behind
        /\ Behind < RxSize /\ read \in Int /\ 0 <= read /\ read < RxSize
        /\ RxSize \in Int /\ Len(stream) \in Int /\ taken \in Int /\ 0 <= taken
        /\ Len(stream) = taken + Behind
    BY Counts
  <1>2. /\ UNCHANGED <<stream, taken, read, ring, dma, missed>>
        /\ rxdrdy = TRUE /\ rxdrdy' = FALSE /\ write' = Wrap(write + 1)
    BY DEF OnRxdRdy, counts, RingInv
  <1>3. Unseen = missed + 1 /\ Unseen' = missed /\ missed \in Nat
    BY <1>2 DEF Unseen, RingInv
  <1>4. Behind' = Behind
    BY <1>2 DEF Behind
  <1>5. /\ Unseen' = Unseen - 1 /\ Behind' \in Unseen' .. RxSize - 1
        /\ Behind' - Unseen' = (Behind - Unseen) + 1
    BY <1>3, <1>4, <1>1
  <1> DEFINE i == read + (Behind - Unseen)
  <1>6. i \in Nat /\ 1 \in Nat /\ i + 1 <= 2 * RxSize - 1 /\ write = Wrap(i)
        /\ read' + (Behind' - Unseen') = i + 1
    <2>1. write = Wrap(i)
      BY DEF RingInv
    <2>2. i \in Nat /\ i + 1 <= 2 * RxSize - 1
      BY <1>1
    <2>3. read' + (Behind' - Unseen') = i + 1
      <3>1. read + ((Behind - Unseen) + 1) = i + 1
        BY <1>1
      <3>2. read' = read
        BY <1>2
      <3> QED BY <1>5, <3>1, <3>2
    <2> QED BY <2>1, <2>2, <2>3
  <1> HIDE DEF i
  <1>7. write' = Wrap(read' + (Behind' - Unseen'))
    BY <1>2, <1>6, WrapOn
  <1>8. \A j \in 0 .. Behind' - 1 : ring'[Wrap(read' + j)] = stream'[taken' + j + 1]
    BY <1>2, <1>4 DEF RingInv
  <1>9. dma' = Wrap(read' + Behind')
    BY <1>2, <1>4 DEF RingInv
  <1> QED BY <1>2, <1>4, <1>5, <1>7, <1>8, <1>9 DEF RingInv

LEMMA SkipRing ==
  ASSUME RingInv, NEW n \in 0 .. RxAvail, Skip(n), UNCHANGED <<stream, missed>>
  PROVE  RingInv'
  <1>1. /\ Behind \in Int /\ Unseen \in Int /\ 0 <= Unseen /\ Unseen <= Behind
        /\ Behind < RxSize /\ read \in Int /\ 0 <= read /\ read < RxSize
        /\ RxSize \in Int /\ Len(stream) \in Int /\ taken \in Int /\ 0 <= taken
        /\ Len(stream) = taken + Behind
    BY Counts
  <1>2. /\ RxAvail \in Int /\ 0 <= RxAvail /\ RxAvail <= Behind - Unseen
        /\ read + RxAvail <= RxSize
    BY <1>1, AvailCounted
  <1>3. n \in Int /\ 0 <= n /\ n <= Behind - Unseen /\ read + n <= RxSize
    BY <1>1, <1>2
  <1>4. /\ UNCHANGED <<stream, ring, write, dma, rxdrdy, missed>>
        /\ read' = Wrap(read + n) /\ taken' = taken + n
    BY DEF Skip
  <1>5. n \in Nat /\ read + n \in 0 .. 2 * RxSize - 1
    BY <1>1, <1>3
  <1>6. Behind' = Behind - n /\ Unseen' = Unseen
    BY <1>1, <1>4, <1>3 DEF Behind, Unseen
  <1>7. /\ Behind' \in Unseen' .. RxSize - 1 /\ taken' \in Nat
        /\ Behind' - Unseen' = (Behind - Unseen) - n
    BY <1>4, <1>1, <1>3, <1>6
  <1>8. read' \in Slots
    BY <1>4, <1>5, WrapIs
  <1>9. ASSUME NEW k \in Nat, k < RxSize
        PROVE  Wrap(read' + k) = Wrap(read + (n + k))
    <2>1. /\ read + n \in Nat /\ (read + n) + k <= 2 * RxSize - 1
          /\ (read + n) + k = read + (n + k)
      BY <1>5, <1>9, <1>1, <1>3
    <2> QED BY <1>4, <2>1, WrapOn
  <1>10. dma' = Wrap(read' + Behind')
    <2>1. Behind' \in Nat /\ Behind' < RxSize /\ n + Behind' = Behind
      BY <1>1, <1>3, <1>6
    <2> QED BY <1>4, <1>9, <2>1 DEF RingInv
  <1>11. write' = Wrap(read' + (Behind' - Unseen'))
    <2>1. /\ Behind' - Unseen' \in Nat /\ Behind' - Unseen' < RxSize
          /\ n + (Behind' - Unseen') = Behind - Unseen
      BY <1>1, <1>3, <1>6
    <2> QED BY <1>4, <1>9, <2>1 DEF RingInv
  <1>12. ASSUME NEW j \in 0 .. Behind' - 1
        PROVE  ring'[Wrap(read' + j)] = stream'[taken' + j + 1]
    <2>1. /\ j \in Nat /\ j < RxSize /\ n + j \in 0 .. Behind - 1
          /\ taken + (n + j) + 1 = taken' + j + 1
      BY <1>4, <1>1, <1>3, <1>6
    <2>2. ring[Wrap(read + (n + j))] = stream[taken + (n + j) + 1]
      BY <2>1 DEF RingInv
    <2> QED BY <1>4, <1>9, <2>1, <2>2
  <1>13. /\ stream' \in Seq(Values(stream')) /\ missed' \in Nat /\ rxdrdy' \in BOOLEAN
         /\ ring' = [i \in Slots |-> ring'[i]]
    BY <1>4 DEF RingInv
  <1> QED BY <1>7, <1>8, <1>10, <1>11, <1>12, <1>13 DEF RingInv

LEMMA StillRing ==
  ASSUME RingInv, UNCHANGED <<rx, stream, taken, missed>>
  PROVE  RingInv'
  BY DEF RingInv, Behind, Unseen, Values, rx

LEMMA LogProcessSkips ==
  ASSUME RingInv, LogProcess
  PROVE  /\ UNCHANGED <<stream, missed>>
         /\ \/ UNCHANGED <<rx, taken>>
            \/ \E n \in 0 .. RxAvail : Skip(n)
  <1>1. RxAvail \in Nat
    BY Counts, AvailCounted
  <1>2. CASE SkipZero
    BY <1>1, <1>2 DEF SkipZero, counts
  <1>3. CASE BeginFrame
    BY <1>3 DEF BeginFrame, counts
  <1>4. CASE More
    BY <1>1, <1>4 DEF More, counts
  <1>5. CASE EndFrame
    <2>1. PICK e \in DOMAIN Peeked : Skip(e - 1)
      BY <1>5 DEF EndFrame
    <2>2. e - 1 \in 0 .. RxAvail
      BY <1>1 DEF Peeked
    <2> QED BY <1>5, <2>1, <2>2 DEF EndFrame, counts
  <1> QED BY <1>2, <1>3, <1>4, <1>5 DEF LogProcess

LEMMA StepsOfRing ==
  ASSUME RingInv, [Next]_vars
  PROVE  \/ UNCHANGED <<rx, stream, taken, missed>>
         \/ \E b : Receive(b)
         \/ OnRxdRdy
         \/ \E n \in 0 .. RxAvail : Skip(n) /\ UNCHANGED <<stream, missed>>
  <1>1. CASE Send
    BY <1>1 DEF Send, counts
  <1>2. CASE Deliver
    BY <1>2 DEF Deliver
  <1>3. CASE Damage
    BY <1>3 DEF Damage
  <1>4. CASE LogProcess
    BY <1>4, LogProcessSkips
  <1>5. CASE HostReceive
    BY <1>5 DEF HostReceive, counts
  <1>6. CASE UNCHANGED vars
    BY <1>6 DEF vars, counts
  <1> QED BY <1>1, <1>2, <1>3, <1>4, <1>5, <1>6 DEF Next

LEMMA NextRing == RingInv /\ [Next]_vars => RingInv'
  BY StepsOfRing, StillRing, ReceiveRing, CountRing, SkipRing

LEMMA RingAlways == Spec => []RingInv
  BY InitRing, NextRing, PTL DEF Spec
-------------------------------------------------------------------------------
(* What the program sees *)

LEMMA SeesStream ==
  ASSUME RingInv
  PROVE  RingTold
  <1>1. /\ RxAvail \in Nat /\ taken \in Nat /\ Len(stream) \in Nat
        /\ taken + RxAvail <= Len(stream)
    BY Counts, AvailCounted
  <1>2. ASSUME NEW i \in 1 .. RxAvail
        PROVE  Peeked[i] = stream[taken + i]
    <2>1. /\ i - 1 \in 0 .. Behind - 1 /\ Wrap(read + (i - 1)) = read + i - 1
          /\ Peeked[i] = ring[read + i - 1]
      BY LooksAt
    <2>2. taken + (i - 1) + 1 = taken + i
      BY <1>1
    <2> QED BY <2>1, <2>2 DEF RingInv
  <1>3. /\ SubSeq(stream, taken + 1, taken + RxAvail)
             = [i \in 1 .. RxAvail |-> stream[taken + i]]
    <2>1. stream \in Seq(Values(stream))
      BY DEF RingInv
    <2> QED BY <1>1, <2>1
  <1>4. Peeked = [i \in 1 .. RxAvail |-> Peeked[i]]
    BY DEF Peeked
  <1> QED BY <1>1, <1>2, <1>3, <1>4 DEF RingTold

(* Invariant: what log_process() looks at are the bytes that arrived next, *)
(* for every size of the ring and whatever the handler has not counted.    *)
THEOREM SeesWhatArrived == Spec => []RingTold
  BY RingAlways, SeesStream, PTL

LEMMA PieceAt ==
  ASSUME NEW s, s \in Seq(Values(s)), NEW k \in Nat, NEW n \in Nat, k + n <= Len(s),
         NEW i \in 1 .. n
  PROVE  SubSeq(s, k + 1, k + n)[i] = s[k + i] /\ k + i \in 1 .. Len(s)
  <1>1. SubSeq(s, k + 1, k + n) = [j \in 1 .. n |-> s[k + j]]
    OBVIOUS
  <1> QED BY <1>1

(* While nothing is taken, what is counted grows at the far end.           *)
LEMMA Grows ==
  ASSUME RingInv, [Next]_vars, taken' = taken
  PROVE  /\ read' = read
         /\ Behind' - Unseen' \in {Behind - Unseen, (Behind - Unseen) + 1}
         /\ \A i \in 1 .. Len(stream) : stream'[i] = stream[i]
  <1>1. CASE UNCHANGED <<rx, stream, taken, missed>>
    BY <1>1 DEF rx, Behind, Unseen
  <1>2. CASE \E b : Receive(b)
    <2>1. PICK b : Receive(b)
      BY <1>2
    <2>2. /\ stream' = Append(stream, b) /\ read' = read
          /\ rxdrdy' = TRUE /\ missed' = missed + (IF rxdrdy THEN 1 ELSE 0)
      BY <2>1 DEF Receive
    <2>3. /\ Len(stream') = Len(stream) + 1
          /\ \A i \in 1 .. Len(stream) : stream'[i] = stream[i]
      BY <2>2, Arrived DEF RingInv
    <2>4. Unseen' = Unseen + 1
      BY <2>2 DEF RingInv, Unseen
    <2>5. Len(stream) \in Int /\ taken \in Int /\ Unseen \in Int /\ Behind \in Int
      BY Counts
    <2>6. Behind' = Behind + 1
      BY <2>3, <2>5 DEF Behind
    <2> QED BY <2>2, <2>3, <2>4, <2>5, <2>6
  <1>3. CASE OnRxdRdy
    <2>1. Unseen' = Unseen - 1 /\ Behind' = Behind
      BY <1>3, CountRing
    <2>2. Unseen \in Int /\ Behind \in Int
      BY Counts
    <2>3. Behind' - Unseen' = (Behind - Unseen) + 1
      BY <2>1, <2>2
    <2>4. read' = read /\ stream' = stream
      BY <1>3 DEF OnRxdRdy
    <2> QED BY <2>3, <2>4
  <1>4. CASE \E n \in 0 .. RxAvail : Skip(n) /\ UNCHANGED <<stream, missed>>
    <2>1. PICK n \in 0 .. RxAvail : Skip(n) /\ UNCHANGED <<stream, missed>>
      BY <1>4
    <2>2. /\ read' = Wrap(read + n) /\ taken' = taken + n
          /\ UNCHANGED <<rxdrdy, stream, missed>>
      BY <2>1 DEF Skip
    <2>3. n = 0
      BY <2>2, Counts
    <2>4. read + n = read /\ read \in 0 .. 2 * RxSize - 1 /\ read < RxSize
      BY <2>3, Counts
    <2>5. read' = read
      BY <2>2, <2>4, WrapIs
    <2>6. Behind' = Behind /\ Unseen' = Unseen
      BY <2>2 DEF Behind, Unseen
    <2> QED BY <2>2, <2>5, <2>6
  <1> QED BY <1>1, <1>2, <1>3, <1>4, StepsOfRing

LEMMA Fits ==
  ASSUME NEW b \in Int, NEW u \in Int, 0 <= u, u <= b, b <= RxSize - 1
  PROVE  b - u \in 0 .. RxSize - 1
  BY Sizes

LEMMA OneMore ==
  ASSUME NEW n \in Nat, NEW c \in BOOLEAN
  PROVE  n + (IF c THEN 1 ELSE 0) \in Nat
  OBVIOUS

LEMMA CountedAfter ==
  ASSUME RingInv'
  PROVE  Behind' - Unseen' \in 0 .. RxSize - 1
  <1>1. missed' \in Nat /\ rxdrdy' \in BOOLEAN
    BY DEF RingInv
  <1>2. Unseen' \in Nat
    BY <1>1, OneMore, Zenon DEF Unseen
  <1>3. Behind' \in Unseen' .. RxSize - 1
    BY DEF RingInv
  <1>4. Unseen' \in Int /\ 0 <= Unseen'
    BY <1>2
  <1>5. Behind' \in Int /\ Unseen' <= Behind' /\ Behind' <= RxSize - 1
    BY <1>3, <1>4, Sizes
  <1> QED BY <1>4, <1>5, Fits

LEMMA SeesNoLess ==
  ASSUME RingInv, RingInv', [Next]_vars, taken' = taken
  PROVE  RxAvail' \in Nat /\ RxAvail \in Nat /\ RxAvail <= RxAvail'
  <1> DEFINE n == Behind - Unseen
             m == Behind' - Unseen'
  <1>1. /\ n \in Int /\ 0 <= n /\ n < RxSize
        /\ read \in Int /\ 0 <= read /\ read < RxSize /\ RxSize \in Int
    BY Counts
  <1>2. read' = read /\ m \in {n, n + 1}
    BY Grows
  <1>3. m \in 0 .. RxSize - 1
    BY CountedAfter
  <1>4. RxAvail = IF read + n < RxSize THEN n ELSE RxSize - read
    BY AvailCounted
  <1>5. RxAvail' = IF read + m < RxSize THEN m ELSE RxSize - read
    <2>1. read \in Slots /\ write' = Wrap(read + m)
      BY <1>2 DEF RingInv
    <2> HIDE DEF m
    <2>2. (IF read <= write' THEN write' - read ELSE RxSize - read)
            = IF read + m < RxSize THEN m ELSE RxSize - read
      BY <1>3, <2>1, AvailIs
    <2> QED BY <1>2, <2>2 DEF RxAvail
  <1> HIDE DEF n, m
  <1> QED BY <1>1, <1>2, <1>4, <1>5

(* Action property: between uart_rx_peek() and uart_rx_skip() the bytes    *)
(* looked at stay, whatever arrives and whatever the handler counts.       *)
THEOREM LooksTwice == Spec => PeekStays
  <1>1. ASSUME RingInv, RingInv', RingTold, RingTold', [Next]_vars, taken' = taken,
               NEW i \in DOMAIN Peeked
        PROVE  i \in DOMAIN Peeked' /\ Peeked'[i] = Peeked[i]
    <2>1. /\ RxAvail' \in Nat /\ RxAvail \in Nat /\ RxAvail <= RxAvail'
          /\ i \in 1 .. RxAvail /\ i \in 1 .. RxAvail'
      BY <1>1, SeesNoLess DEF Peeked
    <2>2. /\ taken \in Nat /\ taken + RxAvail <= Len(stream)
          /\ taken' \in Nat /\ taken' + RxAvail' <= Len(stream')
          /\ stream \in Seq(Values(stream)) /\ stream' \in Seq(Values(stream'))
      BY <1>1 DEF RingTold, RingInv
    <2>3. Peeked[i] = stream[taken + i] /\ taken + i \in 1 .. Len(stream)
      BY <1>1, <2>1, <2>2, PieceAt DEF RingTold
    <2>4. Peeked'[i] = stream'[taken' + i]
      BY <1>1, <2>1, <2>2, PieceAt DEF RingTold
    <2>5. stream'[taken + i] = stream[taken + i]
      BY <1>1, <2>3, Grows
    <2>6. i \in DOMAIN Peeked'
      BY <2>1 DEF Peeked
    <2> QED BY <1>1, <2>3, <2>4, <2>5, <2>6
  <1>2. RingInv /\ RingInv' /\ RingTold /\ RingTold' /\ [Next]_vars
          => [taken' = taken =>
                \A i \in DOMAIN Peeked : i \in DOMAIN Peeked' /\ Peeked'[i] = Peeked[i]]_vars
    BY <1>1
  <1> QED BY <1>2, RingAlways, SeesWhatArrived, PTL DEF Spec, PeekStays
-------------------------------------------------------------------------------
(* Types *)

(* More bytes, more overhead.                                              *)
LEMMA EncSizeGrows ==
  ASSUME NEW k \in Nat, NEW n \in Nat, k <= n
  PROVE  /\ EncSize(k) \in Nat /\ EncSize(n) \in Nat
         /\ EncSize(k) - k <= EncSize(n) - n
  <1> DEFINE d == MaxCode - 1
             a == k + MaxCode - 2
             b == n + MaxCode - 2
             c == a \div d
  <1>1. d \in Nat \ {0} /\ a \in Nat /\ b \in Nat /\ a <= b
    BY CobsAssumption
  <1>2. EncSize(k) = c + k /\ EncSize(n) = (b \div d) + n
    BY DEF EncSize
  <1> HIDE DEF d, a, b
  <1>3. c \in Nat /\ d * c <= a
    BY <1>1
  <1>4. d * c \in Int
    BY <1>1, <1>3
  <1> HIDE DEF c
  <1>5. d * c <= b
    BY <1>1, <1>3, <1>4
  <1>6. c <= b \div d /\ b \div d \in Nat
    BY <1>1, <1>3, <1>5, DivBound
  <1> QED BY <1>2, <1>3, <1>6

(* log_data.buf has room to encode every answer in place.                  *)
LEMMA BufferSizes ==
  /\ MaxPacket \in Nat /\ MaxPacket > 0 /\ BufSize \in Nat /\ BufSize > MaxPacket + 2
  /\ \A n \in 1 .. MaxPacket + 1 :
       /\ InPlace(BufSize, 1, BufSize - MaxPacket - 1, n)
       /\ EncSize(n) \in Nat /\ EncSize(n) + 2 <= BufSize
  <1> DEFINE m == MaxPacket + 1
  <1>1. /\ MaxPacket \in Nat \ {0} /\ MaxCode \in Nat /\ MaxCode > 1
        /\ EncSize(m) + 2 <= BufSize /\ BufSize = EncSize(MaxPacket) + 3
    BY LogRxAssumption, CobsAssumption DEF BufSize
  <1>2. /\ m \in Nat /\ MaxPacket <= m /\ EncSize(MaxPacket) \in Nat /\ EncSize(m) \in Nat
    BY <1>1, EncSizeGrows
  <1>3. m + 1 <= EncSize(m)
    <2>1. 0 \in Nat /\ (MaxCode - 1) * 0 < m
      BY <1>1
    <2>2. 0 + 1 + m <= EncSize(m)
      BY <1>2, <2>1, RoomAhead
    <2> QED BY <1>2, <2>2
  <1>4. BufSize \in Nat /\ BufSize > MaxPacket + 2
    BY <1>1, <1>2, <1>3
  <1>5. ASSUME NEW n \in 1 .. m
        PROVE  /\ InPlace(BufSize, 1, BufSize - MaxPacket - 1, n)
               /\ EncSize(n) \in Nat /\ EncSize(n) + 2 <= BufSize
    <2>1. n \in Nat /\ n <= m
      BY <1>2
    <2>2. EncSize(n) \in Nat /\ EncSize(n) - n <= EncSize(m) - m
      BY <1>2, <2>1, EncSizeGrows
    <2>3. EncSize(n) + 2 <= BufSize
      BY <1>1, <1>2, <1>4, <2>1, <2>2
    <2>4. /\ 1 + EncSize(n) <= (BufSize - MaxPacket - 1) + n
          /\ (BufSize - MaxPacket - 1) + n <= BufSize
      BY <1>1, <1>2, <1>4, <2>1, <2>2
    <2>5. 1 + EncSize(n) < BufSize
      BY <1>4, <2>2, <2>3
    <2> QED BY <2>2, <2>3, <2>4, <2>5 DEF InPlace
  <1> QED BY <1>1, <1>4, <1>5

Memory == [0 .. BufSize - 1 -> Byte]

(* TypeOK without what RingInv says, and with the bound that two steps of  *)
(* trouble share.                                                          *)
Typed ==
  /\ wire \in Seq(Byte) /\ sending \in Payloads \union {<<>>} /\ frames \in 0 .. MaxFrames
  /\ damaged \in Nat /\ missed \in Nat /\ damaged + missed <= MaxTrouble + 1
  /\ ring \in [Slots -> Byte] /\ stream \in Seq(Byte)
  /\ state \in {"start", "frame"} /\ overrun \in BOOLEAN
  /\ buf \in Memory /\ fill \in 0 .. BufSize - 1
  /\ line \in Seq(Byte) /\ indata \in Seq(Byte)

LEMMA Zero == 0 \in Byte
  BY CobsAssumption DEF Byte

LEMMA InitTyped == Init => Typed
  <1>1. 0 \in Byte /\ BufSize \in Nat /\ BufSize > 0 /\ MaxFrames \in Nat /\ MaxTrouble \in Nat
    BY Zero, BufferSizes, LogRxAssumption
  <1>2. 0 \in 0 .. MaxFrames /\ 0 \in 0 .. BufSize - 1 /\ 0 + 0 <= MaxTrouble + 1
    BY <1>1
  <1> QED BY <1>1, <1>2 DEF Init, Typed, Memory

LEMMA FramedBytes ==
  ASSUME NEW p \in Payloads
  PROVE  Framed(p) \in Seq(Byte)
  <1>1. p \in Seq(Byte)
    BY LogRxAssumption
  <1>2. PyEnc(p) \in Seq(Byte) /\ <<0>> \in Seq(Byte)
    BY <1>1, Zero, HostRoundTrip, CodesAreBytes
  <1> QED BY <1>2, Joined DEF Framed

(* Damage and a byte not counted may come in one step.                     *)
LEMMA OneTrouble ==
  ASSUME NEW d \in Nat, NEW m \in Nat, NEW x \in Nat, x <= m + 1, d + m < MaxTrouble
  PROVE  d + x <= MaxTrouble + 1 /\ (d + 1) + x <= MaxTrouble + 1 /\ d + 1 \in Nat
  BY LogRxAssumption

LEMMA ReceiveTyped ==
  ASSUME Typed, NEW b \in Byte, Receive(b)
  PROVE  /\ ring' \in [Slots -> Byte] /\ stream' \in Seq(Byte)
         /\ missed' \in Nat /\ missed' <= missed + 1
         /\ rxdrdy => damaged + missed < MaxTrouble
         /\ ~rxdrdy => missed' = missed
         /\ UNCHANGED <<log, back, frames>>
  <1>1. /\ ring' = [ring EXCEPT ![dma] = b] /\ stream' = Append(stream, b)
        /\ missed' = missed + IF rxdrdy THEN 1 ELSE 0
        /\ rxdrdy => damaged + missed < MaxTrouble
        /\ UNCHANGED <<log, back, frames>>
    BY DEF Receive
  <1>2. ring' \in [Slots -> Byte] /\ stream' \in Seq(Byte)
    <2>1. ring \in [Slots -> Byte] /\ stream \in Seq(Byte)
      BY DEF Typed
    <2>2. [ring EXCEPT ![dma] = b] \in [Slots -> Byte]
      BY <2>1
    <2>3. Append(stream, b) \in Seq(Byte)
      BY <2>1
    <2> QED BY <1>1, <2>2, <2>3
  <1>3. missed \in Nat
    BY DEF Typed
  <1>4. CASE rxdrdy
    <2>1. missed' = missed + 1
      BY <1>1, <1>4
    <2> QED BY <1>1, <1>2, <1>3, <1>4, <2>1
  <1>5. CASE ~rxdrdy
    <2>1. missed' = missed
      BY <1>1, <1>3, <1>5
    <2> QED BY <1>1, <1>2, <1>3, <1>5, <2>1
  <1> QED BY <1>4, <1>5

LEMMA SendTyped ==
  ASSUME Typed, Send
  PROVE  Typed'
  <1>1. PICK p \in Payloads : wire' = Framed(p) /\ sending' = p
    BY DEF Send
  <1>2. /\ frames < MaxFrames /\ frames' = frames + 1
        /\ UNCHANGED <<rx, log, back, counts, stream>>
    BY DEF Send
  <1>3. wire' \in Seq(Byte) /\ frames' \in 0 .. MaxFrames
    BY <1>1, <1>2, FramedBytes, LogRxAssumption DEF Typed
  <1> QED BY <1>1, <1>2, <1>3 DEF Typed, rx, log, back, counts

LEMMA DeliverTyped ==
  ASSUME Typed, Deliver
  PROVE  Typed'
  <1>1. Head(wire) \in Byte /\ Tail(wire) \in Seq(Byte)
    BY DEF Typed, Deliver
  <1>2. /\ Receive(Head(wire)) /\ wire' = Tail(wire) /\ UNCHANGED <<sending, damaged>>
    BY DEF Deliver
  <1>3. /\ ring' \in [Slots -> Byte] /\ stream' \in Seq(Byte)
        /\ missed' \in Nat /\ missed' <= missed + 1
        /\ rxdrdy => damaged + missed < MaxTrouble
        /\ ~rxdrdy => missed' = missed
        /\ UNCHANGED <<log, back, frames>>
    BY <1>1, <1>2, ReceiveTyped
  <1>4. damaged' + missed' <= MaxTrouble + 1
    <2>1. /\ damaged \in Nat /\ missed \in Nat /\ damaged + missed <= MaxTrouble + 1
          /\ MaxTrouble \in Nat
      BY LogRxAssumption DEF Typed
    <2>2. damaged' = damaged
      BY <1>2
    <2>3. CASE rxdrdy
      <3>1. missed' \in Nat /\ missed' <= missed + 1 /\ damaged + missed < MaxTrouble
        BY <1>3, <2>3
      <3>2. damaged + missed' <= MaxTrouble + 1
        BY <2>1, <3>1, OneTrouble
      <3> QED BY <2>2, <3>2
    <2>4. CASE ~rxdrdy
      BY <1>3, <2>1, <2>2, <2>4
    <2> QED BY <2>3, <2>4
  <1> QED BY <1>1, <1>2, <1>3, <1>4 DEF Typed, log, back

LEMMA DamageTyped ==
  ASSUME Typed, Damage
  PROVE  Typed'
  <1>1. /\ wire # <<>> /\ damaged + missed < MaxTrouble
        /\ damaged' = damaged + 1 /\ wire' = Tail(wire) /\ sending' = <<>>
    BY DEF Damage
  <1>2. Tail(wire) \in Seq(Byte) /\ MaxTrouble \in Nat
    BY <1>1, LogRxAssumption DEF Typed
  <1>3. CASE \E b \in Noise \ {Head(wire)} : Receive(b)
    <2>1. PICK b \in Noise : Receive(b)
      BY <1>3
    <2>2. b \in Byte
      BY LogRxAssumption
    <2>3. /\ ring' \in [Slots -> Byte] /\ stream' \in Seq(Byte)
          /\ missed' \in Nat /\ missed' <= missed + 1
          /\ UNCHANGED <<log, back, frames>>
      BY <2>1, <2>2, ReceiveTyped
    <2>4. damaged' \in Nat /\ damaged' + missed' <= MaxTrouble + 1
      <3>1. damaged \in Nat /\ missed \in Nat
        BY DEF Typed
      <3>2. (damaged + 1) + missed' <= MaxTrouble + 1 /\ damaged + 1 \in Nat
        BY <1>1, <2>3, <3>1, OneTrouble
      <3> QED BY <1>1, <3>2
    <2> QED BY <1>1, <1>2, <2>3, <2>4 DEF Typed, log, back
  <1>4. CASE UNCHANGED <<rx, log, back, missed, stream, taken, calls, frames>>
    <2>1. damaged' \in Nat /\ damaged' + missed' <= MaxTrouble + 1
      BY <1>1, <1>2, <1>4 DEF Typed
    <2> QED BY <1>1, <1>2, <1>4, <2>1 DEF Typed, rx, log, back
  <1> QED BY <1>3, <1>4 DEF Damage

(* What is copied into log_data.buf are bytes, and no more than fit.       *)
LEMMA FilledBytes ==
  ASSUME RingInv, Typed, NEW n \in 0 .. RxAvail
  PROVE  Filled(n) \in Memory /\ fill + Stored(n) \in 0 .. BufSize - 1
  <1>1. /\ BufSize \in Nat /\ fill \in Nat /\ fill <= BufSize - 1
        /\ buf \in [0 .. BufSize - 1 -> Byte] /\ RxAvail \in Nat /\ n \in Nat /\ n <= RxAvail
    BY BufferSizes, AvailCounted, Counts DEF Typed, Memory
  <1>2. Room = BufSize - 1 - fill /\ Room \in Nat
    BY <1>1 DEF Room
  <1>3. Stored(n) \in Nat /\ Stored(n) <= n /\ Stored(n) <= Room
    BY <1>1, <1>2 DEF Stored
  <1>4. ASSUME NEW j \in 1 .. RxAvail PROVE Peeked[j] \in Byte
    <2>1. Peeked[j] = ring[read + j - 1] /\ Wrap(read + (j - 1)) = read + j - 1
          /\ j - 1 \in 0 .. Behind - 1
      BY LooksAt
    <2>2. read + (j - 1) \in 0 .. 2 * RxSize - 1
      <3>1. /\ read \in Int /\ 0 <= read /\ read < RxSize /\ RxSize \in Int
            /\ Behind \in Int /\ Behind < RxSize
        BY Counts
      <3>2. j - 1 \in Int /\ 0 <= j - 1 /\ j - 1 < Behind
        BY <2>1, <3>1
      <3> QED BY <3>1, <3>2
    <2>3. read + j - 1 \in Slots
      BY <2>1, <2>2, WrapIs
    <2> QED BY <2>1, <2>3 DEF Typed
  <1>5. \A i \in fill .. fill + Stored(n) - 1 : i - fill + 1 \in 1 .. RxAvail
    BY <1>1, <1>3
  <1>6. \A i \in 0 .. BufSize - 1 :
          (IF i \in fill .. fill + Stored(n) - 1 THEN Peeked[i - fill + 1] ELSE buf[i]) \in Byte
    BY <1>1, <1>4, <1>5
  <1> QED BY <1>1, <1>2, <1>3, <1>6 DEF Filled, Memory

(* A zero, an encoding and a zero.                                         *)
Between(code) == Append(<<0>> \o code, 0)

LEMMA BetweenIs ==
  ASSUME NEW code \in Seq(Codes)
  PROVE  /\ Between(code) \in Seq(Byte) /\ Len(Between(code)) = Len(code) + 2
         /\ Between(code)[1] = 0 /\ Between(code)[Len(code) + 2] = 0
         /\ \A i \in 2 .. Len(code) + 1 : Between(code)[i] = code[i - 1]
  <1>1. code \in Seq(Byte) /\ <<0>> \in Seq(Byte) /\ 0 \in Byte /\ Len(<<0>>) = 1
    BY CodesAreBytes, Zero
  <1> DEFINE a == <<0>> \o code
  <1>2. /\ a \in Seq(Byte) /\ Len(a) = Len(code) + 1 /\ a[1] = 0
        /\ \A i \in 2 .. Len(code) + 1 : a[i] = code[i - 1]
    BY <1>1
  <1>3. Len(code) \in Nat
    BY <1>1
  <1> HIDE DEF a
  <1>4. /\ Append(a, 0) \in Seq(Byte) /\ Len(Append(a, 0)) = Len(a) + 1
        /\ Append(a, 0)[Len(a) + 1] = 0
        /\ \A i \in 1 .. Len(a) : Append(a, 0)[i] = a[i]
    BY <1>1, <1>2
  <1> QED BY <1>2, <1>3, <1>4 DEF Between, a

(* What a handler answers goes out encoded, between two zeros, and with    *)
(* them it fits in log_data.buf.                                           *)
LEMMA AnswerTyped ==
  ASSUME Typed, NEW mem \in Memory, NEW port \in Handlers, Respond(mem, port)
  PROVE  /\ buf' \in Memory
         /\ \/ UNCHANGED back
            \/ \E code \in Seq(Codes) :
                 /\ code # <<>> /\ Len(code) + 2 <= BufSize
                 /\ line' = line \o Between(code)
                 /\ replies' = Append(replies, PyDec(code))
                 /\ UNCHANGED <<indata, answers>>
  <1>1. PICK r \in Responses :
          IF r = <<>> THEN buf' = mem /\ UNCHANGED back
          ELSE LET header == 4 * port + 3
                   e == Enc(Answered(mem, r, header), 1, BufSize - MaxPacket - 1, Len(r) + 1)
               IN /\ buf' = [e.mem EXCEPT ![0] = 0, ![e.n + 1] = 0]
                  /\ line' = line \o [i \in 1 .. e.n + 2 |-> buf'[i - 1]]
                  /\ replies' = Append(replies, <<header>> \o r)
                  /\ UNCHANGED <<indata, answers>>
    BY DEF Respond
  <1>2. CASE r = <<>>
    BY <1>1, <1>2
  <1>3. CASE r # <<>>
    <2> DEFINE header == 4 * port + 3
               full == Answered(mem, r, header)
               e == Enc(full, 1, BufSize - MaxPacket - 1, Len(r) + 1)
    <2>1. /\ buf' = [e.mem EXCEPT ![0] = 0, ![e.n + 1] = 0]
          /\ line' = line \o [i \in 1 .. e.n + 2 |-> buf'[i - 1]]
          /\ replies' = Append(replies, <<header>> \o r)
          /\ UNCHANGED <<indata, answers>>
      BY <1>1, <1>3
    <2>2. r \in Seq(Byte) /\ Len(r) \in Nat /\ Len(r) <= MaxPacket /\ Len(r) + 1 \in 1 .. MaxPacket + 1
      BY LogRxAssumption
    <2>3. header \in Byte
      <3>1. port \in Nat /\ port <= MaxPorts - 1 /\ MaxPorts \in Nat /\ 4 * MaxPorts <= MaxCode + 1
            /\ MaxCode \in Nat
        BY LogRxAssumption, CobsAssumption
      <3> QED BY <3>1 DEF Byte
    <2> HIDE DEF header
    <2>4. /\ MaxPacket \in Nat /\ MaxPacket > 0 /\ BufSize \in Nat /\ BufSize > MaxPacket + 2
          /\ InPlace(BufSize, 1, BufSize - MaxPacket - 1, Len(r) + 1)
          /\ EncSize(Len(r) + 1) \in Nat /\ EncSize(Len(r) + 1) + 2 <= BufSize
      BY <2>2, BufferSizes
    <2>5. full \in [0 .. BufSize - 1 -> Byte]
      <3> DEFINE at == BufSize - MaxPacket
      <3>1. at \in Nat
        BY <2>4
      <3>2. \A i \in at .. at + Len(r) - 1 : r[i - at + 1] \in Byte
        BY <2>2, <3>1
      <3> HIDE DEF at
      <3>3. \A i \in 0 .. BufSize - 1 :
              (CASE i = at - 1 -> header
                 [] i \in at .. at + Len(r) - 1 -> r[i - at + 1]
                 [] OTHER -> mem[i]) \in Byte
        BY <2>3, <3>2 DEF Memory
      <3> QED BY <3>3 DEF Answered, at
    <2> HIDE DEF full
    <2>6. /\ e.mem \in [0 .. BufSize - 1 -> Byte] /\ e.n \in 1 .. EncSize(Len(r) + 1)
      <3>1. BufSize - MaxPacket - 1 \in Nat /\ 1 \in Nat /\ Len(r) + 1 \in Nat \ {0}
        BY <2>2, <2>4
      <3> QED BY <2>4, <2>5, <3>1, EncodesInPlace
    <2> HIDE DEF e
    <2>7. e.n \in Nat /\ e.n + 2 <= BufSize
      BY <2>4, <2>6
    <2>8. buf' \in [0 .. BufSize - 1 -> Byte]
      BY <2>1, <2>6, Zero
    <2> DEFINE data == <<header>> \o r
               code == [i \in 1 .. e.n |-> e.mem[1 + i - 1]]
               in == BufSize - MaxPacket - 1
    <2>9. code \in Seq(Codes) /\ PyDec(code) = data
      <3>1. in \in Nat /\ 1 \in Nat /\ Len(r) + 1 \in Nat \ {0}
        BY <2>2, <2>4
      <3>2. /\ data \in Seq(Byte) /\ Len(data) = Len(r) + 1 /\ data[1] = header
            /\ \A i \in 2 .. Len(r) + 1 : data[i] = r[i - 1]
        BY <2>2, <2>3
      <3> HIDE DEF data, in
      <3>3. \A i \in 1 .. Len(r) + 1 : data[i] = full[in + i - 1]
        <4> DEFINE at == BufSize - MaxPacket
        <4>1. at \in Nat /\ in + 1 - 1 = at - 1 /\ at - 1 \in 0 .. BufSize - 1
          BY <2>4 DEF in
        <4>2. full[in + 1 - 1] = header
          BY <4>1 DEF full, Answered
        <4>3. ASSUME NEW i \in 2 .. Len(r) + 1 PROVE full[in + i - 1] = r[i - 1]
          <5>1. /\ in + i - 1 \in at .. at + Len(r) - 1 /\ in + i - 1 # at - 1
                /\ (in + i - 1) - at + 1 = i - 1 /\ in + i - 1 \in 0 .. BufSize - 1
            <6>1. /\ in \in Int /\ at = in + 1 /\ at + MaxPacket = BufSize /\ at \in Int
                  /\ BufSize \in Int /\ MaxPacket \in Int
              BY <2>4 DEF in
            <6>2. i \in Int /\ 2 <= i /\ i <= Len(r) + 1 /\ Len(r) <= MaxPacket /\ Len(r) \in Int
              BY <2>2
            <6> HIDE DEF at
            <6> QED BY <4>1, <6>1, <6>2
          <5> DEFINE k == in + i - 1
          <5>2. k \in at .. at + Len(r) - 1 /\ k # at - 1 /\ k - at + 1 = i - 1 /\ k \in 0 .. BufSize - 1
            BY <5>1
          <5> HIDE DEF k
          <5>3. full[k] = r[k - at + 1]
            BY <5>2 DEF full, Answered
          <5>4. full[k] = r[i - 1]
            BY <5>2, <5>3
          <5> QED BY <5>4 DEF k
        <4>4. Len(r) \in Nat
          BY <2>2
        <4>5. \A i \in 1 .. Len(r) + 1 : i = 1 \/ i \in 2 .. Len(r) + 1
          BY <4>4
        <4> HIDE DEF at
        <4> QED BY <3>2, <4>2, <4>3, <4>5
      <3>4. code = [i \in 1 .. Enc(full, 1, in, Len(r) + 1).n |-> Enc(full, 1, in, Len(r) + 1).mem[1 + i - 1]]
        BY DEF e, in
      <3>5. InPlace(BufSize, 1, in, Len(r) + 1)
        BY <2>4 DEF in
      <3> DEFINE k == Len(r) + 1
      <3>6. /\ k \in Nat \ {0} /\ Len(data) = k /\ InPlace(BufSize, 1, in, k)
            /\ \A i \in 1 .. k : data[i] = full[in + i - 1]
            /\ code = [i \in 1 .. Enc(full, 1, in, k).n |-> Enc(full, 1, in, k).mem[1 + i - 1]]
        BY <3>1, <3>2, <3>3, <3>4, <3>5
      <3> HIDE DEF code, k
      <3>7. BufSize \in Nat /\ full \in [0 .. BufSize - 1 -> Byte] /\ in \in Nat /\ data \in Seq(Byte)
        BY <2>4, <2>5, <3>1, <3>2
      <3>8. Encodes(full, BufSize, 1, in, k, data, code)
        BY <3>1, <3>6, <3>7 DEF Encodes
      <3> QED BY <3>8, RoundTrip
    <2>10. Len(code) = e.n /\ \A i \in 1 .. e.n : code[i] = e.mem[i]
      <3>1. \A i \in 1 .. e.n : 1 + i - 1 = i
        BY <2>7
      <3> QED BY <2>7, <3>1
    <2>11. [i \in 1 .. e.n + 2 |-> buf'[i - 1]] = Between(code)
      <3> DEFINE w == Between(code)
      <3>1. /\ w \in Seq(Byte) /\ Len(w) = e.n + 2 /\ w[1] = 0 /\ w[e.n + 2] = 0
            /\ \A i \in 2 .. e.n + 1 : w[i] = code[i - 1]
        <4> HIDE DEF code
        <4> QED BY <2>9, <2>10, BetweenIs
      <3> HIDE DEF w, code
      <3>2. w = [i \in 1 .. e.n + 2 |-> w[i]]
        BY <3>1, <2>7
      <3>3. \A i \in 1 .. e.n + 2 : buf'[i - 1] = w[i]
        <4> SUFFICES ASSUME NEW i \in 1 .. e.n + 2 PROVE buf'[i - 1] = w[i]
          OBVIOUS
        <4> DEFINE f == [e.mem EXCEPT ![0] = 0]
        <4>1. /\ i - 1 \in 0 .. BufSize - 1 /\ e.n + 1 \in 0 .. BufSize - 1 /\ 0 \in 0 .. BufSize - 1
              /\ e.n + 1 # 0 /\ i \in Int
          BY <2>4, <2>7
        <4>2. /\ f \in [0 .. BufSize - 1 -> Byte] /\ f[0] = 0
              /\ \A j \in 0 .. BufSize - 1 : j # 0 => f[j] = e.mem[j]
          BY <2>6, <4>1, Zero
        <4>3. buf' = [f EXCEPT ![e.n + 1] = 0]
          BY <2>1
        <4> HIDE DEF f
        <4>4. /\ buf'[e.n + 1] = 0
              /\ \A j \in 0 .. BufSize - 1 : j # e.n + 1 => buf'[j] = f[j]
          BY <4>1, <4>2, <4>3
        <4>6. CASE i = 1
          <5>1. i - 1 = 0
            BY <4>6
          <5> QED BY <3>1, <4>1, <4>2, <4>4, <4>6, <5>1
        <4>7. CASE i = e.n + 2
          <5>1. i - 1 = e.n + 1
            BY <2>7, <4>7
          <5> QED BY <3>1, <4>4, <4>7, <5>1
        <4>5. CASE i # 1 /\ i # e.n + 2
          <5>1. i \in 2 .. e.n + 1 /\ i - 1 \in 1 .. e.n /\ i - 1 # 0 /\ i - 1 # e.n + 1
            BY <2>7, <4>5
          <5>2. buf'[i - 1] = e.mem[i - 1]
            BY <4>1, <4>2, <4>4, <5>1
          <5> QED BY <2>10, <3>1, <5>1, <5>2
        <4> QED BY <4>5, <4>6, <4>7
      <3> QED BY <3>2, <3>3 DEF w
    <2>12. code # <<>> /\ Len(code) + 2 <= BufSize
      <3> HIDE DEF code
      <3> QED BY <2>6, <2>7, <2>10
    <2>13. line' = line \o Between(code) /\ replies' = Append(replies, PyDec(code))
      BY <2>1, <2>9, <2>11
    <2> HIDE DEF code, data
    <2> QED BY <2>1, <2>8, <2>9, <2>12, <2>13 DEF Memory
  <1> QED BY <1>2, <1>3

LEMMA AnswerBytes ==
  ASSUME Typed, NEW mem \in Memory, NEW port \in Handlers, Respond(mem, port)
  PROVE  buf' \in Memory /\ line' \in Seq(Byte) /\ UNCHANGED indata
  <1>1. CASE UNCHANGED back
    BY <1>1, AnswerTyped DEF Typed, back
  <1>2. CASE ~UNCHANGED back
    <2>1. PICK code \in Seq(Codes) : line' = line \o Between(code) /\ UNCHANGED indata
      BY <1>2, AnswerTyped
    <2>2. Between(code) \in Seq(Byte)
      BY BetweenIs
    <2>3. line' \in Seq(Byte)
      BY <2>1, <2>2 DEF Typed
    <2> QED BY <2>1, <2>3, AnswerTyped
  <1> QED BY <1>1, <1>2

LEMMA DecTyped ==
  ASSUME NEW mem \in Memory, NEW n \in 0 .. BufSize - 1
  PROVE  Dec(mem, n).mem \in Memory
  <1>1. BufSize \in Nat /\ n \in Nat /\ n <= BufSize /\ mem \in [0 .. BufSize - 1 -> Byte]
    BY BufferSizes DEF Memory
  <1>2. CASE \E i \in 0 .. n - 1 : mem[i] = 0
    BY <1>2 DEF Dec
  <1>3. CASE \A i \in 0 .. n - 1 : mem[i] # 0
    BY <1>1, <1>3, DecodesInPlace DEF Memory
  <1> QED BY <1>2, <1>3

LEMMA MoreTyped ==
  ASSUME RingInv, Typed, More
  PROVE  Typed'
  <1>1. RxAvail \in 0 .. RxAvail
    BY AvailCounted, Counts
  <1>2. /\ buf' = Filled(RxAvail) /\ fill' = fill + Stored(RxAvail)
        /\ overrun' = (overrun \/ RxAvail > Room) /\ Skip(RxAvail)
        /\ UNCHANGED <<state, host, back, counts, stream>>
    BY DEF More
  <1>3. buf' \in Memory /\ fill' \in 0 .. BufSize - 1 /\ overrun' \in BOOLEAN
    BY <1>1, <1>2, FilledBytes
  <1>4. UNCHANGED ring
    BY <1>2 DEF Skip
  <1> QED BY <1>2, <1>3, <1>4 DEF Typed, host, back, counts

LEMMA EndFrameTyped ==
  ASSUME RingInv, Typed, EndFrame
  PROVE  Typed'
  <1>1. PICK e \in DOMAIN Peeked :
          /\ Skip(e - 1)
          /\ fill' = fill + Stored(e - 1)
          /\ overrun' = (overrun \/ e - 1 > Room)
          /\ LET d == Dec(Filled(e - 1), fill')
             IN IF ~overrun' /\ Accepted(d)
                THEN /\ calls' = Append(calls, [at |-> taken',
                                                rx |-> [i \in 1 .. d.n |-> d.mem[i - 1]]])
                     /\ Respond(d.mem, d.mem[0] \div 4)
                ELSE buf' = d.mem /\ UNCHANGED <<calls, back>>
    BY DEF EndFrame
  <1>2. state' = "start" /\ UNCHANGED <<host, counts, stream>>
    BY DEF EndFrame
  <1>3. e - 1 \in 0 .. RxAvail
    BY AvailCounted, Counts DEF Peeked
  <1>4. Filled(e - 1) \in Memory /\ fill' \in 0 .. BufSize - 1 /\ overrun' \in BOOLEAN
    BY <1>1, <1>3, FilledBytes
  <1> DEFINE d == Dec(Filled(e - 1), fill')
  <1>5. d.mem \in Memory
    BY <1>4, DecTyped
  <1>6. buf' \in Memory /\ line' \in Seq(Byte) /\ UNCHANGED indata
    <2>1. CASE ~overrun' /\ Accepted(d)
      <3>1. Respond(d.mem, d.mem[0] \div 4) /\ d.mem[0] \div 4 \in Handlers
        BY <1>1, <2>1 DEF Accepted
      <3> HIDE DEF d
      <3> QED BY <1>5, <3>1, AnswerBytes
    <2>2. CASE ~(~overrun' /\ Accepted(d))
      <3>1. buf' = d.mem /\ UNCHANGED back
        BY <1>1, <2>2
      <3> QED BY <1>5, <3>1 DEF Typed, back
    <2> QED BY <2>1, <2>2
  <1>7. UNCHANGED ring
    BY <1>1 DEF Skip
  <1> QED BY <1>2, <1>4, <1>6, <1>7 DEF Typed, host, counts

LEMMA LogProcessTyped ==
  ASSUME RingInv, Typed, LogProcess
  PROVE  Typed'
  <1>1. CASE SkipZero
    BY <1>1 DEF SkipZero, Skip, Typed, host, log, back, counts
  <1>2. CASE BeginFrame
    <2>1. 0 \in 0 .. BufSize - 1
      BY BufferSizes
    <2> QED BY <1>2, <2>1 DEF BeginFrame, Typed, host, rx, back, counts
  <1> QED BY <1>1, <1>2, MoreTyped, EndFrameTyped DEF LogProcess

(* Of the zeros that came one is the last.                                 *)
LEMMA LastZero ==
  ASSUME NEW s \in Seq(Byte), Zeros(s) # {}
  PROVE  (CHOOSE i \in Zeros(s) : \A j \in Zeros(s) : j <= i) \in Zeros(s)
  <1> DEFINE U == {Len(s) - i : i \in Zeros(s)}
  <1>1. Zeros(s) \subseteq 1 .. Len(s) /\ Len(s) \in Nat
    BY DEF Zeros
  <1>2. U \subseteq Nat /\ U # {}
    BY <1>1
  <1>3. PICK u \in U : \A y \in U : u <= y
    <2> HIDE DEF U
    <2> QED BY <1>2, LeastOf
  <1>4. PICK z \in Zeros(s) : u = Len(s) - z
    OBVIOUS
  <1>5. \A j \in Zeros(s) : j <= z
    <2> SUFFICES ASSUME NEW j \in Zeros(s) PROVE j <= z
      OBVIOUS
    <2>1. u <= Len(s) - j
      BY <1>3
    <2>2. j \in Int /\ z \in Int
      BY <1>1
    <2> QED BY <1>1, <1>4, <2>1, <2>2
  <1> QED BY <1>5

LEMMA AfterLastTyped ==
  ASSUME NEW s \in Seq(Byte)
  PROVE  AfterLast(s) \in Seq(Byte)
  <1>1. CASE Zeros(s) = {}
    BY <1>1 DEF AfterLast
  <1>2. CASE Zeros(s) # {}
    <2> DEFINE last == CHOOSE i \in Zeros(s) : \A j \in Zeros(s) : j <= i
    <2>1. last \in Zeros(s)
      BY <1>2, LastZero
    <2> HIDE DEF last
    <2>2. last \in 1 .. Len(s) /\ Len(s) \in Nat
      BY <2>1 DEF Zeros
    <2>3. SubSeq(s, last + 1, Len(s)) \in Seq(Byte)
      BY <2>2
    <2> QED BY <1>2, <2>3 DEF AfterLast, last
  <1> QED BY <1>1, <1>2

LEMMA HostReceiveTyped ==
  ASSUME Typed, HostReceive
  PROVE  Typed'
  <1>1. PICK n \in 1 .. HostChunk :
          /\ n <= Len(line)
          /\ indata' = AfterLast(Cut(indata \o SubSeq(line, 1, n)))
          /\ line' = SubSeq(line, n + 1, Len(line))
    BY DEF HostReceive
  <1>2. UNCHANGED <<host, rx, log, counts, stream>>
    BY DEF HostReceive
  <1>3. line \in Seq(Byte) /\ indata \in Seq(Byte) /\ n \in Nat /\ HostMax \in Nat
    BY LogRxAssumption DEF Typed
  <1>4. line' \in Seq(Byte) /\ indata \o SubSeq(line, 1, n) \in Seq(Byte)
    BY <1>1, <1>3
  <1>5. ASSUME NEW s \in Seq(Byte) PROVE Cut(s) \in Seq(Byte)
    BY <1>3 DEF Cut
  <1>6. indata' \in Seq(Byte)
    BY <1>1, <1>4, <1>5, AfterLastTyped
  <1> QED BY <1>2, <1>4, <1>6 DEF Typed, host, rx, log, counts

LEMMA NextTyped ==
  RingInv /\ Typed /\ [Next]_vars => Typed'
  <1> SUFFICES ASSUME RingInv, Typed, [Next]_vars PROVE Typed'
    OBVIOUS
  <1>1. CASE OnRxdRdy
    BY <1>1 DEF OnRxdRdy, Typed, host, log, back, counts
  <1>2. CASE UNCHANGED vars
    BY <1>2 DEF vars, host, rx, log, back, counts, Typed
  <1> QED BY <1>1, <1>2, SendTyped, DeliverTyped, DamageTyped, LogProcessTyped, HostReceiveTyped
          DEF Next

(* The indices are places of the ring, and what was taken had arrived.     *)
LEMMA TypeFollows ==
  ASSUME RingInv, Typed
  PROVE  TypeOK
  <1>1. /\ read \in Slots /\ rxdrdy \in BOOLEAN /\ taken \in Nat
        /\ dma = Wrap(read + Behind) /\ write = Wrap(read + (Behind - Unseen))
    BY DEF RingInv
  <1>2. /\ Behind \in Nat /\ Behind - Unseen \in 0 .. RxSize - 1 /\ Behind < RxSize
        /\ RxSize \in Nat /\ read \in 0 .. RxSize - 1
        /\ Len(stream) \in Nat /\ Len(stream) = taken + Behind
    BY Counts
  <1>3. /\ read + Behind \in 0 .. 2 * RxSize - 1
        /\ read + (Behind - Unseen) \in 0 .. 2 * RxSize - 1
    BY <1>2
  <1>4. dma \in Slots /\ write \in Slots /\ taken \in 0 .. Len(stream)
    BY <1>1, <1>2, <1>3, WrapIs
  <1>5. damaged \in 0 .. MaxTrouble + 1 /\ missed \in 0 .. MaxTrouble + 1
    BY LogRxAssumption DEF Typed
  <1> QED BY <1>1, <1>4, <1>5 DEF Typed, TypeOK, Memory

(* Invariant: the type invariant, for every ring, packet size and byte     *)
(* width: no index leaves its buffer, and neither decoding a frame nor     *)
(* encoding an answer in place leaves log_data.buf.                        *)
THEOREM TypeCorrect == Spec => []TypeOK
  <1>1. Spec => []Typed
    BY InitTyped, NextTyped, RingAlways, PTL DEF Spec
  <1> QED BY <1>1, RingAlways, TypeFollows, PTL
-------------------------------------------------------------------------------
(* What no zero has ended *)

(* How AfterLast changes with one more byte.                               *)
LEMMA AfterNothing == AfterLast(<<>>) = <<>>
  BY DEF AfterLast, Zeros

LEMMA AfterZero ==
  ASSUME NEW s \in Seq(Byte)
  PROVE  Append(s, 0) \in Seq(Byte) /\ AfterLast(Append(s, 0)) = <<>>
  <1> DEFINE t == Append(s, 0)
             n == Len(s) + 1
             last == CHOOSE i \in Zeros(t) : \A j \in Zeros(t) : j <= i
  <1>1. t \in Seq(Byte) /\ Len(t) = n /\ t[n] = 0 /\ n \in Nat /\ n \in DOMAIN t
        /\ DOMAIN t = 1 .. n
    BY Zero
  <1> HIDE DEF t, n
  <1>2. n \in Zeros(t) /\ \A j \in Zeros(t) : j \in Nat /\ j <= n
    BY <1>1 DEF Zeros
  <1>3. last \in Zeros(t) /\ \A j \in Zeros(t) : j <= last
    BY <1>2
  <1> HIDE DEF last
  <1>4. last = n
    BY <1>1, <1>2, <1>3
  <1>5. SubSeq(t, n + 1, n) = <<>>
    BY <1>1
  <1>6. AfterLast(t) = SubSeq(t, last + 1, Len(t))
    BY <1>2 DEF AfterLast, last
  <1> QED BY <1>1, <1>4, <1>5, <1>6 DEF t

LEMMA AfterByte ==
  ASSUME NEW s \in Seq(Byte), NEW v \in Byte, v # 0
  PROVE  Append(s, v) \in Seq(Byte) /\ AfterLast(Append(s, v)) = Append(AfterLast(s), v)
  <1> DEFINE t == Append(s, v)
             n == Len(s)
             last == CHOOSE i \in Zeros(s) : \A j \in Zeros(s) : j <= i
  <1>1. t \in Seq(Byte) /\ Len(t) = n + 1 /\ t[n + 1] = v /\ n \in Nat
        /\ DOMAIN t = 1 .. n + 1 /\ DOMAIN s = 1 .. n /\ \A i \in 1 .. n : t[i] = s[i]
    OBVIOUS
  <1>2. Zeros(t) = Zeros(s)
    <2> HIDE DEF t, n
    <2>1. \A i : i \in Zeros(t) <=> i \in Zeros(s)
      BY <1>1 DEF Zeros
    <2> QED BY <2>1
  <1>3. CASE Zeros(s) = {}
    BY <1>1, <1>2, <1>3 DEF AfterLast
  <1>4. CASE Zeros(s) # {}
    <2>1. last \in Zeros(s)
      BY <1>4, LastZero
    <2>2. last \in 1 .. n
      <3> HIDE DEF last
      <3> QED BY <2>1 DEF Zeros
    <2>3. AfterLast(s) = SubSeq(s, last + 1, n) /\ AfterLast(t) = SubSeq(t, last + 1, n + 1)
      BY <1>1, <1>2, <1>4 DEF AfterLast
    <2> HIDE DEF last
    <2>4. SubSeq(t, last + 1, n + 1) = Append(SubSeq(s, last + 1, n), v)
      <3> DEFINE p == SubSeq(s, last + 1, n)
                 q == SubSeq(t, last + 1, n + 1)
                 k == n - last
      <3>1. k \in Nat /\ last + k = n /\ n \in Nat /\ last \in Nat
        BY <1>1, <2>2
      <3>2. p \in Seq(Byte) /\ Len(p) = k /\ \A i \in 1 .. k : p[i] = s[last + i]
        <4> HIDE DEF k
        <4>1. n <= Len(s) /\ n = last + k
          BY <3>1
        <4> HIDE DEF n
        <4> QED BY <3>1, <4>1, PieceIs
      <3>3. q \in Seq(Byte) /\ Len(q) = k + 1 /\ \A i \in 1 .. k + 1 : q[i] = t[last + i]
        <4> HIDE DEF k
        <4>1. n + 1 = last + (k + 1) /\ k + 1 \in Nat /\ n + 1 <= Len(t)
          BY <1>1, <3>1
        <4> HIDE DEF n, t
        <4> QED BY <1>1, <3>1, <4>1, PieceIs
      <3> HIDE DEF p, q, k, t, n
      <3>4. /\ Append(p, v) \in Seq(Byte) /\ Len(Append(p, v)) = k + 1 /\ Append(p, v)[k + 1] = v
            /\ \A i \in 1 .. k : Append(p, v)[i] = p[i]
        BY <3>2
      <3>5. \A i \in 1 .. k + 1 : q[i] = Append(p, v)[i]
        <4>1. last + (k + 1) = n + 1
          BY <3>1
        <4>2. \A i \in 1 .. k : last + i \in 1 .. n
          BY <3>1
        <4>3. q[k + 1] = v
          <5>1. k + 1 \in 1 .. k + 1
            BY <3>1
          <5>2. q[k + 1] = t[last + (k + 1)]
            BY <3>3, <5>1
          <5> QED BY <1>1, <4>1, <5>2
        <4>4. \A i \in 1 .. k : q[i] = s[last + i]
          BY <1>1, <3>1, <3>3, <4>2
        <4> QED BY <3>1, <3>2, <3>4, <4>3, <4>4
      <3>6. q = Append(p, v)
        <4> DEFINE r == Append(p, v)
        <4>1. r \in Seq(Byte) /\ Len(r) = Len(q) /\ \A i \in 1 .. Len(q) : q[i] = r[i]
          BY <3>3, <3>4, <3>5
        <4> HIDE DEF r
        <4>2. q = r
          BY <3>3, <4>1
        <4> QED BY <4>2 DEF r
      <3> QED BY <3>6 DEF p, q
    <2> HIDE DEF t, n
    <2> QED BY <1>1, <2>3, <2>4 DEF t
  <1> QED BY <1>1, <1>3, <1>4
-------------------------------------------------------------------------------
(* The frames among bytes *)

FrameSet == [at : Nat, bytes : Seq(Byte)]

(* What place i of the bytes adds to the frames before it.                 *)
FrameAt(s, i, f) ==
  IF s[i] # 0 \/ AfterLast(SubSeq(s, 1, i - 1)) = <<>> THEN f
  ELSE Append(f, [at |-> i - 1, bytes |-> AfterLast(SubSeq(s, 1, i - 1))])

Finds(f, s) ==
  /\ f[0] = <<>>
  /\ \A i \in 1 .. Len(s) : f[i] = FrameAt(s, i, f[i - 1])

(* There is a function as FramesIn defines it.                             *)
LEMMA FramesAre ==
  ASSUME NEW s \in Seq(Byte)
  PROVE  \E f : Finds(f, s) /\ FramesIn(s) = f[Len(s)]
  <1> DEFINE n == Len(s)
             Round(r, i) == IF i = 0 THEN <<>> ELSE FrameAt(s, i, r[i - 1])
             Is(r, m) == r = [i \in 0 .. m |-> Round(r, i)]
             T == {m \in 0 .. n : \E r : Is(r, m)}
             same == CHOOSE r : Is(r, n)
  <1>n. n \in Nat
    OBVIOUS
  <1> HIDE DEF n
  <1>1. 0 \in T
    <2>1. Is([i \in 0 .. 0 |-> <<>>], 0)
      OBVIOUS
    <2> HIDE DEF Is
    <2> QED BY <1>n, <2>1
  <1>2. ASSUME NEW m \in 0 .. n - 1, m \in T PROVE m + 1 \in T
    <2>1. PICK r : Is(r, m)
      BY <1>2
    <2> DEFINE q == [i \in 0 .. m + 1 |-> IF i <= m THEN r[i] ELSE Round(r, m + 1)]
    <2>2. \A i \in 0 .. m + 1 : q[i] = Round(r, i)
      <3>1. \A i \in 0 .. m : r[i] = Round(r, i)
        BY <2>1
      <3> HIDE DEF Round
      <3> QED BY <1>n, <3>1
    <2>3. \A i \in 1 .. m + 1 : q[i - 1] = r[i - 1]
      BY <1>n
    <2> HIDE DEF q
    <2>4. \A i \in 0 .. m + 1 : Round(q, i) = Round(r, i)
      BY <1>n, <2>3
    <2>5. q = [i \in 0 .. m + 1 |-> q[i]]
      BY DEF q
    <2>6. Is(q, m + 1)
      <3> HIDE DEF Round
      <3> QED BY <2>2, <2>4, <2>5
    <2> HIDE DEF Is
    <2> QED BY <1>n, <2>6
  <1>3. n \in T
    <2> HIDE DEF T
    <2>1. \A m \in 0 .. n : m \in T
      BY <1>n, <1>1, <1>2, Climbs
    <2> QED BY <1>n, <2>1
  <1>4. Is(same, n)
    <2>1. \E r : Is(r, n)
      BY <1>3
    <2> HIDE DEF Is
    <2> QED BY <2>1
  <1>5. FramesIn(s) = same[n]
    BY Zenon DEF FramesIn, FrameAt, n
  <1> HIDE DEF same
  <1>6. Finds(same, s)
    <2>1. \A i \in 0 .. n : same[i] = Round(same, i)
      BY <1>4
    <2> HIDE DEF Round
    <2>2. same[0] = Round(same, 0) /\ \A i \in 1 .. n : same[i] = Round(same, i)
      BY <1>n, <2>1
    <2> QED BY <1>n, <2>2 DEF Finds, Round, n
  <1> QED BY <1>5, <1>6 DEF n

LEMMA FramesNone == FramesIn(<<>>) = <<>>
  <1>1. <<>> \in Seq(Byte) /\ Len(<<>>) = 0
    OBVIOUS
  <1> QED BY <1>1, FramesAre DEF Finds

(* The parts between zeros are bytes, with their places.                   *)
LEMMA FramesTyped ==
  ASSUME NEW s \in Seq(Byte)
  PROVE  FramesIn(s) \in Seq(FrameSet)
  <1>1. PICK f : Finds(f, s) /\ FramesIn(s) = f[Len(s)]
    BY FramesAre
  <1> DEFINE n == Len(s)
             T == {k \in 0 .. n : f[k] \in Seq(FrameSet)}
  <1>2. n \in Nat
    OBVIOUS
  <1>3. 0 \in T
    <2>1. f[0] = <<>> /\ 0 \in 0 .. n
      BY <1>1, <1>2 DEF Finds
    <2>2. <<>> \in Seq(FrameSet)
      OBVIOUS
    <2> QED BY <2>1, <2>2
  <1>4. ASSUME NEW k \in 0 .. n - 1, k \in T PROVE k + 1 \in T
    <2> DEFINE p == AfterLast(SubSeq(s, 1, k))
    <2>1. k + 1 \in 1 .. n /\ (k + 1) - 1 = k /\ k \in Nat /\ k + 1 \in 0 .. n
      BY <1>2
    <2>2. SubSeq(s, 1, k) \in Seq(Byte)
      BY <1>2, <2>1
    <2>3. p \in Seq(Byte)
      BY <2>2, AfterLastTyped
    <2>4. f[k + 1] = FrameAt(s, k + 1, f[k])
      BY <1>1, <2>1 DEF Finds
    <2>5. f[k + 1] \in {f[k], Append(f[k], [at |-> k, bytes |-> p])}
      BY <2>1, <2>4 DEF FrameAt
    <2> HIDE DEF p
    <2>6. [at |-> k, bytes |-> p] \in FrameSet
      BY <2>1, <2>3 DEF FrameSet
    <2>7. f[k] \in Seq(FrameSet)
      BY <1>4
    <2>8. Append(f[k], [at |-> k, bytes |-> p]) \in Seq(FrameSet)
      BY <2>6, <2>7
    <2>9. f[k + 1] \in Seq(FrameSet)
      BY <2>5, <2>7, <2>8, Zenon
    <2> QED BY <2>1, <2>9
  <1>5. n \in T
    <2> HIDE DEF T
    <2>1. \A k \in 0 .. n : k \in T
      BY <1>2, <1>3, <1>4, Climbs
    <2> QED BY <1>2, <2>1
  <1> QED BY <1>1, <1>5

(* A byte more ends a frame, if it is a zero and not the first after one.  *)
LEMMA FramesMore ==
  ASSUME NEW s \in Seq(Byte), NEW v \in Byte
  PROVE  FramesIn(Append(s, v)) =
           IF v # 0 \/ AfterLast(s) = <<>> THEN FramesIn(s)
           ELSE Append(FramesIn(s), [at |-> Len(s), bytes |-> AfterLast(s)])
  <1> DEFINE t == Append(s, v)
             n == Len(s)
  <1>1. /\ t \in Seq(Byte) /\ Len(t) = n + 1 /\ t[n + 1] = v /\ n \in Nat
        /\ \A i \in 1 .. n : t[i] = s[i]
        /\ \A i \in 0 .. n : SubSeq(t, 1, i) = SubSeq(s, 1, i)
        /\ SubSeq(s, 1, n) = s
    OBVIOUS
  <1>2. PICK f : Finds(f, s) /\ FramesIn(s) = f[n]
    BY FramesAre
  <1> HIDE DEF t
  <1>3. PICK g : Finds(g, t) /\ FramesIn(t) = g[n + 1]
    BY <1>1, FramesAre
  <1> HIDE DEF n
  <1> DEFINE T == {k \in 0 .. n : g[k] = f[k]}
  <1>4. 0 \in T
    BY <1>1, <1>2, <1>3 DEF Finds
  <1>5. ASSUME NEW k \in 0 .. n - 1, k \in T PROVE k + 1 \in T
    <2>1. k + 1 \in 1 .. n /\ (k + 1) - 1 = k /\ k \in 0 .. n /\ k + 1 \in 0 .. n
          /\ k + 1 \in 1 .. n + 1
      BY <1>1
    <2>2. f[k + 1] = FrameAt(s, k + 1, f[k])
      BY <1>2, <2>1 DEF Finds, n
    <2>3. g[k + 1] = FrameAt(t, k + 1, g[k])
      BY <1>1, <1>3, <2>1 DEF Finds
    <2>4. SubSeq(t, 1, k) = SubSeq(s, 1, k) /\ t[k + 1] = s[k + 1] /\ g[k] = f[k]
      BY <1>1, <1>5, <2>1
    <2>5. g[k + 1] = f[k + 1]
      BY <2>1, <2>2, <2>3, <2>4 DEF FrameAt
    <2> QED BY <2>1, <2>5
  <1>6. g[n] = f[n]
    <2> HIDE DEF T
    <2>1. \A k \in 0 .. n : k \in T
      BY <1>1, <1>4, <1>5, Climbs
    <2> QED BY <1>1, <2>1 DEF T
  <1>7. g[n + 1] = FrameAt(t, n + 1, g[n])
    <2>1. n + 1 \in 1 .. n + 1 /\ (n + 1) - 1 = n
      BY <1>1
    <2> QED BY <1>1, <1>3, <2>1 DEF Finds
  <1>8. SubSeq(t, 1, (n + 1) - 1) = s /\ (n + 1) - 1 = n
    BY <1>1
  <1>9. g[n + 1] = IF v # 0 \/ AfterLast(s) = <<>> THEN f[n]
                   ELSE Append(f[n], [at |-> n, bytes |-> AfterLast(s)])
    BY <1>1, <1>6, <1>7, <1>8 DEF FrameAt
  <1> QED BY <1>2, <1>3, <1>9 DEF t, n
-------------------------------------------------------------------------------
(* Bytes without a zero end nothing *)

ZeroFree(w) == \A i \in 1 .. Len(w) : w[i] # 0

(* What has no zero is added to what no zero has ended.                    *)
LEMMA NothingAdded ==
  ASSUME NEW a \in Seq(Byte)
  PROVE  a \o <<>> = a /\ <<>> \o a = a /\ <<>> \in Seq(Byte)
  OBVIOUS

(* Sequences grow by a byte.                                               *)
LEMMA PrefixGrows ==
  ASSUME NEW w \in Seq(Byte), NEW m \in 0 .. Len(w) - 1
  PROVE  /\ m + 1 \in 0 .. Len(w) /\ w[m + 1] \in Byte
         /\ SubSeq(w, 1, m) \in Seq(Byte)
         /\ SubSeq(w, 1, m + 1) = Append(SubSeq(w, 1, m), w[m + 1])
         /\ \A a \in Seq(Byte) :
              a \o SubSeq(w, 1, m + 1) = Append(a \o SubSeq(w, 1, m), w[m + 1])
  <1>1. Len(w) \in Nat
    OBVIOUS
  <1>2. m + 1 \in 0 .. Len(w) /\ m + 1 \in 1 .. Len(w) /\ m \in Nat
    BY <1>1
  <1>3. w[m + 1] \in Byte /\ SubSeq(w, 1, m) \in Seq(Byte)
    BY <1>2
  <1>4. SubSeq(w, 1, m + 1) = Append(SubSeq(w, 1, m), w[m + 1])
    BY <1>2
  <1>5. ASSUME NEW a \in Seq(Byte)
        PROVE  a \o SubSeq(w, 1, m + 1) = Append(a \o SubSeq(w, 1, m), w[m + 1])
    <2> DEFINE p == SubSeq(w, 1, m)
               v == w[m + 1]
    <2>1. p \in Seq(Byte) /\ v \in Byte
      BY <1>3
    <2> HIDE DEF p, v
    <2>2. Append(a \o p, v) = a \o Append(p, v)
      BY <2>1, AppendInside
    <2> QED BY <1>4, <2>2 DEF p, v
  <1> QED BY <1>2, <1>3, <1>4, <1>5

LEMMA RunsOn ==
  ASSUME NEW s \in Seq(Byte), NEW w \in Seq(Byte), ZeroFree(w)
  PROVE  FramesIn(s \o w) = FramesIn(s) /\ AfterLast(s \o w) = AfterLast(s) \o w
  <1> DEFINE n == Len(w)
             p(m) == SubSeq(w, 1, m)
             T == {m \in 0 .. n : /\ FramesIn(s \o p(m)) = FramesIn(s)
                                  /\ AfterLast(s \o p(m)) = AfterLast(s) \o p(m)}
  <1>1. n \in Nat /\ p(n) = w /\ p(0) = <<>>
    OBVIOUS
  <1>2. AfterLast(s) \in Seq(Byte)
    BY AfterLastTyped
  <1>3. 0 \in T
    <2>1. s \o <<>> = s /\ AfterLast(s) \o <<>> = AfterLast(s)
      BY <1>2, NothingAdded
    <2>2. s \o p(0) = s /\ AfterLast(s) \o p(0) = AfterLast(s)
      BY <1>1, <2>1
    <2>3. 0 \in 0 .. n
      BY <1>1
    <2> HIDE DEF p, n
    <2> QED BY <2>2, <2>3
  <1>4. ASSUME NEW m \in 0 .. n - 1, m \in T PROVE m + 1 \in T
    <2> DEFINE v == w[m + 1]
               x == s \o p(m)
    <2>1. /\ v \in Byte /\ p(m) \in Seq(Byte) /\ m + 1 \in 0 .. n
          /\ s \o p(m + 1) = Append(x, v)
          /\ AfterLast(s) \o p(m + 1) = Append(AfterLast(s) \o p(m), v)
      BY <1>2, PrefixGrows
    <2>2. m + 1 \in 1 .. n
      BY <1>1
    <2>3. v # 0
      BY <2>2 DEF ZeroFree
    <2>4. x \in Seq(Byte)
      BY <2>1
    <2> HIDE DEF v, x
    <2>5. FramesIn(Append(x, v)) = FramesIn(x)
      BY <2>1, <2>3, <2>4, FramesMore
    <2>6. AfterLast(Append(x, v)) = Append(AfterLast(x), v)
      BY <2>1, <2>3, <2>4, AfterByte
    <2>7. FramesIn(x) = FramesIn(s) /\ AfterLast(x) = AfterLast(s) \o p(m)
      BY <1>4 DEF x
    <2>8. FramesIn(s \o p(m + 1)) = FramesIn(s)
      BY <2>1, <2>5, <2>7
    <2>9. AfterLast(s \o p(m + 1)) = AfterLast(s) \o p(m + 1)
      BY <2>1, <2>6, <2>7
    <2> HIDE DEF p, n
    <2> QED BY <2>1, <2>8, <2>9
  <1>5. n \in T
    <2> HIDE DEF T
    <2>1. \A m \in 0 .. n : m \in T
      BY <1>1, <1>3, <1>4, Climbs
    <2> QED BY <1>1, <2>1
  <1>6. FramesIn(s \o p(n)) = FramesIn(s) /\ AfterLast(s \o p(n)) = AfterLast(s) \o p(n)
    BY <1>5
  <1> QED BY <1>1, <1>6

LEMMA RunEndsNone ==
  ASSUME NEW w \in Seq(Byte), ZeroFree(w)
  PROVE  FramesIn(w) = <<>> /\ AfterLast(w) = w
  <1>1. <<>> \o w = w /\ <<>> \in Seq(Byte)
    BY NothingAdded
  <1>2. FramesIn(<<>> \o w) = FramesIn(<<>>) /\ AfterLast(<<>> \o w) = AfterLast(<<>>) \o w
    BY <1>1, RunsOn
  <1> QED BY <1>1, <1>2, FramesNone, AfterNothing

(* What no zero has ended has no zero.                                     *)
LEMMA AppendFree ==
  ASSUME NEW w \in Seq(Byte), ZeroFree(w), NEW v \in Byte, v # 0
  PROVE  ZeroFree(Append(w, v))
  BY DEF ZeroFree

LEMMA AfterFree ==
  ASSUME NEW s \in Seq(Byte)
  PROVE  AfterLast(s) \in Seq(Byte) /\ ZeroFree(AfterLast(s))
  <1> DEFINE n == Len(s)
             p(m) == SubSeq(s, 1, m)
             T == {m \in 0 .. n : ZeroFree(AfterLast(p(m)))}
  <1>1. n \in Nat /\ p(n) = s /\ p(0) = <<>>
    OBVIOUS
  <1>2. 0 \in T
    <2>1. 0 \in 0 .. n /\ ZeroFree(<<>>)
      BY <1>1 DEF ZeroFree
    <2> QED BY <1>1, <2>1, AfterNothing
  <1>3. ASSUME NEW m \in 0 .. n - 1, m \in T PROVE m + 1 \in T
    <2> DEFINE v == s[m + 1]
               x == p(m)
    <2>1. v \in Byte /\ x \in Seq(Byte) /\ m + 1 \in 0 .. n /\ p(m + 1) = Append(x, v)
      BY PrefixGrows
    <2>2. ZeroFree(AfterLast(x))
      BY <1>3
    <2> HIDE DEF v, x
    <2>3. AfterLast(x) \in Seq(Byte)
      BY <2>1, AfterLastTyped
    <2>4. ZeroFree(AfterLast(Append(x, v)))
      <3>1. CASE v = 0
        <4>1. AfterLast(Append(x, 0)) = <<>>
          BY <2>1, AfterZero
        <4>2. ZeroFree(<<>>)
          BY DEF ZeroFree
        <4> QED BY <3>1, <4>1, <4>2
      <3>2. CASE v # 0
        <4>1. AfterLast(Append(x, v)) = Append(AfterLast(x), v)
          BY <2>1, <3>2, AfterByte
        <4> QED BY <2>1, <2>2, <2>3, <3>2, <4>1, AppendFree
      <3> QED BY <3>1, <3>2
    <2> HIDE DEF p, n
    <2> QED BY <2>1, <2>4
  <1>4. n \in T
    <2> HIDE DEF T
    <2>1. \A m \in 0 .. n : m \in T
      BY <1>1, <1>2, <1>3, Climbs
    <2> QED BY <1>1, <2>1
  <1> QED BY <1>1, <1>4, AfterLastTyped
-------------------------------------------------------------------------------
(* What the host reads *)

Readings == {PyDec(b) : b \in Seq(Byte)}

(* One frame more is one payload more.                                     *)
LEMMA DecodedNone == Decoded(<<>>) = <<>>
  BY FramesNone DEF Decoded

LEMMA DecodedMore ==
  ASSUME NEW s \in Seq(Byte), NEW v \in Byte
  PROVE  /\ Decoded(s) \in Seq(Readings)
         /\ Decoded(Append(s, v)) =
              IF v # 0 \/ AfterLast(s) = <<>> THEN Decoded(s)
              ELSE Append(Decoded(s), PyDec(AfterLast(s)))
  <1> DEFINE f == FramesIn(s)
             g == FramesIn(Append(s, v))
             x == [at |-> Len(s), bytes |-> AfterLast(s)]
             n == Len(f)
             D(h) == [i \in DOMAIN h |-> PyDec(h[i].bytes)]
  <1>1. f \in Seq(FrameSet) /\ g = IF v # 0 \/ AfterLast(s) = <<>> THEN f ELSE Append(f, x)
    BY FramesTyped, FramesMore
  <1>2. Decoded(s) = D(f) /\ Decoded(Append(s, v)) = D(g)
    BY DEF Decoded
  <1>3. x \in FrameSet /\ x.bytes = AfterLast(s)
    <2>1. Len(s) \in Nat /\ AfterLast(s) \in Seq(Byte)
      BY AfterLastTyped
    <2> QED BY <2>1 DEF FrameSet
  <1> HIDE DEF f, g, x
  <1>4. n \in Nat /\ DOMAIN f = 1 .. n /\ \A i \in 1 .. n : f[i] \in FrameSet
    BY <1>1
  <1>5. \A i \in 1 .. n : PyDec(f[i].bytes) \in Readings
    BY <1>4 DEF Readings, FrameSet
  <1>6. D(f) \in Seq(Readings) /\ Len(D(f)) = n /\ \A i \in 1 .. n : D(f)[i] = PyDec(f[i].bytes)
    BY <1>4, <1>5
  <1>7. D(Append(f, x)) = Append(D(f), PyDec(x.bytes))
    <2> DEFINE h == Append(f, x)
               e == Append(D(f), PyDec(x.bytes))
    <2>1. /\ h \in Seq(FrameSet) /\ DOMAIN h = 1 .. n + 1 /\ h[n + 1] = x
          /\ \A i \in 1 .. n : h[i] = f[i]
      BY <1>1, <1>3, <1>4
    <2>2. /\ e = [i \in 1 .. n + 1 |-> e[i]] /\ e[n + 1] = PyDec(x.bytes)
          /\ \A i \in 1 .. n : e[i] = D(f)[i]
      <3> DEFINE d == D(f)
                 y == PyDec(x.bytes)
      <3>1. y \in Readings /\ d \in Seq(Readings) /\ Len(d) = n
        BY <1>3, <1>6 DEF Readings, FrameSet
      <3>n. n \in Nat
        BY <1>4
      <3> HIDE DEF d, y, n
      <3>2. /\ Append(d, y) = [i \in 1 .. n + 1 |-> Append(d, y)[i]] /\ Append(d, y)[n + 1] = y
            /\ \A i \in 1 .. n : Append(d, y)[i] = d[i]
        <4> DEFINE z == Append(d, y)
        <4>1. /\ z \in Seq(Readings) /\ Len(z) = n + 1 /\ z[n + 1] = y
              /\ \A i \in 1 .. n : z[i] = d[i]
          BY <3>1, <3>n
        <4> HIDE DEF z
        <4>2. z = [i \in 1 .. n + 1 |-> z[i]]
          BY <4>1
        <4> QED BY <4>1, <4>2 DEF z
      <3> QED BY <3>2 DEF d, y
    <2> HIDE DEF h, e
    <2>3. \A i \in 1 .. n + 1 : PyDec(h[i].bytes) = e[i]
      <3> SUFFICES ASSUME NEW i \in 1 .. n + 1 PROVE PyDec(h[i].bytes) = e[i]
        OBVIOUS
      <3>1. CASE i = n + 1
        BY <2>1, <2>2, <3>1
      <3>2. CASE i # n + 1
        <4>1. i \in 1 .. n
          BY <1>4, <3>2
        <4> QED BY <1>6, <2>1, <2>2, <4>1
      <3> QED BY <3>1, <3>2
    <2>4. D(h) = [i \in 1 .. n + 1 |-> PyDec(h[i].bytes)]
      BY <2>1
    <2>5. D(h) = e
      BY <2>2, <2>3, <2>4
    <2> QED BY <2>5 DEF h, e
  <1> HIDE DEF D
  <1> QED BY <1>1, <1>2, <1>3, <1>6, <1>7

LEMMA ReadingsAppend ==
  ASSUME NEW d \in Seq(Readings), NEW e \in Seq(Readings), NEW r \in Readings
  PROVE  Append(d \o e, r) = d \o Append(e, r)
  OBVIOUS

(* What comes in two pieces is read as it would be in one.                 *)
LEMMA InPieces ==
  ASSUME NEW a \in Seq(Byte), NEW b \in Seq(Byte)
  PROVE  /\ AfterLast(a \o b) = AfterLast(AfterLast(a) \o b)
         /\ Decoded(a \o b) = Decoded(a) \o Decoded(AfterLast(a) \o b)
  <1> DEFINE n == Len(b)
             p(m) == SubSeq(b, 1, m)
             c == AfterLast(a)
             T == {m \in 0 .. n : /\ AfterLast(a \o p(m)) = AfterLast(c \o p(m))
                                  /\ Decoded(a \o p(m)) = Decoded(a) \o Decoded(c \o p(m))}
  <1>1. n \in Nat /\ p(n) = b /\ p(0) = <<>>
    OBVIOUS
  <1>2. c \in Seq(Byte) /\ ZeroFree(c)
    BY AfterFree
  <1>3. AfterLast(c) = c /\ Decoded(c) = <<>>
    <2> HIDE DEF c
    <2>1. AfterLast(c) = c /\ FramesIn(c) = <<>>
      BY <1>2, RunEndsNone
    <2> QED BY <2>1 DEF Decoded
  <1> HIDE DEF c
  <1>4. \A x \in Seq(Byte) : Decoded(x) \in Seq(Readings)
    BY Zero, DecodedMore
  <1>5. 0 \in T
    <2>1. a \o <<>> = a /\ c \o <<>> = c /\ Decoded(a) \in Seq(Readings)
      BY <1>2, <1>4, NothingAdded
    <2>2. Decoded(a) \o <<>> = Decoded(a)
      BY <2>1
    <2>3. AfterLast(a \o p(0)) = AfterLast(c \o p(0))
      BY <1>1, <1>3, <2>1 DEF c
    <2>4. Decoded(a \o p(0)) = Decoded(a) \o Decoded(c \o p(0))
      BY <1>1, <1>3, <2>1, <2>2
    <2>5. 0 \in 0 .. n
      BY <1>1
    <2> HIDE DEF p, n
    <2> QED BY <2>3, <2>4, <2>5
  <1>6. ASSUME NEW m \in 0 .. n - 1, m \in T PROVE m + 1 \in T
    <2> DEFINE v == b[m + 1]
               x == a \o p(m)
               y == c \o p(m)
    <2>1. /\ v \in Byte /\ p(m) \in Seq(Byte) /\ m + 1 \in 0 .. n
          /\ a \o p(m + 1) = Append(x, v) /\ c \o p(m + 1) = Append(y, v)
      BY <1>2, PrefixGrows
    <2>2. x \in Seq(Byte) /\ y \in Seq(Byte)
      BY <1>2, <2>1
    <2>3. AfterLast(x) = AfterLast(y) /\ Decoded(x) = Decoded(a) \o Decoded(y)
      BY <1>6
    <2> HIDE DEF v, x, y
    <2>4. AfterLast(Append(x, v)) = AfterLast(Append(y, v))
      <3>1. CASE v = 0
        BY <2>2, <3>1, AfterZero
      <3>2. CASE v # 0
        <4>1. AfterLast(Append(x, v)) = Append(AfterLast(x), v)
          BY <2>1, <2>2, <3>2, AfterByte
        <4>2. AfterLast(Append(y, v)) = Append(AfterLast(y), v)
          BY <2>1, <2>2, <3>2, AfterByte
        <4> QED BY <2>3, <4>1, <4>2
      <3> QED BY <3>1, <3>2
    <2>5. Decoded(Append(x, v)) = Decoded(a) \o Decoded(Append(y, v))
      <3>1. CASE v # 0 \/ AfterLast(x) = <<>>
        <4>1. Decoded(Append(x, v)) = Decoded(x) /\ Decoded(Append(y, v)) = Decoded(y)
          BY <2>1, <2>2, <2>3, <3>1, DecodedMore
        <4> QED BY <2>3, <4>1
      <3>2. CASE ~(v # 0 \/ AfterLast(x) = <<>>)
        <4> DEFINE r == PyDec(AfterLast(x))
        <4>1. /\ Decoded(Append(x, v)) = Append(Decoded(x), r)
              /\ Decoded(Append(y, v)) = Append(Decoded(y), r)
          BY <2>1, <2>2, <2>3, <3>2, DecodedMore
        <4>2. r \in Readings
          BY <2>2, AfterLastTyped DEF Readings
        <4> HIDE DEF r
        <4>3. Decoded(a) \in Seq(Readings) /\ Decoded(y) \in Seq(Readings)
          BY <1>4, <2>2
        <4>4. Append(Decoded(a) \o Decoded(y), r) = Decoded(a) \o Append(Decoded(y), r)
          BY <4>2, <4>3, ReadingsAppend
        <4> QED BY <2>3, <4>1, <4>4
      <3> QED BY <3>1, <3>2
    <2> HIDE DEF p, n
    <2> QED BY <2>1, <2>4, <2>5
  <1>7. n \in T
    <2> HIDE DEF T
    <2>1. \A m \in 0 .. n : m \in T
      BY <1>1, <1>5, <1>6, Climbs
    <2> QED BY <1>1, <2>1
  <1>8. AfterLast(a \o p(n)) = AfterLast(c \o p(n)) /\ Decoded(a \o p(n)) = Decoded(a) \o Decoded(c \o p(n))
    BY <1>7
  <1> QED BY <1>1, <1>8 DEF c

-------------------------------------------------------------------------------
(* Answers *)

(* An answer is one zero-free run between two zeros.                       *)
LEMMA AfterOneZero == <<0>> \in Seq(Byte) /\ AfterLast(<<0>>) = <<>> /\ FramesIn(<<0>>) = <<>>
  <1>1. <<>> \in Seq(Byte) /\ Append(<<>>, 0) = <<0>> /\ 0 \in Byte
    BY Zero
  <1>2. AfterLast(<<0>>) = <<>>
    BY <1>1, AfterZero
  <1>3. FramesIn(<<0>>) = <<>>
    <2>1. FramesIn(Append(<<>>, 0)) = FramesIn(<<>>)
      BY <1>1, FramesMore, AfterNothing
    <2> QED BY <1>1, <2>1, FramesNone
  <1> QED BY <1>1, <1>2, <1>3

LEMMA AfterZeroRun ==
  ASSUME NEW c \in Seq(Byte), ZeroFree(c)
  PROVE  /\ <<0>> \o c \in Seq(Byte) /\ AfterLast(<<0>> \o c) = c /\ FramesIn(<<0>> \o c) = <<>>
  <1>1. /\ FramesIn(<<0>> \o c) = FramesIn(<<0>>)
        /\ AfterLast(<<0>> \o c) = AfterLast(<<0>>) \o c
    BY AfterOneZero, RunsOn
  <1>2. <<>> \o c = c /\ <<0>> \o c \in Seq(Byte)
    BY AfterOneZero
  <1> QED BY <1>1, <1>2, AfterOneZero

(* Of what goes out the host reads one payload, and keeps no more than the *)
(* encoding at any time.                                                   *)
LEMMA ReadBetween ==
  ASSUME NEW code \in Seq(Codes), code # <<>>
  PROVE  /\ Between(code) \in Seq(Byte)
         /\ AfterLast(Between(code)) = <<>>
         /\ Decoded(Between(code)) = <<PyDec(code)>>
         /\ \A k \in 0 .. Len(Between(code)) :
              Len(AfterLast(SubSeq(Between(code), 1, k))) <= Len(code)
  <1> DEFINE w == Between(code)
             x == <<0>> \o code
             n == Len(code)
  <1>1. code \in Seq(Byte) /\ ZeroFree(code) /\ n \in Nat
    BY CodesAreBytes DEF ZeroFree
  <1>2. x \in Seq(Byte) /\ AfterLast(x) = code /\ FramesIn(x) = <<>> /\ Len(x) = n + 1
    <2>1. Len(x) = n + 1
      BY <1>1
    <2> QED BY <1>1, <2>1, AfterZeroRun
  <1> HIDE DEF x
  <1>3. w = Append(x, 0)
    BY DEF Between, x
  <1>4. /\ w \in Seq(Byte) /\ Len(w) = n + 2
        /\ w[1] = 0 /\ \A i \in 2 .. n + 1 : w[i] = code[i - 1]
    BY BetweenIs
  <1> HIDE DEF w
  <1>5. AfterLast(w) = <<>>
    BY <1>2, <1>3, AfterZero
  <1>6. Decoded(w) = <<PyDec(code)>>
    <2>1. Decoded(x) = <<>>
      BY <1>2 DEF Decoded
    <2>2. Decoded(Append(x, 0)) = Append(Decoded(x), PyDec(AfterLast(x)))
      BY <1>2, Zero, DecodedMore
    <2> QED BY <1>2, <1>3, <2>1, <2>2
  <1>7. ASSUME NEW k \in 0 .. n + 2
        PROVE  Len(AfterLast(SubSeq(w, 1, k))) <= n
    <2>1. CASE k = 0
      <3>1. SubSeq(w, 1, k) = <<>>
        BY <2>1
      <3>2. Len(AfterLast(<<>>)) = 0
        BY AfterNothing
      <3>3. Len(AfterLast(SubSeq(w, 1, k))) = 0
        BY <3>1, <3>2, Zenon
      <3> QED BY <1>1, <3>3
    <2>2. CASE k = n + 2
      <3>1. SubSeq(w, 1, k) = w
        BY <1>4, <2>2
      <3>2. Len(<<>>) = 0
        OBVIOUS
      <3>3. Len(AfterLast(SubSeq(w, 1, k))) = 0
        BY <1>5, <3>1, <3>2, Zenon
      <3> QED BY <1>1, <3>3
    <2>3. CASE k \in 1 .. n + 1
      <3> DEFINE c == SubSeq(code, 1, k - 1)
      <3>1. k - 1 \in 0 .. n
        BY <1>1, <2>3
      <3>2. c \in Seq(Byte) /\ Len(c) = k - 1 /\ \A i \in 1 .. k - 1 : c[i] = code[i]
        BY <1>1, <3>1
      <3> HIDE DEF c
      <3>3. ZeroFree(c)
        BY <1>1, <3>1, <3>2 DEF ZeroFree
      <3>4. SubSeq(w, 1, k) = <<0>> \o c
        <4> DEFINE y == <<0>> \o c
        <4>1. y \in Seq(Byte) /\ Len(y) = k /\ y[1] = 0 /\ \A i \in 2 .. k : y[i] = c[i - 1]
          BY <2>3, <3>2, Zero
        <4> HIDE DEF y
        <4>2. y = [i \in 1 .. k |-> y[i]]
          BY <4>1
        <4>3. SubSeq(w, 1, k) = [i \in 1 .. k |-> w[i]]
          BY <1>1, <1>4, <2>3
        <4>4. \A i \in 1 .. k : w[i] = y[i]
          <5> SUFFICES ASSUME NEW i \in 1 .. k PROVE w[i] = y[i]
            OBVIOUS
          <5>1. CASE i = 1
            BY <1>4, <4>1, <5>1
          <5>2. CASE i # 1
            <6>1. i \in 2 .. n + 1 /\ i \in 2 .. k /\ i - 1 \in 1 .. k - 1
              BY <1>1, <2>3, <5>2
            <6> QED BY <1>4, <3>2, <4>1, <6>1
          <5> QED BY <5>1, <5>2
        <4> QED BY <4>2, <4>3, <4>4 DEF y
      <3>5. AfterLast(SubSeq(w, 1, k)) = c
        BY <3>2, <3>3, <3>4, AfterZeroRun
      <3> QED BY <3>1, <3>2, <3>5
    <2> QED BY <1>1, <2>1, <2>2, <2>3
  <1> QED BY <1>4, <1>5, <1>6, <1>7 DEF w

(* What the program and the host do to what goes from one to the other.    *)
Answers(code) ==
  /\ code # <<>> /\ Len(code) + 2 <= BufSize
  /\ line' = line \o Between(code)
  /\ replies' = Append(replies, PyDec(code))
  /\ UNCHANGED <<indata, answers>>

(* Only HostReceive and answers change what is on its way to the host.     *)
LEMMA StepsBack ==
  ASSUME RingInv, Typed, [Next]_vars
  PROVE  UNCHANGED back \/ HostReceive \/ \E code \in Seq(Codes) : Answers(code)
  <1>1. CASE Send
    BY <1>1 DEF Send
  <1>2. CASE Deliver
    BY <1>2 DEF Deliver, Receive
  <1>3. CASE Damage
    <2>1. CASE \E b \in Noise \ {Head(wire)} : Receive(b)
      BY <2>1 DEF Receive
    <2> QED BY <1>3, <2>1 DEF Damage
  <1>4. CASE OnRxdRdy
    BY <1>4 DEF OnRxdRdy
  <1>5. CASE SkipZero
    BY <1>5 DEF SkipZero
  <1>6. CASE BeginFrame
    BY <1>6 DEF BeginFrame
  <1>7. CASE More
    BY <1>7 DEF More
  <1>8. CASE EndFrame
    <2>1. PICK e \in DOMAIN Peeked :
            /\ Skip(e - 1)
            /\ fill' = fill + Stored(e - 1)
            /\ LET d == Dec(Filled(e - 1), fill')
               IN IF ~overrun' /\ Accepted(d)
                  THEN Respond(d.mem, d.mem[0] \div 4)
                  ELSE buf' = d.mem /\ UNCHANGED <<calls, back>>
      BY <1>8 DEF EndFrame
    <2>2. e - 1 \in 0 .. RxAvail
      BY AvailCounted, Counts DEF Peeked
    <2> DEFINE d == Dec(Filled(e - 1), fill')
    <2>3. Filled(e - 1) \in Memory /\ fill' \in 0 .. BufSize - 1
      BY <2>1, <2>2, FilledBytes
    <2>4. d.mem \in Memory
      BY <2>3, DecTyped
    <2>5. CASE ~overrun' /\ Accepted(d)
      <3>1. Respond(d.mem, d.mem[0] \div 4) /\ d.mem[0] \div 4 \in Handlers
        BY <2>1, <2>5 DEF Accepted
      <3> HIDE DEF d
      <3> QED BY <2>4, <3>1, AnswerTyped DEF Answers
    <2>6. CASE ~(~overrun' /\ Accepted(d))
      BY <2>1, <2>6
    <2> QED BY <2>5, <2>6
  <1>9. CASE HostReceive
    BY <1>9
  <1>10. CASE UNCHANGED vars
    BY <1>10 DEF vars
  <1> QED BY <1>1, <1>2, <1>3, <1>4, <1>5, <1>6, <1>7, <1>8, <1>9, <1>10 DEF Next, LogProcess


(* The invariant: the bytes on their way to the host and those it keeps    *)
(* are the answers it has not decoded yet, with nothing begun behind them, *)
(* and at no place is there more of an answer than log_data.buf holds.     *)
Waits == indata \o line
Kept(k) == indata \o SubSeq(line, 1, k)

BackInv ==
  /\ ZeroFree(indata)
  /\ AfterLast(Waits) = <<>>
  /\ \A k \in 0 .. Len(line) : Len(AfterLast(Kept(k))) <= BufSize - 2
  /\ answers \in Seq(Readings)
  /\ AnswersTrue

(* CobsDecode cuts nothing off: it keeps the longest frame, which is two   *)
(* bytes shorter than log_data.buf, and what it is called with.  It keeps  *)
(* 1520 bytes, the buffer has 1509, and the serial line is read a byte at  *)
(* a time; from the log server, which is read up to 4096 bytes at a time,  *)
(* more may come than it keeps.                                            *)
HostRoom == BufSize - 2 + HostChunk <= HostMax

LEMMA InitBack == Init => BackInv
  <1> SUFFICES ASSUME Init PROVE BackInv
    OBVIOUS
  <1>1. line = <<>> /\ indata = <<>> /\ replies = <<>> /\ answers = <<>>
    BY DEF Init
  <1>2. Waits = <<>> /\ ZeroFree(<<>>) /\ Len(<<>>) = 0 /\ <<>> \in Seq(Readings)
    BY <1>1 DEF Waits, ZeroFree
  <1>3. AfterLast(Waits) = <<>> /\ Decoded(Waits) = <<>>
    BY <1>2, AfterNothing, DecodedNone
  <1>4. AnswersTrue
    <2>1. <<>> \o <<>> = <<>>
      OBVIOUS
    <2>2. answers \o Decoded(indata \o line) = replies
      BY <1>1, <1>3, <2>1 DEF Waits
    <2> QED BY <2>2 DEF AnswersTrue
  <1>5. \A k \in 0 .. Len(line) : Len(AfterLast(Kept(k))) <= BufSize - 2
    <2>1. SubSeq(<<>>, 1, 0) = <<>> /\ <<>> \o <<>> = <<>>
      OBVIOUS
    <2>2. \A k \in 0 .. Len(line) : k = 0
      BY <1>1, <1>2
    <2>3. Kept(0) = <<>>
      BY <1>1, <2>1 DEF Kept
    <2>4. Len(AfterLast(Kept(0))) = 0
      BY <1>2, <2>3, AfterNothing
    <2>5. 0 <= BufSize - 2
      BY BufferSizes
    <2> QED BY <2>2, <2>4, <2>5
  <1> QED BY <1>1, <1>2, <1>3, <1>4, <1>5 DEF BackInv

(* The beginning of two sequences in a row that reaches into the second.   *)
LEMMA SubSeqOn ==
  ASSUME NEW a \in Seq(Byte), NEW b \in Seq(Byte), NEW j \in 0 .. Len(b)
  PROVE  SubSeq(a \o b, 1, Len(a) + j) = a \o SubSeq(b, 1, j)
  <1> DEFINE n == Len(a)
             x == a \o b
             p == SubSeq(b, 1, j)
             y == a \o p
  <1>1. n \in Nat /\ j \in Nat /\ Len(b) \in Nat
    OBVIOUS
  <1>2. /\ x \in Seq(Byte) /\ Len(x) = n + Len(b)
        /\ \A i \in 1 .. n : x[i] = a[i]
        /\ \A i \in 1 .. Len(b) : x[n + i] = b[i]
    OBVIOUS
  <1>3. p \in Seq(Byte) /\ Len(p) = j /\ \A i \in 1 .. j : p[i] = b[i]
    <2>1. SubSeq(b, 0 + 1, j) \in Seq(Byte) /\ Len(SubSeq(b, 0 + 1, j)) = j
          /\ \A i \in 1 .. j : SubSeq(b, 0 + 1, j)[i] = b[0 + i]
      BY <1>1, PieceIs
    <2> QED BY <1>1, <2>1
  <1> HIDE DEF x, p
  <1>4. /\ y \in Seq(Byte) /\ Len(y) = n + j
        /\ \A i \in 1 .. n : y[i] = a[i]
        /\ \A i \in 1 .. j : y[n + i] = p[i]
    <2>1. /\ y \in Seq(Byte) /\ Len(y) = Len(a) + Len(p)
          /\ \A i \in 1 .. Len(a) : y[i] = a[i]
          /\ \A i \in 1 .. Len(p) : y[Len(a) + i] = p[i]
      BY <1>3, JoinedAt
    <2> HIDE DEF y
    <2> QED BY <1>1, <1>3, <2>1
  <1> HIDE DEF y, n
  <1>5. SubSeq(x, 0 + 1, n + j) \in Seq(Byte) /\ Len(SubSeq(x, 0 + 1, n + j)) = n + j
        /\ \A i \in 1 .. n + j : SubSeq(x, 0 + 1, n + j)[i] = x[0 + i]
    <2>1. n + j \in Nat /\ n + j = 0 + (n + j) /\ n + j <= Len(x) /\ 0 \in Nat
      BY <1>1, <1>2
    <2> QED BY <1>2, <2>1, PieceIs
  <1> DEFINE z == SubSeq(x, 1, n + j)
  <1>6. z \in Seq(Byte) /\ Len(z) = n + j /\ \A i \in 1 .. n + j : z[i] = x[i]
    BY <1>1, <1>5
  <1> HIDE DEF z
  <1>7. \A i \in 1 .. n + j : z[i] = y[i]
    <2> SUFFICES ASSUME NEW i \in 1 .. n + j PROVE z[i] = y[i]
      OBVIOUS
    <2>1. CASE i \in 1 .. n
      BY <1>2, <1>4, <1>6, <2>1
    <2>2. CASE i \notin 1 .. n
      <3> DEFINE h == i - n
      <3>1. h \in 1 .. j /\ h \in 1 .. Len(b) /\ i = n + h
        BY <1>1, <2>2
      <3> HIDE DEF h
      <3> QED BY <1>2, <1>3, <1>4, <1>6, <3>1
    <2> QED BY <2>1, <2>2
  <1>8. z = y
    BY <1>4, <1>6, <1>7
  <1> QED BY <1>8 DEF x, y, z, p, n

(* An answer adds one frame, whole, behind those on their way.             *)
LEMMA AnswerBack ==
  ASSUME Typed, BackInv, NEW code \in Seq(Codes), Answers(code)
  PROVE  BackInv'
  <1> DEFINE w == Between(code)
             n == Len(line)
  <1>1. /\ code # <<>> /\ Len(code) + 2 <= BufSize /\ line' = line \o w
        /\ replies' = Append(replies, PyDec(code)) /\ indata' = indata /\ answers' = answers
    BY DEF Answers
  <1>2. /\ w \in Seq(Byte) /\ AfterLast(w) = <<>> /\ Decoded(w) = <<PyDec(code)>>
        /\ \A k \in 0 .. Len(w) : Len(AfterLast(SubSeq(w, 1, k))) <= Len(code)
    BY <1>1, ReadBetween
  <1> HIDE DEF w
  <1>3. line \in Seq(Byte) /\ indata \in Seq(Byte) /\ n \in Nat /\ Waits \in Seq(Byte)
    <2>1. line \in Seq(Byte) /\ indata \in Seq(Byte)
      BY DEF Typed
    <2> QED BY <2>1 DEF Waits
  <1>4. Waits' = Waits \o w
    <2>1. indata \o (line \o w) = (indata \o line) \o w
      BY <1>2, <1>3, Regroup
    <2> QED BY <1>1, <2>1 DEF Waits
  <1>5. <<>> \o w = w
    BY <1>2, NothingAdded
  <1>6. AfterLast(Waits') = <<>> /\ Decoded(Waits \o w) = Append(Decoded(Waits), PyDec(code))
    <2>1. /\ AfterLast(Waits \o w) = AfterLast(AfterLast(Waits) \o w)
          /\ Decoded(Waits \o w) = Decoded(Waits) \o Decoded(AfterLast(Waits) \o w)
      BY <1>2, <1>3, InPieces
    <2>2. AfterLast(Waits) = <<>>
      BY DEF BackInv
    <2>3. Decoded(Waits) \in Seq(Readings)
      BY <1>3, Zero, DecodedMore
    <2>4. Decoded(Waits) \o <<PyDec(code)>> = Append(Decoded(Waits), PyDec(code))
      BY <2>3
    <2> QED BY <1>2, <1>4, <1>5, <2>1, <2>2, <2>4
  <1>7. AnswersTrue'
    <2> DEFINE d == Decoded(Waits)
               r == PyDec(code)
    <2>1. answers \in Seq(Readings) /\ d \in Seq(Readings) /\ r \in Readings
      <3>1. code \in Seq(Byte)
        BY CodesAreBytes
      <3> QED BY <1>3, <3>1, Zero, DecodedMore DEF BackInv, Readings
    <2>2. answers \o d = replies
      BY DEF BackInv, AnswersTrue, Waits
    <2> HIDE DEF d, r
    <2>3. Append(answers \o d, r) = answers \o Append(d, r)
      BY <2>1, ReadingsAppend
    <2>4. answers' \o Decoded(Waits') = replies'
      BY <1>1, <1>4, <1>6, <2>2, <2>3 DEF d, r
    <2> QED BY <2>4 DEF AnswersTrue, Waits
  <1>8. ASSUME NEW k \in 0 .. Len(line')
        PROVE  Len(AfterLast(Kept(k)')) <= BufSize - 2
    <2>0. Len(line') = n + Len(w) /\ Len(w) \in Nat
      BY <1>1, <1>2, <1>3
    <2>1. CASE k <= n
      <3>1. SubSeq(line \o w, 1, k) = SubSeq(line, 1, k)
        BY <1>2, <1>3, <2>0, <2>1
      <3>2. Kept(k)' = Kept(k)
        BY <1>1, <3>1 DEF Kept
      <3>3. k \in 0 .. Len(line)
        BY <1>3, <2>0, <2>1
      <3> QED BY <3>2, <3>3 DEF BackInv
    <2>2. CASE ~(k <= n)
      <3> DEFINE j == k - n
                 p == SubSeq(w, 1, j)
      <3>1. j \in 0 .. Len(w) /\ j \in Nat /\ k = n + j
        BY <1>3, <2>0, <2>2
      <3>2. p \in Seq(Byte)
        BY <1>2, <3>1
      <3>3. SubSeq(line \o w, 1, k) = line \o p
        BY <1>2, <1>3, <3>1, SubSeqOn
      <3> HIDE DEF p, j
      <3>4. Kept(k)' = Waits \o p
        <4>1. indata \o (line \o p) = (indata \o line) \o p
          <5> DEFINE u == indata
                     v == line
          <5>1. u \in Seq(Byte) /\ v \in Seq(Byte)
            BY <1>3
          <5> HIDE DEF u, v
          <5>2. u \o (v \o p) = (u \o v) \o p
            BY <3>2, <5>1, Regroup
          <5> QED BY <5>2 DEF u, v
        <4> QED BY <1>1, <3>3, <4>1 DEF Kept, Waits
      <3>5. AfterLast(Waits \o p) = AfterLast(AfterLast(Waits) \o p)
        BY <1>3, <3>2, InPieces
      <3>6. AfterLast(Waits) = <<>> /\ <<>> \o p = p
        BY <3>2, NothingAdded DEF BackInv
      <3>7. Len(AfterLast(p)) <= Len(code)
        BY <1>2, <3>1 DEF p
      <3>8. AfterLast(p) \in Seq(Byte)
        BY <3>2, AfterLastTyped
      <3>9. Len(AfterLast(p)) \in Nat /\ Len(code) \in Nat /\ BufSize \in Nat
        BY <3>8, BufferSizes
      <3> QED BY <1>1, <3>4, <3>5, <3>6, <3>7, <3>9
    <2> QED BY <2>1, <2>2
  <1>9. ZeroFree(indata') /\ answers' \in Seq(Readings)
    BY <1>1 DEF BackInv
  <1> QED BY <1>6, <1>7, <1>8, <1>9 DEF BackInv

LEMMA ReadingsRegroup ==
  ASSUME NEW d \in Seq(Readings), NEW e \in Seq(Readings), NEW f \in Seq(Readings)
  PROVE  d \o e \in Seq(Readings) /\ d \o (e \o f) = (d \o e) \o f
  OBVIOUS

(* A sequence cut in two is those two parts in a row.                      *)
LEMMA SplitAt ==
  ASSUME NEW s \in Seq(Byte), NEW n \in 1 .. Len(s)
  PROVE  /\ SubSeq(s, 1, n) \in Seq(Byte) /\ Len(SubSeq(s, 1, n)) = n
         /\ SubSeq(s, n + 1, Len(s)) \in Seq(Byte) /\ Len(SubSeq(s, n + 1, Len(s))) = Len(s) - n
         /\ s = SubSeq(s, 1, n) \o SubSeq(s, n + 1, Len(s))
  <1> DEFINE p == SubSeq(s, 1, n)
             q == SubSeq(s, n + 1, Len(s))
             m == Len(s) - n
  <1>1. m \in Nat /\ n \in Nat /\ n + m = Len(s) /\ Len(s) \in Nat
    OBVIOUS
  <1>2. p \in Seq(Byte) /\ Len(p) = n /\ \A i \in 1 .. n : p[i] = s[i]
    OBVIOUS
  <1>3. q \in Seq(Byte) /\ Len(q) = m /\ \A i \in 1 .. m : q[i] = s[n + i]
    <2> HIDE DEF m
    <2>1. Len(s) = n + m /\ Len(s) <= Len(s)
      BY <1>1
    <2> QED BY <1>1, <2>1, PieceIs
  <1>4. s = p \o q
    <2> DEFINE l == Len(s)
    <2>1. /\ SubSeq(s, 1, l) \in Seq(Byte) /\ Len(SubSeq(s, 1, l)) = l
          /\ \A i \in 1 .. l : SubSeq(s, 1, l)[i] = s[i]
      BY <1>1, FirstIs
    <2>2. SubSeq(s, 1, l) = s
      BY <2>1
    <2>3. SubSeq(s, 1, n + m) = SubSeq(s, 1, n) \o SubSeq(s, n + 1, n + m)
      <3> HIDE DEF m
      <3> QED BY <1>1, Continued
    <2> HIDE DEF m
    <2> QED BY <1>1, <2>2, <2>3
  <1> QED BY <1>1, <1>2, <1>3, <1>4

(* What the host reads, however much, it decodes once: nothing is cut.     *)
LEMMA HostBack ==
  ASSUME HostRoom, Typed, BackInv, HostReceive
  PROVE  BackInv'
  <1>1. PICK n \in 1 .. HostChunk :
          /\ n <= Len(line)
          /\ answers' = answers \o Decoded(Cut(Kept(n)))
          /\ indata' = AfterLast(Cut(Kept(n)))
          /\ line' = SubSeq(line, n + 1, Len(line))
    BY DEF HostReceive, Kept
  <1>2. UNCHANGED replies
    BY DEF HostReceive
  <1> DEFINE p == SubSeq(line, 1, n)
             q == SubSeq(line, n + 1, Len(line))
             data == Kept(n)
  <1>3. line \in Seq(Byte) /\ indata \in Seq(Byte) /\ n \in 1 .. Len(line) /\ n <= HostChunk /\ n \in Nat
    BY <1>1, LogRxAssumption DEF Typed
  <1>4. /\ p \in Seq(Byte) /\ Len(p) = n /\ q \in Seq(Byte) /\ Len(q) = Len(line) - n
        /\ line = p \o q
    BY <1>3, SplitAt
  <1>5. data = indata \o p
    BY DEF Kept
  <1> HIDE DEF p, q, data
  <1>6. data \in Seq(Byte) /\ Len(data) = Len(indata) + n
    <2>1. indata \o p \in Seq(Byte) /\ Len(indata \o p) = Len(indata) + Len(p)
      BY <1>3, <1>4, JoinedAt
    <2> QED BY <1>4, <1>5, <2>1
  <1>7. Cut(data) = data
    <2>1. Kept(0) = indata
      <3>1. SubSeq(line, 1, 0) = <<>> /\ indata \o <<>> = indata
        BY <1>3
      <3> QED BY <3>1 DEF Kept
    <2>2. AfterLast(indata) = indata
      BY <1>3, RunEndsNone DEF BackInv
    <2>3. Len(indata) <= BufSize - 2
      <3>1. 0 \in 0 .. Len(line)
        BY <1>3
      <3>2. Len(AfterLast(Kept(0))) <= BufSize - 2
        BY <3>1 DEF BackInv
      <3> QED BY <2>1, <2>2, <3>2
    <2>4. /\ Len(indata) \in Nat /\ BufSize \in Nat /\ HostChunk \in Nat /\ HostMax \in Nat
          /\ BufSize - 2 + HostChunk <= HostMax
      BY <1>3, BufferSizes, LogRxAssumption DEF HostRoom
    <2>5. Len(data) <= HostMax
      <3>1. Len(indata) + n <= (BufSize - 2) + HostChunk
        BY <1>3, <2>3, <2>4
      <3>2. (BufSize - 2) + HostChunk <= HostMax
        BY <2>4
      <3> QED BY <1>3, <1>6, <2>4, <3>1, <3>2
    <2>6. ~(Len(data) > HostMax)
      BY <1>6, <2>4, <2>5
    <2> QED BY <2>6 DEF Cut
  <1>8. /\ answers' = answers \o Decoded(data) /\ indata' = AfterLast(data) /\ line' = q
    BY <1>1, <1>7 DEF q, data
  <1>9. ZeroFree(indata') /\ AfterLast(data) \in Seq(Byte)
    BY <1>6, <1>8, AfterFree
  <1>10. Waits = data \o q
    <2>1. indata \o (p \o q) = (indata \o p) \o q
      BY <1>3, <1>4, Regroup
    <2> QED BY <1>4, <1>5, <2>1 DEF Waits
  <1>11. Waits' = AfterLast(data) \o q
    BY <1>8 DEF Waits
  <1>12. /\ AfterLast(data \o q) = AfterLast(AfterLast(data) \o q)
         /\ Decoded(data \o q) = Decoded(data) \o Decoded(AfterLast(data) \o q)
    BY <1>4, <1>6, InPieces
  <1>13. AfterLast(Waits') = <<>>
    BY <1>10, <1>11, <1>12 DEF BackInv
  <1>14. /\ answers \in Seq(Readings) /\ Decoded(data) \in Seq(Readings)
         /\ Decoded(Waits') \in Seq(Readings)
    <2>1. Waits' \in Seq(Byte)
      BY <1>4, <1>9, <1>11
    <2> QED BY <1>6, <2>1, Zero, DecodedMore DEF BackInv
  <1>15. answers' \in Seq(Readings) /\ AnswersTrue'
    <2> DEFINE d == Decoded(data)
               e == Decoded(Waits')
    <2>1. answers \o (d \o e) = replies
      BY <1>10, <1>11, <1>12 DEF BackInv, AnswersTrue, Waits
    <2> HIDE DEF d, e
    <2>2. answers \o d \in Seq(Readings) /\ answers \o (d \o e) = (answers \o d) \o e
      BY <1>14, ReadingsRegroup DEF d, e
    <2>3. answers' \o Decoded(Waits') = replies'
      BY <1>2, <1>8, <2>1, <2>2 DEF d, e
    <2> QED BY <1>8, <2>2, <2>3 DEF AnswersTrue, Waits, d
  <1>16. ASSUME NEW k \in 0 .. Len(line')
         PROVE  Len(AfterLast(Kept(k)')) <= BufSize - 2
    <2> DEFINE c == SubSeq(q, 1, k)
    <2>1. k \in 0 .. Len(q) /\ n + k \in 0 .. Len(line)
      BY <1>3, <1>4, <1>8
    <2>2. c \in Seq(Byte)
      BY <1>4, <2>1
    <2>3. SubSeq(p \o q, 1, n + k) = p \o c
      BY <1>4, <2>1, SubSeqOn
    <2> HIDE DEF c
    <2>4. Kept(n + k) = data \o c
      <3>1. indata \o (p \o c) = (indata \o p) \o c
        BY <1>3, <1>4, <2>2, Regroup, SMTT(30)
      <3> QED BY <1>4, <1>5, <2>3, <3>1 DEF Kept
    <2>5. Kept(k)' = AfterLast(data) \o c
      BY <1>8 DEF Kept, c
    <2>6. AfterLast(data \o c) = AfterLast(AfterLast(data) \o c)
      BY <1>6, <2>2, InPieces
    <2>7. Len(AfterLast(Kept(n + k))) <= BufSize - 2
      BY <2>1 DEF BackInv
    <2> QED BY <2>4, <2>5, <2>6, <2>7
  <1> QED BY <1>9, <1>13, <1>15, <1>16 DEF BackInv

LEMMA NextBack == HostRoom /\ RingInv /\ Typed /\ BackInv /\ [Next]_vars => BackInv'
  <1> SUFFICES ASSUME HostRoom, RingInv, Typed, BackInv, [Next]_vars PROVE BackInv'
    OBVIOUS
  <1>1. CASE UNCHANGED back
    BY <1>1 DEF BackInv, back, Waits, Kept, AnswersTrue
  <1> QED BY <1>1, StepsBack, HostBack, AnswerBack

(* Invariant: the host decodes exactly what the handlers answered, in      *)
(* order, however long the answers are, whatever they hold and in whatever *)
(* pieces they come, unless CobsDecode cuts what it read (uclog.py:88).    *)
THEOREM AnswersCome ==
  ASSUME HostRoom
  PROVE  Spec => []AnswersTrue
  <1>1. Spec => []Typed
    BY InitTyped, NextTyped, RingAlways, PTL DEF Spec
  <1>2. RingInv /\ Typed /\ BackInv /\ [Next]_vars => BackInv'
    BY NextBack
  <1>3. BackInv => AnswersTrue
    BY DEF BackInv
  <1> QED BY <1>1, <1>2, <1>3, InitBack, RingAlways, PTL DEF Spec
-------------------------------------------------------------------------------
(* The calls that frames ask for *)

Wants(x) ==
  /\ Len(x.bytes) < BufSize /\ WellFormed(x.bytes) /\ Acceptable(PyDec(x.bytes))

Call(x) == [at |-> x.at, rx |-> PyDec(x.bytes)]

CallAt(x, w) == IF Wants(x) THEN Append(w, Call(x)) ELSE w

Asks(w, f) ==
  /\ w[0] = <<>>
  /\ \A i \in 1 .. Len(f) : w[i] = CallAt(f[i], w[i - 1])

(* One frame more is at most one call more.                                *)
LEMMA WantedAre ==
  ASSUME NEW s \in Seq(FrameSet)
  PROVE  \E w : Asks(w, s) /\ Wanted(s) = w[Len(s)]
  <1> DEFINE n == Len(s)
             Round(r, i) == IF i = 0 THEN <<>> ELSE CallAt(s[i], r[i - 1])
             Is(r, m) == r = [i \in 0 .. m |-> Round(r, i)]
             T == {m \in 0 .. n : \E r : Is(r, m)}
             same == CHOOSE r : Is(r, n)
  <1>n. n \in Nat
    OBVIOUS
  <1> HIDE DEF n
  <1>1. 0 \in T
    <2>1. Is([i \in 0 .. 0 |-> <<>>], 0)
      OBVIOUS
    <2> HIDE DEF Is
    <2> QED BY <1>n, <2>1
  <1>2. ASSUME NEW m \in 0 .. n - 1, m \in T PROVE m + 1 \in T
    <2>1. PICK r : Is(r, m)
      BY <1>2
    <2> DEFINE q == [i \in 0 .. m + 1 |-> IF i <= m THEN r[i] ELSE Round(r, m + 1)]
    <2>2. \A i \in 0 .. m + 1 : q[i] = Round(r, i)
      <3>1. \A i \in 0 .. m : r[i] = Round(r, i)
        BY <2>1
      <3> HIDE DEF Round
      <3> QED BY <1>n, <3>1
    <2>3. \A i \in 1 .. m + 1 : q[i - 1] = r[i - 1]
      BY <1>n
    <2> HIDE DEF q
    <2>4. \A i \in 0 .. m + 1 : Round(q, i) = Round(r, i)
      BY <1>n, <2>3
    <2>5. q = [i \in 0 .. m + 1 |-> q[i]]
      BY DEF q
    <2>6. Is(q, m + 1)
      <3> HIDE DEF Round
      <3> QED BY <2>2, <2>4, <2>5
    <2> HIDE DEF Is
    <2> QED BY <1>n, <2>6
  <1>3. n \in T
    <2> HIDE DEF T
    <2>1. \A m \in 0 .. n : m \in T
      BY <1>n, <1>1, <1>2, Climbs
    <2> QED BY <1>n, <2>1
  <1>4. Is(same, n)
    <2>1. \E r : Is(r, n)
      BY <1>3
    <2> HIDE DEF Is
    <2> QED BY <2>1
  <1>5. Wanted(s) = same[n]
    BY Zenon DEF Wanted, CallAt, Wants, Call, n
  <1> HIDE DEF same
  <1>6. Asks(same, s)
    <2>1. \A i \in 0 .. n : same[i] = Round(same, i)
      BY <1>4
    <2> HIDE DEF Round
    <2>2. same[0] = Round(same, 0) /\ \A i \in 1 .. n : same[i] = Round(same, i)
      BY <1>n, <2>1
    <2> QED BY <1>n, <2>2 DEF Asks, Round, n
  <1> QED BY <1>5, <1>6 DEF n

LEMMA WantedNone == Wanted(<<>>) = <<>>
  <1>1. <<>> \in Seq(FrameSet) /\ Len(<<>>) = 0
    OBVIOUS
  <1> QED BY <1>1, WantedAre DEF Asks

LEMMA WantedMore ==
  ASSUME NEW s \in Seq(FrameSet), NEW x \in FrameSet
  PROVE  Wanted(Append(s, x)) = CallAt(x, Wanted(s))
  <1> DEFINE t == Append(s, x)
             n == Len(s)
  <1>1. /\ t \in Seq(FrameSet) /\ Len(t) = n + 1 /\ t[n + 1] = x /\ n \in Nat
        /\ \A i \in 1 .. n : t[i] = s[i]
    OBVIOUS
  <1>2. PICK f : Asks(f, s) /\ Wanted(s) = f[n]
    BY WantedAre
  <1> HIDE DEF t
  <1>3. PICK g : Asks(g, t) /\ Wanted(t) = g[n + 1]
    BY <1>1, WantedAre
  <1> HIDE DEF n
  <1> DEFINE T == {k \in 0 .. n : g[k] = f[k]}
  <1>4. 0 \in T
    BY <1>1, <1>2, <1>3 DEF Asks
  <1>5. ASSUME NEW k \in 0 .. n - 1, k \in T PROVE k + 1 \in T
    <2>1. k + 1 \in 1 .. n /\ (k + 1) - 1 = k /\ k \in 0 .. n /\ k + 1 \in 0 .. n
          /\ k + 1 \in 1 .. n + 1
      BY <1>1
    <2>2. f[k + 1] = CallAt(s[k + 1], f[k])
      BY <1>2, <2>1 DEF Asks, n
    <2>3. g[k + 1] = CallAt(t[k + 1], g[k])
      BY <1>1, <1>3, <2>1 DEF Asks
    <2>4. t[k + 1] = s[k + 1] /\ g[k] = f[k]
      BY <1>1, <1>5, <2>1
    <2> QED BY <2>1, <2>2, <2>3, <2>4
  <1>6. g[n] = f[n]
    <2> HIDE DEF T
    <2>1. \A k \in 0 .. n : k \in T
      BY <1>1, <1>4, <1>5, Climbs
    <2> QED BY <1>1, <2>1 DEF T
  <1>7. g[n + 1] = CallAt(x, g[n])
    <2>1. n + 1 \in 1 .. n + 1 /\ (n + 1) - 1 = n
      BY <1>1
    <2> QED BY <1>1, <1>3, <2>1 DEF Asks
  <1> QED BY <1>2, <1>3, <1>6, <1>7 DEF t, n
-------------------------------------------------------------------------------
(* What is in the buffer *)

Came == SubSeq(stream, 1, taken)
Open == AfterLast(Came)

(* mem starts with the first n of the bytes w, as many as there is room    *)
(* for, and over tells whether that are not all of them.                   *)
Keeps(mem, n, over, w) ==
  /\ n = IF Len(w) < BufSize - 1 THEN Len(w) ELSE BufSize - 1
  /\ \A i \in 1 .. n : mem[i - 1] = w[i]
  /\ over <=> Len(w) > BufSize - 1

(* The n bytes taken next, n no more than can be looked at.                *)
Taken(n) == SubSeq(stream, taken + 1, taken + n)

(* What came is bytes, and what is open has no zero.                       *)
LEMMA CameTyped ==
  ASSUME RingInv, Typed
  PROVE  /\ stream \in Seq(Byte) /\ taken \in Nat /\ taken <= Len(stream)
         /\ Came \in Seq(Byte) /\ Len(Came) = taken
         /\ Open \in Seq(Byte) /\ ZeroFree(Open) /\ Len(Open) \in Nat
  <1>1. stream \in Seq(Byte)
    BY DEF Typed
  <1>2. taken \in Nat /\ Behind \in Nat /\ Len(stream) = taken + Behind
    BY Counts
  <1>3. taken <= Len(stream)
    BY <1>2
  <1>4. Came \in Seq(Byte) /\ Len(Came) = taken
    BY <1>1, <1>2, <1>3, FirstIs DEF Came
  <1>5. Open \in Seq(Byte) /\ ZeroFree(Open)
    BY <1>4, AfterFree DEF Open
  <1> QED BY <1>1, <1>2, <1>3, <1>4, <1>5

(* The bytes looked at and taken are those that follow in the stream.      *)
LEMMA TakenIs ==
  ASSUME RingInv, Typed, NEW n \in 0 .. RxAvail
  PROVE  /\ Taken(n) \in Seq(Byte) /\ Len(Taken(n)) = n /\ n \in Nat
         /\ \A i \in 1 .. n : Taken(n)[i] = stream[taken + i] /\ Peeked[i] = stream[taken + i]
         /\ SubSeq(stream, 1, taken + n) = Came \o Taken(n)
         /\ taken + n <= Len(stream)
  <1>1. /\ RxAvail \in Nat /\ taken + RxAvail <= Len(stream)
        /\ Peeked = SubSeq(stream, taken + 1, taken + RxAvail)
    BY SeesStream, AvailCounted, Counts DEF RingTold
  <1>2. stream \in Seq(Byte) /\ taken \in Nat
    BY CameTyped
  <1>3. n \in Nat /\ taken + n <= Len(stream) /\ n <= RxAvail
    BY <1>1, <1>2
  <1>4. Taken(n) \in Seq(Byte) /\ Len(Taken(n)) = n /\ \A i \in 1 .. n : Taken(n)[i] = stream[taken + i]
    <2>1. taken + n = taken + n
      OBVIOUS
    <2> QED BY <1>2, <1>3, <2>1, PieceIs DEF Taken
  <1>5. \A i \in 1 .. RxAvail : Peeked[i] = stream[taken + i]
    <2>1. taken + RxAvail = taken + RxAvail
      OBVIOUS
    <2> QED BY <1>1, <1>2, <2>1, PieceIs
  <1>6. \A i \in 1 .. n : i \in 1 .. RxAvail
    BY <1>1, <1>3
  <1>7. SubSeq(stream, 1, taken + n) = Came \o Taken(n)
    BY <1>2, <1>3, Continued DEF Came, Taken
  <1> QED BY <1>3, <1>4, <1>5, <1>6, <1>7

(* Counting: what is stored of n bytes more, and when some are left out.   *)
LEMMA Stores ==
  ASSUME NEW b \in Nat, NEW l \in Nat, NEW n \in Nat, NEW f, f = IF l < b THEN l ELSE b,
         NEW r, r = b - f, NEW st, st = IF n > r THEN r ELSE n
  PROVE  /\ f + st = IF l + n < b THEN l + n ELSE b
         /\ (l > b \/ n > r) <=> l + n > b
         /\ f \in Nat /\ st \in Nat /\ f <= l /\ st <= n /\ (st > 0 => f = l)
  <1>1. CASE l < b
    BY <1>1
  <1>2. CASE ~(l < b)
    <2>1. f = b /\ r = 0
      BY <1>2
    <2>2. st = 0
      BY <2>1
    <2> QED BY <1>2, <2>1, <2>2
  <1> QED BY <1>1, <1>2

(* After a chunk the buffer holds as many of the open bytes as fit.        *)
LEMMA StillKeeps ==
  ASSUME RingInv, Typed, Keeps(buf, fill, overrun, Open), NEW n \in 0 .. RxAvail
  PROVE  Keeps(Filled(n), fill + Stored(n), overrun \/ n > Room, Open \o Taken(n))
  <1> DEFINE l == Len(Open)
             w == Open \o Taken(n)
             b == BufSize - 1
             st == Stored(n)
  <1>1. /\ Open \in Seq(Byte) /\ l \in Nat /\ b \in Nat
        /\ Taken(n) \in Seq(Byte) /\ Len(Taken(n)) = n /\ n \in Nat /\ n <= RxAvail /\ RxAvail \in Nat
    <2>1. Open \in Seq(Byte) /\ l \in Nat
      BY CameTyped
    <2>2. Taken(n) \in Seq(Byte) /\ Len(Taken(n)) = n /\ n \in Nat
      BY TakenIs
    <2>3. b \in Nat
      BY BufferSizes
    <2>4. n <= RxAvail /\ RxAvail \in Nat
      BY Counts, AvailCounted
    <2> QED BY <2>1, <2>2, <2>3, <2>4
  <1>2. /\ Len(w) = l + n
        /\ \A i \in 1 .. l : w[i] = Open[i]
        /\ \A i \in 1 .. n : w[l + i] = Taken(n)[i]
    <2> DEFINE u == Open
               t == Taken(n)
    <2>1. u \in Seq(Byte) /\ t \in Seq(Byte) /\ Len(t) = n /\ Len(u) = l
      BY <1>1
    <2> HIDE DEF u, t
    <2>2. /\ Len(u \o t) = Len(u) + Len(t)
          /\ \A i \in 1 .. Len(u) : (u \o t)[i] = u[i]
          /\ \A i \in 1 .. Len(t) : (u \o t)[Len(u) + i] = t[i]
      BY <2>1, JoinedAt
    <2> HIDE DEF l
    <2>3. /\ Len(u \o t) = l + n
          /\ \A i \in 1 .. l : (u \o t)[i] = u[i]
          /\ \A i \in 1 .. n : (u \o t)[l + i] = t[i]
      BY <2>1, <2>2
    <2> QED BY <2>3 DEF u, t
  <1>3. /\ fill = IF l < b THEN l ELSE b
        /\ \A i \in 1 .. fill : buf[i - 1] = Open[i]
        /\ overrun <=> l > b
    BY DEF Keeps
  <1>4. Room = b - fill /\ st = IF n > Room THEN Room ELSE n
    BY BufferSizes, <1>3 DEF Room, Stored
  <1> HIDE DEF l, w, b, st
  <1>5. /\ fill + st = IF l + n < b THEN l + n ELSE b
        /\ (l > b \/ n > Room) <=> l + n > b
        /\ fill \in Nat /\ st \in Nat /\ fill <= l /\ st <= n /\ (st > 0 => fill = l)
    BY <1>1, <1>3, <1>4, Stores
  <1>6. ASSUME NEW i \in 1 .. fill + st
        PROVE  Filled(n)[i - 1] = w[i]
    <2>1. fill + st <= b
      BY <1>1, <1>5
    <2>2. /\ i - 1 \in 0 .. BufSize - 1 /\ i \in Nat
          /\ i - 1 \in fill .. fill + st - 1 <=> i > fill
      BY <1>1, <1>5, <2>1 DEF b
    <2>3. Filled(n)[i - 1] = IF i - 1 \in fill .. fill + st - 1
                             THEN Peeked[(i - 1) - fill + 1] ELSE buf[i - 1]
      BY <2>2 DEF Filled, st
    <2>4. CASE i > fill
      <3> DEFINE h == i - fill
      <3>1. h \in 1 .. st /\ h \in 1 .. n /\ (i - 1) - fill + 1 = h /\ st > 0
        BY <1>1, <1>5, <2>4
      <3>2. fill = l /\ i = l + h
        BY <1>5, <2>2, <3>1
      <3>3. Filled(n)[i - 1] = Peeked[h]
        BY <2>2, <2>3, <2>4, <3>1
      <3> HIDE DEF h
      <3>4. Peeked[h] = Taken(n)[h]
        BY <3>1, TakenIs
      <3> QED BY <1>2, <3>1, <3>2, <3>3, <3>4
    <2>5. CASE ~(i > fill)
      <3>1. i \in 1 .. fill /\ i \in 1 .. l
        BY <1>1, <1>5, <2>2, <2>5
      <3> QED BY <1>2, <1>3, <2>2, <2>3, <2>5, <3>1
    <2> QED BY <2>4, <2>5
  <1>7. (overrun \/ n > Room) <=> Len(w) > b
    BY <1>2, <1>3, <1>5
  <1> QED BY <1>2, <1>5, <1>6, <1>7 DEF Keeps, w, b, st

-------------------------------------------------------------------------------
(* The calls *)

(* What follows what was taken is a zero, or is none.                      *)
ZeroNext == taken < Len(stream) /\ stream[taken + 1] = 0
ByteNext == taken < Len(stream) /\ stream[taken + 1] # 0

(* The invariant.  In a frame the buffer holds what was taken of it; its   *)
(* first byte may still be to be taken.  Before one, what was taken ends   *)
(* with a zero or right before one.                                        *)
CallInv ==
  /\ CallsMatchStream
  /\ state = "frame" => Keeps(buf, fill, overrun, Open) /\ (Open = <<>> => ByteNext)
  /\ state = "start" => (Open # <<>> => ZeroNext)

LEMMA CallsAre ==
  CallsMatchStream <=> calls = Wanted(FramesIn(IF state = "start" THEN Append(Came, 0) ELSE Came))
  BY DEF CallsMatchStream, Came

(* A zero more is one frame more, if anything came before it.              *)
LEMMA WantedAfterZero ==
  ASSUME NEW s \in Seq(Byte)
  PROVE  Wanted(FramesIn(Append(s, 0))) =
           IF AfterLast(s) = <<>> THEN Wanted(FramesIn(s))
           ELSE CallAt([at |-> Len(s), bytes |-> AfterLast(s)], Wanted(FramesIn(s)))
  <1> DEFINE x == [at |-> Len(s), bytes |-> AfterLast(s)]
             f == FramesIn(s)
  <1>1. f \in Seq(FrameSet) /\ x \in FrameSet
    <2>1. Len(s) \in Nat /\ AfterLast(s) \in Seq(Byte)
      BY AfterLastTyped
    <2> QED BY <2>1, FramesTyped DEF FrameSet
  <1>2. FramesIn(Append(s, 0)) = IF AfterLast(s) = <<>> THEN f ELSE Append(f, x)
    BY Zero, FramesMore
  <1> HIDE DEF x, f
  <1>3. Wanted(Append(f, x)) = CallAt(x, Wanted(f))
    BY <1>1, WantedMore
  <1> QED BY <1>2, <1>3 DEF x, f

LEMMA InitCalls == Init => CallInv
  <1> SUFFICES ASSUME Init PROVE CallInv
    OBVIOUS
  <1>1. stream = <<>> /\ taken = 0 /\ calls = <<>> /\ state = "start"
    BY DEF Init
  <1>2. Came = <<>> /\ <<>> \in Seq(Byte)
    BY <1>1 DEF Came
  <1>3. Open = <<>>
    BY <1>2, AfterNothing DEF Open
  <1>4. Wanted(FramesIn(Append(Came, 0))) = <<>>
    <2>1. Wanted(FramesIn(Append(<<>>, 0))) = Wanted(FramesIn(<<>>))
      BY <1>2, AfterNothing, WantedAfterZero
    <2> QED BY <1>2, <2>1, FramesNone, WantedNone
  <1>5. CallsMatchStream
    BY <1>1, <1>4, CallsAre
  <1> QED BY <1>1, <1>3, <1>5 DEF CallInv

(* What arrives leaves what was taken alone.                               *)
LEMMA ArrivesCalls ==
  ASSUME RingInv, Typed, CallInv, UNCHANGED <<state, buf, fill, overrun, calls, taken>>,
         stream' = stream \/ \E b \in Byte : stream' = Append(stream, b)
  PROVE  CallInv'
  <1>1. stream \in Seq(Byte) /\ taken \in Nat /\ taken <= Len(stream) /\ Len(stream) \in Nat
    BY CameTyped
  <1>2. /\ Came' = Came
        /\ taken < Len(stream) => taken' < Len(stream') /\ stream'[taken' + 1] = stream[taken + 1]
    <2>1. CASE stream' = stream
      BY <2>1 DEF Came
    <2>2. CASE \E b \in Byte : stream' = Append(stream, b)
      <3>1. PICK b \in Byte : stream' = Append(stream, b)
        BY <2>2
      <3> DEFINE t == Append(stream, b)
      <3>2. /\ t \in Seq(Byte) /\ Len(t) = Len(stream) + 1
            /\ \A i \in 1 .. Len(stream) : t[i] = stream[i]
        BY <1>1
      <3> HIDE DEF t
      <3>3. SubSeq(t, 1, taken) = [i \in 1 .. taken |-> t[i]]
        BY <1>1, <3>2
      <3>4. SubSeq(stream, 1, taken) = [i \in 1 .. taken |-> stream[i]]
        BY <1>1
      <3>5. SubSeq(t, 1, taken) = SubSeq(stream, 1, taken)
        BY <1>1, <3>2, <3>3, <3>4
      <3>6. taken < Len(stream) => taken < Len(t) /\ t[taken + 1] = stream[taken + 1]
        BY <1>1, <3>2
      <3> QED BY <3>1, <3>5, <3>6 DEF Came, t
    <2> QED BY <2>1, <2>2
  <1>3. Open' = Open
    BY <1>2 DEF Open
  <1>4. CallsMatchStream'
    <2>1. calls' = Wanted(FramesIn(IF state' = "start" THEN Append(Came', 0) ELSE Came'))
      BY <1>2, CallsAre DEF CallInv
    <2> QED BY <2>1 DEF CallsMatchStream, Came
  <1>5. (ZeroNext => ZeroNext') /\ (ByteNext => ByteNext')
    BY <1>2 DEF ZeroNext, ByteNext
  <1> QED BY <1>3, <1>4, <1>5 DEF CallInv, Keeps

(* A zero between frames.                                                  *)
LEMMA SkipZeroCalls ==
  ASSUME RingInv, Typed, CallInv, SkipZero
  PROVE  CallInv'
  <1>1. /\ state = "start" /\ RxAvail > 0 /\ Head(Peeked) = 0 /\ Skip(1)
        /\ UNCHANGED <<log, stream, calls>>
    BY DEF SkipZero
  <1>2. 1 \in 0 .. RxAvail /\ RxAvail \in Nat /\ taken' = taken + 1 /\ state' = "start"
    <2>1. RxAvail \in Nat
      BY Counts, AvailCounted
    <2> QED BY <1>1, <2>1 DEF Skip, log
  <1>3. /\ SubSeq(stream, 1, taken + 1) = Came \o Taken(1)
        /\ Taken(1) \in Seq(Byte) /\ Len(Taken(1)) = 1
        /\ Taken(1)[1] = stream[taken + 1] /\ Peeked[1] = stream[taken + 1]
    <2> DEFINE k == 1
    <2>1. k \in 0 .. RxAvail /\ k = 1 /\ k \in 1 .. k
      BY <1>2
    <2> HIDE DEF k
    <2>2. /\ SubSeq(stream, 1, taken + k) = Came \o Taken(k)
          /\ Taken(k) \in Seq(Byte) /\ Len(Taken(k)) = k
          /\ \A i \in 1 .. k : Taken(k)[i] = stream[taken + i] /\ Peeked[i] = stream[taken + i]
      BY <2>1, TakenIs
    <2>3. Taken(k)[k] = stream[taken + k] /\ Peeked[k] = stream[taken + k]
      BY <2>1, <2>2
    <2> QED BY <2>1, <2>2, <2>3, Zenon
  <1>4. Peeked[1] = 0
    BY <1>1, <1>2 DEF Peeked
  <1>5. Came \in Seq(Byte)
    BY CameTyped
  <1>6. Came' = Append(Came, 0)
    <2> DEFINE a == Came
               t == Taken(1)
    <2>1. a \in Seq(Byte) /\ t \in Seq(Byte) /\ Len(t) = 1 /\ t[1] = 0
      BY <1>3, <1>4, <1>5
    <2> HIDE DEF a, t
    <2>2. t = <<0>>
      BY <2>1
    <2>3. a \o <<0>> = Append(a, 0)
      BY <2>1, Zero
    <2> QED BY <1>1, <1>2, <1>3, <2>2, <2>3 DEF a, t, Came
  <1>7. Came' \in Seq(Byte) /\ Open' = <<>>
    BY <1>5, <1>6, AfterZero DEF Open
  <1>8. Wanted(FramesIn(Append(Came', 0))) = Wanted(FramesIn(Came'))
    <2> DEFINE c == Came'
    <2>1. c \in Seq(Byte) /\ AfterLast(c) = <<>>
      BY <1>7 DEF Open
    <2> HIDE DEF c
    <2>2. Wanted(FramesIn(Append(c, 0))) = Wanted(FramesIn(c))
      BY <2>1, WantedAfterZero
    <2> QED BY <2>2 DEF c
  <1>9. calls' = Wanted(FramesIn(Append(Came', 0)))
    <2>1. calls = Wanted(FramesIn(Append(Came, 0)))
      BY <1>1, CallsAre DEF CallInv
    <2> QED BY <1>1, <1>6, <1>8, <2>1
  <1>10. CallsMatchStream'
    BY <1>2, <1>9 DEF CallsMatchStream, Came
  <1> QED BY <1>2, <1>7, <1>10 DEF CallInv

(* A frame begins with nothing in the buffer.                              *)
LEMMA BeginCalls ==
  ASSUME RingInv, Typed, CallInv, BeginFrame
  PROVE  CallInv'
  <1>1. /\ state = "start" /\ RxAvail > 0 /\ Head(Peeked) # 0 /\ state' = "frame"
        /\ fill' = 0 /\ overrun' = FALSE /\ UNCHANGED <<buf, rx, stream, taken, calls>>
    BY DEF BeginFrame
  <1>2. RxAvail \in Nat /\ 1 \in 0 .. RxAvail
    <2>1. RxAvail \in Nat
      BY Counts, AvailCounted
    <2> QED BY <1>1, <2>1
  <1>3. Peeked[1] = stream[taken + 1] /\ taken + 1 <= Len(stream)
    BY <1>2, TakenIs
  <1>4. Peeked[1] # 0
    BY <1>1, <1>2 DEF Peeked
  <1>5. taken \in Nat /\ Len(stream) \in Nat /\ Came \in Seq(Byte)
    BY CameTyped
  <1>6. ByteNext
    BY <1>3, <1>4, <1>5 DEF ByteNext
  <1>7. Open = <<>>
    BY <1>1, <1>6 DEF CallInv, ZeroNext, ByteNext
  <1>8. Came' = Came /\ Open' = Open /\ ByteNext'
    BY <1>1, <1>6 DEF Came, Open, ByteNext
  <1>9. calls' = Wanted(FramesIn(Came))
    <2>1. calls = Wanted(FramesIn(Append(Came, 0)))
      BY <1>1, CallsAre DEF CallInv
    <2>2. Wanted(FramesIn(Append(Came, 0))) = Wanted(FramesIn(Came))
      BY <1>5, <1>7, WantedAfterZero DEF Open
    <2> QED BY <1>1, <2>1, <2>2
  <1>10. CallsMatchStream'
    BY <1>1, <1>8, <1>9 DEF CallsMatchStream, Came
  <1>11. Keeps(buf', fill', overrun', Open')
    <2>1. Keeps(buf, 0, FALSE, <<>>)
      <3>1. Len(<<>>) = 0 /\ BufSize - 1 \in Nat /\ BufSize - 1 > 0
        BY BufferSizes
      <3> QED BY <3>1 DEF Keeps
    <2> QED BY <1>1, <1>7, <1>8, <2>1
  <1> QED BY <1>1, <1>8, <1>10, <1>11 DEF CallInv

(* What comes without a zero goes to the open frame.                       *)
LEMMA RunCalls ==
  ASSUME RingInv, Typed, NEW n \in 0 .. RxAvail, \A i \in 1 .. n : Peeked[i] # 0
  PROVE  /\ Came \o Taken(n) \in Seq(Byte)
         /\ FramesIn(Came \o Taken(n)) = FramesIn(Came)
         /\ AfterLast(Came \o Taken(n)) = Open \o Taken(n)
         /\ Len(Came \o Taken(n)) = taken + n
  <1>1. /\ Taken(n) \in Seq(Byte) /\ Len(Taken(n)) = n
        /\ \A i \in 1 .. n : Taken(n)[i] = Peeked[i]
    BY TakenIs
  <1>2. ZeroFree(Taken(n))
    BY <1>1 DEF ZeroFree
  <1>3. Came \in Seq(Byte) /\ Len(Came) = taken
    BY CameTyped
  <1> DEFINE c == Came
             t == Taken(n)
  <1>4. c \in Seq(Byte) /\ t \in Seq(Byte) /\ ZeroFree(t)
    BY <1>1, <1>2, <1>3
  <1> HIDE DEF c, t
  <1>5. FramesIn(c \o t) = FramesIn(c) /\ AfterLast(c \o t) = AfterLast(c) \o t
    BY <1>4, RunsOn
  <1>6. c \o t \in Seq(Byte) /\ Len(c \o t) = Len(c) + Len(t)
    BY <1>4, JoinedAt
  <1> QED BY <1>1, <1>3, <1>5, <1>6 DEF c, t, Open

(* A chunk without the terminator.                                         *)
LEMMA MoreCalls ==
  ASSUME RingInv, Typed, CallInv, More
  PROVE  CallInv'
  <1> DEFINE n == RxAvail
             t == Taken(n)
  <1>1. /\ state = "frame" /\ n > 0 /\ \A i \in DOMAIN Peeked : Peeked[i] # 0
        /\ buf' = Filled(n) /\ fill' = fill + Stored(n) /\ overrun' = (overrun \/ n > Room)
        /\ Skip(n) /\ UNCHANGED <<state, stream, calls>>
    BY DEF More
  <1>2. n \in Nat /\ n \in 0 .. RxAvail /\ DOMAIN Peeked = 1 .. n
    <2>1. RxAvail \in Nat
      BY Counts, AvailCounted
    <2> QED BY <2>1 DEF Peeked
  <1>3. taken' = taken + n
    BY <1>1 DEF Skip
  <1> HIDE DEF n
  <1>4. /\ Came \o t \in Seq(Byte) /\ FramesIn(Came \o t) = FramesIn(Came)
        /\ AfterLast(Came \o t) = Open \o t
    BY <1>1, <1>2, RunCalls
  <1>5. SubSeq(stream, 1, taken + n) = Came \o t /\ t \in Seq(Byte) /\ Len(t) = n
    BY <1>2, TakenIs
  <1>6. Came' = Came \o t
    BY <1>1, <1>3, <1>5 DEF Came
  <1>7. Open' = Open \o t
    BY <1>4, <1>6 DEF Open
  <1>8. Keeps(buf', fill', overrun', Open')
    <2>1. Keeps(Filled(n), fill + Stored(n), overrun \/ n > Room, Open \o t)
      BY <1>1, <1>2, StillKeeps DEF CallInv
    <2> QED BY <1>1, <1>7, <2>1
  <1>9. Open' # <<>>
    <2>1. Open \in Seq(Byte)
      BY CameTyped
    <2> DEFINE u == Open
    <2>2. u \in Seq(Byte) /\ t \in Seq(Byte) /\ Len(t) = n
      BY <1>5, <2>1
    <2> HIDE DEF u, t
    <2>3. Len(u \o t) = Len(u) + Len(t)
      BY <2>2, JoinedAt
    <2>a. Len(u) \in Nat
      BY <2>2
    <2>4. Len(u \o t) > 0
      BY <1>1, <1>2, <2>2, <2>3, <2>a
    <2>5. u \o t # <<>>
      BY <2>4
    <2> QED BY <1>7, <2>5 DEF u
  <1>10. calls' = Wanted(FramesIn(Came'))
    BY <1>1, <1>4, <1>6, CallsAre DEF CallInv
  <1>11. CallsMatchStream'
    BY <1>1, <1>10 DEF CallsMatchStream, Came
  <1> QED BY <1>1, <1>8, <1>9, <1>11 DEF CallInv


(* What the terminator ends is a call just when a frame asks for one.      *)
LEMMA DecodesKept ==
  ASSUME NEW mem \in Memory, NEW n, NEW w \in Seq(Byte), ZeroFree(w), Keeps(mem, n, FALSE, w)
  PROVE  /\ Len(w) < BufSize
         /\ Accepted(Dec(mem, n)) <=> WellFormed(w) /\ Acceptable(PyDec(w))
         /\ Accepted(Dec(mem, n)) =>
              Front(Dec(mem, n).mem, Dec(mem, n).n) = PyDec(w)
  <1>1. BufSize \in Nat /\ Len(w) \in Nat
    BY BufferSizes
  <1>2. n = Len(w) /\ Len(w) < BufSize /\ \A i \in 1 .. n : mem[i - 1] = w[i]
    BY <1>1 DEF Keeps
  <1>3. n \in Nat /\ n <= BufSize /\ mem \in [0 .. BufSize - 1 -> Byte]
    BY <1>1, <1>2 DEF Memory
  <1>4. \A i \in 0 .. n - 1 : mem[i] # 0
    <2> SUFFICES ASSUME NEW i \in 0 .. n - 1 PROVE mem[i] # 0
      OBVIOUS
    <2>1. i + 1 \in 1 .. n /\ (i + 1) - 1 = i
      BY <1>3
    <2> QED BY <1>2, <2>1 DEF ZeroFree
  <1>5. w = Front(mem, n)
    BY <1>2 DEF Front
  <1> DEFINE d == Dec(mem, n)
             size == BufSize
  <1> HIDE DEF size
  <1>6. /\ ~WellFormed(w) => Dec(mem, n).n = -2
        /\ WellFormed(w) =>
             /\ Dec(mem, n).n \in 0 .. n
             /\ Front(Dec(mem, n).mem, Dec(mem, n).n) = PyDec(w)
    <2>1. size \in Nat /\ n \in Nat /\ n <= size /\ mem \in [0 .. size - 1 -> Byte]
      BY <1>1, <1>3 DEF size
    <2> QED BY <1>4, <1>5, <2>1, DecodersAgree
  <1> HIDE DEF d
  <1>7. CASE ~WellFormed(w)
    <2>1. d.n = -2
      BY <1>6, <1>7 DEF d
    <2>2. ~Accepted(d)
      BY <2>1 DEF Accepted
    <2> QED BY <1>2, <1>7, <2>2 DEF d
  <1>8. CASE WellFormed(w)
    <2> DEFINE p == Front(d.mem, d.n)
    <2>1. d.n \in 0 .. n /\ p = PyDec(w)
      BY <1>6, <1>8 DEF d
    <2>2. d.n \in Nat /\ Len(p) = d.n
      BY <1>3, <2>1 DEF Front
    <2>3. d.n > 0 <=> p # <<>>
      BY <2>2
    <2>4. d.n > 0 => Head(p) = d.mem[0]
      <3> SUFFICES ASSUME d.n > 0 PROVE Head(p) = d.mem[0]
        OBVIOUS
      <3>1. Head(p) = p[1] /\ 1 \in 1 .. d.n
        BY <2>2
      <3> QED BY <3>1 DEF Front
    <2>5. Accepted(d) <=> Acceptable(p)
      BY <2>3, <2>4 DEF Accepted, Acceptable
    <2> QED BY <1>2, <1>8, <2>1, <2>5 DEF d
  <1> QED BY <1>7, <1>8

(* The terminator: the frame it ends is a call, or is none.                *)
LEMMA EndFrameCalls ==
  ASSUME RingInv, Typed, CallInv, EndFrame
  PROVE  CallInv'
  <1>1. PICK e \in DOMAIN Peeked :
          /\ Peeked[e] = 0 /\ \A i \in 1 .. e - 1 : Peeked[i] # 0
          /\ Skip(e - 1)
          /\ fill' = fill + Stored(e - 1)
          /\ overrun' = (overrun \/ e - 1 > Room)
          /\ LET d == Dec(Filled(e - 1), fill')
             IN IF ~overrun' /\ Accepted(d)
                THEN calls' = Append(calls, [at |-> taken',
                                             rx |-> [i \in 1 .. d.n |-> d.mem[i - 1]]])
                ELSE calls' = calls
    BY DEF EndFrame
  <1>2. state = "frame" /\ state' = "start" /\ stream' = stream
    BY DEF EndFrame
  <1> DEFINE n == e - 1
             t == Taken(n)
             w == Open \o t
             d == Dec(Filled(n), fill')
  <1>3. /\ RxAvail \in Nat /\ e \in 1 .. RxAvail /\ e \in 0 .. RxAvail /\ n \in Nat
        /\ n \in 0 .. RxAvail /\ n + 1 = e /\ n <= RxAvail
    <2>1. RxAvail \in Nat
      BY Counts, AvailCounted
    <2> QED BY <2>1 DEF Peeked
  <1>4. /\ taken' = taken + n /\ fill' = fill + Stored(n) /\ overrun' = (overrun \/ n > Room)
        /\ \A i \in 1 .. n : Peeked[i] # 0
    BY <1>1 DEF Skip
  <1>5. IF ~overrun' /\ Accepted(d)
        THEN calls' = Append(calls, [at |-> taken',
                                     rx |-> [i \in 1 .. d.n |-> d.mem[i - 1]]])
        ELSE calls' = calls
    BY <1>1
  <1>6. Peeked[e] = 0
    BY <1>1
  <1>7. overrun' \in BOOLEAN /\ Filled(n) \in Memory
    BY <1>3, <1>4, FilledBytes DEF Typed
  <1> HIDE DEF n
  <1>8. /\ Came \o t \in Seq(Byte) /\ FramesIn(Came \o t) = FramesIn(Came)
        /\ AfterLast(Came \o t) = w /\ Len(Came \o t) = taken + n
    BY <1>3, <1>4, RunCalls
  <1>9. SubSeq(stream, 1, taken + n) = Came \o t /\ t \in Seq(Byte) /\ Len(t) = n
    BY <1>3, TakenIs
  <1>10. Came' = Came \o t /\ Open' = w
    <2>1. Came' = Came \o t
      BY <1>2, <1>4, <1>9 DEF Came
    <2> QED BY <1>8, <2>1 DEF Open
  <1>11. w \in Seq(Byte) /\ ZeroFree(w)
    BY <1>8, AfterFree
  (* The terminator comes next.                                            *)
  <1>12. ZeroNext'
    <2>1. /\ \A i \in 1 .. e : Peeked[i] = stream[taken + i]
          /\ taken + e <= Len(stream)
      BY <1>3, TakenIs
    <2>2. e \in 1 .. e /\ taken \in Nat /\ Len(stream) \in Nat
      BY <1>3, CameTyped
    <2>3. stream[taken + e] = 0
      BY <1>6, <2>1, <2>2
    <2>4. taken + e = (taken + n) + 1 /\ taken + n < Len(stream)
      BY <1>3, <2>1, <2>2
    <2> QED BY <1>2, <1>4, <2>3, <2>4 DEF ZeroNext
  (* Something was taken of the frame that it ends.                        *)
  <1>13. w # <<>>
    <2>1. Open \in Seq(Byte)
      BY CameTyped
    <2> DEFINE u == Open
    <2>2. u \in Seq(Byte) /\ t \in Seq(Byte) /\ Len(t) = n
      BY <1>9, <2>1
    <2>3. Len(u) > 0 \/ n > 0
      <3>1. CASE u = <<>>
        <4>1. taken \in Nat /\ stream[taken + 1] # 0
          BY <1>2, <3>1, CameTyped DEF CallInv, ByteNext
        <4>2. e # 1
          <5> SUFFICES ASSUME e = 1 PROVE FALSE
            OBVIOUS
          <5>1. \A i \in 1 .. e : Peeked[i] = stream[taken + i]
            BY <1>3, TakenIs
          <5>2. e \in 1 .. e
            BY <1>3
          <5> QED BY <1>6, <4>1, <5>1, <5>2
        <4> QED BY <1>3, <4>2
      <3>2. CASE u # <<>>
        BY <2>2, <3>2
      <3> QED BY <3>1, <3>2
    <2> HIDE DEF u, t
    <2>4. Len(u \o t) = Len(u) + Len(t)
      BY <2>2, JoinedAt
    <2>5. Len(u) \in Nat
      BY <2>2
    <2>6. Len(u \o t) > 0
      BY <1>3, <2>2, <2>3, <2>4, <2>5
    <2>7. u \o t # <<>>
      BY <2>6
    <2> QED BY <2>7 DEF u
  <1>14. Keeps(Filled(n), fill', overrun', w)
    BY <1>2, <1>3, <1>4, StillKeeps DEF CallInv
  (* What is called for the frame.                                         *)
  <1> DEFINE x == [at |-> taken', bytes |-> w]
  <1>15. calls' = CallAt(x, calls)
    <2> DEFINE m == Filled(n)
               k == fill'
    <2>1. CASE ~overrun'
      <3>1. m \in Memory /\ Keeps(m, k, FALSE, w)
        <4>1. overrun' = FALSE
          BY <1>7, <2>1
        <4> QED BY <1>7, <1>14, <4>1
      <3> DEFINE v == w
      <3>2. v \in Seq(Byte) /\ ZeroFree(v) /\ Keeps(m, k, FALSE, v)
        BY <1>11, <3>1
      <3> HIDE DEF m, k, v
      <3>3. /\ Len(v) < BufSize
            /\ Accepted(Dec(m, k)) <=> WellFormed(v) /\ Acceptable(PyDec(v))
            /\ Accepted(Dec(m, k)) =>
                 Front(Dec(m, k).mem, Dec(m, k).n) = PyDec(v)
        BY <3>1, <3>2, DecodesKept
      <3>4. d = Dec(m, k) /\ x = [at |-> taken', bytes |-> v]
        BY DEF m, k, v
      <3> HIDE DEF d, w, x
      <3>5. x.bytes = v /\ x.at = taken'
        BY <3>4
      <3>6. Wants(x) <=> Accepted(d)
        BY <3>3, <3>4, <3>5 DEF Wants
      <3>7. CASE Accepted(d)
        <4>1. [i \in 1 .. d.n |-> d.mem[i - 1]] = PyDec(v)
          BY <3>3, <3>4, <3>7 DEF Front
        <4>2. calls' = Append(calls, [at |-> taken', rx |-> PyDec(v)])
          BY <1>5, <2>1, <3>7, <4>1
        <4> QED BY <3>5, <3>6, <3>7, <4>2 DEF CallAt, Call
      <3>8. CASE ~Accepted(d)
        BY <1>5, <3>6, <3>8 DEF CallAt
      <3> QED BY <3>7, <3>8
    <2>2. CASE overrun'
      <3>1. ~(Len(w) < BufSize)
        <4>1. Len(w) > BufSize - 1 /\ Len(w) \in Nat /\ BufSize \in Nat
          BY <1>11, <1>14, <2>2, BufferSizes DEF Keeps
        <4> QED BY <4>1
      <3>2. x.bytes = w
        OBVIOUS
      <3> HIDE DEF x, w
      <3>3. ~Wants(x)
        BY <3>1, <3>2 DEF Wants
      <3> QED BY <1>5, <2>2, <3>3 DEF CallAt
    <2> QED BY <2>1, <2>2
  <1>16. calls' = Wanted(FramesIn(Append(Came', 0)))
    <2> DEFINE c == Came \o t
    <2>1. c \in Seq(Byte) /\ FramesIn(c) = FramesIn(Came) /\ AfterLast(c) = w
          /\ Len(c) = taken'
      BY <1>4, <1>8
    <2>2. calls = Wanted(FramesIn(Came))
      BY <1>2, CallsAre DEF CallInv
    <2> HIDE DEF c, w
    <2>3. Wanted(FramesIn(Append(c, 0))) = CallAt([at |-> Len(c), bytes |-> AfterLast(c)], Wanted(FramesIn(c)))
      BY <1>13, <2>1, WantedAfterZero
    <2> QED BY <1>10, <1>15, <2>1, <2>2, <2>3 DEF c
  <1>17. CallsMatchStream'
    BY <1>2, <1>16 DEF CallsMatchStream, Came
  <1> QED BY <1>2, <1>12, <1>17 DEF CallInv

(* Each step, what arrives or is damaged included.                         *)
LEMMA NextCalls == RingInv /\ Typed /\ CallInv /\ [Next]_vars => CallInv'
  <1> SUFFICES ASSUME RingInv, Typed, CallInv, [Next]_vars PROVE CallInv'
    OBVIOUS
  <1> DEFINE Still == UNCHANGED <<state, buf, fill, overrun, calls, taken>>
             Grown == stream' = stream \/ \E b \in Byte : stream' = Append(stream, b)
  <1>1. ASSUME NEW b \in Byte, Receive(b) PROVE Still /\ Grown
    BY <1>1 DEF Receive, log
  <1>2. CASE Send
    BY <1>2, ArrivesCalls DEF Send, log
  <1>3. CASE Deliver
    <2>1. Head(wire) \in Byte
      BY <1>3 DEF Deliver, Typed
    <2>2. Still /\ Grown
      BY <1>1, <1>3, <2>1 DEF Deliver
    <2> QED BY <2>2, ArrivesCalls
  <1>4. CASE Damage
    <2>1. CASE \E b \in Noise \ {Head(wire)} : Receive(b)
      <3>1. PICK b \in Noise : Receive(b)
        BY <2>1
      <3>2. b \in Byte
        BY LogRxAssumption
      <3>3. Still /\ Grown
        BY <1>1, <3>1, <3>2
      <3> QED BY <3>3, ArrivesCalls
    <2>2. CASE UNCHANGED <<rx, log, back, missed, stream, taken, calls, frames>>
      BY <2>2, ArrivesCalls DEF log
    <2> QED BY <1>4, <2>1, <2>2 DEF Damage
  <1>5. CASE OnRxdRdy
    BY <1>5, ArrivesCalls DEF OnRxdRdy, log
  <1>6. CASE LogProcess
    BY <1>6, SkipZeroCalls, BeginCalls, MoreCalls, EndFrameCalls DEF LogProcess
  <1>7. CASE HostReceive
    BY <1>7, ArrivesCalls DEF HostReceive, log
  <1>8. CASE UNCHANGED vars
    BY <1>8, ArrivesCalls DEF vars, log
  <1> QED BY <1>2, <1>3, <1>4, <1>5, <1>6, <1>7, <1>8 DEF Next

(* Invariant: handlers are called with exactly the frames in the bytes     *)
(* taken so far, each once and in order, for every ring, packet size and   *)
(* byte width: however the bytes were split over chunks and over the end   *)
(* of the ring, whatever was damaged or not counted before, and never with *)
(* part of a frame that was too long.                                      *)
THEOREM CallsFollow == Spec => []CallsMatchStream
  <1>1. Spec => []Typed
    BY InitTyped, NextTyped, RingAlways, PTL DEF Spec
  <1>2. RingInv /\ Typed /\ CallInv /\ [Next]_vars => CallInv'
    BY NextCalls
  <1>3. CallInv => CallsMatchStream
    BY DEF CallInv
  <1> QED BY <1>1, <1>2, <1>3, InitCalls, RingAlways, PTL DEF Spec
-------------------------------------------------------------------------------
(* A frame among bytes is found *)

(* s has the encoding c between two zeros, the second behind at bytes.     *)
Lies(s, at, c) ==
  /\ at \in Nat /\ Len(c) + 1 <= at /\ at < Len(s)
  /\ s[at - Len(c)] = 0 /\ s[at + 1] = 0
  /\ \A i \in 1 .. Len(c) : s[at - Len(c) + i] = c[i]

LEMMA OpenBefore ==
  ASSUME NEW s \in Seq(Byte), NEW c \in Seq(Codes), NEW at, Lies(s, at, c)
  PROVE  SubSeq(s, 1, at) \in Seq(Byte) /\ AfterLast(SubSeq(s, 1, at)) = c
  <1> DEFINE m == Len(c)
             h == at - m - 1
             k == at - m
             p == SubSeq(s, 1, h)
             q == SubSeq(s, 1, k)
             r == SubSeq(s, k + 1, k + m)
  <1>1. /\ m \in Nat /\ at \in Nat /\ h \in Nat /\ k \in Nat /\ k = h + 1 /\ at = k + m
        /\ Len(s) \in Nat /\ k + m <= Len(s) /\ h < Len(s) /\ k <= Len(s)
        /\ s[k] = 0 /\ \A i \in 1 .. m : s[k + i] = c[i]
    BY DEF Lies
  <1>2. c \in Seq(Byte) /\ ZeroFree(c)
    BY CodesAreBytes DEF ZeroFree
  <1> HIDE DEF m, h, k
  <1>3. p \in Seq(Byte) /\ q \in Seq(Byte) /\ q = Append(p, 0)
    <2>1. h \in 0 .. Len(s) - 1
      BY <1>1
    <2>2. SubSeq(s, 1, h + 1) = Append(SubSeq(s, 1, h), s[h + 1]) /\ SubSeq(s, 1, h) \in Seq(Byte)
      BY <2>1, PrefixGrows
    <2>3. SubSeq(s, 1, k) \in Seq(Byte)
      BY <1>1, FirstIs
    <2> QED BY <1>1, <2>2, <2>3
  <1>4. r = c
    <2>1. r \in Seq(Byte) /\ Len(r) = m /\ \A i \in 1 .. m : r[i] = s[k + i]
      <3>1. k + m = k + m
        OBVIOUS
      <3> QED BY <1>1, <3>1, PieceIs
    <2> HIDE DEF r
    <2> QED BY <1>1, <1>2, <2>1 DEF m
  <1>5. SubSeq(s, 1, k + m) = q \o r
    BY <1>1, Continued
  <1>6. SubSeq(s, 1, at) = q \o c
    BY <1>1, <1>4, <1>5
  <1> HIDE DEF p, q
  <1>7. AfterLast(q) = <<>>
    BY <1>3, AfterZero
  <1>8. AfterLast(q \o c) = <<>> \o c /\ q \o c \in Seq(Byte)
    <2>1. AfterLast(q \o c) = AfterLast(q) \o c
      BY <1>2, <1>3, RunsOn
    <2>2. q \o c \in Seq(Byte)
      BY <1>2, <1>3, JoinedAt
    <2> QED BY <1>7, <2>1, <2>2
  <1> QED BY <1>2, <1>6, <1>8, NothingAdded

CallSet == {Call(x) : x \in FrameSet}

(* It is asked for, from its end on.                                       *)
LEMMA FoundOnce ==
  ASSUME NEW s \in Seq(Byte), NEW c \in Seq(Codes), c # <<>>, NEW at, Lies(s, at, c),
         Len(c) < BufSize, WellFormed(c), Acceptable(PyDec(c))
  PROVE  \E i \in DOMAIN Wanted(FramesIn(s)) :
           Wanted(FramesIn(s))[i] = [at |-> at, rx |-> PyDec(c)]
  <1> DEFINE x == [at |-> at, bytes |-> c]
             W(k) == Wanted(FramesIn(SubSeq(s, 1, k)))
             In(k) == \E i \in 1 .. Len(W(k)) : W(k)[i] = Call(x)
             Good(k) == W(k) \in Seq(CallSet) /\ (k > at => In(k))
             T == {k \in 0 .. Len(s) : Good(k)}
  <1>1. /\ at \in Nat /\ at < Len(s) /\ s[at + 1] = 0 /\ Len(s) \in Nat
        /\ SubSeq(s, 1, at) \in Seq(Byte) /\ AfterLast(SubSeq(s, 1, at)) = c
        /\ Len(SubSeq(s, 1, at)) = at
    <2>1. at \in Nat /\ at < Len(s) /\ s[at + 1] = 0 /\ Len(s) \in Nat
      BY DEF Lies
    <2>2. Len(SubSeq(s, 1, at)) = at
      BY <2>1, FirstIs
    <2> QED BY <2>1, <2>2, OpenBefore
  <1>2. x \in FrameSet /\ Wants(x) /\ c \in Seq(Byte)
    BY <1>1, CodesAreBytes DEF Wants, FrameSet
  <1>3. 0 \in T
    <2>1. SubSeq(s, 1, 0) = <<>>
      OBVIOUS
    <2>2. W(0) = <<>>
      BY <2>1, FramesNone, WantedNone
    <2>3. ~(0 > at) /\ <<>> \in Seq(CallSet)
      BY <1>1
    <2> HIDE DEF W, In
    <2>4. Good(0)
      BY <2>2, <2>3
    <2> HIDE DEF Good
    <2> QED BY <1>1, <2>4
  <1>4. ASSUME NEW k \in 0 .. Len(s) - 1, k \in T PROVE k + 1 \in T
    <2> DEFINE p == SubSeq(s, 1, k)
               v == s[k + 1]
               y == [at |-> Len(p), bytes |-> AfterLast(p)]
               f == FramesIn(p)
               w == W(k)
    <2>1. p \in Seq(Byte) /\ v \in Byte /\ SubSeq(s, 1, k + 1) = Append(p, v) /\ Len(p) = k
          /\ k \in Nat /\ k + 1 \in 0 .. Len(s) /\ k + 1 \in Nat
      <3>1. k \in Nat /\ k <= Len(s) /\ k + 1 \in 0 .. Len(s) /\ k + 1 \in Nat
        BY <1>1
      <3> QED BY <3>1, PrefixGrows, FirstIs
    <2>2. f \in Seq(FrameSet) /\ y \in FrameSet
      <3>1. AfterLast(p) \in Seq(Byte)
        BY <2>1, AfterFree
      <3>2. f \in Seq(FrameSet)
        BY <2>1, FramesTyped
      <3> HIDE DEF p, f
      <3> QED BY <2>1, <3>1, <3>2 DEF FrameSet
    <2>3. FramesIn(Append(p, v)) = IF v # 0 \/ AfterLast(p) = <<>> THEN f ELSE Append(f, y)
      BY <2>1, FramesMore
    <2>4. W(k + 1) = IF v # 0 \/ AfterLast(p) = <<>> THEN w ELSE CallAt(y, w)
      <3>1. W(k + 1) = Wanted(FramesIn(Append(p, v)))
        BY <2>1
      <3>2. Wanted(Append(f, y)) = CallAt(y, w)
        BY <2>2, WantedMore
      <3> QED BY <2>3, <3>1, <3>2
    <2>5. w \in Seq(CallSet) /\ (k > at => \E i \in 1 .. Len(w) : w[i] = Call(x))
      BY <1>4
    <2>6. Call(y) \in CallSet
      BY <2>2 DEF CallSet
    <2>7. k = at => v = 0 /\ AfterLast(p) # <<>> /\ y = x
      BY <1>1, <2>1
    <2>8. k + 1 > at => k > at \/ k = at
      BY <1>1, <2>1
    <2> DEFINE g == W(k + 1)
    <2> HIDE DEF x, y, w, W, v, p
    <2>9. g = w \/ g = Append(w, Call(y))
      BY <2>4 DEF CallAt
    <2>10. g \in Seq(CallSet)
      BY <2>5, <2>6, <2>9
    <2>11. ASSUME k + 1 > at PROVE \E i \in 1 .. Len(g) : g[i] = Call(x)
      <3>1. CASE k > at
        <4>1. PICK i \in 1 .. Len(w) : w[i] = Call(x)
          BY <2>5, <3>1
        <4>2. i \in 1 .. Len(g) /\ g[i] = w[i]
          BY <2>5, <2>6, <2>9, <4>1
        <4> QED BY <4>1, <4>2
      <3>2. CASE k = at
        <4>1. g = Append(w, Call(x))
          BY <1>2, <2>4, <2>7, <3>2 DEF CallAt
        <4>2. Len(w) + 1 \in 1 .. Len(g) /\ g[Len(w) + 1] = Call(x)
          BY <2>5, <4>1
        <4> QED BY <4>2
      <3> QED BY <2>8, <2>11, <3>1, <3>2
    <2>12. Good(k + 1)
      BY <2>10, <2>11
    <2> HIDE DEF Good
    <2> QED BY <2>1, <2>12
  <1>5. Good(Len(s))
    <2> HIDE DEF T
    <2>1. \A k \in 0 .. Len(s) : k \in T
      BY <1>1, <1>3, <1>4, Climbs
    <2>2. Len(s) \in T
      BY <1>1, <2>1
    <2> HIDE DEF Good
    <2> QED BY <2>2 DEF T
  <1>6. SubSeq(s, 1, Len(s)) = s
    OBVIOUS
  <1>7. Wanted(FramesIn(s)) \in Seq(CallSet)
        /\ \E i \in 1 .. Len(Wanted(FramesIn(s))) : Wanted(FramesIn(s))[i] = Call(x)
    BY <1>1, <1>5, <1>6
  <1>8. Call(x) = [at |-> at, rx |-> PyDec(c)]
    BY DEF Call
  <1> HIDE DEF x
  <1> QED BY <1>7, <1>8
-------------------------------------------------------------------------------
(* What arrives of a frame *)

LEMMA FramedIs ==
  ASSUME NEW p \in Payloads
  PROVE  LET c == PyEnc(p) IN
         /\ c \in Seq(Codes) /\ c # <<>> /\ Len(c) \in Nat
         /\ WellFormed(c) /\ PyDec(c) = p
         /\ Framed(p) \in Seq(Byte) /\ Len(Framed(p)) = Len(c) + 2
         /\ Framed(p)[1] = 0 /\ Framed(p)[Len(c) + 2] = 0
         /\ \A i \in 1 .. Len(c) : Framed(p)[i + 1] = c[i]
  <1> DEFINE c == PyEnc(p)
  <1>1. p \in Seq(Byte)
    BY LogRxAssumption
  <1>2. c \in Seq(Codes) /\ c # <<>> /\ WellFormed(c) /\ PyDec(c) = p
    BY <1>1, HostRoundTrip
  <1>3. Framed(p) = Between(c)
    <2>1. <<0>> \in Seq(Byte) /\ c \in Seq(Byte)
      BY <1>2, CodesAreBytes, Zero
    <2> DEFINE a == <<0>> \o c
    <2>2. a \in Seq(Byte)
      BY <2>1
    <2> HIDE DEF a
    <2>3. a \o <<0>> = Append(a, 0)
      BY <2>2, Zero
    <2> QED BY <2>3 DEF a, Framed, Between
  <1> HIDE DEF c
  <1>4. Len(c) \in Nat /\ \A i \in 1 .. Len(c) : i + 1 \in 2 .. Len(c) + 1 /\ (i + 1) - 1 = i
    BY <1>2
  <1>5. /\ Between(c) \in Seq(Byte) /\ Len(Between(c)) = Len(c) + 2
        /\ Between(c)[1] = 0 /\ Between(c)[Len(c) + 2] = 0
        /\ \A i \in 2 .. Len(c) + 1 : Between(c)[i] = c[i - 1]
    BY <1>2, BetweenIs
  <1>6. \A i \in 1 .. Len(c) : Between(c)[i + 1] = c[i]
    BY <1>4, <1>5
  <1> QED BY <1>2, <1>3, <1>4, <1>5, <1>6 DEF c

(* The first n bytes of f came last, and the others are on the line.       *)
Coming(n, f) ==
  /\ n \in Nat /\ n <= Len(stream) /\ n + Len(wire) = Len(f)
  /\ \A i \in 1 .. n : stream[Len(stream) - n + i] = f[i]
  /\ \A i \in 1 .. Len(wire) : wire[i] = f[n + i]

DueSet == [at : Nat, rx : Payloads]

DueInv ==
  /\ wire # <<>> /\ Undamaged => \E n : Coming(n, Framed(sending))
  /\ due \in Seq(DueSet)
  /\ \A k \in 1 .. Len(due) : Lies(stream, due[k].at, PyEnc(due[k].rx))

(* What lies among bytes stays there.                                      *)
LEMMA LiesOn ==
  ASSUME NEW s \in Seq(Byte), NEW b \in Byte, NEW at, NEW c \in Seq(Codes), Lies(s, at, c)
  PROVE  Lies(Append(s, b), at, c)
  <1> DEFINE t == Append(s, b)
             m == Len(c)
  <1>1. Len(t) = Len(s) + 1 /\ Len(s) \in Nat /\ \A i \in 1 .. Len(s) : t[i] = s[i]
    OBVIOUS
  <1>2. /\ m \in Nat /\ at \in Nat /\ m + 1 <= at /\ at < Len(s)
        /\ s[at - m] = 0 /\ s[at + 1] = 0 /\ \A i \in 1 .. m : s[at - m + i] = c[i]
    BY DEF Lies
  <1> HIDE DEF t, m
  <1>3. at - m \in 1 .. Len(s) /\ at + 1 \in 1 .. Len(s) /\ at < Len(t)
    BY <1>1, <1>2
  <1>4. \A i \in 1 .. m : at - m + i \in 1 .. Len(s)
    BY <1>1, <1>2
  <1> QED BY <1>1, <1>2, <1>3, <1>4 DEF Lies, t, m

LEMMA InitDue == Init => DueInv
  <1> SUFFICES ASSUME Init PROVE DueInv
    OBVIOUS
  <1>1. wire = <<>> /\ due = <<>>
    BY DEF Init
  <1> QED BY <1>1 DEF DueInv

LEMMA SendDue ==
  ASSUME Typed, DueInv, Send
  PROVE  DueInv'
  <1>1. PICK p \in Payloads : wire' = Framed(p) /\ sending' = p
    BY DEF Send
  <1>2. stream' = stream /\ due' = due
    BY DEF Send
  <1>3. (Coming(0, Framed(sending)))'
    <2>1. Framed(p) \in Seq(Byte) /\ stream \in Seq(Byte)
      BY FramedBytes DEF Typed
    <2> DEFINE f == Framed(p)
    <2> HIDE DEF f
    <2>2. /\ 0 \in Nat /\ 0 <= Len(stream) /\ 0 + Len(f) = Len(f)
          /\ \A i \in 1 .. Len(f) : f[i] = f[0 + i]
      BY <2>1 DEF f
    <2>3. \A i \in 1 .. 0 : stream[Len(stream) - 0 + i] = f[i]
      OBVIOUS
    <2>4. wire' = f /\ Framed(sending') = f
      BY <1>1 DEF f
    <2> QED BY <1>2, <2>2, <2>3, <2>4 DEF Coming
  <1> QED BY <1>2, <1>3 DEF DueInv

(* One byte more of the frame; the last one makes it due.                  *)
LEMMA DeliverDue ==
  ASSUME Typed, DueInv, Deliver
  PROVE  DueInv'
  <1> DEFINE b == Head(wire)
             l == Len(stream)
             f == Framed(sending)
  <1>1. /\ wire \in Seq(Byte) /\ wire # <<>> /\ stream \in Seq(Byte) /\ due \in Seq(DueSet)
        /\ wire' = Tail(wire) /\ stream' = Append(stream, b) /\ sending' = sending
        /\ due' = IF wire' = <<>> /\ Undamaged
                  THEN Append(due, [at |-> l, rx |-> sending]) ELSE due
    BY DEF Deliver, Receive, Typed, DueInv
  <1>2. /\ b \in Byte /\ b = wire[1] /\ Len(wire') = Len(wire) - 1 /\ Len(wire) \in Nat \ {0}
        /\ \A i \in 1 .. Len(wire') : wire'[i] = wire[i + 1]
        /\ wire' = <<>> <=> Len(wire) = 1
    <2>1. b = wire[1] /\ Len(wire) \in Nat \ {0} /\ b \in Byte
      BY <1>1
    <2>2. /\ wire' \in Seq(Byte) /\ Len(wire') = Len(wire) - 1
          /\ \A i \in 1 .. Len(wire') : wire'[i] = wire[i + 1]
      BY <1>1
    <2>3. wire' = <<>> <=> Len(wire') = 0
      BY <2>2
    <2> HIDE DEF b
    <2> QED BY <2>1, <2>2, <2>3
  <1>3. /\ Len(stream') = l + 1 /\ l \in Nat /\ stream'[l + 1] = b
        /\ \A i \in 1 .. l : stream'[i] = stream[i]
    BY <1>1, <1>2
  <1> HIDE DEF b, l
  <1>4. ASSUME Undamaged
        PROVE  \E n \in Nat : (Coming(n, f))' /\ n > 0
    <2>1. PICK n : Coming(n, f)
      BY <1>1, <1>4 DEF DueInv
    <2> HIDE DEF f
    <2>2. /\ n \in Nat /\ n <= l /\ n + Len(wire) = Len(f)
          /\ \A i \in 1 .. n : stream[l - n + i] = f[i]
          /\ \A i \in 1 .. Len(wire) : wire[i] = f[n + i]
      BY <2>1 DEF Coming, l
    <2>3. /\ n + 1 \in Nat /\ n + 1 <= Len(stream') /\ n + 1 + Len(wire') = Len(f)
          /\ Len(stream') - (n + 1) = l - n
      <3> DEFINE w == Len(wire)
                 u == Len(wire')
                 t == Len(stream')
                 m == Len(f)
      <3>1. /\ w \in Nat \ {0} /\ u = w - 1 /\ t = l + 1 /\ l \in Nat
            /\ n \in Nat /\ n <= l /\ n + w = m
        BY <1>2, <1>3, <2>2
      <3> HIDE DEF w, u, t, m
      <3>2. n + 1 \in Nat /\ n + 1 <= t /\ n + 1 + u = m /\ t - (n + 1) = l - n
        BY <3>1
      <3> QED BY <3>2 DEF w, u, t, m
    <2>4. \A i \in 1 .. n + 1 : stream'[l - n + i] = f[i]
      <3> SUFFICES ASSUME NEW i \in 1 .. n + 1 PROVE stream'[l - n + i] = f[i]
        OBVIOUS
      <3>1. CASE i = n + 1
        <4>1. l - n + i = l + 1 /\ 1 \in 1 .. Len(wire)
          BY <1>2, <1>3, <2>2, <3>1
        <4> QED BY <1>2, <1>3, <2>2, <3>1, <4>1
      <3>2. CASE i # n + 1
        <4>1. i \in 1 .. n /\ l - n + i \in 1 .. l
          BY <1>3, <2>2, <3>2
        <4> QED BY <1>3, <2>2, <4>1
      <3> QED BY <3>1, <3>2
    <2>5. \A i \in 1 .. Len(wire') : wire'[i] = f[n + 1 + i]
      <3> SUFFICES ASSUME NEW i \in 1 .. Len(wire') PROVE wire'[i] = f[n + 1 + i]
        OBVIOUS
      <3>1. i + 1 \in 1 .. Len(wire) /\ n + (i + 1) = n + 1 + i
        BY <1>2, <2>2
      <3> QED BY <1>2, <2>2, <3>1
    <2>6. f' = f
      BY <1>1 DEF f
    <2>7. (Coming(n + 1, f))'
      BY <2>3, <2>4, <2>5, <2>6 DEF Coming
    <2> QED BY <2>2, <2>3, <2>7
  <1>5. \A k \in 1 .. Len(due) : Lies(stream', due[k].at, PyEnc(due[k].rx))
    <2> SUFFICES ASSUME NEW k \in 1 .. Len(due)
                 PROVE  Lies(stream', due[k].at, PyEnc(due[k].rx))
      OBVIOUS
    <2>1. due[k] \in DueSet
      BY <1>1
    <2>2. due[k].rx \in Payloads
      BY <2>1 DEF DueSet
    <2>3. PyEnc(due[k].rx) \in Seq(Codes)
      BY <2>2, FramedIs
    <2>4. Lies(stream, due[k].at, PyEnc(due[k].rx))
      BY DEF DueInv
    <2> QED BY <1>1, <1>2, <2>3, <2>4, LiesOn
  <1>6. CASE wire' = <<>> /\ Undamaged
    <2> DEFINE c == PyEnc(sending)
               x == [at |-> l, rx |-> sending]
    <2>1. sending \in Payloads
      BY <1>6 DEF Undamaged, Typed
    <2>2. /\ Len(c) \in Nat /\ Len(f) = Len(c) + 2 /\ f[1] = 0 /\ f[Len(c) + 2] = 0
          /\ \A i \in 1 .. Len(c) : f[i + 1] = c[i]
      BY <2>1, FramedIs
    <2>3. PICK n \in Nat : (Coming(n, f))'
      BY <1>4, <1>6
    <2> HIDE DEF c
    <2>4. /\ n <= l + 1 /\ n + 0 = Len(f)
          /\ \A i \in 1 .. n : stream'[l + 1 - n + i] = f[i]
      <3>1. f' = f /\ Len(wire') = 0
        BY <1>1, <1>6 DEF f
      <3> HIDE DEF f
      <3> QED BY <1>3, <2>3, <3>1 DEF Coming
    <2>5. Lies(stream', l, c)
      <3> HIDE DEF f
      <3>1. n = Len(c) + 2 /\ Len(c) + 1 <= l
        BY <1>3, <2>2, <2>4
      <3>2. /\ 1 \in 1 .. n /\ n \in 1 .. n /\ l + 1 - n + 1 = l - Len(c) /\ l + 1 - n + n = l + 1
        BY <1>3, <2>2, <3>1
      <3>3. \A i \in 1 .. Len(c) : i + 1 \in 1 .. n /\ l + 1 - n + (i + 1) = l - Len(c) + i
        BY <1>3, <2>2, <3>1
      <3>4. stream'[l - Len(c)] = 0 /\ stream'[l + 1] = 0
        BY <2>2, <2>4, <3>1, <3>2
      <3>5. \A i \in 1 .. Len(c) : stream'[l - Len(c) + i] = c[i]
        BY <2>2, <2>4, <3>3
      <3> QED BY <1>3, <3>1, <3>4, <3>5 DEF Lies
    <2>6. x \in DueSet /\ x.at = l /\ PyEnc(x.rx) = c
      BY <1>3, <2>1 DEF DueSet, c
    <2>7. due' = Append(due, x)
      BY <1>1, <1>6
    <2> HIDE DEF x, f
    <2>8. /\ due' \in Seq(DueSet) /\ Len(due') = Len(due) + 1 /\ Len(due) \in Nat
          /\ due'[Len(due) + 1] = x /\ \A k \in 1 .. Len(due) : due'[k] = due[k]
      BY <1>1, <2>6, <2>7
    <2>9. ASSUME NEW k \in 1 .. Len(due') PROVE Lies(stream', due'[k].at, PyEnc(due'[k].rx))
      <3>1. CASE k = Len(due) + 1
        BY <2>5, <2>6, <2>8, <3>1
      <3>2. CASE k # Len(due) + 1
        <4>1. k \in 1 .. Len(due)
          BY <2>8, <3>2
        <4> QED BY <1>5, <2>8, <4>1
      <3> QED BY <3>1, <3>2
    <2> QED BY <1>6, <2>8, <2>9 DEF DueInv
  <1>7. CASE ~(wire' = <<>> /\ Undamaged)
    <2>1. due' = due
      BY <1>1, <1>7
    <2>2. Undamaged' => Undamaged
      BY <1>1 DEF Undamaged
    <2>3. wire' # <<>> /\ Undamaged' => \E n : (Coming(n, f))'
      BY <1>4, <2>2
    <2> QED BY <1>1, <1>5, <2>1, <2>3 DEF DueInv
  <1> QED BY <1>6, <1>7

(* What is altered or lost makes nothing due.                              *)
LEMMA DamageDue ==
  ASSUME Typed, DueInv, Damage
  PROVE  DueInv'
  <1>1. sending' = <<>> /\ due' = due /\ due \in Seq(DueSet) /\ stream \in Seq(Byte)
    BY DEF Damage, DueInv, Typed
  <1>2. stream' = stream \/ \E b \in Byte : stream' = Append(stream, b)
    <2>1. ASSUME NEW b \in Noise \ {Head(wire)}, Receive(b)
          PROVE  b \in Byte /\ stream' = Append(stream, b)
      BY <2>1, LogRxAssumption DEF Receive
    <2> QED BY <2>1 DEF Damage
  <1>3. ASSUME NEW k \in 1 .. Len(due) PROVE Lies(stream', due[k].at, PyEnc(due[k].rx))
    <2>1. due[k] \in DueSet
      BY <1>1
    <2>2. due[k].rx \in Payloads
      BY <2>1 DEF DueSet
    <2>3. PyEnc(due[k].rx) \in Seq(Codes)
      BY <2>2, FramedIs
    <2>4. Lies(stream, due[k].at, PyEnc(due[k].rx))
      BY DEF DueInv
    <2> QED BY <1>1, <1>2, <2>3, <2>4, LiesOn
  <1> QED BY <1>1, <1>3 DEF DueInv, Undamaged

LEMMA NextDue == Typed /\ DueInv /\ [Next]_vars => DueInv'
  <1> SUFFICES ASSUME Typed, DueInv, [Next]_vars PROVE DueInv'
    OBVIOUS
  <1>1. ASSUME UNCHANGED <<wire, sending, stream, due>> PROVE DueInv'
    BY <1>1 DEF DueInv, Coming, Undamaged
  <1>2. CASE OnRxdRdy
    BY <1>1, <1>2 DEF OnRxdRdy, host
  <1>3. CASE LogProcess
    BY <1>1, <1>3 DEF LogProcess, SkipZero, BeginFrame, More, EndFrame, host
  <1>4. CASE HostReceive
    BY <1>1, <1>4 DEF HostReceive, host
  <1>5. CASE UNCHANGED vars
    BY <1>1, <1>5 DEF vars, host
  <1> QED BY <1>2, <1>3, <1>4, <1>5, SendDue, DeliverDue, DamageDue DEF Next

(* A frame that arrived whole, that fits in the buffer and is for a        *)
(* handler.                                                                *)
Asked(k) == Acceptable(due[k].rx) /\ Len(PyEnc(due[k].rx)) < BufSize

(* Once its zero was taken, or is next and the frame was ended, its        *)
(* handler was called with it.                                             *)
ServedOnceTaken ==
  \A k \in DOMAIN due :
    Asked(k) /\ (due[k].at < taken \/ (due[k].at = taken /\ state = "start")) => Served(k)

LEMMA ServedNow == RingInv /\ Typed /\ CallInv /\ DueInv => ServedOnceTaken
  <1> SUFFICES ASSUME RingInv, Typed, CallInv, DueInv, NEW k \in DOMAIN due, Asked(k),
                      due[k].at < taken \/ (due[k].at = taken /\ state = "start")
               PROVE  Served(k)
    BY DEF ServedOnceTaken
  <1> DEFINE at == due[k].at
             sent == due[k].rx
             c == PyEnc(sent)
             s == IF state = "start" THEN Append(Came, 0) ELSE Came
  <1>1. k \in 1 .. Len(due) /\ k <= Len(due) /\ due[k] \in DueSet
    BY DEF DueInv
  <1>2. sent \in Payloads /\ at \in Nat
    BY <1>1 DEF DueSet
  <1>3. c \in Seq(Codes) /\ c # <<>> /\ WellFormed(c) /\ PyDec(c) = sent
    BY <1>2, FramedIs
  <1>4. Len(c) < BufSize /\ Acceptable(PyDec(c))
    BY <1>3 DEF Asked
  <1>5. Lies(stream, at, c)
    BY <1>1 DEF DueInv
  <1>6. at < taken \/ (at = taken /\ state = "start")
    OBVIOUS
  <1> HIDE DEF at, c
  <1>7. /\ stream \in Seq(Byte) /\ taken \in Nat /\ taken <= Len(stream)
        /\ Came \in Seq(Byte) /\ Len(Came) = taken /\ \A i \in 1 .. taken : Came[i] = stream[i]
    <2>1. stream \in Seq(Byte) /\ taken \in Nat /\ taken <= Len(stream)
      BY CameTyped
    <2> QED BY <2>1, FirstIs DEF Came
  <1>8. /\ s \in Seq(Byte) /\ Len(s) >= taken /\ at < Len(s) /\ s[at + 1] = 0
        /\ \A i \in 1 .. taken : s[i] = stream[i]
    <2>1. stream[at + 1] = 0
      BY <1>5 DEF Lies
    <2>2. CASE state = "start"
      <3> DEFINE t == Came
      <3> HIDE DEF t
      <3>1. /\ Append(t, 0) \in Seq(Byte) /\ Len(Append(t, 0)) = taken + 1
            /\ Append(t, 0)[taken + 1] = 0 /\ \A i \in 1 .. taken : Append(t, 0)[i] = t[i]
        BY <1>7, Zero DEF t
      <3>2. s = Append(t, 0)
        BY <2>2 DEF t
      <3> HIDE DEF s
      <3>3. at < taken => at + 1 \in 1 .. taken
        BY <1>2, <1>7 DEF at
      <3>4. at <= taken /\ at \in Nat
        BY <1>2, <1>6, <1>7 DEF at
      <3>5. \A i \in 1 .. taken : s[i] = stream[i]
        BY <1>7, <3>1, <3>2 DEF t
      <3>6. s[at + 1] = 0
        BY <1>6, <2>1, <3>1, <3>2, <3>3, <3>5
      <3> QED BY <1>7, <3>1, <3>2, <3>4, <3>5, <3>6
    <2>3. CASE state # "start"
      <3>1. s = Came /\ at < taken
        BY <1>6, <2>3
      <3> HIDE DEF s
      <3>2. at + 1 \in 1 .. taken
        BY <1>2, <1>7, <3>1 DEF at
      <3> QED BY <1>7, <2>1, <3>1, <3>2
    <2> QED BY <2>2, <2>3
  <1> HIDE DEF s
  <1>9. Lies(s, at, c)
    <2>1. /\ at \in Nat /\ Len(c) \in Nat /\ Len(c) + 1 <= at /\ at <= taken
          /\ stream[at - Len(c)] = 0
          /\ \A i \in 1 .. Len(c) : stream[at - Len(c) + i] = c[i]
      BY <1>2, <1>3, <1>5, <1>6, <1>7 DEF Lies, at
    <2>2. /\ at - Len(c) \in 1 .. taken
          /\ \A i \in 1 .. Len(c) : at - Len(c) + i \in 1 .. taken
      BY <1>7, <2>1
    <2> QED BY <1>8, <2>1, <2>2 DEF Lies
  <1>10. calls = Wanted(FramesIn(s))
    BY DEF CallInv, CallsMatchStream, Came, s
  <1>11. PICK i \in DOMAIN calls : calls[i] = [at |-> at, rx |-> PyDec(c)]
    BY <1>3, <1>4, <1>8, <1>9, <1>10, FoundOnce
  <1>12. calls[i].at = at /\ calls[i].rx = sent
    BY <1>3, <1>11
  <1> QED BY <1>1, <1>12 DEF Served, at

(* A frame that arrived whole is served when it is taken: as soon as the   *)
(* program has come past it, the handler was called with what the host     *)
(* sent, whatever was lost or altered before it and however the ring and   *)
(* the interrupts cut it into chunks.                                      *)
THEOREM WholeFramesServed == Spec => []ServedOnceTaken
  <1>1. Spec => []Typed
    BY InitTyped, NextTyped, RingAlways, PTL DEF Spec
  <1>2. RingInv /\ Typed /\ CallInv /\ [Next]_vars => CallInv'
    BY NextCalls
  <1>3. Typed /\ DueInv /\ [Next]_vars => DueInv'
    BY NextDue
  <1>4. RingInv /\ Typed /\ CallInv /\ DueInv => ServedOnceTaken
    BY ServedNow
  <1> QED BY <1>1, <1>2, <1>3, <1>4, InitCalls, InitDue, RingAlways, PTL DEF Spec
===============================================================================
