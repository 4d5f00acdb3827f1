--------------------------------- MODULE Cobs ---------------------------------
(***************************************************************************)
(* Consistent overhead byte stuffing: cobs.c, which encodes and decodes in *)
(* place in one memory, and tools/cobs.py, which the host uses.  A loop of *)
(* cobs.c is a function that takes the number of a round to its variables. *)
(***************************************************************************)
EXTENDS Integers, Sequences

CONSTANT MaxCode  \* the largest byte, 255: a block of 254 bytes without a zero after it

ASSUME CobsAssumption == MaxCode \in Nat /\ MaxCode > 1

Byte == 0 .. MaxCode

(* COBS_ENC_SIZE: what n bytes may grow to.                                *)
EncSize(n) == (n + MaxCode - 2) \div (MaxCode - 1) + n
-------------------------------------------------------------------------------
(* cobs_enc.  The block being filled begins at out with its code, which    *)
(* counts its bytes; in is the next byte to encode.                        *)
NewBlock(s, mem) ==
  LET next == s.out + mem[s.out]
  IN [s EXCEPT !.mem = [mem EXCEPT ![next] = 1], !.out = next]

EncStepBugKeepsMax(s) ==
  LET v == s.mem[s.in]
      code == s.mem[s.out]
      read == [s EXCEPT !.in = s.in + 1]
      stored == [s.mem EXCEPT ![s.out] = code + 1, ![s.out + code] = v]
  IN IF v = 0 THEN NewBlock(read, s.mem)
     ELSE IF code + 1 = MaxCode THEN [NewBlock(read, stored) EXCEPT !.lastMax = TRUE]
     ELSE [read EXCEPT !.mem = stored]

EncStep(s) ==
  LET v == s.mem[s.in]
      code == s.mem[s.out]
      read == [s EXCEPT !.in = s.in + 1, !.lastMax = FALSE]
      stored == [s.mem EXCEPT ![s.out] = code + 1, ![s.out + code] = v]
  IN IF v = 0 THEN NewBlock(read, s.mem)
     ELSE IF code + 1 = MaxCode THEN [NewBlock(read, stored) EXCEPT !.lastMax = TRUE]
     ELSE [read EXCEPT !.mem = stored]

EncStart(mem, out, in) ==
  [mem |-> [mem EXCEPT ![out] = 1], out |-> out, in |-> in, lastMax |-> FALSE]

(* The variables after each round.  The set has TLC evaluate a round once. *)
EncRounds(start, n) ==
  LET round[k \in 0 .. n] ==
        IF k = 0 THEN start ELSE CHOOSE t \in {EncStep(s) : s \in {round[k - 1]}} : TRUE
  IN round

(* The memory and the number of bytes written.                             *)
Enc(mem, out, in, n) ==
  LET end == EncRounds(EncStart(mem, out, in), n)[n]
  IN [mem |-> end.mem,
      n |-> end.out - out + IF end.lastMax THEN 0 ELSE end.mem[end.out]]
-------------------------------------------------------------------------------
(* cobs_dec from address 0 to address 0.  zero: a zero follows the block.  *)
DecStep(s) ==
  LET mem == [s.mem EXCEPT ![s.out] = IF s.code = 0 THEN 0 ELSE s.mem[s.in]]
      code == s.mem[s.in]
  IN IF s.code > 0
     THEN [s EXCEPT !.mem = mem, !.in = s.in + 1, !.out = s.out + 1, !.code = s.code - 1]
     ELSE [mem |-> IF s.zero THEN mem ELSE s.mem, in |-> s.in + 1,
           out |-> IF s.zero THEN s.out + 1 ELSE s.out,
           code |-> code - 1, zero |-> code # MaxCode]

DecStart(mem) == [mem |-> mem, in |-> 0, out |-> 0, code |-> 0, zero |-> FALSE]

DecRounds(start, n) ==
  LET round[k \in 0 .. n] ==
        IF k = 0 THEN start ELSE CHOOSE t \in {DecStep(s) : s \in {round[k - 1]}} : TRUE
  IN round

(* The memory and the number of bytes, or an error: a zero in the input,   *)
(* or a last block that is not all there.                                  *)
Dec(mem, n) ==
  IF \E i \in 0 .. n - 1 : mem[i] = 0 THEN [mem |-> mem, n |-> -1]
  ELSE LET end == DecRounds(DecStart(mem), n)[n]
       IN [mem |-> end.mem, n |-> IF end.code > 0 THEN -2 ELSE end.out]
-------------------------------------------------------------------------------
(* tools/cobs.py: one block after the other, of the data with a zero added *)
(* to them; for each place in d what is encoded from there on.             *)
NextZero(d, i) == CHOOSE z \in i .. Len(d) : d[z] = 0 /\ \A j \in i .. z - 1 : d[j] # 0

PyEncFrom(d) ==
  LET enc[i \in 1 .. Len(d) + 1] ==
        IF i > Len(d) THEN <<>>
        ELSE IF NextZero(d, i) - i < MaxCode - 1
        THEN <<NextZero(d, i) - i + 1>> \o SubSeq(d, i, NextZero(d, i) - 1)
               \o enc[NextZero(d, i) + 1]
        ELSE <<MaxCode>> \o SubSeq(d, i, i + MaxCode - 2)
               \o IF i + MaxCode - 1 = Len(d) THEN <<>> ELSE enc[i + MaxCode - 1]
  IN enc

PyEnc(data) == PyEncFrom(Append(data, 0))[1]

(* For each place in d what is decoded from there on.  A slice of Python    *)
(* ends where the data end: so does a last block that is cut short.        *)
PyDecFrom(d) ==
  LET dec[i \in 1 .. Len(d) + MaxCode] ==
        IF i > Len(d) THEN <<>>
        ELSE SubSeq(d, i + 1, IF i + d[i] > Len(d) THEN Len(d) ELSE i + d[i] - 1)
               \o (IF d[i] < MaxCode \/ i + d[i] > Len(d) THEN <<0>> ELSE <<>>)
               \o dec[i + d[i]]
  IN dec

PyDec(data) == LET all == PyDecFrom(data)[1] IN SubSeq(all, 1, Len(all) - 1)

(* What cobs_dec takes for an encoding: one block after the other, to the  *)
(* very end.                                                               *)
WellFormed(b) ==
  LET ends[i \in 1 .. Len(b) + MaxCode] ==
        i = Len(b) + 1 \/ (i <= Len(b) /\ ends[i + b[i]])
  IN ends[1]
===============================================================================
