------------------------------- MODULE CobsProofs ------------------------------
(***************************************************************************)
(* Proofs about cobs.c and tools/cobs.py, for data and memories of every   *)
(* size: encoding and decoding in place never overwrite what is still to   *)
(* be read, both decoders agree, and what was encoded decodes to itself.   *)
(*                                                                         *)
(* What is said of a loop is shown by induction over its rounds, with a    *)
(* set for the rounds of which it holds: if it missed one it would miss a  *)
(* first one.                                                              *)
(***************************************************************************)
EXTENDS Cobs, WellFoundedInduction, TLAPS
-------------------------------------------------------------------------------
(* Induction, from a least number *)

(* What there is of numbers has a least one.                               *)
LEMMA LeastOf ==
  ASSUME NEW T, T \subseteq Nat, T # {}
  PROVE  \E x \in T : \A y \in T : x <= y
  <1>1. IsWellFoundedOn(OpToRel(<,Nat), Nat)
    BY NatLessThanWellFounded
  <1>2. PICK x \in T : \A y \in T : ~(<<y, x>> \in OpToRel(<,Nat))
    BY <1>1, WFMin
  <1>3. ASSUME NEW y \in T PROVE x <= y
    <2>1. x \in Nat /\ y \in Nat
      OBVIOUS
    <2>2. ~(y < x)
      BY <1>2, <2>1 DEF OpToRel
    <2> QED BY <2>1, <2>2
  <1> QED BY <1>3

(* Induction up to n, for what is said of the numbers in a set.            *)
LEMMA Climbs ==
  ASSUME NEW n \in Nat, NEW T, 0 \in T, \A k \in 0 .. n - 1 : k \in T => k + 1 \in T
  PROVE  \A k \in 0 .. n : k \in T
  <1> DEFINE U == {k \in 0 .. n : k \notin T}
  <1> SUFFICES ASSUME U # {} PROVE FALSE
    OBVIOUS
  <1>1. PICK x \in U : \A y \in U : x <= y
    <2>1. U \subseteq Nat
      OBVIOUS
    <2> HIDE DEF U
    <2> QED BY <2>1, LeastOf
  <1>2. x \in 1 .. n /\ x \notin T
    OBVIOUS
  <1>3. x - 1 \in 0 .. n - 1 /\ x - 1 \in T
    <2>1. x - 1 \notin U
      BY <1>1, <1>2
    <2> QED BY <1>2, <2>1
  <1>4. (x - 1) + 1 = x
    BY <1>2
  <1> QED BY <1>2, <1>3, <1>4
-------------------------------------------------------------------------------
(* The rounds of cobs.c *)

(* The rounds of cobs_enc are what their definition says: a function with  *)
(* that property exists for every number of rounds.                        *)
LEMMA EncRoundsAre ==
  ASSUME NEW start, NEW n \in Nat
  PROVE  /\ EncRounds(start, n)[0] = start
         /\ \A k \in 1 .. n : EncRounds(start, n)[k] = EncStep(EncRounds(start, n)[k - 1])
  <1> DEFINE Round(r, k) == IF k = 0 THEN start
                            ELSE CHOOSE t \in {EncStep(s) : s \in {r[k - 1]}} : TRUE
             Is(r, m) == r = [k \in 0 .. m |-> Round(r, k)]
             T == {m \in 0 .. n : \E r : Is(r, m)}
  <1>1. 0 \in T
    <2>1. Is([k \in 0 .. 0 |-> start], 0)
      OBVIOUS
    <2> HIDE DEF Is
    <2> QED BY <2>1
  <1>2. ASSUME NEW m \in 0 .. n - 1, m \in T PROVE m + 1 \in T
    <2>1. PICK r : Is(r, m)
      BY <1>2
    <2> DEFINE q == [k \in 0 .. m + 1 |-> IF k <= m THEN r[k] ELSE Round(r, m + 1)]
    <2>2. \A k \in 0 .. m + 1 : q[k] = Round(r, k)
      <3>1. \A k \in 0 .. m : r[k] = Round(r, k)
        BY <2>1
      <3> HIDE DEF Round
      <3> QED BY <3>1
    <2>3. \A k \in 1 .. m + 1 : q[k - 1] = r[k - 1]
      OBVIOUS
    <2> HIDE DEF q
    <2>4. \A k \in 0 .. m + 1 : Round(q, k) = Round(r, k)
      BY <2>3
    <2>5. q = [k \in 0 .. m + 1 |-> q[k]]
      BY DEF q
    <2>6. Is(q, m + 1)
      <3> HIDE DEF Round
      <3> QED BY <2>2, <2>4, <2>5
    <2> HIDE DEF Is
    <2> QED BY <2>6
  <1>3. n \in T
    <2> HIDE DEF T
    <2> QED BY <1>1, <1>2, Climbs
  <1>4. Is(EncRounds(start, n), n)
    BY <1>3 DEF EncRounds
  <1> HIDE DEF Is
  <1>5. EncRounds(start, n) = [k \in 0 .. n |-> Round(EncRounds(start, n), k)]
    BY <1>4 DEF Is
  <1> QED BY <1>5
(* The quotient is the largest factor that fits.                           *)
LEMMA DivBound ==
  ASSUME NEW a \in Nat, NEW d \in Nat \ {0}, NEW c \in Nat, d * c <= a
  PROVE  c <= a \div d /\ a \div d \in Nat
  <1> DEFINE q == a \div d
  <1>1. q \in Int /\ d * q <= a /\ a < d * q + d
    OBVIOUS
  <1> HIDE DEF q
  <1>2. d * c < d * (q + 1)
    BY <1>1
  <1>3. c < q + 1
    BY <1>1, <1>2
  <1> QED BY <1>1, <1>3 DEF q

(* COBS_ENC_SIZE has room for one byte more than is encoded for every full *)
(* block.                                                                  *)
LEMMA EncSizeBound ==
  ASSUME NEW k \in Nat, NEW f \in Nat, (MaxCode - 1) * f <= k + MaxCode - 2
  PROVE  EncSize(k) \in Nat /\ f + k <= EncSize(k)
  <1>1. MaxCode - 1 \in Nat \ {0} /\ k + MaxCode - 2 \in Nat
    BY CobsAssumption
  <1> DEFINE q == (k + MaxCode - 2) \div (MaxCode - 1)
  <1>2. f <= q /\ q \in Nat
    BY <1>1, DivBound
  <1>3. EncSize(k) = q + k
    BY DEF EncSize
  <1> QED BY <1>2, <1>3
-------------------------------------------------------------------------------
(* Encoding in place *)

(* After k bytes, f full blocks behind them: where the open block stands,  *)
(* how full it is, and what it takes the reader to be ahead of it.         *)
Filling(s, size, out, in, k, f) ==
  /\ s = [mem |-> s.mem, out |-> s.out, in |-> s.in, lastMax |-> s.lastMax]
  /\ s.mem \in [0 .. size - 1 -> Byte] /\ s.lastMax \in BOOLEAN
  /\ s.in = in + k /\ s.out \in Nat /\ s.out >= out
  /\ s.mem[s.out] \in 1 .. MaxCode - 1
  /\ s.out + s.mem[s.out] = out + 1 + k + f
  /\ (MaxCode - 1) * f + s.mem[s.out] <= k + 1
  /\ k > 0 /\ ~s.lastMax => (MaxCode - 1) * f < k
  /\ s.lastMax => s.mem[s.out] = 1

(* What cobs.c asks for, and a byte more than the encoding may take: after *)
(* a full block the next one is begun, also when nothing follows.          *)
InPlace(size, out, in, n) ==
  /\ out + EncSize(n) <= in + n /\ in + n <= size
  /\ out + EncSize(n) < size

(* Fewer bytes in full blocks than there are to encode: a block more fits. *)
LEMMA RoomAhead ==
  ASSUME NEW n \in Nat, NEW f \in Nat, (MaxCode - 1) * f < n
  PROVE  EncSize(n) \in Nat /\ f + 1 + n <= EncSize(n)
  <1>1. MaxCode \in Int /\ f + 1 \in Nat
    BY CobsAssumption
  <1> DEFINE p == (MaxCode - 1) * f
  <1>2. (MaxCode - 1) * (f + 1) = p + (MaxCode - 1) /\ p \in Int
    BY <1>1
  <1> HIDE DEF p
  <1>3. (MaxCode - 1) * (f + 1) <= n + MaxCode - 2
    <2>1. p < n
      BY DEF p
    <2> QED BY <1>1, <1>2, <2>1
  <1> QED BY <1>1, <1>3, EncSizeBound

(* What a round does with a byte: a zero closes the block, and so does the *)
(* last byte a block has room for.                                         *)
Ahead(s) == s.out + s.mem[s.out]

ClosesBlock(s, t, size) ==
  /\ s.mem[s.in] = 0 /\ ~t.lastMax
  /\ t.out = Ahead(s) /\ t.mem[t.out] = 1
  /\ \A i \in 0 .. size - 1 : i # t.out => t.mem[i] = s.mem[i]

FillsBlock(s, t, size) ==
  /\ s.mem[s.in] # 0 /\ ~t.lastMax
  /\ t.out = s.out /\ t.mem[s.out] = s.mem[s.out] + 1 /\ t.mem[Ahead(s)] = s.mem[s.in]
  /\ \A i \in 0 .. size - 1 : i # s.out /\ i # Ahead(s) => t.mem[i] = s.mem[i]

EndsBlock(s, t, size) ==
  /\ s.mem[s.in] # 0 /\ t.lastMax
  /\ t.out = Ahead(s) + 1 /\ t.mem[t.out] = 1
  /\ s.mem[s.out] + 1 = MaxCode /\ t.mem[s.out] = MaxCode /\ t.mem[Ahead(s)] = s.mem[s.in]
  /\ \A i \in 0 .. size - 1 :
       i # s.out /\ i # Ahead(s) /\ i # t.out => t.mem[i] = s.mem[i]

(* A round writes behind what it has read, and leaves what it has not.     *)
LEMMA EncStepFills ==
  ASSUME NEW size \in Nat, NEW out \in Nat, NEW in \in Nat, NEW n \in Nat,
         InPlace(size, out, in, n),
         NEW s, NEW k \in 0 .. n - 1, NEW f \in Nat, Filling(s, size, out, in, k, f)
  PROVE  /\ \E g \in Nat : Filling(EncStep(s), size, out, in, k + 1, g)
         /\ \A i \in in + k + 1 .. in + n - 1 : EncStep(s).mem[i] = s.mem[i]
         /\ Ahead(s) < size
         /\ \/ ClosesBlock(s, EncStep(s), size)
            \/ FillsBlock(s, EncStep(s), size)
            \/ EndsBlock(s, EncStep(s), size)
  <1> DEFINE c == s.mem[s.out]
             w == s.out + c
             v == s.mem[s.in]
             p == (MaxCode - 1) * f
             t == EncStep(s)
  <1>1. /\ s.mem \in [0 .. size - 1 -> Byte]
        /\ s.in = in + k /\ s.out \in Nat /\ s.out >= out
        /\ c \in 1 .. MaxCode - 1 /\ w = out + 1 + k + f
        /\ p + c <= k + 1
    BY DEF Filling
  <1> HIDE DEF c, w, v
  <1>2. /\ MaxCode \in Int /\ MaxCode > 1 /\ p \in Int
        /\ (MaxCode - 1) * (f + 1) = p + (MaxCode - 1)
        /\ k \in Int /\ 0 <= k /\ k < n /\ k + 1 \in Nat /\ f + 1 \in Nat
    BY CobsAssumption
  <1>3. EncSize(n) \in Int /\ f + 1 + n <= EncSize(n)
    <2>1. p < n
      <3> HIDE DEF p
      <3> QED BY <1>1, <1>2
    <2> QED BY <2>1, RoomAhead
  <1>4. /\ out + EncSize(n) <= in + n /\ in + n <= size /\ out + EncSize(n) < size
    BY DEF InPlace
  <1> HIDE DEF p
  <1>5. /\ w \in Int /\ s.out < w /\ w <= in + k /\ w < size /\ s.out < size
        /\ in + k < size /\ 0 <= w /\ c \in Int /\ 1 <= c /\ c <= MaxCode - 1
    <2>1. c \in Int /\ 1 <= c /\ c <= MaxCode - 1
      BY <1>1, <1>2
    <2>2. w = s.out + c
      BY DEF w, c
    <2>3. w \in Int /\ w <= in + k
      BY <1>1, <1>2, <1>3, <1>4, SMTT(30)
    <2>4. s.out < w
      BY <1>1, <2>1, <2>2
    <2> QED BY <1>1, <1>2, <1>4, <2>1, <2>3, <2>4
  <1>6. v \in Byte
    <2>1. s.in \in 0 .. size - 1
      BY <1>1, <1>2, <1>5
    <2> QED BY <1>1, <2>1 DEF v
  <1>7. s.out \in 0 .. size - 1 /\ w \in 0 .. size - 1 /\ s.out # w
    BY <1>1, <1>5
  <1>8. 1 \in Byte /\ c + 1 \in Byte
    BY <1>2, <1>5 DEF Byte
  <1>a. \A i \in in + k + 1 .. in + n - 1 : i \in 0 .. size - 1 /\ i > in + k
    BY <1>2, <1>4
  <1>9. CASE v = 0
    <2>1. t = [mem |-> [s.mem EXCEPT ![w] = 1], out |-> w, in |-> in + k + 1, lastMax |-> FALSE]
      BY <1>1, <1>9 DEF EncStep, NewBlock, Filling, c, w, v
    <2>2. t.mem \in [0 .. size - 1 -> Byte] /\ t.mem[w] = 1
          /\ \A i \in 0 .. size - 1 : i # w => t.mem[i] = s.mem[i]
      <3>1. t.mem = [s.mem EXCEPT ![w] = 1]
        BY <2>1
      <3> HIDE DEF t
      <3> QED BY <1>1, <1>7, <1>8, <3>1
    <2>3. /\ 1 \in 1 .. MaxCode - 1 /\ w + 1 = out + 1 + (k + 1) + f
          /\ p + 1 <= (k + 1) + 1 /\ p < k + 1 /\ w \in Nat /\ w >= out
          /\ in + k + 1 = in + (k + 1)
      <3>1. 1 \in 1 .. MaxCode - 1
        BY <1>2
      <3>2. w + 1 = out + 1 + (k + 1) + f /\ w \in Nat /\ w >= out
        BY <1>1, <1>2, <1>5
      <3>3. p + 1 <= (k + 1) + 1 /\ p < k + 1
        BY <1>1, <1>2, <1>5
      <3> QED BY <1>2, <3>1, <3>2, <3>3
    <2>4. /\ t.out = w /\ t.in = in + k + 1 /\ t.lastMax = FALSE
          /\ t = [mem |-> t.mem, out |-> t.out, in |-> t.in, lastMax |-> t.lastMax]
      BY <2>1
    <2> HIDE DEF t
    <2>5. Filling(t, size, out, in, k + 1, f)
      BY <2>2, <2>3, <2>4 DEF Filling, p, c
    <2>6. \A i \in in + k + 1 .. in + n - 1 : i \in 0 .. size - 1 /\ i # w
      BY <1>5, <1>a
    <2>7. ClosesBlock(s, t, size)
      BY <1>9, <2>2, <2>4 DEF ClosesBlock, Ahead, c, w, v
    <2> QED BY <1>5, <2>2, <2>5, <2>6, <2>7 DEF t, Ahead, w, c
  <1>10. CASE v # 0 /\ c + 1 # MaxCode
    <2>1. t = [mem |-> [s.mem EXCEPT ![s.out] = c + 1, ![w] = v], out |-> s.out,
               in |-> in + k + 1, lastMax |-> FALSE]
      BY <1>1, <1>10 DEF EncStep, NewBlock, Filling, c, w, v
    <2>2. t.mem \in [0 .. size - 1 -> Byte] /\ t.mem[s.out] = c + 1 /\ t.mem[w] = v
          /\ \A i \in 0 .. size - 1 : i # w /\ i # s.out => t.mem[i] = s.mem[i]
      <3> DEFINE one == [s.mem EXCEPT ![s.out] = c + 1]
      <3>1. /\ one \in [0 .. size - 1 -> Byte] /\ one[s.out] = c + 1
            /\ \A i \in 0 .. size - 1 : i # s.out => one[i] = s.mem[i]
        BY <1>1, <1>7, <1>8
      <3>2. t.mem = [one EXCEPT ![w] = v]
        BY <2>1
      <3> HIDE DEF one, t
      <3> QED BY <1>6, <1>7, <3>1, <3>2
    <2>3. /\ c + 1 \in 1 .. MaxCode - 1 /\ s.out + (c + 1) = out + 1 + (k + 1) + f
          /\ p + (c + 1) <= (k + 1) + 1 /\ p < k + 1
          /\ in + k + 1 = in + (k + 1)
      <3>1. c + 1 \in 1 .. MaxCode - 1
        BY <1>2, <1>5, <1>10
      <3>2. s.out + (c + 1) = w + 1 /\ w + 1 = out + 1 + (k + 1) + f
        <4>1. s.out \in Int /\ c \in Int
          BY <1>1, <1>5
        <4>2. s.out + (c + 1) = (s.out + c) + 1
          BY <4>1
        <4> QED BY <1>1, <1>2, <4>2 DEF w
      <3>3. p + (c + 1) <= (k + 1) + 1 /\ p < k + 1
        BY <1>1, <1>2, <1>5
      <3> QED BY <1>2, <3>1, <3>2, <3>3
    <2>4. /\ t.out = s.out /\ t.in = in + k + 1 /\ t.lastMax = FALSE
          /\ t = [mem |-> t.mem, out |-> t.out, in |-> t.in, lastMax |-> t.lastMax]
      BY <2>1
    <2> HIDE DEF t
    <2>5. Filling(t, size, out, in, k + 1, f)
      BY <1>1, <2>2, <2>3, <2>4 DEF Filling, p, c
    <2>6. \A i \in in + k + 1 .. in + n - 1 : i \in 0 .. size - 1 /\ i # w /\ i # s.out
      BY <1>5, <1>a
    <2>7. FillsBlock(s, t, size)
      BY <1>10, <2>2, <2>4 DEF FillsBlock, Ahead, c, w, v
    <2> QED BY <1>5, <2>2, <2>5, <2>6, <2>7 DEF t, Ahead, w, c
  <1>11. CASE v # 0 /\ c + 1 = MaxCode
    <2> DEFINE b == s.out + (c + 1)
    <2>1. b = w + 1 /\ b = out + 2 + k + f /\ p + (MaxCode - 1) <= k + 1
      <3>1. s.out \in Int /\ c \in Int
        BY <1>1, <1>5
      <3>2. p + (MaxCode - 1) <= k + 1
        BY <1>1, <1>2, <1>5, <1>11
      <3>3. b = w + 1
        BY <3>1 DEF w
      <3>4. w + 1 = out + 2 + k + f
        <4>1. w = out + 1 + k + f /\ k \in Int
          BY <1>1, <1>2
        <4> QED BY <4>1
      <3> QED BY <3>2, <3>3, <3>4
    <2>2. f + 1 + n <= EncSize(n) /\ (k + 1 < n => f + 2 + n <= EncSize(n))
      <3>1. k + 1 < n => (MaxCode - 1) * (f + 1) < n
        BY <1>2, <2>1
      <3>2. k + 1 < n => (f + 1) + 1 + n <= EncSize(n)
        BY <1>2, <3>1, RoomAhead
      <3> QED BY <1>3, <3>2
    <2>3. b \in 0 .. size - 1 /\ b # s.out /\ b # w /\ b > w
          /\ (k + 1 < n => b <= in + k)
      <3>1. b = w + 1 /\ w \in Int /\ 0 <= w /\ s.out < w /\ s.out \in Int
        BY <1>1, <1>5, <2>1
      <3>2. /\ b = out + 2 + k + f /\ k \in Int /\ k < n
            /\ EncSize(n) \in Int /\ f + 1 + n <= EncSize(n)
            /\ out + EncSize(n) < size /\ out + EncSize(n) <= in + n
            /\ k + 1 < n => f + 2 + n <= EncSize(n)
        BY <1>2, <1>3, <1>4, <2>1, <2>2
      <3> HIDE DEF b
      <3>3. b < size
        BY <3>2
      <3>4. k + 1 < n => b <= in + k
        BY <3>2
      <3> QED BY <3>1, <3>3, <3>4
    <2> DEFINE stored == [s.mem EXCEPT ![s.out] = c + 1, ![w] = v]
    <2>4. stored \in [0 .. size - 1 -> Byte] /\ stored[s.out] = c + 1 /\ stored[w] = v
          /\ \A i \in 0 .. size - 1 : i # w /\ i # s.out => stored[i] = s.mem[i]
      BY <1>1, <1>6, <1>7, <1>8
    <2>5. t = [mem |-> [stored EXCEPT ![b] = 1], out |-> b,
               in |-> in + k + 1, lastMax |-> TRUE]
      BY <1>1, <1>11, <2>4 DEF EncStep, NewBlock, Filling, c, w, v
    <2> HIDE DEF stored
    <2>6. t.mem \in [0 .. size - 1 -> Byte] /\ t.mem[b] = 1
          /\ \A i \in 0 .. size - 1 : i # b => t.mem[i] = stored[i]
      BY <1>8, <2>3, <2>4, <2>5
    <2>7. /\ 1 \in 1 .. MaxCode - 1 /\ b + 1 = out + 1 + (k + 1) + (f + 1)
          /\ (MaxCode - 1) * (f + 1) + 1 <= (k + 1) + 1 /\ b \in Nat /\ b >= out
          /\ in + k + 1 = in + (k + 1)
      BY <1>1, <1>2, <1>5, <2>1, <2>3
    <2>8. /\ t.out = b /\ t.in = in + k + 1 /\ t.lastMax = TRUE
          /\ t = [mem |-> t.mem, out |-> t.out, in |-> t.in, lastMax |-> t.lastMax]
      BY <2>5
    <2> HIDE DEF t, b
    <2>9. Filling(t, size, out, in, k + 1, f + 1)
      BY <2>6, <2>7, <2>8 DEF Filling
    <2>10. \A i \in in + k + 1 .. in + n - 1 : i \in 0 .. size - 1 /\ i # w /\ i # s.out /\ i # b
      <3>1. ASSUME NEW i \in in + k + 1 .. in + n - 1 PROVE i # b
        <4>1. i \in Int /\ i > in + k /\ k + 1 < n
          BY <1>2, <1>a
        <4> QED BY <2>3, <4>1
      <3> QED BY <1>5, <1>a, <3>1
    <2>11. EndsBlock(s, t, size)
      <3>1. t.mem[s.out] = MaxCode /\ t.mem[w] = v
        BY <1>7, <1>11, <2>3, <2>4, <2>6
      <3>2. \A i \in 0 .. size - 1 : i # s.out /\ i # w /\ i # b => t.mem[i] = s.mem[i]
        BY <2>4, <2>6
      <3>3. Ahead(s) = w
        BY DEF Ahead, w, c
      <3> QED BY <1>11, <2>1, <2>6, <2>8, <3>1, <3>2, <3>3 DEF EndsBlock, c, v
    <2>12. Ahead(s) < size
      BY <1>5 DEF Ahead, w, c
    <2> QED BY <1>2, <2>4, <2>6, <2>9, <2>10, <2>11, <2>12 DEF t
  <1> QED BY <1>9, <1>10, <1>11

(* After k of n rounds: what is left to encode is as it was.               *)
(* The same, with one condition.                                           *)
MayStep(s, size, out, in, n, k, f) ==
  /\ size \in Nat /\ out \in Nat /\ in \in Nat /\ n \in Nat /\ InPlace(size, out, in, n)
  /\ k \in 0 .. n - 1 /\ f \in Nat /\ Filling(s, size, out, in, k, f)

(* The same with the hypotheses as one, to be instantiated.                *)
LEMMA StepFills ==
  ASSUME NEW s, NEW size, NEW out, NEW in, NEW n, NEW k, NEW f,
         MayStep(s, size, out, in, n, k, f)
  PROVE  /\ \E g \in Nat : Filling(EncStep(s), size, out, in, k + 1, g)
         /\ \A i \in in + k + 1 .. in + n - 1 : EncStep(s).mem[i] = s.mem[i]
         /\ Ahead(s) < size
         /\ \/ ClosesBlock(s, EncStep(s), size)
            \/ FillsBlock(s, EncStep(s), size)
            \/ EndsBlock(s, EncStep(s), size)
  <1>1. /\ size \in Nat /\ out \in Nat /\ in \in Nat /\ n \in Nat /\ InPlace(size, out, in, n)
        /\ k \in 0 .. n - 1 /\ f \in Nat /\ Filling(s, size, out, in, k, f)
    BY DEF MayStep
  <1> QED BY <1>1, EncStepFills

Encoding(rounds, mem, size, out, in, n, k) ==
  /\ \E f \in Nat : Filling(rounds[k], size, out, in, k, f)
  /\ \A i \in in + k .. in + n - 1 : rounds[k].mem[i] = mem[i]

(* By induction over the rounds.                                           *)
LEMMA EncRoundsFill ==
  ASSUME NEW size \in Nat, NEW out \in Nat, NEW in \in Nat, NEW n \in Nat \ {0},
         InPlace(size, out, in, n), NEW mem \in [0 .. size - 1 -> Byte]
  PROVE  \A k \in 0 .. n :
           Encoding(EncRounds(EncStart(mem, out, in), n), mem, size, out, in, n, k)
  <1> DEFINE start == EncStart(mem, out, in)
             R == EncRounds(start, n)
             T == {k \in 0 .. n : /\ \E f \in Nat : Filling(R[k], size, out, in, k, f)
                                  /\ \A i \in in + k .. in + n - 1 : R[k].mem[i] = mem[i]}
  <1>1. /\ R[0] = start
        /\ \A k \in 1 .. n : R[k] = EncStep(R[k - 1])
    BY EncRoundsAre
  <1>2. /\ MaxCode \in Int /\ MaxCode > 1 /\ EncSize(n) \in Int /\ 1 + n <= EncSize(n)
        /\ 0 \in Nat /\ (MaxCode - 1) * 0 = 0
    <2>1. (MaxCode - 1) * 0 = 0 /\ MaxCode \in Int /\ MaxCode > 1
      BY CobsAssumption
    <2>2. n \in Nat /\ 0 \in Nat /\ (MaxCode - 1) * 0 < n
      BY <2>1
    <2>3. EncSize(n) \in Nat /\ 0 + 1 + n <= EncSize(n)
      BY <2>2, RoomAhead
    <2> QED BY <2>1, <2>2, <2>3
  <1>3. out < size /\ out + 1 <= in /\ in + n <= size
    BY <1>2 DEF InPlace
  <1>4. 0 \in T
    <2>1. start = [mem |-> [mem EXCEPT ![out] = 1], out |-> out, in |-> in, lastMax |-> FALSE]
      BY DEF EncStart
    <2>2. /\ start.mem \in [0 .. size - 1 -> Byte] /\ start.mem[out] = 1
          /\ \A i \in in .. in + n - 1 : start.mem[i] = mem[i]
      <3>1. 1 \in Byte /\ out \in 0 .. size - 1
        BY <1>2, <1>3 DEF Byte
      <3>2. \A i \in in .. in + n - 1 : i \in 0 .. size - 1 /\ i # out
        BY <1>3
      <3>3. start.mem = [mem EXCEPT ![out] = 1]
        BY <2>1
      <3> HIDE DEF start
      <3> QED BY <3>1, <3>2, <3>3
    <2>3. /\ 1 \in 1 .. MaxCode - 1 /\ out + 1 = out + 1 + 0 + 0 /\ in = in + 0
          /\ (MaxCode - 1) * 0 + 1 <= 0 + 1 /\ out >= out
      BY <1>2
    <2>4. /\ start.out = out /\ start.in = in /\ start.lastMax = FALSE
          /\ start = [mem |-> start.mem, out |-> start.out, in |-> start.in,
                      lastMax |-> start.lastMax]
      BY <2>1
    <2> HIDE DEF start
    <2>5. Filling(start, size, out, in, 0, 0)
      <3>1. /\ start.lastMax \in BOOLEAN /\ ~(0 > 0) /\ start.out \in Nat /\ start.out >= out
            /\ start.in = in + 0 /\ start.out + start.mem[start.out] = out + 1 + 0 + 0
        <4>1. start.out = out /\ start.in = in /\ start.lastMax = FALSE /\ start.mem[out] = 1
          BY <2>2, <2>4
        <4>2. out + 1 = out + 1 + 0 + 0 /\ in = in + 0
          OBVIOUS
        <4>3. /\ start.out + start.mem[start.out] = out + 1
              /\ ~(0 > 0) /\ out >= out /\ FALSE \in BOOLEAN
          BY <4>1
        <4> HIDE DEF start
        <4> QED BY <4>1, <4>2, <4>3
      <3> QED BY <1>2, <2>2, <2>3, <2>4, <3>1 DEF Filling
    <2> HIDE DEF R
    <2>6. \A i \in in + 0 .. in + n - 1 : R[0].mem[i] = mem[i]
      BY <1>1, <2>2, <2>3
    <2> QED BY <1>1, <1>2, <2>5, <2>6
  <1> HIDE DEF R, start
  <1>5. ASSUME NEW k \in 0 .. n - 1, k \in T PROVE k + 1 \in T
    <2>1. PICK f \in Nat : Filling(R[k], size, out, in, k, f)
      BY <1>5
    <2>2. /\ \E g \in Nat : Filling(EncStep(R[k]), size, out, in, k + 1, g)
          /\ \A i \in in + k + 1 .. in + n - 1 : EncStep(R[k]).mem[i] = R[k].mem[i]
      <3> DEFINE s == R[k]
      <3>1. MayStep(s, size, out, in, n, k, f)
        BY <2>1 DEF MayStep
      <3> HIDE DEF s
      <3>2. /\ \E g \in Nat : Filling(EncStep(s), size, out, in, k + 1, g)
            /\ \A i \in in + k + 1 .. in + n - 1 : EncStep(s).mem[i] = s.mem[i]
        BY <3>1, StepFills
      <3> QED BY <3>2 DEF s
    <2>3. k + 1 \in 1 .. n /\ k + 1 \in 0 .. n /\ (k + 1) - 1 = k
      OBVIOUS
    <2>4. R[k + 1] = EncStep(R[k])
      BY <1>1, <2>3
    <2>5. \A i \in in + (k + 1) .. in + n - 1 :
            i \in in + k .. in + n - 1 /\ i \in in + k + 1 .. in + n - 1
      OBVIOUS
    <2>6. \A i \in in + (k + 1) .. in + n - 1 : R[k + 1].mem[i] = mem[i]
      BY <1>5, <2>2, <2>4, <2>5
    <2> QED BY <2>2, <2>3, <2>4, <2>6
  <1>6. \A k \in 0 .. n : k \in T
    <2> HIDE DEF T
    <2> QED BY <1>4, <1>5, Climbs
  <1> QED BY <1>6 DEF R, start, Encoding

(* cobs_enc may encode in place, as its comment says (cobs.c:17-21): every *)
(* byte it reads is still the one to be encoded, and it writes no more than*)
(* cobs_enc_size() bytes. What it needs: the input that much further up    *)
(* than the output, at least one byte of it, and one byte more than        *)
(* cobs_enc_size() in the memory.                                          *)
THEOREM EncodesInPlace ==
  ASSUME NEW size \in Nat, NEW out \in Nat, NEW in \in Nat, NEW n \in Nat \ {0},
         InPlace(size, out, in, n), NEW mem \in [0 .. size - 1 -> Byte]
  PROVE  /\ \A k \in 0 .. n - 1 :
              /\ EncRounds(EncStart(mem, out, in), n)[k].in = in + k
              /\ EncRounds(EncStart(mem, out, in), n)[k].mem[in + k] = mem[in + k]
         /\ Enc(mem, out, in, n).mem \in [0 .. size - 1 -> Byte]
         /\ Enc(mem, out, in, n).n \in 1 .. EncSize(n)
  <1> DEFINE R == EncRounds(EncStart(mem, out, in), n)
  <1> HIDE DEF R
  <1>1. \A k \in 0 .. n :
           /\ \E f \in Nat : Filling(R[k], size, out, in, k, f)
           /\ \A i \in in + k .. in + n - 1 : R[k].mem[i] = mem[i]
    <2>1. \A k \in 0 .. n : Encoding(R, mem, size, out, in, n, k)
      BY EncRoundsFill DEF R
    <2> QED BY <2>1 DEF Encoding
  <1>2. /\ Enc(mem, out, in, n).mem = R[n].mem
        /\ Enc(mem, out, in, n).n = R[n].out - out + IF R[n].lastMax THEN 0 ELSE R[n].mem[R[n].out]
    BY DEF Enc, R
  <1>3. ASSUME NEW k \in 0 .. n - 1
        PROVE  R[k].in = in + k /\ R[k].mem[in + k] = mem[in + k]
    <2>1. k \in 0 .. n /\ in + k \in in + k .. in + n - 1
      OBVIOUS
    <2>2. R[k].mem[in + k] = mem[in + k]
      BY <1>1, <2>1
    <2>3. R[k].in = in + k
      BY <1>1, <2>1 DEF Filling
    <2> QED BY <2>2, <2>3
  <1>4. PICK f \in Nat : Filling(R[n], size, out, in, n, f)
    BY <1>1
  <1> DEFINE c == R[n].mem[R[n].out]
             p == (MaxCode - 1) * f
             o == R[n].out
  <1>5. /\ o \in Nat /\ o >= out /\ c \in 1 .. MaxCode - 1
        /\ o + c = out + 1 + n + f
        /\ p + c <= n + 1 /\ R[n].lastMax \in BOOLEAN
        /\ ~R[n].lastMax => p < n
        /\ R[n].lastMax => c = 1
        /\ R[n].mem \in [0 .. size - 1 -> Byte]
    BY <1>4 DEF Filling
  <1>6. MaxCode \in Int /\ MaxCode > 1 /\ p \in Int
    BY CobsAssumption
  <1> HIDE DEF c, o, p
  <1>7. CASE R[n].lastMax
    <2>1. Enc(mem, out, in, n).n = o - out + 0
      BY <1>2, <1>7 DEF o
    <2>2. o = out + n + f
      <3>1. c = 1
        BY <1>5, <1>7
      <3> QED BY <1>5, <3>1
    <2>3. p <= n + MaxCode - 2
      BY <1>5, <1>6, <1>7
    <2>4. EncSize(n) \in Nat /\ f + n <= EncSize(n)
      BY <2>3, EncSizeBound DEF p
    <2>5. (o - out) + 0 \in 1 .. EncSize(n)
      BY <2>2, <2>4
    <2> QED BY <1>2, <1>3, <1>5, <2>1, <2>5 DEF R
  <1>8. CASE ~R[n].lastMax
    <2>1. Enc(mem, out, in, n).n = o - out + c
      BY <1>2, <1>8 DEF c, o
    <2>2. o - out + c = 1 + n + f
      <3>1. c \in Int /\ o \in Int
        BY <1>5, <1>6
      <3>2. o - out + c = (o + c) - out
        BY <3>1
      <3>3. (out + 1 + n + f) - out = 1 + n + f
        OBVIOUS
      <3> QED BY <1>5, <3>2, <3>3
    <2>3. EncSize(n) \in Nat /\ f + 1 + n <= EncSize(n)
      BY <1>5, <1>8, RoomAhead DEF p
    <2>4. 1 + n + f \in 1 .. EncSize(n)
      BY <2>3
    <2> QED BY <1>2, <1>3, <1>5, <2>1, <2>2, <2>4 DEF R
  <1> QED BY <1>5, <1>7, <1>8
-------------------------------------------------------------------------------
(* Decoding in place *)

(* The rounds of cobs_dec, likewise.                                       *)
LEMMA DecRoundsAre ==
  ASSUME NEW start, NEW n \in Nat
  PROVE  /\ DecRounds(start, n)[0] = start
         /\ \A k \in 1 .. n : DecRounds(start, n)[k] = DecStep(DecRounds(start, n)[k - 1])
  <1> DEFINE Round(r, k) == IF k = 0 THEN start
                            ELSE CHOOSE t \in {DecStep(s) : s \in {r[k - 1]}} : TRUE
             Is(r, m) == r = [k \in 0 .. m |-> Round(r, k)]
             T == {m \in 0 .. n : \E r : Is(r, m)}
  <1>1. 0 \in T
    <2>1. Is([k \in 0 .. 0 |-> start], 0)
      OBVIOUS
    <2> HIDE DEF Is
    <2> QED BY <2>1
  <1>2. ASSUME NEW m \in 0 .. n - 1, m \in T PROVE m + 1 \in T
    <2>1. PICK r : Is(r, m)
      BY <1>2
    <2> DEFINE q == [k \in 0 .. m + 1 |-> IF k <= m THEN r[k] ELSE Round(r, m + 1)]
    <2>2. \A k \in 0 .. m + 1 : q[k] = Round(r, k)
      <3>1. \A k \in 0 .. m : r[k] = Round(r, k)
        BY <2>1
      <3> HIDE DEF Round
      <3> QED BY <3>1
    <2>3. \A k \in 1 .. m + 1 : q[k - 1] = r[k - 1]
      OBVIOUS
    <2> HIDE DEF q
    <2>4. \A k \in 0 .. m + 1 : Round(q, k) = Round(r, k)
      BY <2>3
    <2>5. q = [k \in 0 .. m + 1 |-> q[k]]
      BY DEF q
    <2>6. Is(q, m + 1)
      <3> HIDE DEF Round
      <3> QED BY <2>2, <2>4, <2>5
    <2> HIDE DEF Is
    <2> QED BY <2>6
  <1>3. n \in T
    <2> HIDE DEF T
    <2> QED BY <1>1, <1>2, Climbs
  <1>4. Is(DecRounds(start, n), n)
    BY <1>3 DEF DecRounds
  <1> HIDE DEF Is
  <1>5. DecRounds(start, n) = [k \in 0 .. n |-> Round(DecRounds(start, n), k)]
    BY <1>4 DEF Is
  <1> QED BY <1>5

(* After k bytes: the writer is behind the reader wherever it writes.      *)
Emptying(s, size, k) ==
  /\ s = [mem |-> s.mem, in |-> s.in, out |-> s.out, code |-> s.code, zero |-> s.zero]
  /\ s.mem \in [0 .. size - 1 -> Byte] /\ s.in = k
  /\ s.out \in Nat /\ s.code \in Nat /\ s.zero \in BOOLEAN
  /\ s.out <= k
  /\ s.zero \/ s.code > 0 => s.out < k
  /\ k > 0 => s.out < k

(* A round of cobs_dec leaves what it has not read.                        *)
LEMMA DecStepEmpties ==
  ASSUME NEW size \in Nat, NEW n \in Nat, n <= size, NEW s, NEW k \in 0 .. n - 1,
         Emptying(s, size, k), s.mem[k] # 0
  PROVE  /\ Emptying(DecStep(s), size, k + 1)
         /\ \A i \in k + 1 .. n - 1 : DecStep(s).mem[i] = s.mem[i]
  <1> DEFINE t == DecStep(s)
             put(b) == [s.mem EXCEPT ![s.out] = b]
             o == s.out
             c == s.code
             v == s.mem[k]
  <1>1. /\ s.mem \in [0 .. size - 1 -> Byte] /\ s.in = k
        /\ o \in Nat /\ c \in Nat /\ s.zero \in BOOLEAN
        /\ o <= k /\ (s.zero \/ c > 0 => o < k)
    BY DEF Emptying
  <1>2. /\ k \in Int /\ 0 <= k /\ k < n /\ k \in 0 .. size - 1 /\ o \in 0 .. size - 1
        /\ k + 1 \in Int /\ MaxCode \in Nat
    BY <1>1, CobsAssumption
  <1>3. v \in Byte /\ v # 0 /\ v \in Nat /\ v - 1 \in Nat /\ 0 \in Byte
    <2>1. v \in Byte
      BY <1>1, <1>2
    <2> HIDE DEF v
    <2>2. v # 0
      BY DEF v
    <2> QED BY <1>2, <2>1, <2>2 DEF Byte
  <1>4. ASSUME NEW b \in Byte
        PROVE  /\ put(b) \in [0 .. size - 1 -> Byte]
               /\ \A i \in k + 1 .. n - 1 : put(b)[i] = s.mem[i]
    <2>1. \A i \in k + 1 .. n - 1 : i \in 0 .. size - 1 /\ i # o
      BY <1>1, <1>2
    <2> QED BY <1>1, <1>2, <2>1
  <1>5. \A i \in k + 1 .. n - 1 : i \in 0 .. size - 1
    BY <1>2
  <1>6. CASE c > 0
    <2>1. t = [mem |-> put(v), in |-> k + 1, out |-> o + 1, code |-> c - 1, zero |-> s.zero]
      <3>1. t = [s EXCEPT !.mem = put(v), !.in = k + 1, !.out = o + 1, !.code = c - 1]
        <4>1. s.code > 0 /\ (s.code = 0) = FALSE /\ s.in = k
          BY <1>1, <1>6
        <4> QED BY <4>1, Zenon DEF DecStep
      <3>2. s = [mem |-> s.mem, in |-> s.in, out |-> s.out, code |-> s.code, zero |-> s.zero]
        BY DEF Emptying
      <3> HIDE DEF t, put, v
      <3> QED BY <3>1, <3>2
    <2>2. /\ t.mem = put(v) /\ t.in = k + 1 /\ t.out = o + 1 /\ t.code = c - 1 /\ t.zero = s.zero
          /\ t = [mem |-> t.mem, in |-> t.in, out |-> t.out, code |-> t.code, zero |-> t.zero]
      BY <2>1
    <2> HIDE DEF t, put, o, c, v
    <2>3. /\ put(v) \in [0 .. size - 1 -> Byte]
          /\ \A i \in k + 1 .. n - 1 : put(v)[i] = s.mem[i]
      BY <1>3, <1>4
    <2>4. /\ o + 1 \in Nat /\ c - 1 \in Nat /\ o + 1 <= k + 1 /\ o + 1 < k + 1
      BY <1>1, <1>2, <1>6
    <2>5. Emptying(t, size, k + 1)
      BY <1>1, <2>2, <2>3, <2>4 DEF Emptying
    <2> QED BY <2>2, <2>3, <2>5 DEF t
  <1>7. CASE c = 0
    <2>1. t = [mem |-> IF s.zero THEN put(0) ELSE s.mem, in |-> k + 1,
               out |-> IF s.zero THEN o + 1 ELSE o, code |-> v - 1, zero |-> v # MaxCode]
      BY <1>1, <1>7 DEF DecStep, Emptying
    <2>2. /\ t.mem = (IF s.zero THEN put(0) ELSE s.mem) /\ t.in = k + 1
          /\ t.out = (IF s.zero THEN o + 1 ELSE o) /\ t.code = v - 1 /\ t.zero = (v # MaxCode)
          /\ t = [mem |-> t.mem, in |-> t.in, out |-> t.out, code |-> t.code, zero |-> t.zero]
      BY <2>1
    <2> HIDE DEF t, put, o, c, v
    <2>3. /\ t.mem \in [0 .. size - 1 -> Byte]
          /\ \A i \in k + 1 .. n - 1 : t.mem[i] = s.mem[i]
      <3>1. /\ put(0) \in [0 .. size - 1 -> Byte]
            /\ \A i \in k + 1 .. n - 1 : put(0)[i] = s.mem[i]
        BY <1>3, <1>4
      <3> QED BY <1>1, <2>2, <3>1
    <2>4. t.out \in Nat /\ t.out < k + 1 /\ t.out <= k + 1
      <3>1. CASE s.zero
        BY <1>1, <1>2, <2>2, <3>1
      <3>2. CASE ~s.zero
        BY <1>1, <1>2, <2>2, <3>2
      <3> QED BY <3>1, <3>2
    <2>5. t.zero \in BOOLEAN /\ t.code \in Nat
      BY <1>3, <2>2
    <2>6. Emptying(t, size, k + 1)
      BY <1>1, <2>2, <2>3, <2>4, <2>5 DEF Emptying
    <2> QED BY <2>3, <2>6 DEF t
  <1> HIDE DEF c
  <1> QED BY <1>1, <1>6, <1>7

(* After k of n rounds: what is left to decode is as it was.               *)
Decoding(rounds, mem, size, n, k) ==
  /\ Emptying(rounds[k], size, k)
  /\ \A i \in k .. n - 1 : rounds[k].mem[i] = mem[i]

(* By induction over the rounds.                                           *)
LEMMA DecRoundsEmpty ==
  ASSUME NEW size \in Nat, NEW n \in Nat, n <= size, NEW mem \in [0 .. size - 1 -> Byte],
         \A i \in 0 .. n - 1 : mem[i] # 0
  PROVE  \A k \in 0 .. n : Decoding(DecRounds(DecStart(mem), n), mem, size, n, k)
  <1> DEFINE start == DecStart(mem)
             R == DecRounds(start, n)
             T == {k \in 0 .. n : Decoding(R, mem, size, n, k)}
  <1>1. /\ R[0] = start
        /\ \A k \in 1 .. n : R[k] = DecStep(R[k - 1])
    BY DecRoundsAre
  <1>2. start = [mem |-> mem, in |-> 0, out |-> 0, code |-> 0, zero |-> FALSE]
    BY DEF DecStart
  <1>3. Emptying(start, size, 0) /\ start.mem = mem
    <2>1. /\ start.mem = mem /\ start.in = 0 /\ start.out = 0 /\ start.code = 0 /\ start.zero = FALSE
          /\ start = [mem |-> start.mem, in |-> start.in, out |-> start.out,
                      code |-> start.code, zero |-> start.zero]
      BY <1>2
    <2> HIDE DEF start
    <2>2. ~(0 > 0) /\ 0 <= 0 /\ 0 \in Nat
      OBVIOUS
    <2> QED BY <2>1, <2>2 DEF Emptying
  <1> HIDE DEF R, start
  <1>4. 0 \in T
    BY <1>1, <1>3 DEF Decoding
  <1>5. ASSUME NEW k \in 0 .. n - 1, k \in T PROVE k + 1 \in T
    <2>1. Emptying(R[k], size, k) /\ \A i \in k .. n - 1 : R[k].mem[i] = mem[i]
      BY <1>5 DEF Decoding
    <2>2. R[k].mem[k] # 0
      BY <2>1
    <2>3. /\ Emptying(DecStep(R[k]), size, k + 1)
          /\ \A i \in k + 1 .. n - 1 : DecStep(R[k]).mem[i] = R[k].mem[i]
      BY <2>1, <2>2, DecStepEmpties
    <2>4. k + 1 \in 1 .. n /\ k + 1 \in 0 .. n /\ (k + 1) - 1 = k
      OBVIOUS
    <2>5. R[k + 1] = DecStep(R[k])
      BY <1>1, <2>4
    <2>6. \A i \in k + 1 .. n - 1 : i \in k .. n - 1
      OBVIOUS
    <2> QED BY <2>1, <2>3, <2>4, <2>5, <2>6 DEF Decoding
  <1>6. \A k \in 0 .. n : k \in T
    <2> HIDE DEF T
    <2> QED BY <1>4, <1>5, Climbs
  <1> QED BY <1>6 DEF R, start

(* cobs_dec may decode in place, as its comment says (cobs.c:23-25): every *)
(* byte it reads is still the one to be decoded, and a zero it puts back   *)
(* lands before the code it reads next.                                    *)
THEOREM DecodesInPlace ==
  ASSUME NEW size \in Nat, NEW n \in Nat, n <= size, NEW mem \in [0 .. size - 1 -> Byte],
         \A i \in 0 .. n - 1 : mem[i] # 0
  PROVE  /\ \A k \in 0 .. n - 1 :
              /\ DecRounds(DecStart(mem), n)[k].in = k
              /\ DecRounds(DecStart(mem), n)[k].mem[k] = mem[k]
              /\ DecRounds(DecStart(mem), n)[k].zero => DecRounds(DecStart(mem), n)[k].out < k
         /\ Dec(mem, n).mem \in [0 .. size - 1 -> Byte]
         /\ Dec(mem, n).n \in {-2} \union 0 .. n
  <1> DEFINE R == DecRounds(DecStart(mem), n)
  <1> HIDE DEF R
  <1>1. \A k \in 0 .. n : Emptying(R[k], size, k) /\ \A i \in k .. n - 1 : R[k].mem[i] = mem[i]
    <2>1. \A k \in 0 .. n : Decoding(R, mem, size, n, k)
      BY DecRoundsEmpty DEF R
    <2> QED BY <2>1 DEF Decoding
  <1>2. /\ Dec(mem, n).mem = R[n].mem
        /\ Dec(mem, n).n = IF R[n].code > 0 THEN -2 ELSE R[n].out
    BY DEF Dec, R
  <1>3. /\ R[n].mem \in [0 .. size - 1 -> Byte] /\ R[n].out \in 0 .. n
    <2>1. n \in 0 .. n
      OBVIOUS
    <2>2. Emptying(R[n], size, n)
      BY <1>1, <2>1
    <2> QED BY <2>2 DEF Emptying
  <1>4. ASSUME NEW k \in 0 .. n - 1
        PROVE  R[k].in = k /\ R[k].mem[k] = mem[k] /\ (R[k].zero => R[k].out < k)
    <2>1. k \in 0 .. n /\ k \in k .. n - 1
      OBVIOUS
    <2> QED BY <1>1, <2>1 DEF Emptying
  <1> QED BY <1>2, <1>3, <1>4 DEF R
-------------------------------------------------------------------------------
(* Sequences: a piece, a beginning, two in a row, a beginning cut in two *)

LEMMA PieceIs ==
  ASSUME NEW s \in Seq(Byte), NEW m \in Nat, NEW k \in Nat, NEW n, n = m + k, n <= Len(s)
  PROVE  /\ SubSeq(s, m + 1, n) \in Seq(Byte) /\ Len(SubSeq(s, m + 1, n)) = k
         /\ \A i \in 1 .. k : SubSeq(s, m + 1, n)[i] = s[m + i]
  <1> DEFINE y == SubSeq(s, m + 1, n)
  <1>1. y = [i \in 1 .. k |-> s[m + i]]
    OBVIOUS
  <1>2. \A i \in 1 .. k : s[m + i] \in Byte
    OBVIOUS
  <1> HIDE DEF y
  <1>3. y \in Seq(Byte) /\ Len(y) = k /\ \A i \in 1 .. k : y[i] = s[m + i]
    BY <1>1, <1>2
  <1> QED BY <1>3 DEF y

LEMMA FirstIs ==
  ASSUME NEW s \in Seq(Byte), NEW k \in Nat, k <= Len(s)
  PROVE  /\ SubSeq(s, 1, k) \in Seq(Byte) /\ Len(SubSeq(s, 1, k)) = k
         /\ \A i \in 1 .. k : SubSeq(s, 1, k)[i] = s[i]
  <1>1. SubSeq(s, 1, k) = [i \in 1 .. k |-> s[i]]
    OBVIOUS
  <1>2. \A i \in 1 .. k : s[i] \in Byte
    OBVIOUS
  <1> QED BY <1>1, <1>2

LEMMA JoinedAt ==
  ASSUME NEW a \in Seq(Byte), NEW b \in Seq(Byte)
  PROVE  /\ a \o b \in Seq(Byte) /\ Len(a \o b) = Len(a) + Len(b)
         /\ \A i \in 1 .. Len(a) : (a \o b)[i] = a[i]
         /\ \A i \in 1 .. Len(b) : (a \o b)[Len(a) + i] = b[i]
  OBVIOUS

LEMMA Continued ==
  ASSUME NEW s \in Seq(Byte), NEW k \in Nat, NEW n \in Nat, k + n <= Len(s)
  PROVE  SubSeq(s, 1, k + n) = SubSeq(s, 1, k) \o SubSeq(s, k + 1, k + n)
  <1> DEFINE a == SubSeq(s, 1, k)
             b == SubSeq(s, k + 1, k + n)
             z == SubSeq(s, 1, k + n)
             y == a \o b
  <1>1. a \in Seq(Byte) /\ Len(a) = k /\ \A i \in 1 .. k : a[i] = s[i]
    BY FirstIs
  <1>2. b \in Seq(Byte) /\ Len(b) = n /\ \A i \in 1 .. n : b[i] = s[k + i]
    <2>1. k + n = k + n
      OBVIOUS
    <2> QED BY <2>1, PieceIs
  <1>3. z \in Seq(Byte) /\ Len(z) = k + n /\ \A i \in 1 .. k + n : z[i] = s[i]
    <2>1. k + n \in Nat
      OBVIOUS
    <2> QED BY <2>1, FirstIs
  <1> HIDE DEF a, b, z
  <1>4. /\ y \in Seq(Byte) /\ Len(y) = k + n
        /\ \A i \in 1 .. k : y[i] = a[i]
        /\ \A i \in 1 .. n : y[k + i] = b[i]
    <2>1. /\ y \in Seq(Byte) /\ Len(y) = Len(a) + Len(b)
          /\ \A i \in 1 .. Len(a) : y[i] = a[i]
          /\ \A i \in 1 .. Len(b) : y[Len(a) + i] = b[i]
      BY <1>1, <1>2, JoinedAt
    <2> HIDE DEF y
    <2> QED BY <1>1, <1>2, <2>1
  <1> HIDE DEF y
  <1>5. \A i \in 1 .. k + n : z[i] = y[i]
    <2> SUFFICES ASSUME NEW i \in 1 .. k + n PROVE z[i] = y[i]
      OBVIOUS
    <2>1. CASE i \in 1 .. k
      BY <1>1, <1>3, <1>4, <2>1
    <2>2. CASE i \notin 1 .. k
      <3> DEFINE h == i - k
      <3>1. h \in 1 .. n /\ i = k + h
        BY <2>2
      <3> HIDE DEF h
      <3> QED BY <1>2, <1>3, <1>4, <3>1
    <2> QED BY <2>1, <2>2
  <1>6. z = y
    BY <1>3, <1>4, <1>5
  <1> QED BY <1>6 DEF a, b, y, z
-------------------------------------------------------------------------------
(* The encoder of the host *)

(* bytes.index finds the first zero: there is one, at the end.             *)
LEMMA NextZeroIs ==
  ASSUME NEW d \in Seq(Byte), NEW i \in 1 .. Len(d), d[Len(d)] = 0
  PROVE  /\ NextZero(d, i) \in i .. Len(d) /\ d[NextZero(d, i)] = 0
         /\ \A j \in i .. NextZero(d, i) - 1 : d[j] # 0
  <1> DEFINE Z == {z \in i .. Len(d) : d[z] = 0}
  <1>1. Len(d) \in Z /\ Z \subseteq Nat
    OBVIOUS
  <1>2. PICK z \in Z : \A y \in Z : z <= y
    <2> HIDE DEF Z
    <2> QED BY <1>1, LeastOf
  <1>3. \A j \in i .. z - 1 : d[j] # 0
    <2> SUFFICES ASSUME NEW j \in i .. z - 1, d[j] = 0 PROVE FALSE
      OBVIOUS
    <2>1. j \in Z
      OBVIOUS
    <2> QED BY <1>2, <2>1
  <1>4. \E y \in i .. Len(d) : d[y] = 0 /\ \A j \in i .. y - 1 : d[j] # 0
    BY <1>3
  <1> QED BY <1>4 DEF NextZero

(* One round of cobs.enc: the block from i on, and what follows it.        *)
PyBlock(d, enc, i) ==
  IF i > Len(d) THEN <<>>
  ELSE IF NextZero(d, i) - i < MaxCode - 1
  THEN <<NextZero(d, i) - i + 1>> \o SubSeq(d, i, NextZero(d, i) - 1)
         \o enc[NextZero(d, i) + 1]
  ELSE <<MaxCode>> \o SubSeq(d, i, i + MaxCode - 2)
         \o IF i + MaxCode - 1 = Len(d) THEN <<>> ELSE enc[i + MaxCode - 1]

(* A block needs only what is encoded of the bytes after it.               *)
LEMMA PyBlockLooksOn ==
  ASSUME NEW d \in Seq(Byte), d # <<>>, d[Len(d)] = 0, NEW i \in 1 .. Len(d) + 1,
         NEW q, NEW r, \A j \in i + 1 .. Len(d) + 1 : q[j] = r[j]
  PROVE  PyBlock(d, q, i) = PyBlock(d, r, i)
  <1>1. CASE i > Len(d)
    BY <1>1 DEF PyBlock
  <1>2. CASE ~(i > Len(d)) /\ NextZero(d, i) - i < MaxCode - 1
    <2>1. NextZero(d, i) \in i .. Len(d)
      BY <1>2, NextZeroIs
    <2>2. NextZero(d, i) + 1 \in i + 1 .. Len(d) + 1
      BY <2>1
    <2>3. q[NextZero(d, i) + 1] = r[NextZero(d, i) + 1]
      BY <2>2
    <2> QED BY <1>2, <2>3, Zenon DEF PyBlock
  <1>3. CASE ~(i > Len(d)) /\ ~(NextZero(d, i) - i < MaxCode - 1)
    <2>1. NextZero(d, i) \in i .. Len(d)
      BY <1>3, NextZeroIs
    <2>2. i + MaxCode - 1 \in i + 1 .. Len(d) + 1
      BY <1>3, <2>1, CobsAssumption
    <2>3. q[i + MaxCode - 1] = r[i + MaxCode - 1]
      BY <2>2
    <2> QED BY <1>3, <2>3, Zenon DEF PyBlock
  <1> QED BY <1>1, <1>2, <1>3

(* By induction from the last byte to the first.                           *)
LEMMA PyEncFromIs ==
  ASSUME NEW d \in Seq(Byte), d # <<>>, d[Len(d)] = 0
  PROVE  \A i \in 1 .. Len(d) + 1 : PyEncFrom(d)[i] = PyBlock(d, PyEncFrom(d), i)
  <1> DEFINE end == Len(d) + 1
             Is(r, m) == r = [i \in end - m .. end |-> PyBlock(d, r, i)]
             T == {m \in 0 .. Len(d) : \E r : Is(r, m)}
  <1>1. Len(d) \in Nat /\ end \in Nat /\ end - Len(d) = 1
    OBVIOUS
  <1>2. 0 \in T
    <2> DEFINE r == [i \in end - 0 .. end |-> <<>>]
    <2>1. \A i \in end - 0 .. end : PyBlock(d, r, i) = <<>>
      <3>1. \A i \in end - 0 .. end : i > Len(d)
        OBVIOUS
      <3> QED BY <3>1 DEF PyBlock
    <2>2. Is(r, 0)
      <3> HIDE DEF end
      <3> QED BY <2>1
    <2> HIDE DEF Is, r
    <2> QED BY <1>1, <2>2
  <1>3. ASSUME NEW m \in 0 .. Len(d) - 1, m \in T PROVE m + 1 \in T
    <2>1. PICK r : Is(r, m)
      BY <1>3
    <2> DEFINE at == end - (m + 1)
               q == [i \in at .. end |-> IF i = at THEN PyBlock(d, r, at) ELSE r[i]]
    <2>2. /\ at \in 1 .. Len(d) + 1 /\ at + 1 = end - m
          /\ \A i \in at .. end : i # at => i \in end - m .. end
          /\ end - m .. end \subseteq 1 .. Len(d) + 1
      OBVIOUS
    <2>3. \A i \in at + 1 .. end : q[i] = r[i]
      OBVIOUS
    <2>4. q[at] = PyBlock(d, r, at)
      OBVIOUS
    <2>5. q = [i \in at .. end |-> q[i]]
      OBVIOUS
    <2> HIDE DEF q, at
    <2>6. ASSUME NEW i \in at .. end PROVE q[i] = PyBlock(d, q, i)
      <3>1. i \in 1 .. Len(d) + 1 /\ \A j \in i + 1 .. Len(d) + 1 : q[j] = r[j]
        BY <2>2, <2>3
      <3>2. PyBlock(d, q, i) = PyBlock(d, r, i)
        BY <3>1, PyBlockLooksOn
      <3>3. CASE i = at
        BY <2>4, <3>2, <3>3
      <3>4. CASE i # at
        <4>1. i \in end - m .. end /\ i \in at + 1 .. end
          BY <2>2, <3>4
        <4>2. r[i] = PyBlock(d, r, i)
          BY <2>1, <4>1
        <4> QED BY <2>3, <3>2, <4>1, <4>2
      <3> QED BY <3>3, <3>4
    <2>7. Is(q, m + 1)
      BY <2>5, <2>6 DEF at
    <2>8. m + 1 \in 0 .. Len(d)
      OBVIOUS
    <2> HIDE DEF Is
    <2> QED BY <2>7, <2>8
  <1>4. Len(d) \in T
    <2> HIDE DEF T
    <2>1. \A k \in 0 .. Len(d) : k \in T
      BY <1>1, <1>2, <1>3, Climbs
    <2> QED BY <1>1, <2>1
  <1>5. PICK r : r = [i \in 1 .. Len(d) + 1 |-> PyBlock(d, r, i)]
    BY <1>1, <1>4
  <1>6. PyEncFrom(d) = [i \in 1 .. Len(d) + 1 |-> PyBlock(d, PyEncFrom(d), i)]
    BY <1>5, Zenon DEF PyEncFrom, PyBlock
  <1> QED BY <1>6

LEMMA Joined ==
  ASSUME NEW a \in Seq(Byte), NEW b \in Seq(Byte), NEW c \in Seq(Byte)
  PROVE  a \o b \o c \in Seq(Byte)
  OBVIOUS
-------------------------------------------------------------------------------
(* Reading encoded bytes *)

(* What a byte of an encoding is read as: of the block it is in, how many  *)
(* are left and whether a zero follows it, and what was decoded so far.    *)
Codes == 1 .. MaxCode

ScanStart == [left |-> 0, zero |-> FALSE, got |-> <<>>]

ScanStep(s, v) ==
  IF s.left > 0 THEN [left |-> s.left - 1, zero |-> s.zero, got |-> Append(s.got, v)]
  ELSE [left |-> v - 1, zero |-> v # MaxCode,
        got |-> IF s.zero THEN Append(s.got, 0) ELSE s.got]

Traces(tr, b) ==
  /\ tr[0] = ScanStart
  /\ \A k \in 1 .. Len(b) : tr[k] = ScanStep(tr[k - 1], b[k])

Scans(b, s) == \E tr : Traces(tr, b) /\ tr[Len(b)] = s

(* Looking at a sequence byte by byte, as cobs_dec does.                   *)
LEMMA ScansNothing == Scans(<<>>, ScanStart)
  <1> DEFINE tr == [k \in 0 .. 0 |-> ScanStart]
  <1>1. Traces(tr, <<>>) /\ tr[Len(<<>>)] = ScanStart
    BY DEF Traces
  <1> QED BY <1>1 DEF Scans

LEMMA ScansByte ==
  ASSUME NEW b \in Seq(Codes), NEW v \in Codes, NEW s, Scans(b, s)
  PROVE  Append(b, v) \in Seq(Codes) /\ Scans(Append(b, v), ScanStep(s, v))
  <1>1. PICK tr : Traces(tr, b) /\ tr[Len(b)] = s
    BY DEF Scans
  <1> DEFINE n == Len(b)
             c == Append(b, v)
             q == [k \in 0 .. n + 1 |-> IF k <= n THEN tr[k] ELSE ScanStep(s, v)]
  <1>2. /\ c \in Seq(Codes) /\ Len(c) = n + 1 /\ n \in Nat /\ c[n + 1] = v
        /\ \A k \in 1 .. n : c[k] = b[k]
    OBVIOUS
  <1>3. q[0] = tr[0] /\ q[n + 1] = ScanStep(s, v) /\ \A k \in 0 .. n : q[k] = tr[k]
    BY <1>2
  <1> HIDE DEF q, c
  <1>4. ASSUME NEW k \in 1 .. n + 1 PROVE q[k] = ScanStep(q[k - 1], c[k])
    <2>1. CASE k = n + 1
      <3>1. k - 1 = n /\ n \in 0 .. n
        BY <1>2, <2>1
      <3>2. q[k - 1] = s
        BY <1>1, <1>3, <3>1
      <3> QED BY <1>2, <1>3, <2>1, <3>2
    <2>2. CASE k # n + 1
      <3>1. k \in 1 .. n /\ k \in 0 .. n /\ k - 1 \in 0 .. n
        BY <1>2, <2>2
      <3>2. tr[k] = ScanStep(tr[k - 1], b[k])
        BY <1>1, <3>1 DEF Traces
      <3> QED BY <1>2, <1>3, <3>1, <3>2
    <2> QED BY <2>1, <2>2
  <1>5. Traces(q, c)
    BY <1>1, <1>2, <1>3, <1>4 DEF Traces
  <1>6. Scans(c, ScanStep(s, v))
    BY <1>2, <1>3, <1>5 DEF Scans
  <1> QED BY <1>2, <1>6 DEF c

(* The bytes of one block.                                                 *)
LEMMA ScansRun ==
  ASSUME NEW b \in Seq(Codes), NEW w \in Seq(Codes),
         NEW left \in Nat, NEW zero, NEW got \in Seq(Byte),
         Scans(b, [left |-> left, zero |-> zero, got |-> got]), Len(w) <= left
  PROVE  /\ b \o w \in Seq(Codes)
         /\ Scans(b \o w, [left |-> left - Len(w), zero |-> zero, got |-> got \o w])
  <1> DEFINE s(m) == [left |-> left - m, zero |-> zero, got |-> got \o SubSeq(w, 1, m)]
             T == {m \in 0 .. Len(w) : /\ b \o SubSeq(w, 1, m) \in Seq(Codes)
                                       /\ Scans(b \o SubSeq(w, 1, m), s(m))}
  <1>1. Len(w) \in Nat /\ MaxCode \in Nat /\ MaxCode > 1 /\ w \in Seq(Byte)
    <2>1. MaxCode \in Nat /\ MaxCode > 1
      BY CobsAssumption
    <2>2. Codes \subseteq Byte
      BY <2>1 DEF Codes, Byte
    <2> QED BY <2>1, <2>2
  <1>2. 0 \in T
    <2>1. SubSeq(w, 1, 0) = <<>> /\ b \o <<>> = b /\ got \o <<>> = got /\ left - 0 = left
      OBVIOUS
    <2>2. s(0) = [left |-> left, zero |-> zero, got |-> got] /\ 0 \in 0 .. Len(w)
      BY <1>1, <2>1
    <2> QED BY <2>1, <2>2
  <1>3. ASSUME NEW m \in 0 .. Len(w) - 1, m \in T PROVE m + 1 \in T
    <2> DEFINE p == SubSeq(w, 1, m)
               q == SubSeq(w, 1, m + 1)
               v == w[m + 1]
    <2>1. v \in Codes /\ v \in Byte /\ m + 1 \in 0 .. Len(w) /\ p \in Seq(Codes) /\ p \in Seq(Byte)
      BY <1>1
    <2>2. q = Append(p, v)
      BY <1>1
    <2> HIDE DEF p, q, v
    <2>3. b \o q = Append(b \o p, v) /\ got \o q = Append(got \o p, v)
      BY <2>1, <2>2
    <2>4. b \o p \in Seq(Codes) /\ Scans(b \o p, s(m))
      BY <1>3 DEF p
    <2>5. b \o q \in Seq(Codes) /\ Scans(b \o q, ScanStep(s(m), v))
      <3> HIDE DEF s
      <3> QED BY <2>1, <2>3, <2>4, ScansByte
    <2>6. ScanStep(s(m), v) = s(m + 1)
      <3>1. left - m > 0 /\ (left - m) - 1 = left - (m + 1)
        BY <1>1
      <3> QED BY <2>3, <3>1 DEF ScanStep, p, q
    <2> QED BY <2>1, <2>5, <2>6 DEF q
  <1>4. Len(w) \in T
    <2> HIDE DEF T
    <2>1. \A m \in 0 .. Len(w) : m \in T
      BY <1>1, <1>2, <1>3, Climbs
    <2> QED BY <1>1, <2>1
  <1>5. SubSeq(w, 1, Len(w)) = w
    OBVIOUS
  <1> QED BY <1>4, <1>5
-------------------------------------------------------------------------------
(* The decoder of the host *)

(* r is made of the values at later places (next), and given (base) for    *)
(* the places from n + 1 to m.                                             *)
Given(n, m, V, base, next, made) ==
  /\ n \in Nat /\ m \in Nat /\ n <= m
  /\ base \in [n + 1 .. m -> V]
  /\ next \in [1 .. n -> Nat] /\ \A i \in 1 .. n : next[i] \in i + 1 .. m
  /\ made \in [1 .. n -> [V -> V]]

Descent(r, n, m, V, base, next, made) ==
  /\ r \in [1 .. m -> V]
  /\ \A i \in n + 1 .. m : r[i] = base[i]
  /\ \A i \in 1 .. n : r[i] = made[i][r[next[i]]]

(* A function that looks ahead in its argument has its values.             *)
LEMMA Descends ==
  ASSUME NEW n, NEW m, NEW V, NEW base, NEW next, NEW made, Given(n, m, V, base, next, made)
  PROVE  \E r : Descent(r, n, m, V, base, next, made)
  <1> USE DEF Given
  <1> DEFINE Is(r, k) == /\ r \in [n + 1 - k .. m -> V]
                         /\ \A i \in n + 1 .. m : r[i] = base[i]
                         /\ \A i \in n + 1 - k .. n : r[i] = made[i][r[next[i]]]
             T == {k \in 0 .. n : \E r : Is(r, k)}
  <1>1. 0 \in T
    <2>1. Is(base, 0)
      OBVIOUS
    <2> HIDE DEF Is
    <2> QED BY <2>1
  <1>2. ASSUME NEW k \in 0 .. n - 1, k \in T PROVE k + 1 \in T
    <2>1. PICK r : Is(r, k)
      BY <1>2
    <2> DEFINE at == n - k
               q == [i \in at .. m |-> IF i = at THEN made[at][r[next[at]]] ELSE r[i]]
    <2>2. /\ at \in 1 .. n /\ n + 1 - k = at + 1 /\ n + 1 - (k + 1) = at
          /\ at \in at .. m /\ next[at] \in at + 1 .. m /\ at + 1 .. m \subseteq at .. m
          /\ \A i \in at .. m : i # at => i \in at + 1 .. m
          /\ \A i \in at .. n : i # at => i \in at + 1 .. n /\ next[i] \in at + 1 .. m
          /\ n + 1 .. m \subseteq at + 1 .. m /\ \A i \in at + 1 .. m : i # at
      OBVIOUS
    <2> HIDE DEF at
    <2>3. r \in [at + 1 .. m -> V] /\ \A i \in at + 1 .. n : r[i] = made[i][r[next[i]]]
      BY <2>1, <2>2
    <2>4. made[at][r[next[at]]] \in V
      BY <2>2, <2>3
    <2>5. /\ q \in [at .. m -> V] /\ q[at] = made[at][r[next[at]]]
          /\ \A i \in at + 1 .. m : q[i] = r[i]
      BY <2>2, <2>3, <2>4
    <2> HIDE DEF q
    <2>6. ASSUME NEW i \in at .. n PROVE q[i] = made[i][q[next[i]]]
      <3>1. CASE i = at
        BY <2>2, <2>5, <3>1
      <3>2. CASE i # at
        <4>1. i \in at + 1 .. n /\ i \in at + 1 .. m /\ next[i] \in at + 1 .. m
          BY <2>2, <3>2
        <4> QED BY <2>3, <2>5, <4>1
      <3> QED BY <3>1, <3>2
    <2>7. \A i \in n + 1 .. m : q[i] = base[i]
      BY <2>1, <2>2, <2>5
    <2>8. Is(q, k + 1)
      BY <2>2, <2>5, <2>6, <2>7
    <2>9. k + 1 \in 0 .. n
      OBVIOUS
    <2> HIDE DEF Is
    <2> QED BY <2>8, <2>9
  <1>3. n \in T
    <2> HIDE DEF T
    <2>1. \A k \in 0 .. n : k \in T
      BY <1>1, <1>2, Climbs
    <2> QED BY <2>1
  <1>4. PICK r : Is(r, n)
    BY <1>3
  <1>5. n + 1 - n = 1
    OBVIOUS
  <1> QED BY <1>4, <1>5 DEF Descent

(* One block of cobs.dec, the one whose code is at i, and what follows it. *)
PySlice(d, i) ==
  SubSeq(d, i + 1, IF i + d[i] > Len(d) THEN Len(d) ELSE i + d[i] - 1)
    \o IF d[i] < MaxCode \/ i + d[i] > Len(d) THEN <<0>> ELSE <<>>

(* The decoder of cobs.py: one block, and what is decoded behind it.       *)
LEMMA PyDecFromIs ==
  ASSUME NEW d \in Seq(Codes)
  PROVE  /\ PyDecFrom(d) \in [1 .. Len(d) + MaxCode -> Seq(Byte)]
         /\ \A i \in Len(d) + 1 .. Len(d) + MaxCode : PyDecFrom(d)[i] = <<>>
         /\ \A i \in 1 .. Len(d) :
              /\ i + d[i] \in i + 1 .. Len(d) + MaxCode
              /\ PySlice(d, i) \in Seq(Byte)
              /\ PyDecFrom(d)[i] = PySlice(d, i) \o PyDecFrom(d)[i + d[i]]
  <1> DEFINE n == Len(d)
             m == Len(d) + MaxCode
             next == [i \in 1 .. n |-> i + d[i]]
             base == [i \in n + 1 .. m |-> <<>>]
             made == [i \in 1 .. n |-> [v \in Seq(Byte) |-> PySlice(d, i) \o v]]
             part(r, i) == IF i > Len(d) THEN <<>>
               ELSE SubSeq(d, i + 1, IF i + d[i] > Len(d) THEN Len(d) ELSE i + d[i] - 1)
                      \o (IF d[i] < MaxCode \/ i + d[i] > Len(d) THEN <<0>> ELSE <<>>)
                      \o r[i + d[i]]
  <1>1. n \in Nat /\ m \in Nat /\ n <= m /\ d \in Seq(Byte) /\ MaxCode \in Nat /\ 0 \in Byte
        /\ \A i \in 1 .. n : d[i] \in 1 .. MaxCode
    <2>1. MaxCode \in Nat /\ MaxCode > 1
      BY CobsAssumption
    <2>2. Codes \subseteq Byte /\ 0 \in Byte
      BY <2>1 DEF Codes, Byte
    <2> QED BY <2>1, <2>2 DEF Codes
  <1>2. ASSUME NEW i \in 1 .. n
        PROVE  /\ i + d[i] \in i + 1 .. m /\ PySlice(d, i) \in Seq(Byte)
               /\ SubSeq(d, i + 1, IF i + d[i] > Len(d) THEN Len(d) ELSE i + d[i] - 1) \in Seq(Byte)
               /\ (IF d[i] < MaxCode \/ i + d[i] > Len(d) THEN <<0>> ELSE <<>>) \in Seq(Byte)
    <2>1. i + d[i] \in i + 1 .. m
      BY <1>1
    <2>2. \A e \in i .. n : SubSeq(d, i + 1, e) \in Seq(Byte)
      BY <1>1
    <2>3. (IF i + d[i] > Len(d) THEN Len(d) ELSE i + d[i] - 1) \in i .. n
      BY <1>1
    <2>4. (IF d[i] < MaxCode \/ i + d[i] > Len(d) THEN <<0>> ELSE <<>>) \in Seq(Byte)
      BY <1>1
    <2> QED BY <2>1, <2>2, <2>3, <2>4 DEF PySlice
  <1>3. /\ next \in [1 .. n -> Nat] /\ \A i \in 1 .. n : next[i] \in i + 1 .. m
        /\ base \in [n + 1 .. m -> Seq(Byte)]
        /\ made \in [1 .. n -> [Seq(Byte) -> Seq(Byte)]]
    <2>1. \A i \in 1 .. n : i + d[i] \in Nat
      BY <1>1
    <2>2. \A i \in 1 .. n : \A v \in Seq(Byte) : PySlice(d, i) \o v \in Seq(Byte)
      BY <1>2
    <2> QED BY <1>2, <2>1, <2>2
  <1>4. PICK r \in [1 .. m -> Seq(Byte)] :
          /\ \A i \in n + 1 .. m : r[i] = base[i]
          /\ \A i \in 1 .. n : r[i] = made[i][r[next[i]]]
    <2>1. n \in Nat /\ m \in Nat /\ n <= m
      BY <1>1
    <2>2. Given(n, m, Seq(Byte), base, next, made)
      BY <1>3, <2>1 DEF Given
    <2>3. \E r : Descent(r, n, m, Seq(Byte), base, next, made)
      BY <2>2, Descends
    <2> QED BY <2>3 DEF Descent
  <1>5. ASSUME NEW i \in 1 .. n PROVE r[i] = part(r, i) /\ r[i] = PySlice(d, i) \o r[i + d[i]]
    <2>1. i + d[i] \in 1 .. m
      BY <1>1, <1>2
    <2>2. r[i] = PySlice(d, i) \o r[i + d[i]]
      BY <1>4, <2>1
    <2>3. ~(i > Len(d))
      BY <1>1
    <2> QED BY <2>2, <2>3, Zenon DEF PySlice
  <1>6. ASSUME NEW i \in n + 1 .. m PROVE r[i] = part(r, i) /\ r[i] = <<>>
    <2>1. i > Len(d)
      BY <1>1
    <2> QED BY <1>4, <2>1
  <1>7. r = [i \in 1 .. m |-> part(r, i)]
    <2> HIDE DEF part
    <2>1. \A i \in 1 .. m : i \in 1 .. n \/ i \in n + 1 .. m
      BY <1>1
    <2>2. \A i \in 1 .. m : r[i] = part(r, i)
      BY <1>5, <1>6, <2>1
    <2> QED BY <2>2
  <1> DEFINE f == PyDecFrom(d)
  <1>8. f = [i \in 1 .. m |-> part(f, i)]
    BY <1>7, Zenon DEF PyDecFrom
  <1> HIDE DEF f
  <1>9. ASSUME NEW i \in n + 1 .. m PROVE f[i] = <<>>
    <2>1. i > Len(d) /\ i \in 1 .. m
      BY <1>1
    <2> QED BY <1>8, <2>1
  <1>10. ASSUME NEW i \in 1 .. n PROVE f[i] = PySlice(d, i) \o f[i + d[i]]
    <2>1. ~(i > Len(d)) /\ i \in 1 .. m
      BY <1>1
    <2>2. f[i] = part(f, i)
      <3> HIDE DEF part
      <3> QED BY <1>8, <2>1
    <2> QED BY <2>1, <2>2, Zenon DEF PySlice
  <1>11. ASSUME NEW i \in 1 .. m PROVE f[i] \in Seq(Byte)
    <2> DEFINE T == {k \in 0 .. n : \A j \in n + 1 - k .. m : f[j] \in Seq(Byte)}
    <2>1. 0 \in T
      <3>1. \A j \in n + 1 - 0 .. m : j \in n + 1 .. m
        BY <1>1
      <3>2. <<>> \in Seq(Byte) /\ 0 \in 0 .. n
        BY <1>1
      <3> QED BY <1>9, <3>1, <3>2
    <2>2. ASSUME NEW k \in 0 .. n - 1, k \in T PROVE k + 1 \in T
      <3>1. /\ n - k \in 1 .. n /\ n + 1 - k = (n - k) + 1 /\ n + 1 - (k + 1) = n - k
            /\ \A j \in n - k .. m : j = n - k \/ j \in n + 1 - k .. m
            /\ k + 1 \in 0 .. n
        BY <1>1
      <3>2. f[n - k] \in Seq(Byte)
        <4>1. (n - k) + d[n - k] \in n + 1 - k .. m
          BY <1>2, <3>1
        <4>2. f[(n - k) + d[n - k]] \in Seq(Byte)
          BY <2>2, <4>1
        <4>3. f[n - k] = PySlice(d, n - k) \o f[(n - k) + d[n - k]] /\ PySlice(d, n - k) \in Seq(Byte)
          BY <1>2, <1>10, <3>1
        <4> QED BY <4>2, <4>3
      <3>3. \A j \in n - k .. m : f[j] \in Seq(Byte)
        BY <2>2, <3>1, <3>2
      <3> QED BY <3>1, <3>3
    <2>3. n \in T
      <3> HIDE DEF T
      <3>1. \A k \in 0 .. n : k \in T
        BY <1>1, <2>1, <2>2, Climbs
      <3> QED BY <1>1, <3>1
    <2>4. n + 1 - n = 1
      BY <1>1
    <2> QED BY <2>3, <2>4
  <1>12. f \in [1 .. m -> Seq(Byte)]
    <2> HIDE DEF part
    <2> QED BY <1>8, <1>11
  <1> QED BY <1>2, <1>9, <1>10, <1>12 DEF f

(* Whether one block follows the other to the very end, from each place.   *)
Ends(e, d) ==
  /\ \A i \in Len(d) + 1 .. Len(d) + MaxCode : e[i] = (i = Len(d) + 1)
  /\ \A i \in 1 .. Len(d) : e[i] = e[i + d[i]]

(* The places from where blocks lead to the very end.                      *)
LEMMA EndsAre ==
  ASSUME NEW d \in Seq(Codes)
  PROVE  \E e \in [1 .. Len(d) + MaxCode -> BOOLEAN] : Ends(e, d) /\ WellFormed(d) = e[1]
  <1> DEFINE n == Len(d)
             m == Len(d) + MaxCode
             next == [i \in 1 .. n |-> i + d[i]]
             base == [i \in n + 1 .. m |-> i = Len(d) + 1]
             made == [i \in 1 .. n |-> [v \in BOOLEAN |-> v]]
             part(r, i) == i = Len(d) + 1 \/ (i <= Len(d) /\ r[i + d[i]])
  <1>1. n \in Nat /\ m \in Nat /\ n <= m /\ n + 1 <= m /\ MaxCode \in Nat
        /\ \A i \in 1 .. n : d[i] \in 1 .. MaxCode
    <2>1. MaxCode \in Nat /\ MaxCode > 1
      BY CobsAssumption
    <2> QED BY <2>1 DEF Codes
  <1>2. \A i \in 1 .. n : i + d[i] \in i + 1 .. m
    BY <1>1
  <1>3. Given(n, m, BOOLEAN, base, next, made)
    <2>1. \A i \in 1 .. n : next[i] \in i + 1 .. m
      BY <1>2
    <2>2. next \in [1 .. n -> Nat]
      BY <1>2
    <2>3. base \in [n + 1 .. m -> BOOLEAN] /\ made \in [1 .. n -> [BOOLEAN -> BOOLEAN]]
      OBVIOUS
    <2> HIDE DEF next, base, made
    <2> QED BY <1>1, <2>1, <2>2, <2>3 DEF Given
  <1>4. PICK r \in [1 .. m -> BOOLEAN] :
          /\ \A i \in n + 1 .. m : r[i] = base[i]
          /\ \A i \in 1 .. n : r[i] = made[i][r[next[i]]]
    <2>1. PICK r : Descent(r, n, m, BOOLEAN, base, next, made)
      BY <1>3, Descends
    <2> QED BY <2>1 DEF Descent
  <1>5. ASSUME NEW i \in 1 .. m PROVE r[i] = part(r, i)
    <2>1. CASE i \in 1 .. n
      <3>1. i + d[i] \in 1 .. m /\ i # n + 1 /\ i <= n
        BY <1>1, <1>2, <2>1
      <3>2. r[i + d[i]] \in BOOLEAN
        BY <3>1
      <3>3. r[i] = r[i + d[i]]
        BY <1>4, <2>1, <3>1, <3>2
      <3> QED BY <3>1, <3>3
    <2>2. CASE i \in n + 1 .. m
      <3>1. ~(i <= Len(d))
        BY <1>1, <2>2
      <3> QED BY <1>4, <2>2, <3>1
    <2> QED BY <1>1, <2>1, <2>2
  <1>6. r = [i \in 1 .. m |-> part(r, i)]
    <2> HIDE DEF part
    <2> QED BY <1>5
  <1> DEFINE e == CHOOSE f : f = [i \in 1 .. m |-> part(f, i)]
  <1>7. e = [i \in 1 .. m |-> part(e, i)] /\ WellFormed(d) = e[1]
    BY <1>6, Zenon DEF WellFormed
  <1> HIDE DEF e
  <1>8. ASSUME NEW i \in 1 .. m PROVE e[i] = part(e, i) /\ e[i] \in BOOLEAN
    BY <1>7
  <1>9. \A i \in n + 1 .. m : e[i] = (i = n + 1)
    <2> TAKE i \in n + 1 .. m
    <2>1. ~(i <= Len(d)) /\ i \in 1 .. m
      BY <1>1
    <2> QED BY <1>8, <2>1
  <1>10. \A i \in 1 .. n : e[i] = e[i + d[i]]
    <2> TAKE i \in 1 .. n
    <2>1. i \in 1 .. m /\ i + d[i] \in 1 .. m /\ i # n + 1 /\ i <= n
      BY <1>1, <1>2
    <2>2. e[i] = part(e, i) /\ e[i + d[i]] \in BOOLEAN /\ e[i] \in BOOLEAN
      BY <1>8, <2>1
    <2> HIDE DEF n
    <2> QED BY <2>1, <2>2 DEF n
  <1>11. e \in [1 .. m -> BOOLEAN]
    <2> HIDE DEF part
    <2>1. e = [i \in 1 .. m |-> e[i]]
      BY <1>7
    <2> QED BY <1>8, <2>1
  <1> QED BY <1>7, <1>9, <1>10, <1>11 DEF Ends

(* What the decoder of the host makes of what was read: at the block that  *)
(* a byte is in, it had what came before, and so far it adds the same.     *)
InBlock(b, e, s, k) ==
  \E p \in 1 .. k, before \in Seq(Byte) :
    /\ p + b[p] = k + 1 + s.left
    /\ s.zero = (b[p] # MaxCode)
    /\ s.got = before \o SubSeq(b, p + 1, k)
    /\ PyDecFrom(b)[1] = before \o PyDecFrom(b)[p]
    /\ e[1] = e[p]

LEMMA AppendInside ==
  ASSUME NEW a \in Seq(Byte), NEW b \in Seq(Byte), NEW v \in Byte
  PROVE  Append(a \o b, v) = a \o Append(b, v) /\ Append(a \o b, v) = a \o (b \o <<v>>)
  <1>1. Append(a \o b, v) = a \o Append(b, v)
    OBVIOUS
  <1>2. Append(b, v) = b \o <<v>>
    OBVIOUS
  <1> QED BY <1>1, <1>2

LEMMA Regroup ==
  ASSUME NEW a \in Seq(Byte), NEW b \in Seq(Byte), NEW c \in Seq(Byte)
  PROVE  a \o b \in Seq(Byte) /\ a \o (b \o c) = (a \o b) \o c
  OBVIOUS

(* cobs.py and the scan agree from one place to the next.                  *)
LEMMA InBlockReads ==
  ASSUME NEW b \in Seq(Codes), NEW e, Ends(e, b), NEW s, NEW k \in 1 .. Len(b) - 1,
         s.left \in Nat, InBlock(b, e, s, k)
  PROVE  ScanStep(s, b[k + 1]).left \in Nat /\ InBlock(b, e, ScanStep(s, b[k + 1]), k + 1)
  <1>1. PICK p \in 1 .. k, before \in Seq(Byte) :
          /\ p + b[p] = k + 1 + s.left
          /\ s.zero = (b[p] # MaxCode)
          /\ s.got = before \o SubSeq(b, p + 1, k)
          /\ PyDecFrom(b)[1] = before \o PyDecFrom(b)[p]
          /\ e[1] = e[p]
    BY DEF InBlock
  <1>2. /\ MaxCode \in Nat /\ MaxCode > 1 /\ b \in Seq(Byte) /\ 0 \in Byte
        /\ Len(b) \in Nat /\ \A i \in 1 .. Len(b) : b[i] \in 1 .. MaxCode
    <2>1. MaxCode \in Nat /\ MaxCode > 1
      BY CobsAssumption
    <2>2. Codes \subseteq Byte /\ 0 \in Byte
      BY <2>1 DEF Codes, Byte
    <2> QED BY <2>1, <2>2 DEF Codes
  <1>3. k + 1 \in 1 .. Len(b) /\ p \in 1 .. Len(b) /\ p \in 1 .. k + 1 /\ k \in p .. Len(b)
        /\ k < Len(b) /\ k \in Int /\ p \in Int /\ p <= k
    BY <1>2
  <1>n. b[p] \in Int /\ s.left \in Int /\ SubSeq(b, p + 1, k) \in Seq(Byte)
    BY <1>2, <1>3
  <1> DEFINE v == b[k + 1]
             t == ScanStep(s, v)
  <1>4. v \in 1 .. MaxCode /\ v \in Byte
    BY <1>2, <1>3
  <1>5. CASE s.left > 0
    <2>1. t.left = s.left - 1 /\ t.zero = s.zero /\ t.got = Append(s.got, v)
      BY <1>5 DEF ScanStep
    <2>2. SubSeq(b, p + 1, k + 1) = Append(SubSeq(b, p + 1, k), v) /\ SubSeq(b, p + 1, k) \in Seq(Byte)
      BY <1>2, <1>3
    <2>3. t.got = before \o SubSeq(b, p + 1, k + 1)
      BY <1>1, <1>4, <2>1, <2>2, AppendInside
    <2>4. t.left \in Nat /\ p + b[p] = (k + 1) + 1 + t.left
      BY <1>1, <1>3, <1>5, <1>n, <2>1, SMTT(30)
    <2> HIDE DEF t
    <2>5. InBlock(b, e, t, k + 1)
      BY <1>1, <1>3, <2>1, <2>3, <2>4 DEF InBlock
    <2> QED BY <2>4, <2>5 DEF t
  <1>6. CASE s.left = 0
    <2> DEFINE G == before \o PySlice(b, p)
    <2>1. /\ t.left = v - 1 /\ t.zero = (v # MaxCode)
          /\ t.got = IF s.zero THEN Append(s.got, 0) ELSE s.got
      BY <1>6 DEF ScanStep
    <2>2. p + b[p] = k + 1 /\ ~(p + b[p] > Len(b)) /\ p + b[p] - 1 = k
      BY <1>1, <1>3, <1>6, <1>n
    <2>3. PySlice(b, p) = SubSeq(b, p + 1, k) \o IF b[p] < MaxCode THEN <<0>> ELSE <<>>
      BY <2>2 DEF PySlice
    <2>4. /\ SubSeq(b, p + 1, k) \in Seq(Byte) /\ PySlice(b, p) \in Seq(Byte)
          /\ b[p] < MaxCode <=> b[p] # MaxCode
      BY <1>2, <1>3, PyDecFromIs, SMTT(30)
    <2>5. t.got = G
      <3>1. CASE b[p] < MaxCode
        <4>1. t.got = Append(before \o SubSeq(b, p + 1, k), 0)
          BY <1>1, <2>1, <2>4, <3>1
        <4>2. PySlice(b, p) = SubSeq(b, p + 1, k) \o <<0>>
          BY <2>3, <3>1
        <4> QED BY <1>2, <1>n, <4>1, <4>2, AppendInside, ZenonT(30)
      <3>2. CASE ~(b[p] < MaxCode)
        <4>1. t.got = before \o SubSeq(b, p + 1, k)
          BY <1>1, <2>1, <2>4, <3>2
        <4>2. PySlice(b, p) = SubSeq(b, p + 1, k) \o <<>>
          BY <2>3, <3>2
        <4> QED BY <2>4, <4>1, <4>2
      <3> QED BY <3>1, <3>2
    <2>6. G \in Seq(Byte) /\ PyDecFrom(b)[1] = G \o PyDecFrom(b)[k + 1]
      <3>1. PyDecFrom(b)[p] = PySlice(b, p) \o PyDecFrom(b)[k + 1]
        BY <1>3, <2>2, PyDecFromIs
      <3>2. PyDecFrom(b)[k + 1] \in Seq(Byte)
        <4>1. k + 1 \in 1 .. Len(b) + MaxCode
          BY <1>2, <1>3
        <4> QED BY <4>1, PyDecFromIs
      <3>3. /\ before \o PySlice(b, p) \in Seq(Byte)
            /\ before \o (PySlice(b, p) \o PyDecFrom(b)[k + 1]) = G \o PyDecFrom(b)[k + 1]
        <4>1. before \in Seq(Byte) /\ PySlice(b, p) \in Seq(Byte)
          BY <2>4
        <4> QED BY <3>2, <4>1, Regroup, Zenon
      <3>4. PyDecFrom(b)[1] = before \o PyDecFrom(b)[p]
        BY <1>1
      <3> QED BY <3>1, <3>3, <3>4
    <2>7. e[1] = e[k + 1]
      BY <1>1, <1>3, <2>2 DEF Ends
    <2>8. SubSeq(b, k + 2, k + 1) = <<>> /\ G \o <<>> = G
      BY <1>3, <2>6
    <2>9. t.left \in Nat /\ (k + 1) + b[k + 1] = (k + 1) + 1 + t.left /\ k + 1 \in 1 .. k + 1 /\ (k + 1) + 1 = k + 2
      BY <1>3, <1>4, <2>1
    <2> HIDE DEF t, G
    <2>10. InBlock(b, e, t, k + 1)
      <3>1. /\ (k + 1) + b[k + 1] = (k + 1) + 1 + t.left
            /\ t.zero = (b[k + 1] # MaxCode)
            /\ t.got = G \o SubSeq(b, (k + 1) + 1, k + 1)
            /\ PyDecFrom(b)[1] = G \o PyDecFrom(b)[k + 1]
            /\ e[1] = e[k + 1]
        BY <2>1, <2>5, <2>6, <2>7, <2>8, <2>9
      <3> QED BY <2>6, <2>9, <3>1 DEF InBlock
    <2> QED BY <2>9, <2>10 DEF t
  <1> QED BY <1>5, <1>6 DEF t, v

(* The decoder of the host gets what a scan of the whole does, if it ends  *)
(* with a block.                                                           *)
LEMMA PyFollows ==
  ASSUME NEW b \in Seq(Codes), NEW s, Scans(b, s)
  PROVE  /\ s.left \in Nat
         /\ WellFormed(b) <=> s.left = 0
         /\ s.left = 0 => s.got \in Seq(Byte) /\ PyDec(b) = s.got
  <1> DEFINE n == Len(b)
             f == PyDecFrom(b)
  <1>1. PICK tr : Traces(tr, b) /\ tr[n] = s
    BY DEF Scans
  <1>2. PICK e \in [1 .. n + MaxCode -> BOOLEAN] : Ends(e, b) /\ WellFormed(b) = e[1]
    BY EndsAre
  <1>3. /\ MaxCode \in Nat /\ MaxCode > 1 /\ b \in Seq(Byte) /\ 0 \in Byte
        /\ n \in Nat /\ \A i \in 1 .. n : b[i] \in 1 .. MaxCode
    <2>1. MaxCode \in Nat /\ MaxCode > 1
      BY CobsAssumption
    <2>2. Codes \subseteq Byte /\ 0 \in Byte
      BY <2>1 DEF Codes, Byte
    <2> QED BY <2>1, <2>2 DEF Codes
  <1>4. PyDec(b) = SubSeq(f[1], 1, Len(f[1]) - 1)
    BY DEF PyDec
  <1>5. CASE n = 0
    <2>1. s = ScanStart
      BY <1>1, <1>5 DEF Traces
    <2>2. s.left = 0 /\ s.got = <<>>
      BY <2>1 DEF ScanStart
    <2>3. 1 \in n + 1 .. n + MaxCode
      BY <1>3, <1>5
    <2>4. f[1] = <<>>
      BY <2>3, PyDecFromIs
    <2>5. e[1] = TRUE
      BY <1>2, <1>5, <2>3 DEF Ends
    <2>6. PyDec(b) = <<>> /\ <<>> \in Seq(Byte)
      BY <1>4, <2>4
    <2> QED BY <1>2, <2>2, <2>5, <2>6
  <1>6. CASE n # 0
    <2> DEFINE T == {k \in 0 .. n - 1 : tr[k + 1].left \in Nat /\ InBlock(b, e, tr[k + 1], k + 1)}
    <2>1. 0 \in T
      <3>1. tr[0] = ScanStart /\ tr[1] = ScanStep(tr[0], b[1])
        <4>1. 1 \in 1 .. Len(b) /\ 1 - 1 = 0
          BY <1>3, <1>6
        <4> QED BY <1>1, <4>1 DEF Traces
      <3>2. tr[1] = [left |-> b[1] - 1, zero |-> b[1] # MaxCode, got |-> <<>>]
        BY <3>1 DEF ScanStart, ScanStep
      <3>3. b[1] \in 1 .. MaxCode /\ 1 \in 1 .. n /\ 0 \in 0 .. n - 1
        BY <1>3, <1>6
      <3>4. f[1] \in Seq(Byte)
        <4>1. 1 \in 1 .. n + MaxCode
          BY <1>3
        <4> QED BY <4>1, PyDecFromIs
      <3>5. /\ <<>> \in Seq(Byte) /\ <<>> = <<>> \o SubSeq(b, 1 + 1, 1) /\ f[1] = <<>> \o f[1]
            /\ 1 + b[1] = 1 + 1 + (b[1] - 1) /\ b[1] - 1 \in Nat /\ 1 \in 1 .. 1
        BY <1>3, <3>3, <3>4
      <3>6. InBlock(b, e, tr[1], 1)
        <4>1. /\ 1 + b[1] = 1 + 1 + tr[1].left /\ tr[1].zero = (b[1] # MaxCode)
              /\ tr[1].got = <<>> \o SubSeq(b, 1 + 1, 1)
          BY <3>2, <3>5
        <4> QED BY <3>5, <4>1 DEF InBlock
      <3> QED BY <3>2, <3>3, <3>5, <3>6
    <2>2. ASSUME NEW k \in 0 .. (n - 1) - 1, k \in T PROVE k + 1 \in T
      <3>1. k + 1 \in 1 .. Len(b) - 1 /\ k + 2 \in 1 .. Len(b) /\ (k + 2) - 1 = k + 1 /\ (k + 1) + 1 = k + 2
            /\ k + 1 \in 0 .. n - 1
        BY <1>3
      <3>2. tr[k + 2] = ScanStep(tr[k + 1], b[k + 2])
        BY <1>1, <3>1 DEF Traces
      <3>3. tr[k + 1].left \in Nat /\ InBlock(b, e, tr[k + 1], k + 1)
        BY <2>2
      <3>4. tr[k + 2].left \in Nat /\ InBlock(b, e, tr[k + 2], k + 2)
        BY <1>2, <3>1, <3>2, <3>3, InBlockReads
      <3> QED BY <3>1, <3>4
    <2>3. n - 1 \in T
      <3>1. n - 1 \in Nat
        BY <1>3, <1>6
      <3> HIDE DEF T
      <3>2. \A k \in 0 .. n - 1 : k \in T
        BY <2>1, <2>2, <3>1, Climbs
      <3> QED BY <3>1, <3>2
    <2>4. s.left \in Nat /\ InBlock(b, e, s, n)
      <3>1. (n - 1) + 1 = n
        BY <1>3
      <3> QED BY <1>1, <2>3, <3>1
    <2>5. PICK p \in 1 .. n, before \in Seq(Byte) :
            /\ p + b[p] = n + 1 + s.left
            /\ s.zero = (b[p] # MaxCode)
            /\ s.got = before \o SubSeq(b, p + 1, n)
            /\ f[1] = before \o f[p]
            /\ e[1] = e[p]
      BY <2>4 DEF InBlock
    <2>6. /\ b[p] \in 1 .. MaxCode /\ p + b[p] \in n + 1 .. n + MaxCode /\ p + b[p] > Len(b)
          /\ SubSeq(b, p + 1, n) \in Seq(Byte)
      <3>1. b[p] \in 1 .. MaxCode /\ p \in 1 .. n /\ SubSeq(b, p + 1, n) \in Seq(Byte)
        BY <1>3
      <3>2. /\ p + b[p] = n + 1 + s.left /\ s.left \in Int /\ 0 <= s.left
            /\ p \in Int /\ p <= n /\ n \in Int /\ b[p] \in Int /\ b[p] <= MaxCode /\ MaxCode \in Int
        BY <1>3, <2>4, <2>5, <3>1
      <3>3. p + b[p] \in n + 1 .. n + MaxCode /\ p + b[p] > n
        BY <3>2
      <3> QED BY <3>1, <3>3
    <2>7. e[1] = (p + b[p] = n + 1) /\ f[p + b[p]] = <<>>
      <3>1. e[p + b[p]] = (p + b[p] = n + 1) /\ e[p] = e[p + b[p]]
        BY <1>2, <2>6 DEF Ends
      <3>2. f[p + b[p]] = <<>>
        BY <2>6, PyDecFromIs
      <3> QED BY <2>5, <3>1, <3>2
    <2>8. p + b[p] = n + 1 <=> s.left = 0
      BY <1>3, <2>4, <2>5, SMTT(30)
    <2>9. f[p] = SubSeq(b, p + 1, n) \o <<0>>
      <3>1. f[p] = PySlice(b, p) \o f[p + b[p]] /\ PySlice(b, p) \in Seq(Byte)
        BY PyDecFromIs
      <3>2. PySlice(b, p) = SubSeq(b, p + 1, n) \o <<0>>
        BY <2>6 DEF PySlice
      <3> QED BY <2>7, <3>1, <3>2
    <2>10. f[1] = Append(s.got, 0) /\ s.got \in Seq(Byte)
      <3>1. before \in Seq(Byte)
        OBVIOUS
      <3>2. s.got \in Seq(Byte)
        BY <2>5, <2>6
      <3>3. f[1] = before \o (SubSeq(b, p + 1, n) \o <<0>>) /\ s.got = before \o SubSeq(b, p + 1, n)
        BY <2>5, <2>9
      <3>4. Append(before \o SubSeq(b, p + 1, n), 0) = before \o (SubSeq(b, p + 1, n) \o <<0>>)
        BY <1>3, <2>6, <3>1, AppendInside
      <3> QED BY <3>2, <3>3, <3>4
    <2>11. PyDec(b) = s.got
      BY <1>3, <1>4, <2>10
    <2> QED BY <1>2, <2>4, <2>7, <2>8, <2>10, <2>11
  <1> QED BY <1>5, <1>6
-------------------------------------------------------------------------------
(* The two decoders *)

(* What cobs_dec has looked at, and written, as a scan.                    *)
Looked(s) == [left |-> s.code, zero |-> s.zero, got |-> [i \in 1 .. s.out |-> s.mem[i - 1]]]

(* A byte written behind the first ones.                                   *)
LEMMA OneMoreByte ==
  ASSUME NEW size \in Nat, NEW m \in [0 .. size - 1 -> Byte], NEW o \in 0 .. size - 1,
         NEW v \in Byte, NEW q, q = [m EXCEPT ![o] = v]
  PROVE  [i \in 1 .. o + 1 |-> q[i - 1]] = Append([i \in 1 .. o |-> m[i - 1]], v)
  <1> DEFINE a == [i \in 1 .. o |-> m[i - 1]]
  <1>1. a \in Seq(Byte) /\ Len(a) = o
    <2>1. \A i \in 1 .. o : i - 1 \in 0 .. size - 1
      OBVIOUS
    <2> QED BY <2>1
  <1>2. \A i \in 1 .. o : a[i] = m[i - 1] /\ q[i - 1] = m[i - 1]
    <2>1. \A i \in 1 .. o : i - 1 \in 0 .. size - 1 /\ i - 1 # o
      OBVIOUS
    <2> QED BY <2>1
  <1>3. q[(o + 1) - 1] = v
    <2>1. (o + 1) - 1 = o
      OBVIOUS
    <2> QED BY <2>1
  <1> HIDE DEF a
  <1>4. Append(a, v) = [i \in 1 .. o + 1 |-> IF i = o + 1 THEN v ELSE a[i]]
    <2>1. Append(a, v) \in Seq(Byte) /\ Len(Append(a, v)) = o + 1
      BY <1>1
    <2>2. Append(a, v) = [i \in 1 .. o + 1 |-> Append(a, v)[i]]
      BY <2>1
    <2>3. \A i \in 1 .. o + 1 : Append(a, v)[i] = IF i = o + 1 THEN v ELSE a[i]
      BY <1>1
    <2> QED BY <2>2, <2>3
  <1>5. \A i \in 1 .. o + 1 : q[i - 1] = IF i = o + 1 THEN v ELSE a[i]
    <2> TAKE i \in 1 .. o + 1
    <2>1. CASE i = o + 1
      BY <1>3, <2>1
    <2>2. CASE i # o + 1
      <3>1. i \in 1 .. o
        BY <2>2
      <3> QED BY <1>2, <2>2, <3>1
    <2> QED BY <2>1, <2>2
  <1>6. [i \in 1 .. o + 1 |-> q[i - 1]] = Append(a, v)
    BY <1>4, <1>5
  <1> QED BY <1>6 DEF a

(* A round of cobs_dec is a step of the scan.                              *)
LEMMA DecStepLooks ==
  ASSUME NEW size \in Nat, NEW s, NEW k \in 0 .. size - 1, Emptying(s, size, k)
  PROVE  Looked(DecStep(s)) = ScanStep(Looked(s), s.mem[k])
  <1> DEFINE t == DecStep(s)
             put(b) == [s.mem EXCEPT ![s.out] = b]
             v == s.mem[k]
             g == [i \in 1 .. s.out |-> s.mem[i - 1]]
  <1>1. /\ s.mem \in [0 .. size - 1 -> Byte] /\ s.in = k
        /\ s.out \in Nat /\ s.code \in Nat /\ s.out <= k /\ s.out \in 0 .. size - 1
        /\ v \in Byte /\ 0 \in Byte /\ s.zero \in BOOLEAN
    BY CobsAssumption DEF Emptying, Byte
  <1>2. Looked(s) = [left |-> s.code, zero |-> s.zero, got |-> g]
    BY DEF Looked
  <1>3. CASE s.code > 0
    <2>1. t = [s EXCEPT !.mem = put(v), !.in = k + 1, !.out = s.out + 1, !.code = s.code - 1]
      <3>1. (s.code = 0) = FALSE /\ s.in = k
        BY <1>1, <1>3
      <3> QED BY <1>3, <3>1, Zenon DEF DecStep
    <2>2. s = [mem |-> s.mem, in |-> s.in, out |-> s.out, code |-> s.code, zero |-> s.zero]
      BY DEF Emptying
    <2> HIDE DEF t, put, v
    <2>3. t.mem = put(v) /\ t.out = s.out + 1 /\ t.code = s.code - 1 /\ t.zero = s.zero
      BY <2>1, <2>2
    <2>4. [i \in 1 .. t.out |-> t.mem[i - 1]] = Append(g, v)
      <3>1. [i \in 1 .. s.out + 1 |-> t.mem[i - 1]] = Append([i \in 1 .. s.out |-> s.mem[i - 1]], v)
        BY <1>1, <2>3, OneMoreByte DEF put
      <3> QED BY <2>3, <3>1
    <2>5. Looked(t) = [left |-> s.code - 1, zero |-> s.zero, got |-> Append(g, v)]
      BY <2>3, <2>4, Zenon DEF Looked
    <2>6. ScanStep(Looked(s), v) = [left |-> s.code - 1, zero |-> s.zero, got |-> Append(g, v)]
      <3> HIDE DEF g
      <3> QED BY <1>2, <1>3 DEF ScanStep
    <2> QED BY <2>5, <2>6 DEF t, v
  <1>4. CASE s.code = 0
    <2>1. t = [mem |-> IF s.zero THEN put(0) ELSE s.mem, in |-> k + 1,
               out |-> IF s.zero THEN s.out + 1 ELSE s.out, code |-> v - 1, zero |-> v # MaxCode]
      BY <1>1, <1>4 DEF DecStep, Emptying
    <2>2. /\ t.mem = (IF s.zero THEN put(0) ELSE s.mem) /\ t.code = v - 1 /\ t.zero = (v # MaxCode)
          /\ t.out = (IF s.zero THEN s.out + 1 ELSE s.out)
      BY <2>1
    <2> HIDE DEF t, put, v
    <2>3. [i \in 1 .. t.out |-> t.mem[i - 1]] = IF s.zero THEN Append(g, 0) ELSE g
      <3>1. CASE s.zero
        <4>1. [i \in 1 .. s.out + 1 |-> t.mem[i - 1]] = Append([i \in 1 .. s.out |-> s.mem[i - 1]], 0)
          BY <1>1, <2>2, <3>1, OneMoreByte DEF put
        <4> QED BY <2>2, <3>1, <4>1
      <3>2. CASE ~s.zero
        BY <2>2, <3>2
      <3> QED BY <3>1, <3>2
    <2>4. Looked(t) = [left |-> v - 1, zero |-> v # MaxCode, got |-> IF s.zero THEN Append(g, 0) ELSE g]
      BY <2>2, <2>3, Zenon DEF Looked
    <2>5. ScanStep(Looked(s), v)
            = [left |-> v - 1, zero |-> v # MaxCode, got |-> IF s.zero THEN Append(g, 0) ELSE g]
      <3> HIDE DEF g
      <3> QED BY <1>2, <1>4 DEF ScanStep
    <2> QED BY <2>4, <2>5 DEF t, v
  <1> QED BY <1>1, <1>3, <1>4

(* After every round cobs_dec has scanned what it read.                    *)
LEMMA DecScans ==
  ASSUME NEW size \in Nat, NEW n \in Nat, n <= size, NEW mem \in [0 .. size - 1 -> Byte],
         \A i \in 0 .. n - 1 : mem[i] # 0
  PROVE  /\ [i \in 1 .. n |-> mem[i - 1]] \in Seq(Codes)
         /\ Scans([i \in 1 .. n |-> mem[i - 1]], Looked(DecRounds(DecStart(mem), n)[n]))
         /\ Emptying(DecRounds(DecStart(mem), n)[n], size, n)
  <1> DEFINE R == DecRounds(DecStart(mem), n)
             b == [i \in 1 .. n |-> mem[i - 1]]
             tr == [k \in 0 .. n |-> Looked(R[k])]
  <1>1. R[0] = DecStart(mem) /\ \A k \in 1 .. n : R[k] = DecStep(R[k - 1])
    BY DecRoundsAre
  <1>2. ASSUME NEW k \in 0 .. n
        PROVE  Emptying(R[k], size, k) /\ \A i \in k .. n - 1 : R[k].mem[i] = mem[i]
    <2>1. Decoding(R, mem, size, n, k)
      BY DecRoundsEmpty
    <2> QED BY <2>1 DEF Decoding
  <1>3. b \in Seq(Codes) /\ Len(b) = n /\ \A i \in 1 .. n : b[i] = mem[i - 1]
    <2>1. ASSUME NEW i \in 1 .. n PROVE mem[i - 1] \in Codes
      <3>1. i - 1 \in 0 .. n - 1 /\ i - 1 \in 0 .. size - 1
        OBVIOUS
      <3>2. mem[i - 1] \in Byte /\ mem[i - 1] # 0
        BY <3>1
      <3> QED BY <3>2, CobsAssumption DEF Byte, Codes
    <2> QED BY <2>1
  <1> HIDE DEF R, b
  <1>4. Looked(R[0]) = ScanStart
    <2>1. R[0].code = 0 /\ R[0].zero = FALSE /\ R[0].out = 0
      BY <1>1 DEF DecStart
    <2>2. [i \in 1 .. R[0].out |-> R[0].mem[i - 1]] = <<>>
      BY <2>1
    <2> QED BY <2>1, <2>2 DEF Looked, ScanStart
  <1>5. ASSUME NEW k \in 1 .. n PROVE tr[k] = ScanStep(tr[k - 1], b[k])
    <2>1. k - 1 \in 0 .. n /\ k - 1 \in k - 1 .. n - 1 /\ k - 1 \in 0 .. size - 1 /\ k \in 0 .. n
      OBVIOUS
    <2>2. Emptying(R[k - 1], size, k - 1) /\ R[k - 1].mem[k - 1] = b[k]
      BY <1>2, <1>3, <2>1
    <2>3. Looked(R[k]) = ScanStep(Looked(R[k - 1]), b[k])
      BY <1>1, <2>1, <2>2, DecStepLooks
    <2> QED BY <2>1, <2>3
  <1>6. tr[0] = ScanStart /\ tr[n] = Looked(R[n])
    BY <1>4
  <1> HIDE DEF tr
  <1>7. Traces(tr, b)
    BY <1>3, <1>5, <1>6 DEF Traces
  <1>8. Scans(b, Looked(R[n]))
    BY <1>3, <1>6, <1>7 DEF Scans
  <1>9. Emptying(R[n], size, n)
    BY <1>2
  <1> QED BY <1>3, <1>8, <1>9 DEF R, b

(* The first k bytes of a memory.                                          *)
Front(mem, k) == [i \in 1 .. k |-> mem[i - 1]]

(* cobs_dec and tools/cobs.py decode alike what has no zero in it:         *)
(* cobs_dec in place, and with an error where blocks do not follow one     *)
(* another to the very end (cobs.c:69, 83).                               *)
THEOREM DecodersAgree ==
  ASSUME NEW size \in Nat, NEW n \in Nat, n <= size, NEW mem \in [0 .. size - 1 -> Byte],
         \A i \in 0 .. n - 1 : mem[i] # 0,
         NEW b, b = Front(mem, n)
  PROVE  /\ b \in Seq(Codes)
         /\ ~WellFormed(b) => Dec(mem, n).n = -2
         /\ WellFormed(b) =>
              /\ Dec(mem, n).n \in 0 .. n
              /\ Front(Dec(mem, n).mem, Dec(mem, n).n) = PyDec(b)
         /\ Dec(mem, n).mem \in [0 .. size - 1 -> Byte]
  <1> DEFINE R == DecRounds(DecStart(mem), n)
  <1>1. b \in Seq(Codes) /\ Scans(b, Looked(R[n])) /\ Emptying(R[n], size, n)
    BY DecScans DEF Front
  <1>2. /\ Dec(mem, n).mem = R[n].mem
        /\ Dec(mem, n).n = IF R[n].code > 0 THEN -2 ELSE R[n].out
    BY DEF Dec
  <1> HIDE DEF R
  <1> DEFINE s == Looked(R[n])
  <1>3. s.left = R[n].code /\ s.got = Front(R[n].mem, R[n].out)
    BY DEF Looked, Front
  <1>4. s.left \in Nat /\ (WellFormed(b) <=> s.left = 0) /\ (s.left = 0 => PyDec(b) = s.got)
    <2> HIDE DEF s
    <2>1. Scans(b, s)
      BY <1>1 DEF s
    <2> QED BY <1>1, <2>1, PyFollows
  <1> HIDE DEF s
  <1>5. R[n].out \in 0 .. n /\ R[n].mem \in [0 .. size - 1 -> Byte]
    BY <1>1 DEF Emptying
  <1>6. ASSUME WellFormed(b)
        PROVE  /\ Dec(mem, n).n \in 0 .. n
               /\ Front(Dec(mem, n).mem, Dec(mem, n).n) = PyDec(b)
    <2>1. Dec(mem, n).n = R[n].out
      BY <1>2, <1>3, <1>4, <1>6
    <2> QED BY <1>2, <1>3, <1>4, <1>5, <1>6, <2>1
  <1>7. ASSUME ~WellFormed(b) PROVE Dec(mem, n).n = -2
    <2>1. R[n].code > 0
      BY <1>3, <1>4, <1>7
    <2> QED BY <1>2, <2>1
  <1> QED BY <1>1, <1>2, <1>5, <1>6, <1>7
-------------------------------------------------------------------------------
(* Encoding and decoding *)

LEMMA CodesAreBytes ==
  ASSUME NEW w \in Seq(Codes)
  PROVE  w \in Seq(Byte) /\ \A i \in 1 .. Len(w) : w[i] # 0
  BY CobsAssumption DEF Codes, Byte

Holds(mem, at, w) == \A i \in 1 .. Len(w) : mem[at + i - 1] = w[i]

(* Sequences in memory.                                                    *)
LEMMA HoldsBoth ==
  ASSUME NEW mem, NEW at \in Nat, NEW a \in Seq(Codes), NEW b \in Seq(Codes),
         Holds(mem, at, a), Holds(mem, at + Len(a), b)
  PROVE  Holds(mem, at, a \o b)
  <1> DEFINE ab == a \o b
  <1>1. /\ Len(ab) = Len(a) + Len(b) /\ Len(a) \in Nat /\ Len(b) \in Nat
        /\ \A i \in 1 .. Len(a) : ab[i] = a[i]
        /\ \A i \in 1 .. Len(b) : ab[Len(a) + i] = b[i]
    OBVIOUS
  <1> HIDE DEF ab
  <1>2. ASSUME NEW i \in 1 .. Len(ab) PROVE mem[at + i - 1] = ab[i]
    <2>1. CASE i \in 1 .. Len(a)
      BY <1>1, <2>1 DEF Holds
    <2>2. CASE i \notin 1 .. Len(a)
      <3> DEFINE j == i - Len(a)
      <3>1. j \in 1 .. Len(b) /\ Len(a) + j = i /\ at + Len(a) + j - 1 = at + i - 1
        BY <1>1, <2>2
      <3> HIDE DEF j
      <3>2. mem[at + Len(a) + j - 1] = b[j]
        BY <3>1 DEF Holds
      <3>3. ab[Len(a) + j] = b[j]
        BY <1>1, <3>1
      <3> QED BY <3>1, <3>2, <3>3
    <2> QED BY <2>1, <2>2
  <1> QED BY <1>2 DEF Holds, ab

(* What is not written to stays.                                           *)
LEMMA HoldsOn ==
  ASSUME NEW mem, NEW at \in Nat, NEW w \in Seq(Codes), Holds(mem, at, w), NEW new,
         \A j \in at .. at + Len(w) - 1 : new[j] = mem[j]
  PROVE  Holds(new, at, w)
  <1> SUFFICES ASSUME NEW i \in 1 .. Len(w) PROVE new[at + i - 1] = w[i]
    BY DEF Holds
  <1>1. at + i - 1 \in at .. at + Len(w) - 1
    OBVIOUS
  <1> QED BY <1>1 DEF Holds

(* What a scan has decoded when the next block begins.                     *)
Before(zero, got) == IF zero THEN Append(got, 0) ELSE got

(* A whole block scanned.                                                  *)
LEMMA ScansBlock ==
  ASSUME NEW b \in Seq(Codes), NEW zero \in BOOLEAN, NEW got \in Seq(Byte),
         Scans(b, [left |-> 0, zero |-> zero, got |-> got]),
         NEW c \in Codes, NEW w \in Seq(Codes), Len(w) = c - 1
  PROVE  /\ Append(b, c) \o w \in Seq(Codes)
         /\ Before(zero, got) \in Seq(Byte) /\ Before(zero, got) \o w \in Seq(Byte)
         /\ Scans(Append(b, c) \o w,
                  [left |-> 0, zero |-> c # MaxCode, got |-> Before(zero, got) \o w])
  <1>1. MaxCode \in Nat /\ MaxCode > 1 /\ c \in Nat /\ c - 1 \in Nat /\ 0 \in Byte /\ w \in Seq(Byte)
    <2>1. MaxCode \in Nat /\ MaxCode > 1
      BY CobsAssumption
    <2>2. Codes \subseteq Byte /\ 0 \in Byte /\ c \in 1 .. MaxCode
      BY <2>1 DEF Codes, Byte
    <2>3. w \in Seq(Byte)
      BY CodesAreBytes
    <2>4. c \in Nat /\ c - 1 \in Nat
      BY <2>1, <2>2
    <2> QED BY <2>1, <2>2, <2>3, <2>4
  <1>2. Before(zero, got) \in Seq(Byte)
    BY <1>1 DEF Before
  <1>3. Append(b, c) \in Seq(Codes)
        /\ Scans(Append(b, c), [left |-> c - 1, zero |-> c # MaxCode, got |-> Before(zero, got)])
    <2> DEFINE s == [left |-> 0, zero |-> zero, got |-> got]
    <2>1. ScanStep(s, c) = [left |-> c - 1, zero |-> c # MaxCode, got |-> Before(zero, got)]
      BY DEF ScanStep, Before
    <2> HIDE DEF s
    <2>2. Scans(b, s)
      BY DEF s
    <2>3. Append(b, c) \in Seq(Codes) /\ Scans(Append(b, c), ScanStep(s, c))
      BY <2>2, ScansByte
    <2> QED BY <2>1, <2>3
  <1> DEFINE a == Append(b, c)
             z == c # MaxCode
             g == Before(zero, got)
  <1> HIDE DEF a, z, g
  <1>4. /\ a \o w \in Seq(Codes)
        /\ Scans(a \o w, [left |-> (c - 1) - Len(w), zero |-> z, got |-> g \o w])
    <2>1. a \in Seq(Codes) /\ g \in Seq(Byte) /\ c - 1 \in Nat /\ Len(w) <= c - 1
      BY <1>1, <1>2, <1>3 DEF a, g
    <2>2. Scans(a, [left |-> c - 1, zero |-> z, got |-> g])
      BY <1>3 DEF a, z, g
    <2> QED BY <2>1, <2>2, ScansRun
  <1>5. (c - 1) - Len(w) = 0
    BY <1>1
  <1>6. Before(zero, got) \o w \in Seq(Byte)
    BY <1>1, <1>2
  <1> QED BY <1>2, <1>4, <1>5, <1>6 DEF a, z, g

(* After k bytes: the blocks that are closed are read as the data but for  *)
(* those in the open block.                                                *)
Encoded(s, out, data, k, closed, zero, got, open) ==
  /\ Len(closed) = s.out - out /\ Holds(s.mem, out, closed)
  /\ Len(open) = s.mem[s.out] - 1 /\ Holds(s.mem, s.out + 1, open)
  /\ Scans(closed, [left |-> 0, zero |-> zero, got |-> got])
  /\ Before(zero, got) \o open = SubSeq(data, 1, k)
  /\ s.lastMax => ~zero

EncodedSo(s, out, data, k) ==
  \E closed \in Seq(Codes), zero \in BOOLEAN, got \in Seq(Byte), open \in Seq(Codes) :
    Encoded(s, out, data, k, closed, zero, got, open)

LEMMA OneMoreOfData ==
  ASSUME NEW data \in Seq(Byte), NEW k \in 0 .. Len(data) - 1
  PROVE  SubSeq(data, 1, k + 1) = Append(SubSeq(data, 1, k), data[k + 1])
  OBVIOUS

(* Where the l closed bytes and the m of the open block are.               *)
BlockSizes(size, out, o, c, l, m) ==
  /\ size \in Int /\ out \in Nat /\ o \in Int /\ c \in Int /\ l \in Int /\ m \in Int
  /\ 1 <= c /\ o + c < size /\ 0 <= l /\ out + l = o /\ 0 <= m /\ m + 1 = c

Apart(size, out, o, c, l, m) ==
  /\ l + 1 + m = (o + c) - out /\ l + 1 + (m + 1) = (o + c + 1) - out
  /\ \A j \in out .. out + l - 1 :
       j \in 0 .. size - 1 /\ j # o /\ j # o + c /\ j # o + c + 1
  /\ \A j \in o + 1 .. (o + 1) + m - 1 :
       j \in 0 .. size - 1 /\ j # o /\ j # o + c /\ j # o + c + 1
  /\ \A j \in out .. out + (l + 1 + m) - 1 : j \in 0 .. size - 1 /\ j # o + c

(* The places one round of cobs_enc touches lie apart.                     *)
LEMMA Places ==
  ASSUME NEW size, NEW out, NEW o, NEW c, NEW l, NEW m, BlockSizes(size, out, o, c, l, m)
  PROVE  Apart(size, out, o, c, l, m)
  <1> USE DEF BlockSizes
  <1>1. l + 1 + m = (o + c) - out /\ l + 1 + (m + 1) = (o + c + 1) - out
    OBVIOUS
  <1>2. \A j \in out .. out + l - 1 : j \in 0 .. size - 1 /\ j # o /\ j # o + c /\ j # o + c + 1
    OBVIOUS
  <1>3. \A j \in o + 1 .. (o + 1) + m - 1 :
          j \in 0 .. size - 1 /\ j # o /\ j # o + c /\ j # o + c + 1
    OBVIOUS
  <1>4. \A j \in out .. out + (l + 1 + m) - 1 : j \in 0 .. size - 1 /\ j # o + c
    OBVIOUS
  <1> QED BY <1>1, <1>2, <1>3, <1>4 DEF Apart

(* A round of cobs_enc: what it has written scans to what it has read.     *)
LEMMA EncStepEncodes ==
  ASSUME NEW size \in Nat, NEW out \in Nat, NEW in \in Nat, NEW n \in Nat,
         InPlace(size, out, in, n), NEW s, NEW k \in 0 .. n - 1, NEW f \in Nat,
         Filling(s, size, out, in, k, f),
         NEW data \in Seq(Byte), Len(data) = n, s.mem[in + k] = data[k + 1],
         EncodedSo(s, out, data, k)
  PROVE  EncodedSo(EncStep(s), out, data, k + 1)
  <1> DEFINE t == EncStep(s)
             c == s.mem[s.out]
             v == data[k + 1]
  <1>1. PICK closed \in Seq(Codes), zero \in BOOLEAN, got \in Seq(Byte), open \in Seq(Codes) :
          Encoded(s, out, data, k, closed, zero, got, open)
    BY DEF EncodedSo
  <1>2. /\ Ahead(s) < size
        /\ ClosesBlock(s, t, size) \/ FillsBlock(s, t, size) \/ EndsBlock(s, t, size)
    <2>1. MayStep(s, size, out, in, n, k, f)
      BY DEF MayStep
    <2> QED BY <2>1, StepFills
  <1>3. /\ MaxCode \in Nat /\ MaxCode > 1 /\ 0 \in Byte
        /\ s.in = in + k /\ s.out \in Nat /\ s.out >= out /\ c \in 1 .. MaxCode - 1
        /\ c \in Codes /\ v \in Byte
    <2>1. MaxCode \in Nat /\ MaxCode > 1
      BY CobsAssumption
    <2>2. s.in = in + k /\ s.out \in Nat /\ s.out >= out /\ c \in 1 .. MaxCode - 1
      BY DEF Filling
    <2>3. k + 1 \in 1 .. Len(data)
      OBVIOUS
    <2> HIDE DEF c
    <2> QED BY <2>1, <2>2, <2>3 DEF Byte, Codes
  <1>4. s.mem[s.in] = v
    BY <1>3
  <1>5. v # 0 => v \in Codes
    <2>1. v \in 0 .. MaxCode /\ MaxCode \in Nat
      BY <1>3 DEF Byte
    <2> HIDE DEF v
    <2> QED BY <2>1 DEF Codes
  <1>6. /\ Len(closed) = s.out - out /\ Holds(s.mem, out, closed)
        /\ Len(open) = c - 1 /\ Holds(s.mem, s.out + 1, open)
        /\ Scans(closed, [left |-> 0, zero |-> zero, got |-> got])
        /\ Before(zero, got) \o open = SubSeq(data, 1, k)
    BY <1>1 DEF Encoded
  <1>7. SubSeq(data, 1, k + 1) = Append(SubSeq(data, 1, k), v)
    BY OneMoreOfData
  <1>8. Before(zero, got) \in Seq(Byte) /\ open \in Seq(Byte)
    <2>1. Codes \subseteq Byte
      BY <1>3 DEF Codes, Byte
    <2> QED BY <1>3, <2>1 DEF Before
  <1>9. /\ Len(closed) \in Nat /\ Len(open) \in Nat /\ out + Len(closed) = s.out
        /\ (s.out + 1) + Len(open) = s.out + c /\ Ahead(s) = s.out + c /\ c \in Nat
    <2>1. c \in Nat /\ s.out \in Nat /\ Len(closed) \in Nat /\ Len(open) \in Nat
      BY <1>3, SMTT(30)
    <2>2. Ahead(s) = s.out + c /\ c = s.mem[s.out]
      BY DEF Ahead
    <2>3. Len(closed) = s.out - out /\ Len(open) = c - 1
      BY <1>6
    <2> HIDE DEF c
    <2>4. out + Len(closed) = s.out
      BY <2>1, <2>3
    <2>5. (s.out + 1) + Len(open) = s.out + c
      BY <2>1, <2>3
    <2> QED BY <2>1, <2>2, <2>4, <2>5
  <1> HIDE DEF t, c, v
  <1>n. /\ size \in Int /\ s.out \in Int /\ c \in Int /\ 1 <= c /\ c < MaxCode
        /\ s.out + c < size /\ Len(closed) \in Int /\ 0 <= Len(closed) /\ out + Len(closed) = s.out
        /\ Len(open) \in Int /\ 0 <= Len(open) /\ Len(open) + 1 = c
    <2>1. c \in Int /\ 1 <= c /\ c < MaxCode /\ Len(open) = c - 1
      BY <1>3, <1>6
    <2> QED BY <1>2, <1>3, <1>9, <2>1
  <1>p. /\ Len(closed) + 1 + Len(open) = (s.out + c) - out
        /\ Len(closed) + 1 + (Len(open) + 1) = (s.out + c + 1) - out
        /\ \A j \in out .. out + Len(closed) - 1 :
             j \in 0 .. size - 1 /\ j # s.out /\ j # s.out + c /\ j # s.out + c + 1
        /\ \A j \in s.out + 1 .. (s.out + 1) + Len(open) - 1 :
             j \in 0 .. size - 1 /\ j # s.out /\ j # s.out + c /\ j # s.out + c + 1
        /\ \A j \in out .. out + (Len(closed) + 1 + Len(open)) - 1 : j \in 0 .. size - 1 /\ j # s.out + c
    <2>1. BlockSizes(size, out, s.out, c, Len(closed), Len(open))
      BY <1>n DEF BlockSizes
    <2>2. Apart(size, out, s.out, c, Len(closed), Len(open))
      BY <2>1, Places
    <2> QED BY <2>2 DEF Apart
  <1>10. CASE ClosesBlock(s, t, size)
    <2> DEFINE all == Append(closed, c) \o open
    <2>1. /\ v = 0 /\ ~t.lastMax /\ t.out = s.out + c /\ t.mem[t.out] = 1
          /\ \A i \in 0 .. size - 1 : i # t.out => t.mem[i] = s.mem[i]
      BY <1>4, <1>9, <1>10 DEF ClosesBlock
    <2>2. /\ all \in Seq(Codes)
          /\ Scans(all, [left |-> 0, zero |-> c # MaxCode, got |-> Before(zero, got) \o open])
      BY <1>3, <1>6, ScansBlock
    <2>3. Len(all) = Len(closed) + 1 + Len(open) /\ Len(all) = t.out - out
      <3>1. Len(all) = Len(closed) + 1 + Len(open)
        BY <1>3
      <3> HIDE DEF all
      <3> QED BY <1>p, <2>1, <3>1
    <2>4. Holds(s.mem, out, all)
      <3>1. Append(closed, c) \in Seq(Codes) /\ Len(Append(closed, c)) = Len(closed) + 1
        BY <1>3
      <3>2. Holds(s.mem, out, Append(closed, c))
        <4>1. Append(closed, c) = closed \o <<c>> /\ <<c>> \in Seq(Codes)
          BY <1>3, SMTT(30)
        <4>2. Holds(s.mem, out + Len(closed), <<c>>)
          <5>1. out + Len(closed) = s.out /\ s.out + 1 - 1 = s.out /\ c = s.mem[s.out]
            BY <1>3, <1>9 DEF c
          <5>2. \A i \in 1 .. Len(<<c>>) : i = 1 /\ <<c>>[i] = c
            OBVIOUS
          <5> QED BY <5>1, <5>2 DEF Holds
        <4> QED BY <1>6, <4>1, <4>2, HoldsBoth
      <3>3. out + Len(Append(closed, c)) = s.out + 1
        BY <1>9, <3>1
      <3> QED BY <1>6, <3>1, <3>2, <3>3, HoldsBoth
    <2>5. Holds(t.mem, out, all)
      <3>1. \A j \in out .. out + Len(all) - 1 : j \in 0 .. size - 1 /\ j # t.out
        <4> HIDE DEF all
        <4> QED BY <1>p, <2>1, <2>3
      <3>2. \A j \in out .. out + Len(all) - 1 : t.mem[j] = s.mem[j]
        BY <2>1, <3>1
      <3> HIDE DEF all
      <3> QED BY <2>2, <2>4, <3>2, HoldsOn
    <2> HIDE DEF all
    <2>6. c # MaxCode
      BY <1>3
    <2>7. Before(TRUE, Before(zero, got) \o open) \o <<>> = SubSeq(data, 1, k + 1)
      <3>1. Before(TRUE, Before(zero, got) \o open) = Append(SubSeq(data, 1, k), 0)
        BY <1>6 DEF Before
      <3>2. Append(SubSeq(data, 1, k), 0) = SubSeq(data, 1, k + 1)
        BY <1>7, <2>1
      <3>3. SubSeq(data, 1, k + 1) \in Seq(Byte)
        OBVIOUS
      <3>4. \A x \in Seq(Byte) : x \o <<>> = x
        OBVIOUS
      <3> QED BY <3>1, <3>2, <3>3, <3>4, Zenon
    <2>8. Holds(t.mem, t.out + 1, <<>>) /\ Len(<<>>) = t.mem[t.out] - 1
      BY <2>1 DEF Holds
    <2>9. Encoded(t, out, data, k + 1, all, TRUE, Before(zero, got) \o open, <<>>)
      <3>1. (c # MaxCode) = TRUE
        BY <2>6
      <3> QED BY <2>1, <2>2, <2>3, <2>5, <2>7, <2>8, <3>1 DEF Encoded
    <2>10. Before(zero, got) \o open \in Seq(Byte) /\ <<>> \in Seq(Codes)
      BY <1>8
    <2> QED BY <2>2, <2>9, <2>10 DEF EncodedSo, t
  <1>11. CASE FillsBlock(s, t, size)
    <2>1. /\ v # 0 /\ ~t.lastMax /\ t.out = s.out /\ t.mem[s.out] = c + 1 /\ t.mem[s.out + c] = v
          /\ \A i \in 0 .. size - 1 : i # s.out /\ i # s.out + c => t.mem[i] = s.mem[i]
      BY <1>4, <1>9, <1>11 DEF FillsBlock, c
    <2> DEFINE more == Append(open, v)
    <2>2. /\ more \in Seq(Codes) /\ Len(more) = t.mem[t.out] - 1 /\ Len(more) = Len(open) + 1
          /\ more = open \o <<v>> /\ <<v>> \in Seq(Codes)
      <3>1. v \in Codes /\ Len(open) = c - 1 /\ c \in Nat
        BY <1>5, <1>6, <1>9, <2>1
      <3> QED BY <2>1, <3>1
    <2>3. Holds(t.mem, out, closed)
      <3>1. \A j \in out .. out + Len(closed) - 1 : j \in 0 .. size - 1 /\ j # s.out /\ j # s.out + c
        BY <1>p
      <3>2. \A j \in out .. out + Len(closed) - 1 : t.mem[j] = s.mem[j]
        BY <2>1, <3>1
      <3> QED BY <1>6, <3>2, HoldsOn
    <2>4. Holds(t.mem, t.out + 1, more)
      <3>1. \A j \in s.out + 1 .. (s.out + 1) + Len(open) - 1 :
              j \in 0 .. size - 1 /\ j # s.out /\ j # s.out + c
        BY <1>p
      <3>2. \A j \in s.out + 1 .. (s.out + 1) + Len(open) - 1 : t.mem[j] = s.mem[j]
        BY <2>1, <3>1
      <3>3. Holds(t.mem, s.out + 1, open) /\ s.out + 1 \in Nat
        <4>1. s.out + 1 \in Nat
          BY <1>3
        <4> QED BY <1>6, <3>2, <4>1, HoldsOn
      <3>4. Holds(t.mem, (s.out + 1) + Len(open), <<v>>)
        <4>1. (s.out + 1) + Len(open) + 1 - 1 = s.out + c
          BY <1>3, <1>9
        <4>2. \A i \in 1 .. Len(<<v>>) : i = 1 /\ <<v>>[i] = v
          OBVIOUS
        <4> QED BY <2>1, <4>1, <4>2 DEF Holds
      <3> HIDE DEF more
      <3> QED BY <2>1, <2>2, <3>3, <3>4, HoldsBoth
    <2>5. Before(zero, got) \o more = SubSeq(data, 1, k + 1)
      <3>1. Append(Before(zero, got) \o open, v) = Before(zero, got) \o Append(open, v)
        BY <1>3, <1>8, AppendInside
      <3> QED BY <1>6, <1>7, <3>1
    <2> HIDE DEF more
    <2>6. Encoded(t, out, data, k + 1, closed, zero, got, more)
      BY <1>6, <2>1, <2>2, <2>3, <2>4, <2>5 DEF Encoded
    <2> QED BY <2>2, <2>6 DEF EncodedSo, t
  <1>12. CASE EndsBlock(s, t, size)
    <2> DEFINE more == Append(open, v)
               all == Append(closed, MaxCode) \o more
    <2>1. /\ v # 0 /\ t.lastMax /\ t.out = s.out + c + 1 /\ t.mem[t.out] = 1 /\ c + 1 = MaxCode
          /\ t.mem[s.out] = MaxCode /\ t.mem[s.out + c] = v
          /\ \A i \in 0 .. size - 1 : i # s.out /\ i # s.out + c /\ i # t.out => t.mem[i] = s.mem[i]
      BY <1>4, <1>9, <1>12 DEF EndsBlock, c
    <2>2. /\ more \in Seq(Codes) /\ Len(more) = MaxCode - 1 /\ Len(more) = Len(open) + 1
          /\ more = open \o <<v>> /\ <<v>> \in Seq(Codes) /\ MaxCode \in Codes
      <3>1. v \in Codes /\ Len(open) = c - 1 /\ c \in Nat /\ c + 1 = MaxCode
        BY <1>5, <1>6, <1>9, <2>1
      <3>2. MaxCode \in Codes
        BY <1>3 DEF Codes
      <3>3. more \in Seq(Codes) /\ Len(more) = Len(open) + 1 /\ more = open \o <<v>>
        BY <3>1
      <3>4. Len(open) + 1 = MaxCode - 1
        BY <3>1, <1>n
      <3> HIDE DEF more
      <3> QED BY <3>1, <3>2, <3>3, <3>4
    <2> HIDE DEF more
    <2>3. /\ all \in Seq(Codes)
          /\ Scans(all, [left |-> 0, zero |-> MaxCode # MaxCode, got |-> Before(zero, got) \o more])
      BY <1>6, <2>2, ScansBlock
    <2>4. Len(all) = Len(closed) + 1 + Len(more) /\ Len(all) = t.out - out
      <3>1. Len(all) = Len(closed) + 1 + Len(more)
        BY <2>2
      <3> HIDE DEF all
      <3> QED BY <1>p, <2>1, <2>2, <3>1
    <2>5. Holds(t.mem, out, closed) /\ Holds(t.mem, s.out + 1, open)
      <3>1. \A j \in out .. out + Len(closed) - 1 :
              j \in 0 .. size - 1 /\ j # s.out /\ j # s.out + c /\ j # t.out
        BY <1>p, <2>1
      <3>2. \A j \in out .. out + Len(closed) - 1 : t.mem[j] = s.mem[j]
        BY <2>1, <3>1
      <3>3. \A j \in s.out + 1 .. (s.out + 1) + Len(open) - 1 :
              j \in 0 .. size - 1 /\ j # s.out /\ j # s.out + c /\ j # t.out
        BY <1>p, <2>1
      <3>4. \A j \in s.out + 1 .. (s.out + 1) + Len(open) - 1 : t.mem[j] = s.mem[j]
        BY <2>1, <3>3
      <3>5. s.out + 1 \in Nat
        BY <1>3
      <3> QED BY <1>6, <3>2, <3>4, <3>5, HoldsOn
    <2>6. Holds(t.mem, s.out + 1, more)
      <3>1. Holds(t.mem, (s.out + 1) + Len(open), <<v>>)
        <4>1. (s.out + 1) + Len(open) + 1 - 1 = s.out + c
          BY <1>3, <1>9
        <4>2. \A i \in 1 .. Len(<<v>>) : i = 1 /\ <<v>>[i] = v
          OBVIOUS
        <4> QED BY <2>1, <4>1, <4>2 DEF Holds
      <3>2. s.out + 1 \in Nat
        BY <1>3
      <3> QED BY <2>2, <2>5, <3>1, <3>2, HoldsBoth
    <2>7. Holds(t.mem, out, all)
      <3>1. Append(closed, MaxCode) \in Seq(Codes) /\ Len(Append(closed, MaxCode)) = Len(closed) + 1
        BY <2>2
      <3>2. Holds(t.mem, out, Append(closed, MaxCode))
        <4>1. Append(closed, MaxCode) = closed \o <<MaxCode>> /\ <<MaxCode>> \in Seq(Codes)
          BY <2>2
        <4>2. Holds(t.mem, out + Len(closed), <<MaxCode>>)
          <5>1. out + Len(closed) + 1 - 1 = s.out
            BY <1>9, <1>n
          <5>2. \A i \in 1 .. Len(<<MaxCode>>) : i = 1 /\ <<MaxCode>>[i] = MaxCode
            OBVIOUS
          <5> QED BY <2>1, <5>1, <5>2 DEF Holds
        <4> QED BY <2>5, <4>1, <4>2, HoldsBoth
      <3>3. out + Len(Append(closed, MaxCode)) = s.out + 1
        BY <1>9, <3>1
      <3> QED BY <2>2, <2>6, <3>1, <3>2, <3>3, HoldsBoth
    <2> HIDE DEF all
    <2>8. Before(FALSE, Before(zero, got) \o more) \o <<>> = SubSeq(data, 1, k + 1)
      <3>1. Before(zero, got) \o more = SubSeq(data, 1, k + 1)
        <4>1. Append(Before(zero, got) \o open, v) = Before(zero, got) \o Append(open, v)
          BY <1>3, <1>8, AppendInside
        <4> QED BY <1>6, <1>7, <4>1 DEF more
      <3> QED BY <3>1 DEF Before
    <2>9. Holds(t.mem, t.out + 1, <<>>) /\ Len(<<>>) = t.mem[t.out] - 1
      BY <2>1 DEF Holds
    <2>10. Encoded(t, out, data, k + 1, all, FALSE, Before(zero, got) \o more, <<>>)
      <3>1. (MaxCode # MaxCode) = FALSE
        OBVIOUS
      <3> QED BY <2>1, <2>3, <2>4, <2>7, <2>8, <2>9, <3>1 DEF Encoded
    <2>11. Before(zero, got) \o more \in Seq(Byte) /\ <<>> \in Seq(Codes)
      <3>1. Before(zero, got) \o more = SubSeq(data, 1, k + 1)
        <4>1. Append(Before(zero, got) \o open, v) = Before(zero, got) \o Append(open, v)
          BY <1>3, <1>8, AppendInside
        <4> QED BY <1>6, <1>7, <4>1 DEF more
      <3> QED BY <3>1
    <2> QED BY <2>3, <2>10, <2>11 DEF EncodedSo, t
  <1> QED BY <1>2, <1>10, <1>11, <1>12

LEMMA HoldsIs ==
  ASSUME NEW mem, NEW at \in Nat, NEW w \in Seq(Codes), Holds(mem, at, w)
  PROVE  [i \in 1 .. Len(w) |-> mem[at + i - 1]] = w
  <1>1. w = [i \in 1 .. Len(w) |-> w[i]]
    OBVIOUS
  <1> QED BY <1>1 DEF Holds

(* Where the memory starts with the block that cobs_enc begins, nothing is *)
(* encoded.                                                                *)
LEMMA EncRoundsEncode ==
  ASSUME NEW size \in Nat, NEW out \in Nat, NEW in \in Nat, NEW n \in Nat \ {0},
         InPlace(size, out, in, n), NEW mem \in [0 .. size - 1 -> Byte],
         NEW data \in Seq(Byte), Len(data) = n, \A i \in 1 .. n : data[i] = mem[in + i - 1]
  PROVE  EncodedSo(EncRounds(EncStart(mem, out, in), n)[n], out, data, n)
  <1> DEFINE start == EncStart(mem, out, in)
             R == EncRounds(start, n)
             T == {k \in 0 .. n : EncodedSo(R[k], out, data, k)}
  <1>1. R[0] = start /\ \A k \in 1 .. n : R[k] = EncStep(R[k - 1])
    BY EncRoundsAre
  <1>2. ASSUME NEW k \in 0 .. n PROVE Encoding(R, mem, size, out, in, n, k)
    BY EncRoundsFill
  <1>3. start.out = out /\ start.mem = [mem EXCEPT ![out] = 1] /\ start.lastMax = FALSE
    BY DEF EncStart
  <1> HIDE DEF R, start
  <1>4. 0 \in T
    <2>1. start.mem[out] = 1
      <3>1. out \in 0 .. size - 1
        <4>1. PICK f \in Nat : Filling(start, size, out, in, 0, f)
          BY <1>1, <1>2 DEF Encoding
        <4>2. start.mem \in [0 .. size - 1 -> Byte] /\ start.mem[out] \in 1 .. MaxCode - 1
          BY <1>3, <4>1 DEF Filling
        <4>3. EncSize(n) \in Nat /\ out + EncSize(n) < size
          <5>1. (MaxCode - 1) * 0 = 0 /\ MaxCode \in Int
            BY CobsAssumption
          <5>2. n \in Nat /\ 0 \in Nat /\ (MaxCode - 1) * 0 < n
            BY <5>1
          <5>3. EncSize(n) \in Nat
            BY <5>2, RoomAhead
          <5> QED BY <5>3 DEF InPlace
        <4> QED BY <4>3
      <3> QED BY <1>3, <3>1
    <2>2. Scans(<<>>, [left |-> 0, zero |-> FALSE, got |-> <<>>])
      BY ScansNothing DEF ScanStart
    <2>3. Before(FALSE, <<>>) \o <<>> = SubSeq(data, 1, 0)
      BY DEF Before
    <2>4. /\ Len(<<>>) = start.out - out /\ Len(<<>>) = start.mem[start.out] - 1
          /\ Holds(start.mem, out, <<>>) /\ Holds(start.mem, start.out + 1, <<>>)
      BY <1>3, <2>1 DEF Holds
    <2>5. Encoded(start, out, data, 0, <<>>, FALSE, <<>>, <<>>)
      BY <1>3, <2>2, <2>3, <2>4 DEF Encoded
    <2>6. <<>> \in Seq(Codes) /\ <<>> \in Seq(Byte) /\ FALSE \in BOOLEAN /\ 0 \in 0 .. n
      OBVIOUS
    <2> QED BY <1>1, <2>5, <2>6 DEF EncodedSo
  <1>5. ASSUME NEW k \in 0 .. n - 1, k \in T PROVE k + 1 \in T
    <2>1. k \in 0 .. n /\ k + 1 \in 1 .. n /\ k + 1 \in 0 .. n /\ (k + 1) - 1 = k
          /\ in + k \in in + k .. in + n - 1 /\ in + (k + 1) - 1 = in + k
      OBVIOUS
    <2>2. PICK f \in Nat : Filling(R[k], size, out, in, k, f)
      BY <1>2, <2>1 DEF Encoding
    <2>3. R[k].mem[in + k] = data[k + 1]
      BY <1>2, <2>1 DEF Encoding
    <2>4. EncodedSo(EncStep(R[k]), out, data, k + 1)
      BY <1>5, <2>2, <2>3, EncStepEncodes
    <2> QED BY <1>1, <2>1, <2>4
  <1>6. n \in T
    <2> HIDE DEF T
    <2>1. \A k \in 0 .. n : k \in T
      BY <1>4, <1>5, Climbs
    <2> QED BY <2>1
  <1> QED BY <1>6 DEF R, start

(* code is what cobs_enc makes of the n data at in, and writes at out.     *)
Encodes(mem, size, out, in, n, data, code) ==
  /\ size \in Nat /\ out \in Nat /\ in \in Nat /\ n \in Nat \ {0}
  /\ InPlace(size, out, in, n) /\ mem \in [0 .. size - 1 -> Byte]
  /\ data \in Seq(Byte) /\ Len(data) = n /\ \A i \in 1 .. n : data[i] = mem[in + i - 1]
  /\ code = [i \in 1 .. Enc(mem, out, in, n).n |-> Enc(mem, out, in, n).mem[out + i - 1]]

(* What cobs_enc makes, in place, of data of any length is read back as    *)
(* those data by cobs.dec of the host and by cobs_dec (which agrees with   *)
(* it, DecodersAgree), and has no zero in it.                              *)
THEOREM RoundTrip ==
  ASSUME NEW mem, NEW size, NEW out, NEW in, NEW n, NEW data, NEW code,
         Encodes(mem, size, out, in, n, data, code)
  PROVE  code \in Seq(Codes) /\ WellFormed(code) /\ PyDec(code) = data
  <1>a. /\ size \in Nat /\ out \in Nat /\ in \in Nat /\ n \in Nat \ {0}
        /\ InPlace(size, out, in, n) /\ mem \in [0 .. size - 1 -> Byte]
        /\ data \in Seq(Byte) /\ Len(data) = n
        /\ \A i \in 1 .. n : data[i] = mem[in + i - 1]
        /\ code = [i \in 1 .. Enc(mem, out, in, n).n |->
                     Enc(mem, out, in, n).mem[out + i - 1]]
    BY DEF Encodes
  <1> USE <1>a
  <1> DEFINE s == EncRounds(EncStart(mem, out, in), n)[n]
             c == s.mem[s.out]
             e == Enc(mem, out, in, n)
  <1>1. e.mem = s.mem /\ e.n = s.out - out + IF s.lastMax THEN 0 ELSE c
    BY DEF Enc
  <1>2. PICK f \in Nat : Filling(s, size, out, in, n, f)
    <2>1. n \in 0 .. n
      OBVIOUS
    <2>2. Encoding(EncRounds(EncStart(mem, out, in), n), mem, size, out, in, n, n)
      BY <2>1, EncRoundsFill
    <2> QED BY <2>2 DEF Encoding
  <1>3. EncodedSo(s, out, data, n)
    BY EncRoundsEncode
  <1>4. code = [i \in 1 .. e.n |-> s.mem[out + i - 1]]
    BY <1>1
  <1> HIDE DEF s, e
  <1>5. PICK closed \in Seq(Codes), zero \in BOOLEAN, got \in Seq(Byte), open \in Seq(Codes) :
          Encoded(s, out, data, n, closed, zero, got, open)
    BY <1>3 DEF EncodedSo
  <1>6. SubSeq(data, 1, n) = data
    OBVIOUS
  <1>7. /\ Len(closed) = s.out - out /\ Holds(s.mem, out, closed)
        /\ Len(open) = c - 1 /\ Holds(s.mem, s.out + 1, open)
        /\ Scans(closed, [left |-> 0, zero |-> zero, got |-> got])
        /\ Before(zero, got) \o open = data
        /\ s.lastMax => ~zero
    BY <1>5, <1>6 DEF Encoded
  <1>8. /\ s.out \in Nat /\ s.out >= out /\ c \in 1 .. MaxCode - 1 /\ s.lastMax \in BOOLEAN
        /\ s.lastMax => c = 1
    BY <1>2 DEF Filling
  <1> HIDE DEF c
  <1>9. CASE s.lastMax
    <2>1. e.n = Len(closed)
      BY <1>1, <1>7, <1>8, <1>9
    <2>2. code = closed
      <3>1. [i \in 1 .. Len(closed) |-> s.mem[out + i - 1]] = closed
        BY <1>7, HoldsIs
      <3> QED BY <1>4, <2>1, <3>1
    <2>3. open = <<>> /\ Before(zero, got) = got
      BY <1>7, <1>8, <1>9 DEF Before
    <2>4. got = data
      BY <1>7, <2>3
    <2> DEFINE r == [left |-> 0, zero |-> zero, got |-> got]
    <2>5. r.left = 0 /\ r.got = data
      BY <2>4
    <2> HIDE DEF r
    <2>6. Scans(closed, r)
      BY <1>7 DEF r
    <2> QED BY <2>2, <2>5, <2>6, PyFollows
  <1>10. CASE ~s.lastMax
    <2> DEFINE a == Append(closed, c)
               all == a \o open
               r == [left |-> 0, zero |-> c # MaxCode, got |-> Before(zero, got) \o open]
    <2>1. c \in Codes /\ c \in Nat
      BY <1>8, CobsAssumption DEF Codes
    <2>2. all \in Seq(Codes) /\ Scans(all, r)
      BY <1>7, <2>1, ScansBlock
    <2>3. r.left = 0 /\ r.got = data
      BY <1>7
    <2>4. Len(all) = Len(closed) + 1 + Len(open) /\ a \in Seq(Codes) /\ Len(a) = Len(closed) + 1
      BY <2>1
    <2>5. a = closed \o <<c>> /\ <<c>> \in Seq(Codes)
      BY <2>1
    <2>6. Holds(s.mem, out, all)
      <3>1. Len(closed) \in Nat /\ out + Len(closed) = s.out
        BY <1>7, <1>8
      <3>2. Holds(s.mem, out + Len(closed), <<c>>)
        <4>1. s.out + 1 - 1 = s.out
          BY <1>8
        <4>2. \A i \in 1 .. Len(<<c>>) : i = 1 /\ <<c>>[i] = c
          OBVIOUS
        <4> QED BY <3>1, <4>1, <4>2 DEF Holds, c
      <3>3. Holds(s.mem, out, a)
        <4> HIDE DEF a
        <4> QED BY <1>7, <2>5, <3>2, HoldsBoth
      <3>4. out + Len(a) = s.out + 1
        BY <2>4, <3>1
      <3> HIDE DEF a
      <3> QED BY <1>7, <2>4, <3>3, <3>4, HoldsBoth
    <2>7. e.n = Len(all)
      <3>1. Len(all) = (s.out - out) + 1 + (c - 1)
        BY <1>7, <2>4
      <3>2. e.n = s.out - out + c
        BY <1>1, <1>10
      <3> HIDE DEF all
      <3> QED BY <1>8, <2>1, <3>1, <3>2
    <2> HIDE DEF all, r
    <2>8. code = all
      <3>1. [i \in 1 .. Len(all) |-> s.mem[out + i - 1]] = all
        BY <2>2, <2>6, HoldsIs
      <3> QED BY <1>4, <2>7, <3>1
    <2> QED BY <2>2, <2>3, <2>8, PyFollows
  <1> QED BY <1>9, <1>10
-------------------------------------------------------------------------------
(* What the host sends *)

AllBytes(b, x, w, e) ==
  b \in Seq(Byte) /\ x \in Seq(Byte) /\ w \in Seq(Byte) /\ e \in Seq(Byte)

Regrouped(b, x, w, e) == ((b \o x) \o w) \o e = b \o ((x \o w) \o e)

LEMMA FourInRow ==
  ASSUME NEW b, NEW x, NEW w, NEW e, AllBytes(b, x, w, e)
  PROVE  Regrouped(b, x, w, e)
  <1> DEFINE y == x \o w
  <1>0. b \in Seq(Byte) /\ x \in Seq(Byte) /\ w \in Seq(Byte) /\ e \in Seq(Byte)
    BY DEF AllBytes
  <1>1. y \in Seq(Byte)
    BY <1>0, Regroup
  <1>2. b \o y = (b \o x) \o w
    BY <1>0, Regroup
  <1> HIDE DEF y
  <1>3. b \o (y \o e) = (b \o y) \o e
    BY <1>0, <1>1, Regroup
  <1> QED BY <1>2, <1>3, Zenon DEF y, Regrouped

LEMMA BlockInRow ==
  ASSUME NEW b \in Seq(Codes), NEW c \in Codes, NEW w \in Seq(Codes), NEW e \in Seq(Codes)
  PROVE  (Append(b, c) \o w) \o e = b \o (<<c>> \o w \o e)
  <1>1. b \in Seq(Byte) /\ c \in Byte /\ w \in Seq(Byte) /\ e \in Seq(Byte)
    BY CobsAssumption, CodesAreBytes DEF Codes, Byte
  <1> DEFINE x == <<c>>
  <1>2. x \in Seq(Byte) /\ Append(b, c) = b \o x
    BY <1>1
  <1> HIDE DEF x
  <1>3. AllBytes(b, x, w, e)
    BY <1>1, <1>2 DEF AllBytes
  <1>4. Regrouped(b, x, w, e)
    BY <1>3, FourInRow, Zenon
  <1>5. ((b \o x) \o w) \o e = b \o ((x \o w) \o e)
    BY <1>4, Zenon DEF Regrouped
  <1> QED BY <1>2, <1>5, Zenon DEF x

LEMMA JoinedLength ==
  ASSUME NEW S, NEW h \in Seq(S), NEW w \in Seq(S)
  PROVE  h \o w \in Seq(S) /\ Len(h \o w) = Len(h) + Len(w)
  OBVIOUS

LEMMA Headed ==
  ASSUME NEW h \in Seq(Codes), NEW w \in Seq(Codes), NEW e \in Seq(Codes), Len(h) = 1
  PROVE  h \o w \o e \in Seq(Codes) /\ h \o w \o e # <<>>
  <1> DEFINE y == h \o w
             u == y \o e
  <1> HIDE DEF u, y
  <1>0. y \in Seq(Codes) /\ Len(y) = Len(h) + Len(w)
    BY JoinedLength DEF y
  <1>1. y \in Seq(Codes) /\ Len(y) = 1 + Len(w)
    BY <1>0
  <1>2. u \in Seq(Codes) /\ Len(u) = Len(y) + Len(e) /\ Len(w) \in Nat /\ Len(e) \in Nat
    BY <1>1 DEF u
  <1>3. u # <<>>
    BY <1>1, <1>2
  <1> QED BY <1>2, <1>3 DEF u, y

(* Behind what was read up to the byte i of d, data with a zero after it,  *)
(* w makes it all of the data.                                             *)
Continues(w, i, d, data) ==
  \A b \in Seq(Codes), zero \in BOOLEAN, got \in Seq(Byte) :
    /\ Scans(b, [left |-> 0, zero |-> zero, got |-> got])
    /\ Before(zero, got) = SubSeq(d, 1, i - 1)
    /\ i = Len(d) + 1 => zero
    => /\ b \o w \in Seq(Codes)
       /\ \E z \in BOOLEAN : Scans(b \o w, [left |-> 0, zero |-> z, got |-> data])

LEMMA ContinuesLast ==
  ASSUME NEW data \in Seq(Byte), NEW d, d = Append(data, 0)
  PROVE  Continues(<<>>, Len(d) + 1, d, data)
  <1>1. 0 \in Byte
    BY CobsAssumption DEF Byte
  <1>2. d \in Seq(Byte) /\ Len(d) = Len(data) + 1 /\ SubSeq(d, 1, (Len(d) + 1) - 1) = d
    BY <1>1
  <1> SUFFICES ASSUME NEW b \in Seq(Codes), NEW zero \in BOOLEAN, NEW got \in Seq(Byte),
                      Scans(b, [left |-> 0, zero |-> zero, got |-> got]),
                      Before(zero, got) = SubSeq(d, 1, (Len(d) + 1) - 1), zero
               PROVE  /\ b \o <<>> \in Seq(Codes)
                      /\ \E z \in BOOLEAN : Scans(b \o <<>>, [left |-> 0, zero |-> z, got |-> data])
    BY DEF Continues
  <1>3. b \o <<>> = b
    OBVIOUS
  <1>4. Append(got, 0) = Append(data, 0)
    BY <1>2 DEF Before
  <1>5. got = data
    BY <1>1, <1>4
  <1> QED BY <1>3, <1>5

(* One block more, before what continues it.                               *)
LEMMA ContinuesBlock ==
  ASSUME NEW data \in Seq(Byte), NEW d \in Seq(Byte), NEW i \in 1 .. Len(d),
         NEW c \in Codes, NEW w \in Seq(Codes), Len(w) = c - 1,
         NEW e \in Seq(Codes), NEW k,
         c # MaxCode => k = i + c /\ Append(SubSeq(d, 1, i - 1) \o w, 0) = SubSeq(d, 1, k - 1),
         c = MaxCode => k = i + c - 1 /\ SubSeq(d, 1, i - 1) \o w = SubSeq(d, 1, k - 1)
                        /\ k <= Len(d),
         Continues(e, k, d, data)
  PROVE  Continues(<<c>> \o w \o e, i, d, data)
  <1> SUFFICES ASSUME NEW b \in Seq(Codes), NEW zero \in BOOLEAN, NEW got \in Seq(Byte),
                      Scans(b, [left |-> 0, zero |-> zero, got |-> got]),
                      Before(zero, got) = SubSeq(d, 1, i - 1)
               PROVE  /\ b \o (<<c>> \o w \o e) \in Seq(Codes)
                      /\ \E z \in BOOLEAN : Scans(b \o (<<c>> \o w \o e),
                                                  [left |-> 0, zero |-> z, got |-> data])
    BY DEF Continues
  <1> DEFINE a == Append(b, c) \o w
             g == Before(zero, got) \o w
             y == c # MaxCode
  <1>1. a \in Seq(Codes) /\ g \in Seq(Byte) /\ Scans(a, [left |-> 0, zero |-> y, got |-> g])
    BY ScansBlock
  <1>2. Before(y, g) = SubSeq(d, 1, k - 1) /\ (k = Len(d) + 1 => y) /\ y \in BOOLEAN
    <2>1. Len(d) \in Nat
      OBVIOUS
    <2>2. y \in BOOLEAN /\ (y <=> c # MaxCode)
      OBVIOUS
    <2> DEFINE h == SubSeq(d, 1, i - 1) \o w
    <2>3. g = h
      OBVIOUS
    <2> HIDE DEF g, y, h
    <2>4. CASE y
      <3>1. Append(h, 0) = SubSeq(d, 1, k - 1)
        BY <2>2, <2>4 DEF h
      <3> QED BY <2>2, <2>3, <2>4, <3>1 DEF Before
    <2>5. CASE ~y
      <3>1. c = MaxCode /\ MaxCode \in Int /\ i \in Int
        BY <2>2, <2>5, CobsAssumption
      <3>2. h = SubSeq(d, 1, k - 1)
        BY <3>1 DEF h
      <3>3. k <= Len(d) /\ k = i + c - 1
        BY <3>1
      <3>4. k \in Int
        BY <3>1, <3>3
      <3> QED BY <2>1, <2>2, <2>3, <2>5, <3>2, <3>3, <3>4 DEF Before
    <2> QED BY <2>4, <2>5
  <1>3. a \o e = b \o (<<c>> \o w \o e)
    BY BlockInRow
  <1> HIDE DEF a, g, y
  <1>4. a \o e \in Seq(Codes) /\ \E z \in BOOLEAN : Scans(a \o e, [left |-> 0, zero |-> z, got |-> data])
    BY <1>1, <1>2 DEF Continues
  <1> QED BY <1>3, <1>4, Zenon

(* The block of cobs.enc that begins at i.                                 *)
LEMMA PyBlockContinues ==
  ASSUME NEW data \in Seq(Byte), NEW d, d = Append(data, 0), NEW i \in 1 .. Len(d),
         NEW E, \A j \in i + 1 .. Len(d) + 1 : E[j] \in Seq(Codes) /\ Continues(E[j], j, d, data)
  PROVE  /\ PyBlock(d, E, i) \in Seq(Codes) /\ PyBlock(d, E, i) # <<>>
         /\ Continues(PyBlock(d, E, i), i, d, data)
  <1>1. /\ MaxCode \in Nat /\ MaxCode > 1 /\ 0 \in Byte
    BY CobsAssumption DEF Byte
  <1>2. /\ d \in Seq(Byte) /\ d # <<>> /\ Len(d) \in Nat /\ Len(d) = Len(data) + 1
        /\ d[Len(d)] = 0 /\ i \in Nat /\ i - 1 \in Nat
    BY <1>1
  <1> DEFINE n == Len(d)
             z == NextZero(d, i)
  <1>3. z \in i .. n /\ d[z] = 0 /\ \A j \in i .. z - 1 : d[j] # 0
    BY <1>2, NextZeroIs
  <1> HIDE DEF z, n
  <1>4. ASSUME NEW m \in 0 .. z - i
        PROVE  /\ SubSeq(d, i, i + m - 1) \in Seq(Codes) /\ Len(SubSeq(d, i, i + m - 1)) = m
               /\ SubSeq(d, 1, i - 1) \o SubSeq(d, i, i + m - 1) = SubSeq(d, 1, i + m - 1)
    <2> DEFINE h == i - 1
               k == i + m - 1
               w == SubSeq(d, i, k)
    <2>1. h \in Nat /\ m \in Nat /\ k = h + m /\ k <= Len(d) /\ h + 1 = i /\ z \in Nat /\ i + m <= z
      BY <1>2, <1>3 DEF n
    <2> HIDE DEF h, k
    <2>2. SubSeq(d, h + 1, k) \in Seq(Byte) /\ Len(SubSeq(d, h + 1, k)) = m
          /\ \A j \in 1 .. m : SubSeq(d, h + 1, k)[j] = d[h + j]
      BY <1>2, <2>1, PieceIs
    <2>3. SubSeq(d, 1, h + m) = SubSeq(d, 1, h) \o SubSeq(d, h + 1, h + m)
      BY <1>2, <2>1, Continued
    <2> HIDE DEF w
    <2>4. w \in Seq(Byte) /\ Len(w) = m /\ \A j \in 1 .. m : w[j] = d[h + j]
      BY <2>1, <2>2 DEF w
    <2>5. ASSUME NEW j \in 1 .. m PROVE w[j] \in Codes
      <3>1. h + j \in i .. z - 1
        BY <1>2, <1>3, <2>1 DEF n
      <3>2. w[j] # 0 /\ w[j] \in Byte
        BY <1>3, <2>4, <3>1
      <3> QED BY <1>1, <3>2 DEF Byte, Codes
    <2>6. w \in Seq(Codes)
      BY <2>4, <2>5
    <2> QED BY <2>1, <2>3, <2>4, <2>6 DEF w, h, k
  <1>5. CASE z - i < MaxCode - 1
    <2> DEFINE c == z - i + 1
               w == SubSeq(d, i, z - 1)
               e == E[z + 1]
    <2>1. /\ c \in Codes /\ c # MaxCode /\ z - i \in 0 .. z - i /\ i + (z - i) - 1 = z - 1
          /\ z + 1 = i + c /\ z + 1 \in i + 1 .. Len(d) + 1 /\ (z + 1) - 1 = z /\ c - 1 = z - i
          /\ z \in Nat /\ z \in 1 .. Len(d) /\ z - 1 \in 0 .. Len(d) - 1 /\ (z - 1) + 1 = z
      BY <1>1, <1>2, <1>3, <1>5 DEF Codes, n
    <2>2. /\ w \in Seq(Codes) /\ Len(w) = c - 1
          /\ SubSeq(d, 1, i - 1) \o w = SubSeq(d, 1, z - 1)
      BY <1>4, <2>1
    <2>3. Append(SubSeq(d, 1, i - 1) \o w, 0) = SubSeq(d, 1, z)
      <3> DEFINE k == z - 1
      <3>1. k \in 0 .. Len(d) - 1 /\ k + 1 = z
        BY <2>1
      <3> HIDE DEF k
      <3>2. SubSeq(d, 1, k + 1) = Append(SubSeq(d, 1, k), d[k + 1])
        BY <1>2, <3>1, OneMoreOfData
      <3> QED BY <1>3, <2>2, <3>1, <3>2 DEF k
    <2>4. e \in Seq(Codes) /\ Continues(e, z + 1, d, data)
      BY <2>1
    <2>5. PyBlock(d, E, i) = <<c>> \o w \o e
      <3>1. ~(i > Len(d))
        BY <1>2
      <3> QED BY <1>5, <3>1, Zenon DEF PyBlock, z
    <2>6. <<c>> \o w \o e \in Seq(Codes) /\ <<c>> \o w \o e # <<>>
      <3> HIDE DEF c, w, e
      <3>1. <<c>> \in Seq(Codes) /\ Len(<<c>>) = 1
        BY <2>1
      <3> QED BY <2>2, <2>4, <3>1, Headed
    <2>7. Continues(<<c>> \o w \o e, i, d, data)
      <3> DEFINE k == z + 1
      <3>1. /\ k = i + c /\ Append(SubSeq(d, 1, i - 1) \o w, 0) = SubSeq(d, 1, k - 1)
            /\ Continues(e, k, d, data)
        BY <2>1, <2>3, <2>4
      <3> HIDE DEF c, w, e, k
      <3> QED BY <1>2, <2>1, <2>2, <2>4, <3>1, ContinuesBlock
    <2> QED BY <2>5, <2>6, <2>7
  <1>6. CASE ~(z - i < MaxCode - 1)
    <2> DEFINE c == MaxCode
               m == MaxCode - 1
               w == SubSeq(d, i, i + MaxCode - 2)
               k == i + MaxCode - 1
               e == IF k = Len(d) THEN <<>> ELSE E[k]
    <2>1. /\ c \in Codes /\ m \in 0 .. z - i /\ i + m - 1 = i + MaxCode - 2 /\ m = c - 1
          /\ k = i + c - 1 /\ k <= Len(d) /\ k \in i + 1 .. Len(d) + 1 /\ k - 1 = i + m - 1
          /\ k \in Nat
      BY <1>1, <1>2, <1>3, <1>6 DEF Codes, n
    <2>2. /\ w \in Seq(Codes) /\ Len(w) = c - 1
          /\ SubSeq(d, 1, i - 1) \o w = SubSeq(d, 1, k - 1)
      BY <1>4, <2>1
    <2>3. PyBlock(d, E, i) = <<c>> \o w \o e
      <3>1. ~(i > Len(d))
        BY <1>2
      <3> QED BY <1>6, <3>1, Zenon DEF PyBlock, z
    <2>4. e \in Seq(Codes)
      BY <2>1
    <2>5. <<c>> \o w \o e \in Seq(Codes) /\ <<c>> \o w \o e # <<>>
      <3> HIDE DEF c, w, e
      <3>1. <<c>> \in Seq(Codes) /\ Len(<<c>>) = 1
        BY <2>1
      <3> QED BY <2>2, <2>4, <3>1, Headed
    <2>6. CASE k # Len(d)
      <3>1. Continues(e, k, d, data)
        BY <2>1, <2>6
      <3> HIDE DEF w, e, k
      <3>2. Continues(<<c>> \o w \o e, i, d, data)
        BY <1>2, <2>1, <2>2, <2>4, <3>1, ContinuesBlock
      <3> QED BY <2>3, <2>5, <3>2
    <2>7. CASE k = Len(d)
      <3>1. e = <<>>
        BY <2>7
      <3>2. SubSeq(d, 1, k - 1) = data
        BY <1>2, <2>7
      <3> HIDE DEF w, e, k
      <3>3. Continues(<<c>> \o w \o e, i, d, data)
        <4> SUFFICES ASSUME NEW b \in Seq(Codes), NEW zero \in BOOLEAN, NEW got \in Seq(Byte),
                            Scans(b, [left |-> 0, zero |-> zero, got |-> got]),
                            Before(zero, got) = SubSeq(d, 1, i - 1)
                     PROVE  /\ b \o (<<c>> \o w \o e) \in Seq(Codes)
                            /\ \E y \in BOOLEAN : Scans(b \o (<<c>> \o w \o e),
                                                        [left |-> 0, zero |-> y, got |-> data])
          BY DEF Continues
        <4> DEFINE a == Append(b, c) \o w
        <4>1. a \in Seq(Codes) /\ Scans(a, [left |-> 0, zero |-> FALSE, got |-> data])
          <5>1. /\ a \in Seq(Codes)
                /\ Scans(a, [left |-> 0, zero |-> c # MaxCode, got |-> Before(zero, got) \o w])
            BY <2>1, <2>2, ScansBlock
          <5>2. Before(zero, got) \o w = data
            BY <2>2, <3>2
          <5>3. (c # MaxCode) = FALSE
            OBVIOUS
          <5> HIDE DEF a
          <5> QED BY <5>1, <5>2, <5>3
        <4>2. b \o (<<c>> \o w \o e) = a
          <5>1. a \o e = b \o (<<c>> \o w \o e)
            <6>1. c \in Codes
              BY <2>1
            <6> HIDE DEF c
            <6> QED BY <2>2, <2>4, <6>1, BlockInRow
          <5>2. a \o e = a
            <6> HIDE DEF a
            <6> QED BY <3>1, <4>1
          <5> QED BY <5>1, <5>2, Zenon
        <4> HIDE DEF a
        <4> QED BY <4>1, <4>2
      <3> QED BY <2>3, <2>5, <3>3
    <2> QED BY <2>6, <2>7
  <1> QED BY <1>5, <1>6

(* By induction from the last byte of d to the first.                      *)
LEMMA PyEncContinues ==
  ASSUME NEW data \in Seq(Byte)
  PROVE  /\ PyEnc(data) \in Seq(Codes) /\ PyEnc(data) # <<>>
         /\ Continues(PyEnc(data), 1, Append(data, 0), data)
  <1> DEFINE d == Append(data, 0)
             E == PyEncFrom(d)
             end == Len(d) + 1
             Right(i) == E[i] \in Seq(Codes) /\ Continues(E[i], i, d, data)
             T == {m \in 0 .. Len(d) : \A i \in end - m .. end : Right(i)}
  <1>1. 0 \in Byte
    BY CobsAssumption DEF Byte
  <1>2. d \in Seq(Byte) /\ d # <<>> /\ d[Len(d)] = 0 /\ Len(d) \in Nat \ {0}
    BY <1>1
  <1>3. \A i \in 1 .. end : E[i] = PyBlock(d, E, i)
    BY <1>2, PyEncFromIs
  <1>4. Continues(<<>>, Len(d) + 1, d, data)
    BY ContinuesLast
  <1>5. ASSUME NEW i \in 1 .. Len(d), \A j \in i + 1 .. end : Right(j)
        PROVE  /\ PyBlock(d, E, i) \in Seq(Codes) /\ PyBlock(d, E, i) # <<>>
               /\ Continues(PyBlock(d, E, i), i, d, data)
    <2> HIDE DEF E
    <2> QED BY <1>5, PyBlockContinues
  <1> HIDE DEF d, E
  <1>6. 0 \in T
    <2>1. \A i \in end - 0 .. end : i \in 1 .. end /\ i > Len(d) /\ i = Len(d) + 1
      BY <1>2
    <2>2. \A i \in end - 0 .. end : E[i] = <<>>
      BY <1>3, <2>1 DEF PyBlock
    <2>3. 0 \in 0 .. Len(d) /\ <<>> \in Seq(Codes)
      BY <1>2
    <2> QED BY <1>4, <2>1, <2>2, <2>3
  <1>7. ASSUME NEW m \in 0 .. Len(d) - 1, m \in T PROVE m + 1 \in T
    <2> DEFINE i == end - (m + 1)
    <2>1. /\ i \in 1 .. Len(d) /\ m + 1 \in 0 .. Len(d) /\ i \in 1 .. end
          /\ \A j \in i .. end : j # i => j \in end - m .. end
          /\ \A j \in i + 1 .. end : j \in end - m .. end
      BY <1>2
    <2>2. \A j \in end - m .. end : Right(j)
      BY <1>7
    <2> HIDE DEF i
    <2>3. E[i] = PyBlock(d, E, i)
      BY <1>3, <2>1
    <2>4. Right(i)
      <3>1. \A j \in i + 1 .. end : Right(j)
        BY <2>1, <2>2
      <3> HIDE DEF end
      <3> QED BY <1>5, <2>1, <2>3, <3>1
    <2> HIDE DEF Right, end
    <2>5. \A j \in i .. end : Right(j)
      BY <2>1, <2>2, <2>4
    <2> QED BY <2>1, <2>5 DEF i
  <1>8. 1 \in 1 .. Len(d) /\ Right(1) /\ \A j \in 1 + 1 .. end : Right(j)
    <2>1. 1 \in 1 .. Len(d) /\ \A j \in 1 .. end : j \in end - Len(d) .. end
      BY <1>2
    <2>2. Len(d) \in T
      <3> HIDE DEF T
      <3>1. Len(d) \in Nat
        BY <1>2
      <3>2. \A k \in 0 .. Len(d) : k \in T
        BY <1>6, <1>7, <3>1, Climbs
      <3> QED BY <3>1, <3>2
    <2>3. \A j \in end - Len(d) .. end : Right(j)
      BY <2>2
    <2>4. \A j \in 1 + 1 .. end : j \in 1 .. end
      BY <1>2
    <2>5. 1 \in 1 .. end
      BY <1>2
    <2> HIDE DEF Right, end
    <2> QED BY <2>1, <2>3, <2>4, <2>5
  <1>9. PyBlock(d, E, 1) # <<>> /\ E[1] = PyBlock(d, E, 1)
    <2>1. 1 \in 1 .. end
      BY <1>2
    <2> HIDE DEF Right
    <2> QED BY <1>3, <1>5, <1>8, <2>1
  <1> QED BY <1>8, <1>9 DEF PyEnc, E, d

(* What the host sends of any data is a whole encoding without a zero, and *)
(* both decoders get the data back from it.                                *)
THEOREM HostRoundTrip ==
  ASSUME NEW data \in Seq(Byte)
  PROVE  /\ PyEnc(data) \in Seq(Codes) /\ PyEnc(data) # <<>>
         /\ WellFormed(PyEnc(data)) /\ PyDec(PyEnc(data)) = data
  <1> DEFINE d == Append(data, 0)
             w == PyEnc(data)
             b == <<>>
  <1>1. w \in Seq(Codes) /\ w # <<>> /\ Continues(w, 1, d, data)
    BY PyEncContinues
  <1>2. Len(d) = Len(data) + 1 /\ Len(d) \in Nat /\ Len(data) \in Nat /\ SubSeq(d, 1, 1 - 1) = <<>>
        /\ 0 \in Byte
    BY CobsAssumption DEF Byte
  <1>3. 1 = Len(d) + 1 => FALSE
    BY <1>2
  <1> HIDE DEF d, w
  <1>4. Scans(<<>>, [left |-> 0, zero |-> FALSE, got |-> <<>>])
    BY ScansNothing DEF ScanStart
  <1>5. Before(FALSE, <<>>) = SubSeq(d, 1, 1 - 1)
    BY <1>2 DEF Before
  <1>6. <<>> \in Seq(Codes) /\ <<>> \in Seq(Byte) /\ FALSE \in BOOLEAN
    OBVIOUS
  <1>7. \E z \in BOOLEAN : Scans(<<>> \o w, [left |-> 0, zero |-> z, got |-> data])
    BY <1>1, <1>3, <1>4, <1>5, <1>6, Zenon DEF Continues
  <1>8. <<>> \o w = w
    BY <1>1
  <1>9. PICK s : Scans(w, s) /\ s.left = 0 /\ s.got = data
    <2>1. PICK z \in BOOLEAN : Scans(w, [left |-> 0, zero |-> z, got |-> data])
      BY <1>7, <1>8
    <2> DEFINE s == [left |-> 0, zero |-> z, got |-> data]
    <2>2. s.left = 0 /\ s.got = data
      OBVIOUS
    <2> HIDE DEF s
    <2>3. Scans(w, s)
      BY <2>1 DEF s
    <2> QED BY <2>2, <2>3
  <1>10. WellFormed(w) /\ PyDec(w) = data
    BY <1>1, <1>9, PyFollows
  <1> QED BY <1>1, <1>10 DEF w
===============================================================================
