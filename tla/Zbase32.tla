-------------------------------- MODULE Zbase32 --------------------------------
(***************************************************************************)
(* Bytes as text: tools/zbase32.py.  A byte, the value of a character and  *)
(* the bits on their way are sets of the positions of one bits.  The       *)
(* alphabet and the hyphens are layout.                                    *)
(***************************************************************************)
EXTENDS Integers, Sequences

CONSTANTS ByteBits, CharBits  \* 8 and 5

ASSUME ZbaseAssumption == CharBits \in Nat \ {0} /\ ByteBits \in Nat /\ CharBits <= ByteBits

Low(v, n) == {i \in v : i < n}
Up(v, n) == {i + n : i \in v}
Down(v, n) == {i - n : i \in {j \in v : j >= n}}

(* i bytes or characters are taken, nbits bits of them are left in v, and  *)
(* r is the result so far.                                                 *)
Start == [i |-> 0, nbits |-> 0, v |-> {}, r |-> <<>>]

(* One round of the loop of encode; nothing once it is left.               *)
EncStep(b, s) ==
  LET takes == s.nbits < CharBits /\ s.i < Len(b)
      nbits == IF takes THEN s.nbits + ByteBits ELSE s.nbits
      v == IF takes THEN s.v \union Up(b[s.i + 1], s.nbits) ELSE s.v
  IN IF nbits <= 0 THEN s
     ELSE [i |-> IF takes THEN s.i + 1 ELSE s.i, nbits |-> nbits - CharBits,
           v |-> Down(v, CharBits), r |-> Append(s.r, Low(v, CharBits))]

(* A round gives a character.  The set has TLC evaluate a round once.      *)
Encode(b) ==
  LET round[k \in 0 .. Len(b) * ByteBits] ==
        IF k = 0 THEN Start ELSE CHOOSE t \in {EncStep(b, s) : s \in {round[k - 1]}} : TRUE
  IN round[Len(b) * ByteBits].r

(* One round of either loop of decode.                                     *)
DecStep(text, s) ==
  IF s.nbits < ByteBits /\ s.i < Len(text)
  THEN [s EXCEPT !.i = @ + 1, !.nbits = @ + CharBits, !.v = @ \union Up(text[s.i + 1], s.nbits)]
  ELSE IF s.nbits < ByteBits THEN s
  ELSE [s EXCEPT !.nbits = @ - ByteBits, !.v = Down(@, ByteBits),
                 !.r = Append(@, Low(s.v, ByteBits))]

(* A round takes a character or gives a byte, which no less bits are for.  *)
(* Bits that are left over must be zero, or "Invalid stream".              *)
Decode(text, invalid) ==
  LET round[k \in 0 .. 2 * Len(text)] ==
        IF k = 0 THEN Start ELSE CHOOSE t \in {DecStep(text, s) : s \in {round[k - 1]}} : TRUE
      end == round[2 * Len(text)]
  IN IF end.v # {} THEN invalid ELSE end.r
===============================================================================
