-------------------------------- MODULE MCLogRx --------------------------------
(***************************************************************************)
(* A line for TLC: bytes of three bits, blocks of six bytes, a buffer of   *)
(* thirteen and a ring of four that every frame but the shortest goes      *)
(* around more than once.                                                  *)
(***************************************************************************)
EXTENDS LogRx

(* With a zero, exactly a full block, too long for the buffer (which would *)
(* be cut at the end of a block), and for a port without a handler.        *)
MCPayloads ==
  {<<3, 0, 1>>, <<3, 1, 1, 1, 1, 1>>, <<3, 1, 1, 1, 1, 1, 1, 1, 1, 1, 0, 1>>, <<7>>}

(* None, or as long as may be: with the header a full block and two more.  *)
MCResponses == {<<>>, <<1, 1, 1, 1, 1, 1, 0, 1>>}

MCNoise == {0, 7}
===============================================================================
