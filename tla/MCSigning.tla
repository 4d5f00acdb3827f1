------------------------------- MODULE MCSigning -------------------------------
(***************************************************************************)
(* Signing for TLC: the field of eight elements, bytes of three bits in    *)
(* characters of two, slots of two words.                                  *)
(***************************************************************************)
EXTENDS Signing, TLC

MCPoly == {3, 1, 0}
MCKeys == {k : k \in SUBSET (0 .. 2)}
MCRoot == {2}
MCL1 == {1, 2}
MCL2 == {0, 1}
MCSalt == <<{0, 2}, {1}>>
MCRandom == SUBSET (0 .. 2)
MCWords == 0 .. 5
V(type, fits) == [type |-> type, fits |-> fits]
MCWhatAt == (0 :> V(0, TRUE)) @@ (2 :> V(1, TRUE)) @@ (3 :> V(2, TRUE))
            @@ (4 :> V(APP_TYPE_ERROR, TRUE)) @@ (5 :> V(0, FALSE))

(* An EFI that leaves room, an MFI that ends like erased flash, and an AFI *)
(* that is too long; and code without a text, with one of no type, and     *)
(* with one that is too long.                                              *)
MCCodes == {<<0>>, <<2, 1>>, <<3, 0, 0>>, <<1>>, <<4>>, <<5>>}

(* The hypotheses of the theorem about quorums hold for this field.        *)
ASSUME MCField == FieldLaws /\ Powers
===============================================================================
