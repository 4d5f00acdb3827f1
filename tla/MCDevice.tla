------------------------------- MODULE MCDevice -------------------------------
(***************************************************************************)
(* Small devices for TLC: two pages per slot of two words, an image of two *)
(* pages that differ from each other and from those of every other image,  *)
(* with a word all images share and a word left erased.                    *)
(***************************************************************************)
EXTENDS Device

CONSTANTS a, b, c, x, ff, jj

MCWord == {a, b, c, x, ff, jj}

Build(v) == [p \in 0 .. 1 |-> [w \in 0 .. 1 |->
  IF p = 0 THEN (IF w = 0 THEN v ELSE x) ELSE (IF w = 0 THEN v ELSE ff)]]

(* Two images, and a third that is older than the second.                  *)
TwoImages == {Build(a), Build(b)}
ThreeImages == {Build(a), Build(b), Build(c)}

Dates(image) ==
  CASE image = Build(a) -> [type |-> 0, primary |-> 1, secondary |-> 1, date |-> 2]
    [] image = Build(b) -> [type |-> 2, primary |-> 1, secondary |-> 2, date |-> 3]
    [] OTHER            -> [type |-> 0, primary |-> 1, secondary |-> 1, date |-> 1]

ASSUME MCImages == FirstPageTells

MCHeader == [image \in Signed |-> Dates(image)]

(* A power-on reset does to the model what a pin reset does.               *)
AllResets == {"soft", "watchdog", "pin"}
HardResets == {"watchdog", "pin"}
AppNone == {NONE}
AppRunApp == {RUN_APP}
===============================================================================
