-------------------------------- MODULE Update --------------------------------
(***************************************************************************)
(* What the boot loader promises, without slots, pages, registers and      *)
(* resets: one image is current; an install replaces it in one step by a   *)
(* newer one, which stays on trial until it is settled or the image before *)
(* it comes back.                                                          *)
(***************************************************************************)
CONSTANTS Images, Newer(_, _), None

VARIABLES current, fallback
updateVars == <<current, fallback>>

UpdateInit == current \in Images /\ fallback = None

(* Only a settled image is replaced, and only by one that may follow it.   *)
Install ==
  /\ fallback = None
  /\ \E image \in Images : Newer(image, current) /\ current' = image
  /\ fallback' = current

Settle ==
  /\ fallback # None
  /\ fallback' = None
  /\ UNCHANGED current

Restore ==
  /\ fallback # None
  /\ current' = fallback
  /\ fallback' = None

UpdateNext == Install \/ Settle \/ Restore

UpdateSpec == UpdateInit /\ [][UpdateNext]_updateVars
===============================================================================
