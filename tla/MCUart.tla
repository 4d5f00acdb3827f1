-------------------------------- MODULE MCUart --------------------------------
(***************************************************************************)
(* A buffer of five bytes for TLC, filled more than twice over.            *)
(***************************************************************************)
EXTENDS Uart

Outside == {"idle", "publish", "check", "flush"}
===============================================================================
