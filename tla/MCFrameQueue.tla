---------------------------- MODULE MCFrameQueue ----------------------------
(* The frame ring with two waiting threads, twice as many frames as slots  *)
(* and any number of stops and resets.                                     *)
EXTENDS FrameQueue
=============================================================================
