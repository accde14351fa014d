----------------------------- MODULE MCCapture -----------------------------
(* The capture with small numbers of starts and screen changes.            *)
EXTENDS Capture
=============================================================================
