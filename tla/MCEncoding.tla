----------------------------- MODULE MCEncoding -----------------------------
(* Two tiles of two colours.                                               *)
EXTENDS Encoding
=============================================================================
