----------------------------- MODULE MCHandover -----------------------------
(* Small instances of Handover. *)
EXTENDS Handover, TLC

NoFaults == {{}}
(* Every fault, except that clients return only where none is removed.     *)
SomeFaults == {{"leave", "idle", "overload", "failure"}, {"leave", "reconnect", "failure"}}

(* Clients, tokens and daemons are interchangeable; used for safety only.  *)
Interchangeable == Permutations(Clients) \cup Permutations(Tokens) \cup Permutations(Daemons)
=============================================================================
