----------------------------- MODULE MCAdmission -----------------------------
(* Two connections, with every set of faults.  The requests: a first       *)
(* connection, one with a token, and one for each way to be rejected.      *)
EXTENDS Admission

MCFaultSets == SUBSET FaultKinds
First == [version |-> 3, length |-> 19, x224 |-> TRUE, cookie |-> "none", negotiation |-> "other"]
MCRequests ==
    {First, [First EXCEPT !.version = 2], [First EXCEPT !.length = 10],
     [First EXCEPT !.x224 = FALSE],
     [First EXCEPT !.cookie = "complete", !.negotiation = "rdstls"],
     [First EXCEPT !.cookie = "unterminated", !.negotiation = "malformed"],
     [First EXCEPT !.cookie = "complete", !.negotiation = "malformed"]}
=============================================================================
