---------------------------- MODULE MCRdpSession ----------------------------
(* Two successive clients of one listener.  In each set the faults are     *)
(* left out that one of the promises does not survive.                     *)
EXTENDS RdpSession

MCFaultSets ==
    {{"wait_failed", "activate_fails", "vanishing_client"},
     {"wait_failed", "activate_fails", "late_activation"},
     {"late_activation", "vanishing_client"}}
VanishingClient == {{"vanishing_client"}}
=============================================================================
