---------------------------- MODULE MCLinkPower ----------------------------
(* LinkPower for TLC, with a host that may do anything, and intervals at    *)
(* the threshold between the profiles, around it and at the limits.         *)
EXTENDS LinkPower

AnyHost == {"grant", "substitute", "silence", "reject", "change"}
=============================================================================
