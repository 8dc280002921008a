----------------------------- MODULE MCSessions -----------------------------
(***************************************************************************)
(* Values for the runs of Sessions: a session of two members, the lead and *)
(* one more, started in this order.                                        *)
(***************************************************************************)
EXTENDS Sessions, TLC

CONSTANTS lead, codex

MCRoleOrder == <<lead, codex>>
=============================================================================
