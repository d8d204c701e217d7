------------------------------- MODULE MCHub -------------------------------
(* Two publishers and two dashboards, with queues of one frame. *)
EXTENDS Hub
=============================================================================
