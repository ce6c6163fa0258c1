----------------------------- MODULE MCAiTasks -----------------------------
(* AiTasks with two background jobs. *)
EXTENDS AiTasks

CONSTANTS s1, s2
=============================================================================
