------------------------------ MODULE MCRefresh ------------------------------
(* Two overlapping calls and another job, two healthy channels and one that raises. *)
EXTENDS RefreshBatch, TLC

CallsAreAlike == Permutations(Calls)
=============================================================================
