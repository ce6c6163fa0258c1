----------------------------- MODULE MCTmeFetch -----------------------------
(* TmeFetch on a channel of up to seven messages, two of them without a date. *)
EXTENDS TmeFetch

MCUndated == {2, 5}
MCCutoffs == {None, 3}
=============================================================================
