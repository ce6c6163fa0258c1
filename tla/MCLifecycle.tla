---------------------------- MODULE MCLifecycle ----------------------------
(* ChannelLifecycle with one channel, two workers and one cron. *)
EXTENDS ChannelLifecycle, TLC

CONSTANTS u1, w1, w2, c1, i1, i2, i3, i4

Symmetric == Permutations(Workers) \cup Permutations(RowIds)
=============================================================================
