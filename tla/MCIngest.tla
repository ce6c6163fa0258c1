------------------------------ MODULE MCIngest ------------------------------
(***************************************************************************)
(* Ingest on one channel (and its re-creations) with one post.              *)
(***************************************************************************)
EXTENDS IngestInvariant, TLC

CONSTANTS s1, s2, u1, m1, h1, h2, v1, v2, i1, i2, i3

(* A page with the post m1, one of no channel at all, pages with parts missing *)
MCPage(hash, metric, size) ==
    [title |-> TRUE, posts |-> (m1 :> [hash |-> hash, metric |-> metric]), counters |-> size]

Private == [title |-> FALSE, posts |-> <<>>, counters |-> None]

TwoPages == {MCPage(h1, v1, v1), MCPage(h2, v2, v2)}

ManyPages == TwoPages \cup {Private,
                [title |-> TRUE, posts |-> <<>>, counters |-> v1],
                [title |-> FALSE, posts |-> (m1 :> [hash |-> h2, metric |-> None]),
                 counters |-> None]}

Symmetric == Permutations(Sessions) \cup Permutations(RowIds)
=============================================================================
