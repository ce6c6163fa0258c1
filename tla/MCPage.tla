------------------------------- MODULE MCPage -------------------------------
(* ChannelPage with two overlapping requests for a digest, and small series. *)
EXTENDS ChannelPage, TLC

RequestsAndIdsAreAlike == Permutations(Sessions) \cup Permutations(RowIds)

ShortSeries == UNION {[1 .. n -> {Null, 0, 1, 2, 9}] : n \in 0 .. 6}

(* Six posts, the first five with or without views; all dated, or one not *)
(* and one after Now, or pairs of one date and without one; one has no text *)
Dates == {<<0, 1, 2, 4, 5, 3>>, <<6, 1, Null, 2, 3, 4>>, <<3, Null, 4, 3, Null, 1>>}

SmallTables ==
    {{[id |-> i, posted |-> dates[i], views |-> Append(views, 1)[i], text |-> i # 4] : i \in 1 .. 6} :
        dates \in Dates, views \in [1 .. 5 -> {Null, 0, 1, 20}]}

BothWays == {[i \in 1 .. 6 |-> i], [i \in 1 .. 6 |-> -i]}
=============================================================================
