---------------------------- MODULE MetricHistory ----------------------------
(***************************************************************************)
(* What ADR 0002 and README.md ("Data model") promise of a snapshot table: *)
(* a subject's history is appended to, one point at a time, only when the  *)
(* value differs from the last one, and is erased only as a whole, when    *)
(* the subject is deleted.                                                 *)
(***************************************************************************)
EXTENDS Sequences, Naturals

CONSTANTS Subjects, Times, Values

VARIABLE hist    \* hist[x]: the points recorded for x, in the order of their ids

Point == [at : Times, value : Values]

Init == hist = [x \in Subjects |-> <<>>]

Changed(history, value) ==
    history = <<>> \/ history[Len(history)].value # value

Record(x) == \E p \in Point : /\ Changed(hist[x], p.value)
                              /\ hist'[x] = Append(hist[x], p)

Measure == \A x \in Subjects : Record(x) \/ hist'[x] = hist[x]

Erase == \A x \in Subjects : hist'[x] \in {<<>>, hist[x]}

Next == /\ DOMAIN hist' = Subjects
        /\ Measure \/ Erase

Spec == Init /\ [][Next]_hist
=============================================================================
